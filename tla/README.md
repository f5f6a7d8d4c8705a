# A verification of the Aeryk kernel

TLA+ specifications of the Aeryk kernel (`src/kernel`, x86_64), the TLC runs
that check them on small instances, and TLAPS proofs of the properties that
matter most for every value of the constants.

`K` stands for `src/kernel/src/arch/x86_64`. `PROJECT.json` holds the exact
correspondence: `map` gives the source lines of every definition, `hazards` the
places where the code is hard to test, `findings` where code and documentation
disagree.

## 1. The system and its parts

Aeryk runs on one processor. Concurrency is preemption: the timer interrupt
calls the scheduler between any two instructions that run with interrupts
enabled, and the keyboard and mouse interrupts ready processes there. `SYSCALL`
masks interrupts (FMASK), so a system call runs as one step up to its first
`sti` or its call of `schedule()`.

| part | state | operations | hard behaviour |
|---|---|---|---|
| scheduler (`K/scheduler.c`, `K/process.c` schedule) | ready queue per level, ticks, the ring of processes, `current_process` | enqueue, pick, boost, tick, `schedule` | interrupt between `sti` and `schedule()`; starvation; a process freed while linked |
| process lifecycle (`K/process.c`, `K/syscall.c`) | `process_t`: state, parent, kernel stack, pagetable, descriptors | fork, clone, execve, exit, wait, reaping | zombies and orphans, reuse of addresses, threads sharing a pagetable, half-failed forks |
| frame allocator (`K/pmm.c`) | bitmap, 16-bit reference counts, search index | alloc, free, share | wrap of counts, the layout of the tables, search from a moving index |
| address spaces (`K/vmm.c`, `K/elf.c`, page faults in `K/idt.c`) | pagetables, copy-on-write and shared entries | map, unmap, clone, destroy, fault, mmap, munmap, brk, fbmap | sharing across fork chains, running out of frames half way, the framebuffer that no allocator owns |
| pipes (`K/pipe.c`) | ring buffer, two wait queues, two reference counts | read, write, close, dup, dup2, fork, exit | lost wake-ups, hang-up, closes that race each other with interrupts on |
| input (`K/drivers/keyboard.c`, `K/drivers/mouse.c`) | byte rings, wait queues, packet assembly | interrupt handler, blocking read | wake-up races, full rings, lost bytes |
| kernel heap (`src/crates/kernel/src/slab.rs`) | size classes, lists of full, partial and free slabs | `kmalloc`, `kfree` | list surgery at the last chunk of a slab |
| user heap (`src/libc/stdlib/malloc.c`) | circular free list in address order | `malloc`, `free`, growth by `sbrk` | coalescing, wrap of the list |
| files (`K/fs`) | a tree built at boot | mount, lookup, listing | order of the archive's entries, names that are prefixes of others |
| console (`K/tty.c`) | cells and a cursor | print, scroll | echo of edited lines across rows |
| traps (`K/idt.c`, `K/usercopy.c`, `K/syscall_entry.asm`) | interrupt flag, one recovery point for user copies | entry, exit, faults, copies | a fault in a copy, a switch during one |
| shell (`src/userland/sh.c`, `cat.c`, `ls.c`) | pipelines and their descriptors | pipe, fork, close, wait | descriptors that keep a pipe open, calls that fail half way |
| compositor (`src/crates/userland`) | window slots shared with proxies, client pipes, the screen | spawn, handshake, frames, redraw | slots read without a lock, frames cut anywhere, clients that die |

The parts meet in three places: everything that blocks does so through the
scheduler's queues; frames are shared between processes through `pmm.c`'s counts;
pipes and address spaces are inherited through fork and dropped through exit.

## 2. Modules

| module | models | role |
|---|---|---|
| `Scheduler`, `MCScheduler` | scheduler, wait/exit/fork, sleep, keyboard blocking | core |
| `SchedulerProofs` | | inductive invariant and action properties of `Scheduler` |
| `PmmLayout` | the arithmetic of `init_pmm` | pure functions |
| `Pmm`, `PmmProofs` | `pmm.c` | component and proofs |
| `Pipe` | `pipe.c` and the calls on pipe descriptors | component |
| `PipeWaits`, `MCPipe` | | what the wait queues of `Pipe` promise, and until when |
| `Fifo` | what a pipe promises: a bounded FIFO | abstract specification |
| `PipeProofs` | | `Pipe` implements `Fifo`; its reference counts are exact |
| `Vmm`, `MCVmm` | `vmm.c` and the calls that build, share and destroy address spaces | composition of frames, pagetables and processes |
| `PrivateMemory` | what fork, stores and mappings promise: memory as if fork copied it | abstract specification |
| `Slab`, `MCSlab`, `SlabProofs` | `slab.rs` | component and proofs |
| `Malloc`, `MallocProofs` | `malloc.c` and `sbrk` | component and proofs |
| `Allocators`, `MCAllocators` | `Pmm` and `Malloc` | composition |
| `Heap` | what an allocator promises: blocks in use are apart | abstract specification of both |
| `Console`, `Keyboard`, `Mouse` | `tty.c`, `drivers/keyboard.c`, `drivers/mouse.c` | components |
| `Input`, `MCInput`, `InputProofs` | both input devices | composition and proofs |
| `Vfs` | `fs/vfs.c`, `fs/initramfs.c` | pure functions |
| `Calls` | process and descriptor calls as programs see them | abstraction of `Pipe` and `Scheduler` that programs run on |
| `Shell` | `sh.c`, `cat.c`, `ls.c` | programs over `Calls` |
| `Traps`, `TrapsProofs` | `usercopy.c`, `syscall_entry.asm`, `isr_handler` | component and proofs |
| `Userland`, `MCUserland` | `Shell` and `Traps` | composition |
| `Compositor`, `MCCompositor` | compositor, proxies and clients | programs over `Calls` |
| `SeqOps`, `SeqLemmas` | sequence operators (filter, join) and facts about them | library |

Operators named `X_something` under a comment "Mutant:" are deliberately wrong
versions of the definition that follows them. No specification uses them; they
serve to see that the properties can fail.

### Scheduler

`mlfq` is a sequence of processes per level (the doubly linked queues),
`process_queue` the ring from the idle process on, `pc` where each process is in
the kernel. A process is a `process_t` address; fork takes any free one. Time is
counted as in the code (`global_ticks`, `ticks_executed`), sleep as the
remaining ticks. `schedule(st, q, pr)` is `schedule_locked`: reap parentless
zombies, wake `BLOCKED` processes (which test their own condition again),
requeue the caller if it is `RUNNING`, pick, switch. Each handler passes it the
states, queues and priorities as it has changed them. `SYS_wait`
runs its loop with interrupts masked and so is atomic per turn; `SYS_sleep_ms`
and `keyboard_read` have a step for each stretch between `sti`s, so
`keyboard_read` takes one byte at a time and ends with the line or with the bytes
asked for, whichever comes first. `kbd_buf` has the number of unread bytes of each
line. `cut` is a history variable: the reads that ended inside a line since the
buffer was last empty. `on_irq0` and `on_irq1` may come whenever interrupts are on.
Here lines end with '\n' and the ring never fills; lines cut at `LINE_BUF_SIZE` and
bytes dropped are in `Keyboard`. A wait is for any child.

### Pmm

`bitmap` is the set of marked frames and `holders` a history variable: what the
callers of the allocator hold. Callers drop and share only what they hold.
Reference counts wrap at `RefLimit` (2^16 in the code).

### Pipe

One pipe and the processes that hold ends of it. Reads and writes go byte by
byte, each under `cli`. `pipe_close_end` counts under `cli`, then `wake_all`
works with interrupts on, so `wait_queue_pop` is taken store by store
(`pop_head`, `pop_tail`, `pop_clear`) there and as one step elsewhere. The
scheduler is abstracted to: any READY process may run. `fds` counts, per process and
end, the entries of the `fd_table` that refer to the pipe; `Entries` is the set of all
of them. `PipeWaits` adds the history variable `crossed`: another process has pushed to
or popped from a queue after a `wake_all` had read its head and before it had stored
the new head and tail. `WaitersSound`, `NoLostWakeup` and `HangupReaches` are promised
until then, and the code breaks all three afterwards (run PipeLostWaiter keeps the last).

### Vmm

`mem` is one record of reference counts, page contents, tables and leaf
entries; each C function that changes memory is an operator from `mem` to `mem`.
Allocation failure is modelled in every place it can strike: `vmm_map_page`
returns silently when a table cannot be had, as in the code. `leaky` is a history
field: `vmm_map_page` has dropped the frame it was given or written over the entry of
another. These are the two ways in which the code loses a reference, and `RefsSound`
says that there is no third: until then counts equal uses, and afterwards they are
never too low.
Abstractions: the PDPT, PD and PT of a walk are one frame per region of the
address space; image and stack form one region whose pages are all writable
(read-only pages come from mmap); kernel heap frames and `kmalloc` failures
are left out; munmap takes one page at a time; brk counts pages and
stays below the mmap region; any dead process may be reaped, in any order;
pids are not reused; what a free frame holds is not kept. The TLB, the PAT and
`vmm_set_page_user` are left out.
`PrivateMemory` has no frames: a view per process and page, and which processes
share it. A fork copies; a store reaches the sharers and nobody else. The framebuffer
is a device, not a page of memory, in it.

### Slab

`heap` is one record: the slab header of each page, the `next` and `prev` of its
list, the head of each list and the free pages of `pmm.c`; each C function
that changes it is an operator on it. `kmalloc` and `kfree` are one step each,
as they are for callers with interrupts masked; `pipe_close_end` calls `kfree`
with interrupts on, which is not covered. Other users of frames take and
return pages at any time. A slab's free list is the sequence of its chunks. The
code never puts a slab on `slabs_free` (an empty slab goes back to `pmm.c`), so
the branch of `kmalloc` that takes one from there is modelled and never reached.

### Malloc

Addresses are in units of `header_t`. A turn of a search loop is a step, so that
"the search ends" is a property. `sbrk` may fail at any time. `Heap`'s blocks
include the header, so a header overwritten by a neighbour is an overlap.
`calloc`, which only zeroes, is left out; `stdlib.h` says that the heap is not
for threads, and the model has one. `malloc` reaches `pmm.c` only through brk, so
`Allocators` puts `Malloc` and `Pmm` side by side; a behaviour uses one of them.

### Console, Keyboard, Mouse and Input

`Console` is a grid of cells; `print` masks interrupts for a whole string and so
is one step. `on_irq1` is one step with its echo; `keyboard_read` and
`mouse_read` take one step per turn of their loops, each between `cli` and `sti`.
The rings are sequences with one slot kept empty. `mixed` and `dropped` are
auxiliary: a program printed while a line was typed, a byte did not fit. The mouse's
wire may lose bytes; `ngarbage` counts the packets that the device never sent. The
key table is cut to one key of each kind. The two drivers share no state, so a
behaviour of `Input` uses one of them.

### Vfs, Calls and Shell

A path is the sequence of its segments, a segment a sequence of letters. `Calls`
takes a call as one step and a call that blocks as a step that is not enabled. It
counts the openers of a pipe by looking at the descriptors and wakes whoever can go
on: that is what `RefsExact` and `NoLostWakeup` say of `Pipe`. The refuted
runs about `Pipe` and `Scheduler` below show when the kernel does not live up to
it, and `Calls` leaves those cases out. No refinement from `Pipe` to `Calls` is
checked. `mishaps` bounds the calls that fail for want of memory. A wait is for
one child. A first stage `cat` without a file reads the keyboard and gets nothing.

### Traps

One step per instruction that matters: entry, `sti`, each byte of a copy, a fault,
a switch. `int_enabled` travels with the task. Which task runs next is left open.
The stack pointer is below this level (`K/syscall_entry.asm:61`).
`Userland` puts `Shell` and `Traps` side by side; a behaviour shows one of them.

### Compositor

A word of the pipe is a pixel or a field of the request, so a transfer is cut
anywhere between words, not inside them. A redraw reads the shared slots pixel by
pixel. Stores of a proxy reach the compositor in program order, as they do on one
processor if the compiler keeps their order.

## 3. Runs

A `scene` in Scheduler, Pipe and Vmm is what the programs of one situation hold and call.
It is chosen in the first state and never changes; a run checks several.

Passing runs:

| run | checks | bounds and why |
|---|---|---|
| Scheduler | queues, who may run while queued, no more lines left to parked readers than reads ended inside a line, best process first, safe reaping, every queued process eventually runs if interrupts are on again and again | three scenes: two programs with all five calls, so a child's address is reused; two readers with reads of one and two bytes on two lines of one or two bytes, so a read ends before, with or after a line and two readers share one; three programs that fork, exit and wait, so there are orphans, strangers that reap them and two waiters at once. Two levels, boost after two ticks: demotion, boost and all interrupt windows occur |
| Allocators | frames: exact counts, no leak, lowest frame first; user heap: `Heap` refinement, blocks tile the heap, list ordered and merged, every call returns | nine frames with a hole and three frames of tables, up to three holders of a frame, below the wrap of the count at four; 14 units, growth by at least four, blocks of 2, 3 and 6 units: splits, exact fits, merges on either side and on both, a wrapped list |
| Pipe | FIFO refinement, no lost wake-up, wait queues sound, exact reference counts and one free, the hang-up reaches every blocked process; the second, third and last of these until `crossed` | four scenes: two readers and two writers on two slots, so the ring wraps; two writers that close, one of them writing, under two readers: closes overlap each other and writes; two readers that close and exit under two writers; a family that dups, forks, closes and exits. Behaviours end where `crossed` becomes true (the constraint `Uncrossed`), where nothing more is claimed but `FifoSpec` and `RefsExact`, and these are proved for all behaviours |
| Vmm | copy-on-write is invisible, reference counts equal uses until `leaky` and never fall short, writable pages private, children complete | with frames to spare: three generations with stores between forks; threads and children with shared and private mappings that come and go; new images and the framebuffer. With 11 and with nine frames: mappings of two pages in parent and child, so that fork, mmap and copy-on-write faults find the last frames and an mmap fails after its first page. With seven: three processes or threads, where every allocation fails somewhere |
| Slab | `Heap` refinement, chunks accounted for, lists linked, empty slabs returned, NULL only when exhausted | the two largest caches, with three and with one chunk to a slab, on three pages: two slabs of a cache, and slabs that go from full to freed in one call; sizes at, below and above each limit |
| Input | the line on the screen is the line to be handed over, lines whole, nobody sleeps over input, mouse packets in step | a console of two by two cells, so lines wrap and scroll; a ring of four, which a line can overfill; four reports with two lost bytes; one keyboard reader, as `keyboard.c:19` says |
| Userland | descriptors of a pipeline where they belong, output as if the stages ran in turn, the prompt returns, lookup exact, one user copy at a time | pipelines of up to three stages, and a line of five that is cut to four and finds no descriptors for its third pipe; pipes of two bytes for a file of three; one call that fails anywhere; every order of every subset of five archive entries; two tasks with copies of two bytes |
| Compositor | pixels only where their window is, frames in step, windows taken down in the end | two windows on a screen of three by two that cuts both; pipes of one word; two frames; one failure anywhere; a request too wide; a cursor pushed to the edges |

Runs that TLC refutes, each with the sentence it contradicts in
`PROJECT.json`'s `findings`:

| run | what the code does |
|---|---|
| SchedulerLostProcess | a process picked by its own `schedule()` runs on as READY, linked nowhere, and is lost at the next switch |
| PipeHangup | a close that has dropped its end still walks the pipe another close frees |
| PipeLostWaiter | a reader that parks itself, or a second close, between the stores of a `wake_all`'s pop makes a parked reader drop out of the queue: it never learns that the last writer has closed |
| VmmThreadExec | execve by a thread destroys its siblings' pagetable |

The modules show more behaviours that a reader may not expect. No run is kept
for them; most are hazards in `PROJECT.json`:

* two processes in `SYS_wait`, interrupts masked, wake each other for ever and keep
  the processor from the child they wait for (`K/syscall.c:395`): `QueuedRuns` without
  its premise `[]<>InterruptsOn` fails so in the scene of three programs;
* orphans keep their parent pointer and are never reaped (`K/process.c:787`);
* `wait` for a pid that is no child of the caller blocks while the caller has other
  children (`K/syscall.c:395`); no caller in the tree does that;
* the framebuffer lock goes with its owner while the owner's children still map the
  screen (`K/syscall.c:55`);
* the 65536th reference to a frame wraps its count (`K/pmm.c:221`);
* `wake_all` and a writer may enqueue the same reader twice (`K/pipe.c:13`);
* a fork without memory leaves the counts of the parent's pages raised
  (`K/vmm.c:287`), against the comment at `K/vmm.c:243`, and an execve without memory
  for a table succeeds with a page missing (`K/process.c:431`);
* brk down and up again replaces pages by zeroed ones (`K/syscall.c:535`);
* the bitmap can be a byte short, so that the last frames' bits lie in the first
  reference count (`K/pmm.c:122`, theorem `BitmapFits`);
* a mouse whose motion bytes have bit 3 set can keep the assembly out of step
  (`K/drivers/mouse.c:80`); `MouseInSync` bounds the others;
* with two keyboard readers one can sleep over the bytes that a short read of the
  other has left (`K/drivers/keyboard.c:172`; line 19 names a single consumer);
* a window request of no width or height makes its proxy spin, one that is too large
  puts client and proxy out of step, a failed fork leaves descriptors open, and
  proxies are never waited for (compositor `lib.rs:214`, `:203`, `:151`, `:198`);
* `malloc` of the 15 largest sizes wraps and returns a block of one header
  (`src/libc/stdlib/malloc.c:61`).

**Deadlock.** The Scheduler, Allocators and Slab runs check it. In Pipe, Vmm,
Userland and Compositor all programs may exit or block for good (a reader whose
program holds the only write end, `cat` on a keyboard nobody types on), and in
Input the bounded mouse falls silent, so the runs of those modules do not.

**Fairness.** `Scheduler`: kernel code goes on running (weak fairness of
`KernelStep`, written out because its enabling condition, `InKernel`, is known),
and a timer interrupt is latched while interrupts are masked, so a tick comes if
interrupts are on again and again (strong fairness of `Tick`, the count every
timer interrupt makes). `Pipe`: a process ready inside the kernel gets to run
(weak fairness of its kernel steps), which is what `QueuedRuns` says of the
scheduler for programs that do not hit the behaviours above. `Malloc`: a program
inside `malloc` or `free` goes on running (weak fairness of the loop turns).
`Shell` and `Compositor`: the processor does not idle while one of the pipeline's
processes, or of the proxies and clients, can run (one weak fairness for all of
them together, less than `QueuedRuns` gives). Users, devices and the
compositor's redraw owe nothing.

## 4. Proofs

All proofs hold for any set of processes, any number of levels, ticks, frames
and buffer slots within the named assumptions, which TLC evaluates on the
instances.

* `SchedulerProofs` (assuming `ProcAssumption`: finitely many processes, idle
  and shell among them; `BoundAssumption`: at least one level, positive boost
  interval). The inductive invariant `Inv` is `TypeOK`, `QueueSound`,
  `OneRunner`, `KbdWaitqSound`, `RingSound` and `ResumeSound` together. None of
  them is inductive alone: that a process is enqueued once (`QueueSound`) needs
  to know that the one running is not queued, except the reader woken between
  `sti` and `schedule()` (`ResumeSound`), that a process on the keyboard queue
  is not READY (`KbdWaitqSound`), and that the ring that `schedule()` walks to
  wake and requeue has no repetitions (`RingSound`). One lemma
  (`ScheduleSound`) says what `schedule()` does to sound queues; every handler
  uses it. `OneRunner` is not checked by a run: it is part of the strengthening and
  a theorem. `ReapSafe` and `PicksHighest` are action properties proved from `Inv`.
  `NoLostKbdWakeup` is inductive together with `Inv` and the fact that nobody dies
  inside `keyboard_read`: each line that arrives either
  finds nobody parked or sends one reader on its way, and a byte that is taken makes
  the set of readers on their way lose at most one member, which has then taken the
  end of a line or is counted in `cut`.
* `PmmProofs` (assuming the tables fit the memory map and cover every frame, and
  `MaxRefs < RefLimit`: no frame is held more often than its count can say). `Inv` adds
  `IndexSound` (nothing below the index is free) to the properties; without it
  the first loop need not find the lowest free frame. `BitmapFits` says for
  exactly which frame counts the bitmap `init_pmm` allots is too short, and
  `TablesHoldBitmap` that its last bits stay within the two tables all the same; the wrap of a count above is why the one on
  holders is.
* `PipeProofs` (assuming `PipeAssumption`: finitely many processes, and scenes in
  which somebody holds the pipe and no `fd_table` has more entries than `MAX_FDS`):
  `Spec => FifoSpec` and `Spec => []RefsExact`. The invariant of the first is
  `head = (tail + count) % PIPE_BUF_SIZE`; each step of a read or a write is a
  step of the FIFO under the mapping `Contents`, every other step a stutter.
  `RefsInv`, of the second, adds what the calls under way rely on: a process that has
  popped another holds it, a dup2 between its close and its copy still has its source
  and a free entry (so its copy cannot bring a freed pipe back), and only a process
  inside `pipe_close_end` may have `should_free` set.
* `SlabProofs` (assuming `SlabAssumption`: caches of increasing sizes that fit a page,
  and a NULL that is no pointer). `SlabInv` says of every heap that the lists are
  linked both ways along `Place`, that free lists and holders share out the chunks,
  and that the blocks held are no larger than their chunks; lemmas on `list_remove`
  and `list_push` carry the links, and `kmalloc` and `kfree` are proved as operators
  from heap to heap before the steps that use them. `ChunksAccounted`, `LinksSound`,
  `NoSlabLeak`, `NullOnlyWhenExhausted` and the refinement of `Heap` follow.
* `MallocProofs` (assuming `MallocAssumption`). `MallocInv` holds at every turn of a
  search: the blocks tile the heap, the list is ordered, no two free blocks touch, and
  the search's `prev`, `cur` and `block` are where the code believes them to be.
  `Tiled`, `ListOrdered` and `Coalesced` follow without further assumption. The
  refinement of `Heap` is proved under `NoWrap`, that no request is so large that
  adding the header wraps: `malloc.c` does not test that, and without it the block is
  smaller than was asked for (`src/libc/stdlib/malloc.c:61`).
* `TrapsProofs` (assuming `TrapsAssumption`): `OneCopyInFlight` for any number of
  tasks. The invariant adds that interrupts are masked in a call and in a copy,
  without which a tick could switch tasks during one.
* `InputProofs`: `NoInputWaits` for rings of any size and any scene. For the
  keyboard the invariant says that the wait queue holds the one reader exactly
  when it is blocked, and for the mouse that whoever waits is in a call. With more
  than one keyboard reader `NoInputWaits` claims nothing. `MouseInSync` is proved for
  any reports whose first byte has bit 3 set, as `mouse.c:76` says of the device
  (`MouseAssumption`). The invariant relates the bytes assembled to the bytes still on
  the wire: in step, or out of step by bytes whose loss is counted.
* `SeqLemmas`: what filtering, joining and appending do to the range of a
  sequence and to its having no repetitions.

Only model-checked: liveness (`QueuedRuns`, `HangupReaches`, `Returns`,
`PromptReturns`, `WindowsClose`) and everything about `ENABLED`, which are beyond the
prover; `NoLostWakeup` and `WaitersSound` of the pipe, about lists
followed from their heads; Vmm, `EchoMatches`,
`LinesWhole`, `LookupExact` and `PipelineOutput`, which are about folds; `EndsSound`,
`ScreenSound` and `FrameSync`, for which no proof has been attempted.

## 5. Not modelled

* Descriptor tables, the APIC, the serial port, glyphs and the set-up of the input
  controllers: hardware.
* Formatting and string functions of the C library: byte loops.
* The remaining user programs (`init`, `tree`, `clear` and the tests).
* The ready queue and the slab lists store by store. `pipe.c` enqueues and frees
  with interrupts on (`K/pipe.c:46`, `:141`), so what the project says of them holds
  for the other callers only.
* In `Scheduler`, a wait for one pid; in its run, three programs that read or sleep.
* The bytes of cpio headers, the characters of a command line, the cut of `execve`'s
  path and arguments, and names as long as their buffers (`K/fs/vfs.c:106`).
* `calloc`, the TLB, the PAT, `vmm_set_page_user`, `SYS_get_tsc_hz`.
