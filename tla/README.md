# Verification of the simulated operating system

The program in `src/` simulates an operating system: `main()` (os.c) reads a
configuration, starts a timer thread, a loader thread and one thread per CPU,
and lets the CPUs run small processes instruction by instruction, scheduled by
multi-level ready queues, on paged memory. This directory holds TLA+ models of
its parts, TLC configurations that check them on small instances, and proofs
for instances of every size.

## Inventory

| part | source | state | operations | hard because |
|---|---|---|---|---|
| slot timer | timer.c | `dev_list`, `done` and `fsh` per device, `_time`, `timer_stop` | attach, start, next_slot, detach, stop; the loop of the timer thread | two mutexes and two condition variables per device; `_time` and `timer_stop` have no lock; spurious wakeups; who frees what, when |
| CPU threads | os.c, cpu.c | process held, `time_left` | the loop of `cpu_routine()` | put and get are separate critical sections; `done` has no lock; idle CPUs must go on and must stop |
| loader | os.c, loader.c | index, `done` | load, wait for the start time, add, set `done` | orders the last `add_proc()` before `done` |
| ready queues | sched.c, queue.c | an array of at most 10 PCBs for each of 140 priorities | enqueue, dequeue, the scan of `get_mlq_proc()` | shared by all threads; a full queue |
| region allocator | libmem.c, mm-vm.c | symbol table, free-region list, `vm_end`, `sbrk` | alloc, free, grow | split and exact fits; failure halfway; the meaning of address 0 |
| page tables | mm.c, mm.h | `pgd` | map a range, set and clear entries | frame number and swap offset share bits |
| replacement | libmem.c | `fifo_pgn` | fault, choose a victim, swap | freed list nodes; no lock |
| devices | mm-memphy.c | free frames, bytes | format, get a frame, read, write | shared by all processes; frames never come back; a read and a write of the list head without a lock of its own |
| system calls | syscall.c, sys_mem.c, sys_killall.c | none | memmap, killall, listsyscall | memmap has no lock when a program calls it; killall reads a name without an end |

The threads meet in three places: the timer (every device calls
`next_slot()` once per slot), the ready queues (under `queue_lock`), and the
memory (RAM and SWAP frame lists, under `mmvm_lock` for allocations, under
nothing for page faults and for the SYSCALL 17 of a program).

What makes each part correct: the timer is a barrier that loses no wakeup and
ends after its devices; the kernel keeps every process in one place, loses
none, and finishes all; the allocator never gives a byte twice, the mapping
never a frame twice, and a process reads what it wrote, as long as it may be
expected to: no longer than up to the first page fault. The hazards behind
these are listed with their lines in `PROJECT.json`.

## Modules

```
SlotClock   what the timer promises      <--refines--  Timer  <--  TimerProofs
    ^ EXTENDS
   OS       CPUs, loader, ready queues   --refines-->  Lifecycle
            OS <-- OSProofs <-- LifecycleProofs, SchedulerProofs
            OS <-- Turns (a history)  <-- SchedulerProofs
   Mm       allocation, paging           --refines-->  AddressSpace
            Mm <-- MmProofs <-- MmFrameProofs <-- MmSpaceProofs
   MemPhy   the frame lists, in steps    --refines-->  FramePool
            MemPhy <-- MemPhyProofs
   MCTimer, MCOS, MCTurns, MCMm, MCMemPhy    the instances TLC checks
```

**Timer** is timer.c. A step is one critical section of the code, up to the
unlock or to the `pthread_cond_wait()` that releases the mutex, or one step
outside of any. `TimerHead`, `TimerScan`, `TimerTick`, `TimerReset` and
`TimerRoundEnd` are the timer thread (`tpc`); `NextSlotSignal`,
`NextSlotCheck` and `Detach` are a device thread (`pc`); `AttachEvent`,
`StartTimer`, `CreateThread`, `StopTimer` and `FreeDevices` are `main()`
(`mpc`). A sleeping thread (`event_wait`, `timer_wait`) goes on when it is
signalled, or spuriously. The reads of `done` and `fsh` by the timer happen
under `event_lock`, the clearing of `done` under `timer_lock`, as in the code;
no step of the model needs more than one mutex. `_time` is capped by
`TimeCap`, since nothing but comparisons with start times looks at it.

**SlotClock** is what the other threads see of that: a device is working,
waiting or finished, and `Tick` moves all waiting devices on at once when none
works. The refinement mapping counts a device whose `done` is still to be
cleared in the second loop as already working (`PhaseOf`).

**OS** builds on SlotClock: a CPU takes its steps only while its device is
working. A step is what a thread does between two accesses to something
shared: one call of `get_proc()` or `put_proc()`, one read of `done`, one call
into the timer. `CpuIdle` is os.c:55-63, `CpuFinish` 64-70, `CpuPut` 71-77 and
`CpuFetch` the `get_proc()` at the end of both; `CpuStop` and `CpuSkip` are
80-88, `CpuRun` 89-97. `LdLoad` to `LdDetach` are `ld_routine()`. `Enqueue`
drops the process when the queue is full, as queue.c:21 does. The input (start
time, priority, number of instructions of each process) is chosen in `Init`.

**Lifecycle** is what the kernel promises a process: admitted once, ready or
on one CPU, one instruction less at a time, finished when none is left. `OS`
refines it as long as no queue overflows.

**Turns** is OS with two history variables, which no action looks at: the
processes that have executed in the current slot (`ran`), and how many
instructions each has executed since it left its queue (`turn`). What a process
gets of a CPU, and when, are properties of these. The `os` run checks OS in this
form; the history constrains nothing, so that the other properties mean what they
mean of OS.

**Mm** is the memory of several processes. An instruction is one step where no
other process can see its middle: it touches the tables of its own process and
one byte of RAM (`AllocFromFree`, `Free`, `Read`, `Write`). Whatever takes a
frame is several steps, since `MEMPHY_get_freefp()` reads the head of a shared
list and writes it later:

* an `ALLOC` that finds no free region takes `mmvm_lock` (`AllocCall`), reads
  the head of RAM's list and moves it on, once per page (`ReadHead`,
  `TakeFrame`), and then maps what it has and returns (`AllocGrow`), or has met
  the end of the list (`AllocFail`);
* SYSCALL 17 of a program does the same without the lock (`MemmapCall`,
  `MemmapGrow`, `MemmapFail`);
* an access to a page that is not present reads the head of SWAP's list without
  a lock (`Fault`), moves it on and changes the page table (`TakeSwap`, or
  `NoSwap` at the end of the list, both with `ReplacePage`), and then reads or
  writes its byte (`Access`). A process that faults with a cyclic `fifo_pgn`
  never gets that far (`Hang`).

The variables `call`, `node` and `frm_lst` are the local variables of these
calls. Offsets are not limited by the size of a variable and variables need not
have been allocated, as in the programs `p0s` and `m0s` of the repository.
`UserSpec` has programs that call SYSCALL 17 themselves, to grow (above) or to
write to a byte of RAM whoever owns it (`MemmapWrite`); `Spec` has none, like
the repository. `KillAll` reads the name of its victim from a variable and kills
nobody, since nothing ever enters `running_list`; `NoEffect` is CALC and the
calls that change nothing a process could read. A PTE is its two flags and the
low bits that `PAGING_FPN` and `PAGING_PTE_SWP` both read, so that the frame
number of a page marked as swapped is what the code computes from it. The bytes
of SWAP are left out: no code path brings them back to RAM. Memory that
`init_mm()` leaves as `malloc()` returned it (`symrgtbl`, the tail of the
free-region list) is taken as zero: the loader thread frees nothing of such a
size before, so that it is fresh. `ReplacePage` takes the chunk that `malloc()`
returns for the new list node to be the one freed just before, by the same
thread in the same call, which is what glibc's per-thread cache does; what
another allocator would do with the dangling node is not modelled. Nothing in
the code compares an area with the page table; a program of `UserSpec` that gets
beyond it writes to memory of the simulator, and the model has no step for that
(`InTable`). Programs of `Spec` never do (`TableSuffices`).

**AddressSpace** is the promise of the memory library: no cell belongs to two
variables of a process, and what a process reads changes only one cell at a
time, by its own store. The second half ends with the first page fault of
anybody (`intact`): the frame that a fault takes from its victim stays mapped
there (`mm_swap_in`), and an area that has grown to such a page gets its bytes.

**MemPhy** is the frame lists alone, and what the threads do to get at them: a
call waits for `mmvm_lock` (`Lock`), reads the head of `free_fp_list`
(`ReadHead`) and writes it back (`TakeFrame`) once per page, or finds the list
empty (`NoFrame`), maps what it has (`MapFrames`) and releases the lock on its
way out (`Return`). A page fault reads and writes the list of SWAP in the same
two steps (`Fault`, `TakeSwap`, `NoSwap`) and a system call of the program those
of RAM (`Memmap`), both without the lock. Waiting threads and the ways out of
`__alloc()` are steps here, so that it can be asked whether calls return; what
the pages contain is in Mm. In both modules nothing ever comes back to a list, so
that its nodes stay linked in the order of their numbers; a list is the number
of its first node, and the number of frames is the NULL at its end.

**FramePool** is the promise of the frame lists: a request gets all its frames
at once, or none, because there are too few, and then what is left is gone.
MemPhy refines it with each call in many steps, for programs that leave
SYSCALL 17 alone; with the others it does not (`frames_race`).

## Runs

| run | what it checks | states | bounds |
|---|---|---|---|
| timer | types; barrier (`SlotBarrier`), no lost wakeup (`NoLostWakeup`), no deadlock (`SomeoneAwake`), ordered end (`NoEarlyExit`, `NoUseAfterFree`); `next_slot()` returns, the timer ends; refinement of `FairClockSpec` | 13,801 | 2 CPUs, the loader, `TimeCap` 2 |
| os | one place for each process (`OnePlace`), none lost, no CPU stops with work left (`NoneStranded`), no CPU idles beside work (`WorkConserving`), all processes finish, none overtakes another one in its queue (`NoOvertaking`); with the history of Turns, one instruction in a slot at most (`OnePerSlot`) and a CPU left only after a whole quantum or at the end (`WholeQuantum`); refinement of `LifeSpec` | 106,878 | 2 CPUs, 3 processes, each any of 4 jobs (two start times, two priorities, 1, 3 or 5 instructions), quantum 2, queues of 3, `TimeCap` 8 |
| mm | until the first page fault no frame twice (`FramesExclusive`) and only a write changes what is read (`KeptUntilFault`); no page table outgrown (`TableSuffices`); refinement of `SpaceSpec` | 380,780 | 2 processes with 3 and 2 instructions, 2 variables, sizes 1 and 3, offsets 0 and 3, pages of 2 bytes, 3 frames of RAM, 2 of SWAP |
| mm_user | with SYSCALL 17 too: no list past its end, no byte in two regions of a process, the area mapped | 933,081 | as mm, 4 and 1 instructions, offsets 3 and 5, one byte value |
| frames | no RAM frame to two processes however the calls interleave (`RamExclusive`), no list past its device, nobody stuck (`NobodyStuck`) or going round in circles (`CallsAdvance`), every call returns (`EveryCallReturns`); refinement of `PoolSpec` | 512,679 | 3 processes with 2 calls of 1 or 3 pages, 4 frames of RAM, 2 of SWAP |

The bounds let the cases that matter happen: three devices are the fewest for
which one can be released, work and report again while another is still to be
released; with three processes on two CPUs a put process can be taken by the
other CPU and a third one waits; a job of 3 with quantum 2 is preempted, one
of 1 finishes inside of it; three frames of two bytes make sizes 1 and 3 need
one and two pages, and make RAM run out; an allocation of size 1 leaves half a
page to be reused by an exact fit; three callers of three pages on four
frames make one succeed, one fail halfway and one find nothing, with the lock
waited for by two of them, and three of one page, which all succeed, then fault
once more often than SWAP has frames. A job of 5 is preempted
twice, and waits for others in between, so that it has executed less than there have been slots. In Mm offset 3 leads from a variable of
1 byte into another page or variable, and offset 5 beyond every area of two pages;
a process without any variable faults with its first access; in `mm_user` the four
instructions of one process reach the page fault that never ends (`Hang`), and a
SYSCALL 17 of one process races with an allocation of the other.

Seven violations of what the code's comments, its interface or its recorded
outputs say are kept as runs of their own:

* `os_termination`: an idle CPU never tests `done` (os.c:58-63), so the program
  need not end;
* `os_overflow`: a full ready queue drops a process (queue.c:21). The `os` run
  has queues as long as there are processes, the other one queues of one;
* `mm_addr`: the address `liballoc()` returns is the old break (libmem.c:105,
  165), not the region's;
* `mm_leak`: a region at address 0 is taken for none (libmem.c:82, 142) and
  forgotten by the next allocation to its variable;
* `mm_swap_in`: a swapped page stays PRESENT and is never swapped in
  (libmem.c:336, mm.c:56, mm-vm.c:42);
* `mm_hang`: `fifo_pgn` becomes a cycle at the first page fault
  (libmem.c:568) and the second one never ends;
* `frames_race`: calls that take no lock get a frame twice
  (mm-memphy.c:145-151). The shortest behaviour has two SYSCALL 17 of two
  programs (sys_mem.c:27), which both read the head before either writes it;
  without them two page faults (libmem.c:317) do the same to SWAP. `frames` is
  the same model without SYSCALL 17, and with the lock RAM is safe there. Mm has
  the same races; its properties about frames are of `Spec`, without SYSCALL 17,
  and of `UserSpec` only what the races leave true.

`mm_swap_in` and `mm_hang` need an access outside of the vm area, since every
page of the area is mapped (`AreaMapped`); the code does not refuse one. Up to
the first of them what a process reads is its own (`KeptUntilFault`).

`CHECK_DEADLOCK FALSE` stands in the Mm configurations only: there every
process ends after `CodeSize` instructions. Timer and OS have an explicit step
for the state in which `main()` has returned, and are checked for deadlock. For
Timer and MemPhy that check says little: a spurious wakeup is a step of a state
in which everybody waits, and so is the call of a process that has nothing to
do with a lock the others wait for. `SomeoneAwake` and `NobodyStuck` say what is
meant, that a thread can go on which nothing but its own code has to wake, and
are proved.

## Fairness

The threads run on the host's scheduler, so each of them is given weak
fairness; a thread that waits for a mutex gets it, because every critical
section is short and none contains a wait other than `pthread_cond_wait()`.
Weak fairness of a device in Timer includes that the work of a slot ends.
Spurious wakeups have none. In MemPhy a process that is not waiting for
`mmvm_lock` goes on; no fairness of the lock is needed, because the number of
calls is bounded. In OS the timer has the fairness of SlotClock,
which the `timer` run shows to follow from that of the threads
(`ClockRefined`).

## Proofs

Eight modules hold theorems, and `tlapm` checks each of them. They hold for
every value of the constants that satisfies the assumptions, which TLC also
evaluates on each run: `ClockAssumption` and `TimerAssumption` (`TimeCap` is a
number; the devices may be any set, an empty one too), `OSAssumption` (finitely
many CPUs and at least one, at least one priority, jobs whose start times and priorities are in range; the CPUs and the
loader are the devices), `MemPhyAssumption` (devices of at least two frames,
see `MEMPHY_format()`) and `MmAssumption` (devices as in MemPhy, a page has a byte at least, RAM has
no more frames than a PTE can number and a page table can map).

**Timer.** The properties are not inductive: the state in which the timer
clears one device's `done` while another one already works looks broken unless
one knows how far `timer_routine()` has come. The invariant of `TimerProofs`
adds that. `DistinctRecords` says that `dev_list` has each device once;
`MainPhase` ties
`main()` to the threads it has created; `Flags` says what `done` and `fsh` mean
for a device at each of its program points; `ScanLoop` says that the devices
before the cursor of the first loop have reported; `Asleep` says that the timer
sleeps only on a device that has not; `ResetLoop` says which devices the second
loop has released and which it has not; `Between` closes the gaps of a round.
From it follow the barrier, the absence of lost wakeups, the order of the end,
and, with the mapping `PhaseOf`, that each step of Timer is a step of SlotClock
or a stutter (`ImplementsClock`). `NoDeadlock` follows too: a timer that sleeps
for a device sleeps for one that has not reported (`Asleep`), which is at work,
on its way to `pthread_cond_wait()`, or not yet created; a device that sleeps
has reported and keeps the timer going; and `main()` waits in its joins only as
long as somebody has not left.

**OS.** `IInv` in `OSProofs` strengthens `OnePlace` by "a process the loader
has not added yet is nowhere" (`NewNowhere`, so that `add_proc()` cannot make a
second copy), and adds what each thread's position says about the process it
holds (`CpuPlace`, `LoaderPlace`) and that freed processes have finished. The
interesting part is `SomeoneLooks`: once the loader can find its work done, a
queued process has a CPU that will call `get_proc()` again before it can stop.
The code has no lock that says so. It holds because the loader calls
`next_slot()` between its last `add_proc()` and `done = 1`: in the slot in
which `done` appears every CPU begins at the top of its loop; it gives up only
after a `get_proc()` that found all queues empty, and what is queued later in
that slot is put there by a CPU that calls `get_proc()` afterwards.
`NoneStranded` follows, with `NoneLost`.

`NothingLost` and `NobodyStranded` assume `Capacity`, `NumProcs <= MaxQueue`.
They need it (`os_overflow` shows what happens otherwise); a queue that lacks
one of `NumProcs` distinct processes then has room (`RoomForOne`, by counting).
The other theorems of OS do not assume it.

`LifecycleProofs` shows that each step of OS is a step of Lifecycle or a
stutter: `OnePlace` is what makes the mapped state of a process well defined,
`Capacity` what keeps it from vanishing between two queues.

`SchedulerProofs` has four arguments. `NoOvertaking` is one about `Enqueue` and
`GetProc` alone: a put appends, a take removes the head and shifts the rest, and
distinct entries (`QueuedOnce`) make "ahead of" an order. `WorkConserving` needs an invariant of
its own (`Covered`): once some CPU has found nothing in a slot, there are not
more processes queued than CPUs that have just put one back or freed one and
have still to call `get_proc()`, and one more if the loader has added one in
this slot. This is counting over a set of CPUs, which is why they have to be
finitely many. What is queued in the end need not be the process the loader
has added: another CPU may have put one back behind it, and have taken it.

The other two are about Turns. For `OnePerSlot`, a process that has executed in
the current slot is held by a CPU that is done with this slot (`RanStay`,
`Served`): it is put back only at the top of the loop, in the slot after, and so
the CPU that takes it from there in the same slot gives it its first turn.
Since nothing is said about how long it has waited, two turns in one slot are
excluded for a process that is behind, too. For `WholeQuantum`, what a process
has executed since it left its queue and what is left of the quantum of its CPU
are together the quantum (`QuantumShared`), from `time_left` being 0 whenever a
CPU has no process (`FreshQuantum`, part of `IInv`) and the counter of a queued
process being 0 (`QueuedFresh`).

`TimeSlot` may be 0, as a configuration file may have it: `time_left` is then
counted down from 0 and stays below it, so that no process is preempted, and all
theorems hold for that too.

**MemPhy.** The invariant says who can be inside: only the owner of `mmvm_lock`
is between `Lock` and `Return`, so that the head it has read is still the head
when it writes it back. What a call holds and what it still has to get add up
to what it was asked for, which makes `MapFrames` the grant of a whole request.
The page faults share no variable with that, whatever they do to SWAP.

`NobodyDeadlocks` and `NoCallInCircles` are the two safety facts that
`EveryCallReturns` rests on. The first: somebody who waits for `mmvm_lock` waits
for an owner who is inside of `__alloc()`, where nothing waits, so that every way out
has to have released it. The second gives each call the number of steps it
still has to take (`ToGo`, two for each frame it still has to get): each step
makes it smaller for the process that takes it, or ends a call, of which there
are `CodeSize`, and leaves the others' alone. With weak fairness of each process
every call then returns; that last inference is the one that is left to TLC.
Neither depends on who can be inside, so both are proved of `UserSpec`, with the
programs that call SYSCALL 17 themselves (`UInv`), of which `Spec` is a part
(`UsersAreMore`): `frames_race` shows what such a race costs, and these, with
`TypeCorrect`, that it costs nothing more.

**Mm.** The theorems come in three layers. None of them says anything of what
programs do with addresses: offsets and variables are any.

*Any programs* (`MmProofs`, `UserSpec`): those that call SYSCALL 17, too, so that
two calls may get one frame and the head of the list may even go back. `Inv` is
about what a process has for itself, and survives that:

* every region, free or of a variable, ends inside of the area
  (`RegionsInside`), and no two nodes of these lists share a byte
  (`RegionsApart`, which is about places in lists and so stronger than
  `RegionsDisjoint`, about sets). Splitting a region keeps that, and so does
  unlinking a prefix of the list; new pages lie behind the old end;
* a head that was read is a frame or the end of its list (`NodeIn`), hence what
  a call has got are frames, and the area is a number of whole pages
  (`AreaWhole`).

`AreaMapped` is inductive next to `Inv`: an area grows only by the pages that
`vmap_page_range()` maps in the same step, and no step takes a PRESENT bit away,
a page fault included.

*Programs that leave SYSCALL 17 alone* (`MmFrameProofs`, `Spec`). `IInv` adds that
whoever is in `__alloc()` has the lock, that nobody else has frames in hand, and
that the head it has read is the head (`LockHolder`); that frames in hand are
distinct and before the head (`TakenOnce`); and that the pages of a process with
those it is about to map are not more than the frames that have been taken
(`FewPages`): that is why no area outgrows the page table, after page faults too.
What it says of page tables holds until somebody faults (`Unfaulted`): the low bits of
a PTE are a frame number and nothing else (`FramesThere`), no frame is mapped
twice (`Alone`) and none in the hands of a request is mapped (`NotTaken`). The
condition is needed: the first fault takes a SWAP frame, so that `swpHead` is no
longer 0, and leaves the frame of its victim with two pages (`mm_swap_in`). A
race of two faults for a SWAP frame is in the model and costs nothing of this.

*The bytes* (`MmSpaceProofs`, `Spec`). A page that is mapped must read as
it did before, so the frames in `free_fp_list`, and those in the hands of a request,
still have to hold the zeros `init_memphy()` gave them (`Zeros`, until the first
fault). Each step is then a step of AddressSpace or leaves it alone:
`AllocFromFree` and `AllocGrow` are a `Grant`, `Free` a `Release`, `Write` a
`Store`. `OnlyWritesChange` is the same about every mapped byte, and says which
address it is that changes.

| theorem | establishes |
|---|---|
| TimerProofs: `TypeCorrect`, `Barrier`, `NoWakeupLost`, `TimerLeavesLast`, `RecordsOutliveUse`, `NoDeadlock` | the invariants of the `timer` run |
| TimerProofs: `ImplementsClock` | the safety part of `ClockRefined` |
| OSProofs: `TypeCorrect`, `Exclusive` | `TypeOK`, `OnePlace` |
| OSProofs: `NothingLost`, `NobodyStranded` | `NoneLost`, `NoneStranded`, under `Capacity` |
| LifecycleProofs: `ImplementsLifecycle` | `LifecycleRefined`, under `Capacity` |
| SchedulerProofs: `FirstComeFirstServed`, `NoIdleBesideWork` | `NoOvertaking`, `WorkConserving` |
| SchedulerProofs: `OneTurnPerSlot`, `QuantumKept` | `OnePerSlot`, `WholeQuantum` of Turns |
| MemPhyProofs: `TypeCorrect`, `NobodyDeadlocks`, `NoCallInCircles` | `TypeOK`, `NobodyStuck`, `CallsAdvance`, for `UserSpec` too |
| MemPhyProofs: `Exclusive`, `ImplementsPool` | `RamExclusive`, `PoolRefined` |
| MmProofs: `TypeCorrect`, `RegionsPrivate`, `AreaIsMapped` | `TypeOK`, `RegionsDisjoint`, `AreaMapped`, of `UserSpec` |
| MmFrameProofs: `FramesPrivate`, `TableIsLongEnough` | `FramesExclusive`, `TableSuffices`, of `Spec` |
| MmSpaceProofs: `ImplementsSpace`, `OnlyWritesChange` | `SpaceRefined`, `KeptUntilFault`, of `Spec` |

## Only model-checked

* What depends on fairness: `NextSlotReturns`, `TimerEnds`, `AllFinish`,
  `EveryCallReturns`, the fairness in `ClockRefined`. Liveness is outside of
  what the prover does. The safety each of them rests on is proved:
  `NoWakeupLost` and `NoDeadlock` for the first two, `NothingLost` and
  `NobodyStranded` for `AllFinish`, `NobodyDeadlocks` and `NoCallInCircles` for
  `EveryCallReturns`. All other properties of the passing runs are theorems.
* That `OS` may build on SlotClock in place of Timer is the refinement shown in
  the `timer` run and by `ImplementsClock`; the product of the two is not
  checked as one state space.

## Not modelled

* `killall` beyond the name it reads: it walks `running_list`, into which
  nothing is ever put (sched.c:102, 113), so that `release_process_memory()`
  and its calls of `MEMPHY_get_freefp()` are never reached. Names that do not
  end inside of their variable are not inputs of `KillAll`.
* SYSCALL 17 with the number of a vm area that does not exist, or with frames
  and addresses beyond a device: undefined in C, and no program of the
  repository does it.
* Instructions that name an `rgid` beyond `symrgtbl`, for the same reason.
* `run()` without `MM_PAGING` (cpu.c's `alloc`, `read` and `write`, mem.c,
  paging.c): the configuration of the repository (os-cfg.h) builds with paging.
  The `#else` scheduler of sched.c and queue.c is not built either.
* `read_config()` and `load()` parse text; what they deliver is the input of
  the models. `print_pgtbl()`, `MEMPHY_dump()` and the other output are left
  out, and testqueue.c is a test.
* Sequential access to a device (`rdmflg` 0, `MEMPHY_mv_csr()`): every device
  is formatted for random access. `MEMPHY_put_freefp()`, `free_pcb_memph()`
  and `init_pte()` have no caller.
* The bytes of SWAP, which nothing reads back, and `malloc()` returning NULL.

## Plan

1. **PageFifo**: `enlist_pgn_node()` and `find_victim_page()` at the level of
   list nodes, with the abstract queue it should be, so that `NoHang` is a
   consequence and not a state of Mm.
2. **Timer and OS in one state space**: a module whose steps are those of the
   two joined at `next_slot()` and `detach_event()`, with `OS!Spec` as its
   property and "every process is freed when `main` returns" as its invariant.
   The timer thread counts one more slot after the last device has left, so
   `TimerRound` of OS has to allow it there first.
