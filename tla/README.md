# TLA+ verification of T-Kernel

T-Kernel 2.0 (`src/tkernel_source`) is a real-time kernel in C with a small
assembler part for the EM1-D512 (ARM). This directory holds TLA+ modules that
model its logic, TLC configurations that check them on small instances, and
proofs, checked by TLAPS, that hold for every instance.

1. [The system](#1-the-system): components, state, operations, interaction
2. [Modules](#2-modules): what each models and how it corresponds to the code
3. [Runs](#3-runs): what is checked, bounds, fairness
4. [Where the code does not do what it says](#4-where-the-code-does-not-do-what-it-says)
5. [Proofs](#5-proofs)
6. [Not modelled](#6-not-modelled)
7. [What is next](#7-what-is-next)

Paths below are relative to `src/tkernel_source`; `kernel/tkernel/src` is meant
where only a file is named.

## 1. The system

| Component | State | Operations | Correct when |
|---|---|---|---|
| Ready queue (`ready_queue.h`) | a FIFO per priority, `bitmap`, `top_priority`, `klocktsk` | insert, insert at head, delete, rotate, move last, top | the queues hold each READY task once under its current priority; the summary fields agree with them |
| Tasks and scheduling (`task.c`, `task_manage.c`, `task_sync.c`) | TCBs, `schedtsk`, `ctxtsk` | create ... terminate, priority, rotation, slice, suspend/resume, sleep/wakeup, forced release | `schedtsk` is always the top; suspensions nest; no wakeup is lost; FIFO in a priority; round robin with slices |
| Dispatcher (`cpu_support.S`, `cpu_calls.c`) | `ctxtsk`, `dispatch_disabled` | dispatch, forced dispatch, return from interrupt, disable and enable | the runner is READY; with dispatching disabled nobody else runs; no due dispatch is lost |
| Waiting (`wait.c`) | wait queue links, timer link, `wspec`, `wercd`, `waitmask` | begin, release (ok, error, timeout, delete), wait disable | a wait ends once, for one reason, and the object's hook runs for every abnormal end |
| Kernel locks (`klock.c`) | `OBJLOCK.wtskq`, `klocked`, `klockwait`, `SVCLOCK` | LockOBJ, UnlockOBJ, LockSVC, UnlockSVC, AllUnlockSVC | exclusion, no lost hand-over, the lock list agrees with the ready queue |
| Semaphores, event flags, mailboxes | count / pattern / message list, wait queue | create, delete, signal/set/send, wait/receive | nobody waits for what is there; counts are conserved; order by FIFO or priority |
| Mutexes (`mutex.c`) | owner, `mtxlist`, ceiling, priorities | lock, unlock, release all, priority change | an owner's priority is the best of base, ceilings and inherited ones, along chains |
| Message buffers (`messagebuf.c`) | byte ring, two wait queues | send, receive, delete, wakeup of senders | a bounded FIFO; no sender waits while its message fits and it is first |
| Rendezvous (`rendezvous.c`) | call/accept queues, rendezvous numbers | call, accept, forward, reply | a reply reaches the call it answers, or none |
| Memory pools (`mempfix.c`, `mempool.c`) | free blocks / areas, wait queue, object lock | get, release | blocks are disjoint; free neighbours are joined; nobody waits for what is free |
| Timer (`timer.c`, `time_calls.c`) | sorted event queue, 64-bit time, cyclic and alarm blocks | insert, delete, interrupt, start/stop/delete of handlers | events fire once, in order, not early; a stopped handler does not fire |
| Subsystems and exceptions (`subsystem.c`) | SVC locks, pending exceptions, the SVC a task is in | extended SVC, break function, subsystem function, exception handler | lock nesting, masks and priorities are restored; an SVC is broken once; no exception is forgotten |
| Device manager (`kernel/sysmgr/src/device*.c`) | registered devices, open blocks, requests, synchronisation queue | register, open, close, request, wait, abort, suspend, cleanup | driver calls once per device; a request is waited for once and freed once; nobody waits for ever |
| Driver interface (`lib/libdrvif/src/gdrvif.c`) | request blocks, free and accept queues, counts, event flag | start, wait, abort, accept, reply | blocks are accounted for; nobody sleeps beside what it waits for |
| System memory (`extension/memory/nommu/memmgr.c`, `sysmgr/src/imalloc.c`, `lib/libtk/src/memalloc.c`) | page tags, free pages, areas and free queues of two heaps | allocate, free, reallocate, take and return pages | pages and areas tile the memory, each with one owner; free neighbours are joined |
| Fast locks (`lib/libtk/src/fastlock.c`, `fastmlock.c`) | counter and semaphore; bits, waiter count and event flag | lock, unlock, with timeout | exclusion, no waiter left behind |

The rest (drivers, simple driver interface, monitor, start-up and library
code) is listed with its reasons in `PROJECT.json` and in section 6.

**Interaction.** Everything happens in three contexts. *Tasks* make system
calls, whose body is a critical section with interrupts disabled; where the
section ends a dispatch that came due is taken. *Handlers* (interrupt, cyclic,
alarm) come whenever interrupts are enabled and make the same calls as long as
they do not wait. The *dispatcher* moves the processor from `ctxtsk` to
`schedtsk`, with interrupts enabled. Objects change tasks only through `task.c`
and `wait.c`; those change objects through the hooks of the wait specification,
as when a timeout or a priority change of one waiter frees the next. The timer
interrupt ends waits and accounts slices, and calls user handlers in the middle
of its scan. `klock.c` makes sections that are too long to run with interrupts
disabled exclusive between tasks, and reaches into the ready queue to do so. The
device manager, the libraries and the heaps are clients of these: they serialise
their own code with fast locks, with semaphores nobody signals and latched
`tk_dis_wai`, or by disabling interrupts, and give the lock up around what they
call.

**What is hard.** Handlers in every gap of the dispatcher; calls that rearrange
the ready queue and `schedtsk` in several steps; suspension laid over waiting;
locks handed to tasks that do not run; waits that end by timeout, release,
deletion or wait-disable while another task releases them; hooks that release
further tasks; priority inheritance along chains; latched signals in the device
manager; callbacks that enable interrupts inside the timer's loop; sections that
give up their exclusion in the middle. `hazards` in `PROJECT.json` lists each at
its line with the properties that cover it.

## 2. Modules

    ReadyQueue <- Task <- TaskSlice                 ExclusiveLock  (abstract)
                    ^                                   ^ implements
                    +-- KLock <- KLock_proofs       FastLocks --+
                                                    SystemMemory -+- Library
                                        FastLocks, Mutex <- Locks_proofs
    WaitQueue <- Wait <- Semaphore, EventFlag, Mailbox, MessageBuffer,
         |                MemoryPool, FixedPool    -> Objects
         |               MessageQueue (abstract) <- implemented by Mailbox, MessageBuffer
         +-- Mutex, Rendezvous, Timer, Subsystem    Device, DriverInterface -> Devices
         +-- WaitQueue_proofs <- KLock_proofs, Rendezvous_proofs, Timer_proofs,
                  Subsystem_proofs, Device_proofs, DriverInterface_proofs,
                  Locks_proofs

Modules that are, or are to be, proved about contain no RECURSIVE operator. Each
system call is one action where its body is one critical section; where the code
gives up its exclusion the action is cut there. Error returns are guards: a call
that returns an error changes nothing. Everything outside the component is
replaced by all it may do.

### `ReadyQueue.tla`
The functions of `ready_queue.h` as operators on a record: the fields of
`RDYQUE` and those of a TCB these functions write (`slicecnt`, `klocked`,
`klockwait`), plus the waiter lists of the kernel locks. `TCB.tskque` links a
task into exactly one list, so `QueRemove` takes it out of whichever holds it
(`Unlink`). The sentinel that makes `ready_queue_top` of an empty queue NULL is
a case of its own. `BitSearch1` is the result of the word-wise search in
`lib/libsys/src/bitsearch1.c`: the least set bit from a position on.
`Consistent` is the representation invariant.

### `Task.tla`
The variables are the TCB fields of the same name, the ready queue, `schedtsk`,
`ctxtsk` and `dispatch_disabled`. Operators named after functions of `task.c`
and `wait.c` transform them. Choices:

- `c = "task"` is a call of `ctxtsk`, possible only while no dispatch is due or
  dispatching is disabled (`InTask`): `END_CRITICAL_SECTION` dispatches before
  the task goes on. `c = "handler"` is a call of an interrupt handler, possible
  in every state: each action ends with interrupts enabled.
- A dispatch is three steps, `dispatch_entry` (dispatching is marked as
  disabled), `dispatch_save` (the context is saved, `ctxtsk` is cleared),
  `dispatch_to_schedtsk` (the idle loop ends, the new context is taken):
  interrupts are enabled between them.
- `tk_ext_tsk`, `tk_exd_tsk` end in `force_dispatch`, which discards the context.
- `tk_ena_dsp` compares `ctxtsk` with `schedtsk` while interrupts are enabled:
  the comparison may be out of date, so it dispatches or not.
- The timer interrupt's slice step and each expired sleep are separate
  actions, a superset of the interleavings of the handler.
- Without mutexes `bpriority` equals `priority`. `make_dormant` also clears
  `klocked` and `klockwait`, which are FALSE by then.
- Tasks here sleep with `tk_slp_tsk`; waits for objects belong to `Wait`.
- The CPU lock of `DI`/`EI` around calls of a task is not modelled. While it
  holds, a due dispatch is delayed to the next critical section.

### `TaskSlice.tla`
`Task` restricted to started tasks with slice times that sleep, wake, are
suspended and resumed, for the round-robin property and for the promise that a
due dispatch is made. Rotations and priority
changes are left out: both can keep a task from its turn for ever, and rightly.

### `KLock.tla`
Object locks composed with all of `Task` except sleeping and waking. `at` and
`use` are a task's place in a call on an object and its lock; `locked` is
`OBJLOCK.wtskq.next # NULL`. `LockOBJ` has the three outcomes of one pass of its
loop: lock was handed over while the task waited, taken free, queued. The calls
of `mempfix.c` are reduced to their effect on locks and tasks: leave, wait and
leave, release a waiting task and then leave. `tk_rel_mpf` releases a task with
interrupts disabled and enables them without a dispatch, so it may go on while
`schedtsk` is another task (`Leaving`). Which block is meant, and the
wait-disable mask, do not matter to the lock: `FixedPool` has them.

### `WaitQueue.tla`, `Wait.tla`
`Wait` is what the objects with a generic control block share. `gcb` is the
block of one object, of any kind, with the fields the kind adds; objects do not
touch each other. A message buffer has a second queue, `recv_queue`. A hook
(`WSPEC`) is an operator of the kind's module that takes a
block to the block after it and the tasks it released with E_OK, which the code
does through `wait_release_ok`; the calls get its result as an argument. `ok` is
that set for the last step, so that properties can speak of who was served. The
calls on tasks are the parts of those in `Task` that touch a wait:

- `release_wait` is `tk_rel_wai` and the expiry of a timeout. Both take
  the task out of the queue, make it non-waiting and call the hook, and differ in
  the error code, which is left out. So is the timer queue: a timeout may expire
  at any time.
- `tk_ter_tsk` cancels the wait, calls the hook and makes the task dormant.
- `tk_chg_pri` moves a waiter of a TA_TPRI object and calls the hook;
  objects in arrival order have none.
- `tk_dis_wai` latches a mask that ends a wait in progress and refuses the next.
- Nested suspension, `schedtsk` and dispatching belong to `Task`. A READY task
  may act at any time, a superset of what the scheduler allows.
- `winfo` is reset to `NoInfo` when a wait ends (the code leaves the old value,
  which is not read until the next wait sets it).
- A call with TMO_POL that cannot be served changes nothing.

### `Objects.tla` and the kinds
`Objects` composes the six kinds with the tasks: an object of some kind is
created in a free control block, used and deleted; then the tasks, with the
priorities, masks and suspensions they have by then, meet the next. It picks the
hook by the kind of the object (`rel_wai_hook`, `chg_pri_hook`), as `WSPEC` does.

- `Semaphore`: `maxsem` has one value; `served_any` and `served` are the loops
  of `tk_sig_sem` with and without TA_CNT.
- `EventFlag`: the combinations of wait modes are a constant. The loop of
  `tk_set_flg` is a fold, as each waiter sees the pattern the one before it left.
- `Mailbox`: messages are linked through their first word, in memory of the
  program. `nextmsg` is that word; a message that is not queued may hold anything
  there (`g`, chosen when it is sent), for which NULL stands. `msgs` follows the
  links. `mq_tail` keeps its old value in an empty queue and in a new mailbox. A
  program sends a message only while it is not queued.
- `MessageBuffer`: the ring is words; word 0 of a message is its header, and
  what is read is NULL unless every word is in its place (`read`), so that an
  overwritten or misplaced message would show. A message that never fits goes from
  the sender straight to the receiver. A handler sends past waiting senders
  (`mbf_free` only), a task only if there are none.
- `MemoryPool`: an area is named by its header; `area` has the links of the
  area queue, `freeque` the runs of free areas by size, as the code keeps them
  (`searchFreeArea` from the end or the front by size, equal sizes in one run).
  A request at the front is served as soon as there is room.
- `FixedPool`: `unused` and `freelist`; the calls in one piece.

`MessageQueue` is what a mailbox and a message buffer promise: a sequence ordered
by priority or arrival; a step of either is one of its steps or leaves the queue
and the last message given alone. For a buffer the queue is what the ring holds,
read word by word (`Stored`); senders that find room enter behind it, in the step
that made the room.

### `Mutex.tla`
All mutexes and the TCB fields they touch. The code changes several blocks one
after the other and calls itself: a change of priority of a waiting task calls
its hook, which may change the priority of an owner, which may wait in turn.
Every such call is the last thing its caller does, so `change_task_priority` is
a loop: `change_one` does one call, and leaves the next in `chain`. The operators map
the blocks before to those after, an action applies them to the current ones
(`Becomes`). `demands` and `highest` are the computation that `release_mutex` and
`chg_pri_mutex` both make. `_ter_tsk` leaves the state of the task as it is until
`make_dormant`, and so does `tk_ter_tsk`. A mutex that is deleted goes back to
one value, as does `wid`. A suspended task counts as READY or WAIT without
calls of its own. `Deadlocks` says whether programs may close a cycle of waits: a wait
does if every set of tasks that holds the owner and, with a task, the owner of what it
waits for, holds the waiter too (`cycle`).

### `Rendezvous.tla`
Ports with their two queues; every call is one critical section. Patterns are
sets of bits, messages their sizes. A rendezvous number is the task and
`wrdvno`, which counts modulo `RDVNO_MOD` as the field wraps in the code. `known`
is history: the numbers programs hold, each with whether its rendezvous goes on.
Acceptors use them at any time later, so a reply or a forward may meet a caller
that timed out, was released, or called again. `tk_fwd_por` moves the caller back
into a call queue or straight to an acceptor of another port. A program is taken to
forget a number before it is given again; with the 16 bits of the code that is
after 65535 rendezvous of one task.

### `Timer.tla`
`timer_queue` is ordered by event time; `running` is the handler the event loop is
in. `call_cychdr` and `call_almhdr` enable interrupts while the user's handler
runs: it, and interrupts inside it, start, stop, delete and create handlers, and
the loop goes on with whatever is left. `hw` is the hardware counter, so that what
has really passed (`now`) and the software clock differ. Cyclic times are computed
by `cyc_next_time`. An alarm or a delay remembers in `asked` when it may end.

### `Subsystem.tla`
What a task is in the middle of is a stack of frames: extended SVCs, break
functions run for itself or for another, subsystem functions. A frame has what the
code keeps on the C stack (`execssid`, `BREAK_RAN`, `exectex`, `waitmask`, priority).
Entering and leaving an SVC takes the task's SVC lock; `tk_ras_tex` takes the
lock of the task it raises an exception on and runs the break function of the SVC
that task is in. `Unlock` hands over a set of locks in one step, as a task that
ends may have several. `lowest` is the exception the handler is started for, the
pending one of the least code. An exception handler starts when the task is at user level
(`reqdct`, `setup_texhdr`). Which task runs is left open.

### `Device.tla`, `DriverInterface.tla`, `Devices.tla`
`Device` is one device of the device manager: `pc[t].at` is where in the manager
or in the driver a task is. The driver's functions run unlocked; the manager waits
for others with `SyncWaitDM`, a semaphore nobody signals, ended by `tk_dis_wai`,
which is latched if it comes early (`disabled`). What the driver does with a request is
open; `drv` records what it has seen opened. `abort_allrequest` is cut at each
release of a lock.

`DriverInterface` is the request queue most drivers are built on: the processing
functions (`gdi_execfn`, `gdi_waitfn`, `gdi_abortfn`) in the tasks of programs,
`GDI_Accept` and `GDI_Reply` in driver tasks, between them a counted set of request
blocks, an event flag and one task event per program task. A section under
`LockGDI` is one step. `st[x].at` is where in the library a task is. The device manager
appears as far as it calls the library.

`Devices` puts the two beside each other: each stands for the other by all it may do.

### `FastLocks.tla`, `ExclusiveLock.tla`, `SystemMemory.tla`, `Library.tla`
`FastLocks` has both high-speed locks; a step is one change of the counter, the
bits or the number of waiters, or one system call. `ExclusiveLock` is what they
promise, a free lock that is wanted is taken; `holders` and `wants` are mapped to
who is `in` and who is on the way. `SystemMemory` is the page table and the two
heaps that take pages from it, cut where `imalloc.c` enables interrupts and where
`memalloc.c` copies between the halves of a reallocation. The calls of the libtk
heap and the page table are single steps because their locks are exclusive;
`Library` puts locks and memory beside each other.

### Properties worth a remark
- `SchedtskIsTop`: `make_ready` and `make_non_ready` do not recompute
  `schedtsk` but reason about what may have changed; this says they are right.
- `RunnerIsReady`: with `tk_dis_dsp` a handler's `tk_sus_tsk` on the runner must
  be refused.
- `NoLockLost`: `klocked` is one flag and does not say which lock it is for.
  The invariant counts the holders of each lock through hand-over, suspension,
  priority change and termination of waiters.
- `LockerOrTopScheduled` is what remains of "the locked task runs first". The
  comments at `ready_queue.h:77` and in `kernel.h` say that a task with a kernel
  lock has the highest priority; in fact `make_ready` preempts it for a more urgent task.
  A kernel lock gives exclusion, not precedence; exclusion and hand-over do not
  depend on precedence, as `klock` shows.
- `NoServableWaiter` holds because every way to leave a queue, to reorder it or
  to change the object calls the hook. The hook of a TA_CNT semaphore does nothing,
  which is right only as the one that leaves holds no counts.
- `NoOvertaking` compares those served with those still waiting in the queue as
  it is after the step, for a priority change may reorder it and serve in one step.
- `ConsumedInOrder`: counts are conserved however waits end, and one `tk_set_flg`
  serves the queue in turn instead of comparing all with the same pattern.
- `PriorityIsHighest` is an equation for each task in terms of its waiters; in
  chains it determines every priority.
- `NumberNamesItsRendezvous`: a reply through a number that is out of date reaches
  nobody, and a caller that waits for the end can always be replied to.
- `EventsAgree`, `LoopEnds`: the scan rereads the head of the queue after each
  callback, and a handler that restarts itself is not due again in the same scan.
- `BreakExclusive`: the lock of the extended SVC keeps the break function another
  task runs apart from entering and leaving the SVC.
- `WaitersWillBeWoken`: of an abort, that the count is that of the requests still in
  the driver, each marked, so the last to come back signals.
- `NobodyLeftAsleep`: the bits a returned block sets are decided by two counts
  before it returns; the invariant says that they are enough.
- `HeapsPartitioned`, `PagesPartitioned` hold across the gaps in which interrupts
  are enabled in the middle of an allocation. In `imalloc.c` a heap may keep a page
  without a block that was released with interrupts disabled.

## 3. Runs

| Run | Instance | Shows |
|---|---|---|
| `task` | 3 tasks, 2 priorities, `INT_MAX` 1, no slices; symmetric | five invariants, FIFO within a priority |
| `task_slice` | 3 tasks, 2 priorities, slices of 0 or 1 tick | round robin; a due dispatch happens |
| `klock` | 3 tasks, 2 locks, 2 priorities; symmetric | exclusion, no lock lost, who gets the processor |
| `mutex` | 4 tasks, 2 mutexes, 3 priorities, no deadlock; symmetric | ownership, inheritance, hand-over |
| `objects` | 3 tasks, 2 priorities, one object of six kinds; symmetric | waits agree, nobody waits for what is there, order, conservation, the message queue |
| `rendezvous` | 3 tasks, 2 ports, 2 bits, numbers modulo 2; symmetric | numbers name their rendezvous, no matching pair waits, masks and reply sizes |
| `timer` | 1 cyclic handler, 1 alarm, 1 delaying task, 10 units of time | the queue agrees with the handlers, cycles in phase, nothing early, the loop ends |
| `subsystem` | 2 tasks, 1 subsystem, calls nested twice | break once and exclusively, everything unwound, no exception lost |
| `library` | 3 tasks at locks; 4 pages of 10 units, 2 tasks, 3 blocks | both fast locks implement exclusive locks; pages and heaps partitioned |
| `device` | 3 tasks, 2 open and 2 request blocks; symmetric | six invariants of manager and driver interface |
| `device_abort` | the same with the race of `AbortRace`; fails | two tasks in the driver's open and close functions, see section 4 |
| `device_event` | the driver interface without the bound on events; fails | an event without a complete request, see section 4 |

**Bounds.** Three tasks are the fewest with two tasks in one queue besides the
one that acts, or with a holder and two waiters; two priorities the fewest with
a preemption.

- `task`: a counter limit of 1 reaches "none", "at the limit" and the refusal
  beyond it, and 2 would add no branch. In `task_slice`, slices of one tick with a
  timer period of 1 give a tick that does not end the slice and one that does. The
  proofs drop these bounds.
- `klock`: no slice times, which multiply the states by more than ten and break
  `LockerOrTopScheduled`, see section 4.
- `mutex`: a chain of inheritance needs three tasks and two
  mutexes, a fourth task gives it a second waiter, and three priorities one between the
  base and the inherited one. `Deadlocks` is FALSE, see section 4.
- `objects`: `MAXSEM` 2 is the least at which a later waiter asks for less than an
  earlier one; two bits the fewest at which two waiters share one and not the
  other; three messages give a queue with a middle and two of one priority; a ring
  of 5 words holds two short messages or one long and wraps, one of 0 passes every
  message through; a pool of 8 units splits into two and leaves a gap between.
  `MaxDisabled`, `MaxSuspended`: one task with a wait mask, one suspended;
  `MCInterference` has suspension with a semaphore or a fixed pool only and wait masks
  with neither an event flag nor a message buffer: what ends a wait treats a task
  alike whatever it waited for. Of the wait modes, TWF_CLR with
  TWF_ORW or TWF_BITCLR is left out: the first adds no new kind of clearing, the
  second clears as TWF_CLR alone.
- `rendezvous`: one priority, as the call queue is that of the other objects;
  ports of two attributes and reply sizes; `RDVNO_MOD` 2, so that numbers repeat
  at once; `Masks`, one wait factor disabled at a time.
- `timer`: a cycle shorter and one longer than the timer period; `TimMax` lets
  every event come up more than once. Times are integers: the 64-bit clock of
  milliseconds wraps after 500 million years.
- `subsystem`: `MaxDepth` 2 has an SVC in an SVC, a break function in either, and
  a break function for a task that is in one; `BreakCalls` FALSE, see section 4.
- `device`: `Sides` are explored separately, as neither sees the other's state.
  `Requesters` and `Managers` divide the work: two tasks make requests, one
  registers, opens and cleans up, all close. `MCManagerBound` has requests on one open
  at a time, two at once only while nothing else is open or cleaned up, none during
  a suspension, and task exceptions with one request only. `MCLibraryBound` has, with
  two blocks, requests of one kind, with one block of both, and then no abort; user
  commands between requests; and one abort at a time. It leaves out two cases in which
  the code fails, see section 4. `AbortRace` and `MixedWaits` are FALSE for the same reason.
- `library`: sizes of which several fill a page or one needs a page and headers;
  four pages allow a free block between two taken ones; three blocks held, so that
  the middle one can go first. `MCMemoryBound` takes three blocks from one source only,
  and has two tasks between the steps of a call beside one block only.

Symmetry is used in the safety runs only.

**Deadlock** is checked in every run. Tasks can wait for ever only if nobody comes to
wake them, and handlers, timeouts or other tasks always can.

**Fairness.** `WF(Dispatcher)`: the dispatcher is straight-line code that runs
whenever no handler does, and handlers end. `WF(timer_handler)`, `WF(Elapse)`:
the timer interrupt is periodic, and time passes. `WF(handler_return)`: handlers
end. `Continue` of `LibSpec`: a task inside `Lock` or `Unlock` that does not wait in
the kernel goes on; the kernel releases a waiter whose count or bit is there. From these
follow `RoundRobin`, `DispatchHappens`, `LoopEnds` and the liveness of `ExclusiveLock`
(`WF(Acquire)`, part of `ImplementsLock`). Nothing is assumed of tasks or handlers otherwise.

Every property of a passing run has a mutant in `PROJECT.json`: a definition,
marked `Mutant` in its module, that changes a mapped one as a mistake in
the code would and for which TLC finds the property violated.

## 4. Where the code does not do what it says

Two runs show it by a counterexample:

- `device_abort` (`kernel/sysmgr/src/deviceio.c:430`). `abort_allrequest` looks at
  `abort_cnt` after `UnlockDAbort`. A request that returns in between counts it down
  and signals the closing task, which does not wait; the latched signal ends its
  next wait, and `closefn` runs beside another task's `openfn`.
- `device_event` (`lib/libdrvif/src/gdrvif.c:722`). An event that came when the wait
  was over anyway is cleared with TMO_POL; a wait mask set by a late abort makes that
  call fail before it looks, and the next `gdi_waitfn` ends with E_SYS, which line 726
  calls impossible.

The others are bounded away by a constant of the module and are reached when it is
changed; no property of a run depends on them.

- `Deadlocks` (`mutex.c:391`, `task_manage.c:288`): with a cycle of owners, a task
  that is being terminated is put back into a wait queue, as its hook, called before its
  state changes, lowers the priority of an owner and the change comes round the cycle; and
  the owner of a deleted mutex keeps an inherited priority, as it is still named as owner
  while its priority is lowered. T-Kernel leaves avoiding deadlocks to programs.
- Slices on a lock holder (`timer.c:193`): the timer interrupt sets `schedtsk` to
  the head of the holder's priority, which may be a task without a lock.
- `BreakCalls` (`klock.c:103`): the lock of an extended SVC that its owner takes
  again is not counted, so a break function that raises an exception for the same task
  gives up the lock in the middle of the outer one; and tasks whose break functions
  call SVCs may wait for each other's locks (`subsystem.c:567`).
- `MCLibraryBound` (`gdrvif.c:766`): `exinf` names a block that may by now belong to
  another request, which the abort then ends. The wait mask of `tk_dis_wai(TTW_FLG)`
  (line 762) also ends a wait for `LockGDI`, whose result is not looked at.
- `MixedWaits` (`gdrvif.c:680`): a wait for any request of an open meets requests
  that are being started, whose `exinf` is not yet a block but the address of a variable.
- `DriverAssumption`: of two driver tasks that accept the same kind of request only
  one is woken, for the bit is set when the count leaves 0. An abort function may also
  be called for a request that `GDI_Accept` is about to answer with E_ABORT itself.

## 5. Proofs

Every theorem holds for all values of the constants that meet the assumptions of its
modules, which the runs evaluate; a condition beyond them is in the theorem and named
below. Each invariant is proved by one case per action.

`KLock_proofs.tla` has three parts. The first is about the ready queue: for any set of
tasks and number of priorities, each operation maps a queue that is `Consistent` with a set of READY tasks
and their priorities to one `Consistent` with the set after it, and what the
operation does to the top. It needs no finiteness of the set of tasks.

The second proves the inductive invariant of `Task`

    IInv == TcbOK /\ Sched /\ SuspendNesting /\ NoLostWakeup /\ DisabledRunner

where `Sched` is: the ready queue is consistent with the READY tasks, no task
holds or awaits a kernel lock, and `schedtsk` is the top. `SchedtskIsTop` alone is
not inductive: that `make_ready` compares with `top_priority` only is right
because `top_priority` describes the queue, and that `make_non_ready` recomputes
only for `schedtsk` because the top is the head of its queue. `DisabledRunner`
is the part of `RunnerIsReady` that does not follow from `Sched`: a task that
has dispatching disabled is not removed from the queue. The step
proof has one case per action; each first derives the effect on the ready queue
from the lemmas (`MakeReady`, `MakeNonReady`, `ChangePriority`, ...) and then
shows the remaining conjuncts.

`FirstComeFirstServed` proves `FifoWithinPriority`, an action property, from the same
invariant. `Moving(r, q, t)` says of a queue before and after an operation that only t
moves, and to the tail; the operations of the ready queue are shown to do that one by
one, and two of them in a row if they move the same task or tasks of different queues
(`BothMoving`). That is so when a call preempts the running task, whose slice may end
with it: it was the top, so the call's own task did not go into its queue behind it and
take its place (`ChangePriorityMoving`). The run checks it without slices, the
theorem is about any.

Theorems: `Inductive`, `TypeCorrect`, `ReadyQueueCorrect`, `ScheduleCorrect`,
`RunnerCorrect`, `SuspendCorrect`, `WakeupCorrect`, `DispatchDisabled`,
`FirstComeFirstServed`, from the assumptions `NullAssumption`, `PriAssumption`,
`IntMaxAssumption`, `SliceAssumption`.

In the third `KInv` (`KInductive`) does for `KLock` what `IInv` does for
`Task`; the invariant of `Task` itself does not apply, because a lock takes READY
tasks out of the queue. Its parts: the ready queue holds those who may run
(`KQueue`), the list of each lock the tasks that wait for it, each at the place
where it waits (`Waits`), and a lock that is taken has exactly one holder, on its way
to `UnlockOBJ` (`Holding`). That `klocked` does not name the lock makes `Holding`
relate it to the place in the call, which hand-over and termination both change. Theorems:
`LockIsExclusive`, `LockIsNeverLost` without further condition, and `LockerScheduled`,
which needs `SliceTimes = {0}`: with slices it does not hold (`timer.c:193`, section 4).

`Locks_proofs.tla` has the two kinds of locks tasks see. For mutexes, the invariant `MtxInv`
(`MutexInvariant`) says of the control blocks between two calls: the queue of a mutex
lists those who wait for it (`Queues`), by priority if it is not TA_TFIFO (`Ordered`); the
list of a task has the mutexes that name it as owner (`Owned`); nobody's base priority
is above the ceiling of a mutex it has or waits for (`Obeyed`); waits for owners close no
cycle (`Graph`); and every priority is the lowest of what the task is asked for (`Right`,
`Needs`). The statement the run checks is the last; the others are what a call
computes it from. Three things make it more than a case per action:

- A call changes several blocks, and in between the invariant does not hold. The lemmas about
  helpers are therefore about blocks, not about states, and say what is still missing: X are
  the tasks that are being terminated, D the mutexes that still name an owner whose
  list they have left, E what a task about to wait asks of others before it is in a queue
  (`Sound`, `RightOf`). Each operation ends with `Goes`: all three are empty again.
- A change of priority goes on along the chain of owners. `Stands` says of the chain after k
  calls that every priority is right but the one to be changed next, and that this
  task lies in a set, closed under "the owner of what it waits for", that has k tasks
  fewer than all. The set shrinks at every call (`Graph` leaves out the task itself), so
  the chain ends before `MAX_CHAIN`; the bound of the loop in the model cuts off nothing.
- The loops of `change_task_priority` and `signal_all_mutex` are recursive functions
  of how often they went round. That there is such a function (`ChainedExist`), and what holds
  after each round, is shown by the least place at which it would not, which takes
  no induction theorem.

`MutexOwnershipAgrees`, `MutexPriorityIsHighest` and the action property
`MutexHandedToFirst` hold for any finite set of tasks, any mutexes and any number of
priorities, from `MtxAssumption` and `MtxPriAssumption`, and under `~Deadlocks`: with a
cycle of waits the first two are wrong (section 4).

The right to a FastLock is in one place (`RightInOnePlace`): with its
holder, with a task about to signal, in the semaphore, or nowhere when the counter is
-1; and the counter is the number of those inside. A bit of a FastMLock is set exactly
while one task has that lock. From this (`FastInductive`) `FastLocksRefine` maps every
step, timeouts included, to a step of `ExclusiveLock` or a stutter: the safety part of
`ImplementsLock`. `FastLockWakes` says that a signal is never lost in the
window between counter and semaphore.

`WaitQueue_proofs.tla` has the lemmas about queues the others use. `Lists(q, S)`: the
queue holds the elements of S, each once; `InOrder(q, pri)`: in the order of their
priorities. They say what appending, inserting by priority, removing and taking the
front do to both.

`Rendezvous_proofs.tla`. `RdvInv` (`RdvInductive`) has two halves. `NumbersInv`: a known
number lies as many rendezvous behind the counter of its task as its age says
(`Behind`), modulo `RDVNO_MOD`, and only age 0 may still go on; that tells equal
numbers apart when the counter has wrapped. `PortsInv`: the two queues of a port list
those who wait there, no pair in them matches, and each wait has the terms of its port.
Both are needed at once for a forward, which ends one wait, starts another and may
accept it in the same step. Theorems `NumbersNameRendezvous`, `NoPairIsLeft`,
`TermsAreKept`, from `RdvAssumption` and `NoInfoAssumption`.

`Timer_proofs.tla`. `TimerInv` (`TimerInductive`): the queue lists the started events in
the order of their times, nothing due is left while no handler is called, and the
time of an alarm or delay is the one asked for. The event loop is a choice among the
places where it can stop, so that no induction over the queue is needed: an ordered
queue gives what is due as its front part. Theorems `EventsStayOrdered`, `CyclesStayInPhase`
(with the division of `cyc_next_time`, `CycNextTime`) and `NothingEndsEarly`.

`Subsystem_proofs.tla` has two invariants. `FInv` (`FramesInductive`) speaks of one task,
its stack and its control block: the fields saved in the frames form a chain in which
a call not marked as broken was not broken (`Chained`), the marks in `texflg` are those of
the functions that run (`Marked`), an exception that is due is in `exectex` or in a saved
copy of it (`Owing`), the priority is raised only in a break function, and `sysmode`
counts the frames. `BreaksOnce` and `ExceptionsKept` follow, for every depth of calls
and whether or not break functions make calls. `LInv` (`LocksInductive`) relates tasks: each
has the lock that its place in its call says, a lock has one owner, and a queue
for it lists tasks that have none. It needs `~BreakCalls`: with calls in break functions a
lock taken twice is given up once (`klock.c:103`, section 4), and then the
statement is wrong. `TasksUnwind` and `BreaksAlone` follow under the same condition.

`Device_proofs.tla`. The manager gives its lock up around every call of the driver, so
what it may rely on afterwards is what others cannot have changed meanwhile. `DevInv`
(`DeviceInvariant`) says what that is: the synchronisation queue lists who opens or
closes, and its first is at work or has been woken (`SyncInv`); an open block is opened
or closed by one task, its own or the one that cleans up after it (`BlockInv`,
`CleanupInv`); its queue lists its requests, each call of the driver has requests that
no one else waits for, and `nwaireq` belongs to one wait for any request (`QueueInv`,
`TaskInv`, `AnyInv`); `abort_tskid` names a task that is still aborting, and `abort_cnt`
counts the calls that have to come back to it (`AbortInv`); the driver has open what the
complete opens say (`OpenInv`). `DeviceOneDriverCall`, `DeviceDriverOpen`,
`DeviceRequestsOwned` and `DeviceWaitersWillBeWoken` follow, for any number of tasks,
opens, requests and units. The conditions are `~AbortRace` and `~MixedWaits`: with the
first the signal of an abort may be left over and let two tasks into the driver (run
`device_abort`), with the second a wait for any request of an open takes over one
that another task is still starting; both are in the code (section 4), and the statements are wrong with them.

`DriverInterface_proofs.tla`. `GdiInv` (`DriverInvariant`) ties five things together that
the code keeps apart: requests (`ReqInv`), blocks (`BlockInv`), queues and counts
(`QueueInv`, `CountInv`), the bits of the event flag (`FlagInv`), and, for each place a
call can be at, what it may count on there (`CallInv`; `AbortInv` and `ReplyInv` for
those who abort it or reply to it). `FlagInv` is what the wake-ups rest on: who has found
no block, or nothing to accept, and is not asleep yet, still cannot have one or has its
bit set. `without`, the loop that takes ended blocks off the accept queue, is a recursive
function; that it keeps the others in the queue, each once (`WithoutList`), is shown by
the least place at which it would not. `DriverBlocksAccounted` and
`DriverNobodyLeftAsleep` hold for any number of tasks, driver tasks, requests, blocks and
any limit, of the behaviours in which two things never happen. `ClosesWithoutEvent`: a
task that comes to close the device has no completion event left over (`gdrvif.c:722`
clears it with `tk_wai_tev(TMO_POL)`, which a wait mask makes fail); otherwise its wait
ends before the request is complete, and the request is unregistered with its block in
use. `AbortsItsOwn`: the block named by a request to be aborted has not gone to another
request (`gdrvif.c:766`: `exinf` is not reset). TLC finds both broken within 20 steps
when nothing keeps them (two tasks, two requests): they are defects of the code and not
of the proof, the properties fail after them, and `MCLibraryBound` leaves them out too.

### Model-checked only

- Liveness: `RoundRobin`, `DispatchHappens`, `LoopEnds` and the liveness of
  `ImplementsLock`. TLAPS does not prove properties from fairness.
- `NoServableWaiter`, `NoOvertaking`, `ConsumedInOrder`, `WaitsAgree`: what they depend on
  is computed by loops over the queues that change tasks as they go, each kind of object
  with its own. A loop that is a recursive function can be proved about with a least
  counterexample (`WithoutList`, `Stands`); here it would take that for the release hooks
  of each of the six kinds, whose loops are folds.
- `ImplementsMessageQueue`, `PoolsPartitioned`, `PagesPartitioned`, `HeapsPartitioned`:
  the same, over links, words and areas.
- Of `DriverInterface`, `EventMeansCompletion`: it does not hold (section 4).

## 6. Not modelled

- Drivers (`driver/`), board and processor set-up: register I/O. What drivers share,
  the request queue of `gdrvif.c`, is modelled; the simple interface of `sdrvif.c` calls
  the driver inside a fast lock and keeps nothing between calls.
- The monitor: sequential commands on the hardware, outside the kernel.
- System call stubs and traps (`lib/libsvc`, `lib/libtm`, exception entries of
  `cpu_support.S`): generated or data movement.
- Start-up, configuration parsing, logging, strings: sequential, or formatting.
- Information calls (`tk_ref_*`, `td_*`), object names, register get and set: they
  read, format or copy.
- Resource control blocks of subsystems (`tk_cre_res`, `tk_get_res`), `tk_set_tim`, the
  power mode, and the devices' event notification: a value that nothing modelled reads.
- Of the task events only the one the driver interface uses (`tk_sig_tev`, `tk_wai_tev`).
- `tk_ter_tsk` and other calls a handler may not make are made by tasks only.
- Most of the sources are in the first four items; the kernel proper and the parts of
  the libraries with shared state are covered.

## 7. What is next

In this order, each from an invariant a run already checks:

1. `Wait`: the queues hold the waiting tasks (`WaitsAgree`), with the lemmas of
   `WaitQueue_proofs` and the loops of the hooks as recursive functions, as in `Mutex`.
2. `SystemMemory`: the page table (`PagesPartitioned`), a partition of an interval.
3. `DriverInterface` without its two conditions: which part of `BlocksAccounted`
   survives a block that the wrong request was ended for.
