# Formal models of the CS439 kernel projects

The repository holds the projects of an operating systems course: a mini shell
(`Project0`), the threads project of Pintos (`Project1`), and Pintos trees with
user programs, virtual memory and a file system (`userprog_PintOS`,
`vm_PintOS`, `fs_PintOS`), together with design documents (`HW`).  This
directory models the parts whose correctness depends on the order of events,
checks them with TLC on small instances, and proves the central invariants with
TLAPS for every instance.

## 1. Inventory

| Part | Source | State | Operations | What makes it hard |
| --- | --- | --- | --- | --- |
| Priority scheduler | `Project1/thread.c` | `ready_list`, status and priority of threads, time slice | create, block, unblock, yield, exit, set priority, idle, tick | `thread_unblock` preempts its caller; `thread_set_priority` runs with interrupts on; nothing sorts the queue |
| Synchronisation | `Project1/synch.c` | semaphore value and waiters, lock holder, condition waiters | down, try, up, acquire, release, wait, signal, broadcast | a wake-up may be overtaken; locks and conditions are several regions; calls from interrupt handlers |
| Alarm clock | `Project1/timer.c` | `ticks`, `wait_list`, wake-up times | `timer_sleep`, `timer_interrupt` | the list is changed with interrupts on |
| Processes | `fs_PintOS/userprog/process.c`, `syscall.c`, `threads/thread.c` | parent and child records, semaphores, open files, `filesys_lock` | exec, wait, exit, file calls | failed loads; exit before, during and after wait; early returns that keep the lock |
| File system | `fs_PintOS/filesys/*` | free map, inodes, directories, open inodes | create, open, read, write, extend, remove, close | growth by two writers; failure half way; removal while open |
| Virtual memory | `vm_PintOS/vm/*`, `exception.c` | frame list, swap slots, supplemental pages | get, evict and free a frame, swap in and out, page fault | nested and missing locks; stale mappings |
| Mini shell | `Project0/msh.c`, `jobs.c` | job table, signals pending and blocked | eval, fg, bg, SIGCHLD, SIGINT, SIGTSTP | a handler between any two statements; signals that coalesce |
| Pintos library and drivers | `lib/kernel`, `threads/palloc.c`, `malloc.c`, `devices/*` | bitmaps, lists, hash tables, free pages, device queues | stock operations | bounded queues between handlers and threads |

`PROJECT.json` lists the parts one by one (`components`), with those that are
not modelled and why, and the places where the code could go wrong in a way a
test would hardly show (`hazards`).

Properties worth having, part by part: the right thread runs, and queues hold
what they should (scheduler); no wake-up is lost or doubled, one owner per lock,
wake-up in priority order (synchronisation); no early, late or lost wake-up
(alarm); wait returns each child's status once and neither side hangs
(processes); descriptors are closed exactly once and the file system lock is
returned (system calls); no sector is in two files or leaks, and data written is
data read (file system); a page's content survives eviction (virtual memory);
the table agrees with the children, and every child is reaped (shell).

## 2. Plan

1. **Scheduler** (done): `Scheduler` on `KernelList`; proofs in
   `KernelListProofs` and `SchedulerProofs`.
2. **Synchronisation** (done): `Synch` composes semaphores, locks and condition
   variables with the scheduler; each lock refines `Mutex`.  Proofs in
   `SynchProofs` and `LockProofs`.
3. **Alarm clock** (done): `Alarm`, on the same scheduler.
4. **Processes**: `Process` (exec, wait, exit, failed load, orphaned children),
   `Descriptors` (file descriptors and `filesys_lock` over every return path).
5. **Mini shell**: `Shell`, a process table of the operating system (external)
   with coalescing SIGCHLD, the job table, and `eval`, `do_bgfg`, `waitfg` and
   the handlers as interleaved steps.
6. **File system**: `Inode` (sector index, growth by several writers, roll-back
   of allocations, removal while open) against an abstract file as a sequence
   of bytes; `Directory`.
7. **Virtual memory**: `Frames`.
8. **Library and devices**: `Intq`, page allocator, bitmaps and list sorting as
   operators against reference definitions.

Proofs follow the models.  Of `Synch`, the type invariant, `WaitersSorted`,
`NoLostWakeup` and `SignalledOnce` are next.

## 3. What is modelled

### One CPU, regions with interrupts off

Pintos has one CPU.  A step of the models is what the running thread does in one
region with interrupts off, or one run of an interrupt handler.  Wherever the
code has interrupts on between two such regions, the thread stops at a label
`pc[t]` (each module's header lists its labels, `arg[t]` is the argument of the
call it is in), and the timer may preempt it there.  Code between two regions
that touches nothing shared is merged with one of them.

### `KernelList`

`list_insert_ordered` of `lib/kernel/list.c` as an operator on sequences.  The
comparison is passed as the set of the elements it puts the new one in front of.

### `Scheduler` (`Project1/thread.c`)

`current`, `status`, `priority`, `ready_list` and `thread_ticks` are the
kernel's variables.  The operators `schedule`, `thread_block`, `thread_yield`
and `thread_unblock` say what the functions do to them; the actions are the
calls threads make and the interrupts.

- `thread_unblock` yields in the middle of its caller when the woken thread has
  a higher priority.  In an interrupt handler that yield fails `ASSERT
  (!intr_context ())`: `panicked` becomes true and nothing happens any more.
- `thread_set_priority` has three steps.  With an empty run queue it reads the
  priority of an entry that is no thread, a free choice in the model.
- A thread is a page: `FREE`, then `BLOCKED` in `thread_create`, and `FREE`
  again when its successor has destroyed it.
- `thread_create` without memory changes nothing and is not a step.  `tid`s,
  names, stacks and `all_list` are left out.

### `Synch` (`Project1/synch.c`), `Mutex`

Semaphores, locks and condition variables, on the scheduler's data.  A lock and
the semaphore in it are one object; the semaphore on the stack of `cond_wait`
is named by its thread.

- `sema_down` is one step from its start, or from where it was woken, to where
  it returns or blocks again.  A woken thread still has interrupts off.
- `lock_acquire` is `sema_down` and the store to `holder`; `lock_release` the
  store and `sema_up`.  `cond_wait` is five steps.
- `cond_wait` sorts with a comparison that reads a `semaphore_elem` as a
  `struct thread`.  What it reads is other threads' stack, so a waiter may
  be inserted anywhere.
- `held` records what the completed calls have given each thread.  Clients are
  arbitrary but respect the comments of the functions: they release what they
  hold, do not acquire it twice, use a condition variable with its lock, and do
  not exit with a lock.

`Mutex` is what `lock_init`'s comment promises: the running thread takes a free
lock, or gives up its own.  A lock's abstract owner is whoever is between the
success of `sema_down` and `sema_up`.

### `Alarm` (`Project1/timer.c`)

`timer_sleep` changes `wait_list` with interrupts on, so the list is modelled as
`next` and `prev` pointers, and each assignment of `list_insert` is a step.  The
loop of `timer_interrupt` is modelled turn by turn, with `irq` its cursor.  A
negative or zero sleep returns at once and is not a step.

## 4. What the runs check

| Run | Result | Shows |
| --- | --- | --- |
| `scheduler` | holds | run queue = READY threads, once each, sorted; the highest priority runs; the CPU is never handed down; top-priority threads take turns |
| `locks` | holds | one list element per thread; one owner per lock; holder agrees with the calls made; release hands over to a higher-priority waiter at once; refinement of `Mutex` |
| `semaphores` | holds | no wake-up is lost; waiters in priority order |
| `condvars` | holds | each waiter queued or signalled exactly once, no element left behind |
| `alarm_one_sleeper` | holds | a single sleeper is never woken early or twice |
| `interrupt_up` | violated | `sema_up` from a handler panics when it wakes a more important thread |
| `unblock_preempts` | violated | `thread_unblock` preempts its caller, against its comment |
| `donation` | violated | no donation takes place, against the design document |
| `signal_order` | violated | `cond_signal` wakes a less important waiter first |
| `alarm_interrupt` | violated | a tick between two pointer writes loses the next sleep |
| `alarm_two_sleepers` | violated | with two sleepers a sleep ends early |

The violated ones are disagreements of the code with its own documents,
explained in `PROJECT.json` (`findings`).

**Bounds.**  Three threads besides the idle thread: one to run, one to wait, one
to overtake.  Three priorities where their order matters (higher, equal and
lower than the default), two for condition variables.  `TIME_SLICE` is 1 or 2:
with 1 the timer may preempt at every label, 2 exercises the counter.
`MaxValue` (2) bounds a semaphore from above, so that two units and two woken
threads coexist.  `MaxTicks` (6) is long enough for two sleeps in a row; the
timer stops there, so deadlock is not checked in `Alarm`.

**Fairness.**  Only the scheduler has a liveness property.  It assumes that the
timer keeps interrupting (it is hardware, and no thread runs with interrupts off
for ever) and that the idle thread's loop goes on.  Nothing is assumed of other
threads; in particular they need never block or yield.

## 5. What is proved

`KernelListProofs`: for lists of any length, `list_insert_ordered` adds exactly
the new element (`InsertOrderedMembers`) and keeps a sorted list sorted
(`InsertOrderedSorted`); taking the front of a list without duplicates removes
that element and no other (`PopFront`).

`SchedulerProofs`: for any threads, priorities and time slice, the type
invariant, `RunQueueOwnership`, `RunQueueSorted`, `HighestPriorityRuns` and
`NeverYieldsDown`.  The assumptions are those named in `Scheduler`: the idle
thread is not one of the others, `PRI_MIN <= PRI_DEFAULT <= PRI_MAX`, and a time
slice is positive.  The inductive invariant `KernelInv` is the conjunction of
these properties and `Created`: between the two regions of `thread_create` the
new thread is still BLOCKED and being created by one thread only.  Without it,
`thread_unblock` could be applied to a thread already queued.  Lemmas
`ScheduleEffect`, `BlockEffect`, `YieldEffect` and `UnblockEffect` say what each
operator does to a consistent run queue, and each action follows from one of
them.

`SynchProofs`: for any semaphores, locks and condition variables besides,
`ElemOwnership` and `HighestPriorityRuns`.  The assumptions added are those of
`Synch`: semaphores, locks and threads are different objects, none is `NULL`,
and every condition variable has a lock.  The inductive invariant `BaseInv`
joins `KernelInv` to the wait lists, the arguments of suspended calls, and
`Fresh`: a page without a thread and a thread not yet unblocked are in no call.
Without it `thread_create` could reset the label of a thread that is queued, or
unblock one that is on a wait list.  A step leaves the lists alone, queues
the current thread, or wakes the front of a wait list (`QuietStep`,
`SleepStep`, `WakeStep`).

`LockProofs`: `LockExclusion`, `OneOwner` and the refinement of `Mutex`.
`OneOwner` is not inductive: `LockInv` adds which locks a thread has in the
middle of acquiring, releasing and waiting (`LockCalls`), where the semaphore
and `holder` disagree.  Every step leaves the owners alone, or lets the current
thread take or give up one lock (`OwnerStep`), which is also the simulation of
`Mutex` (`MutexStep`).

Only model-checked: the liveness property `TopPriorityRuns` (fairness and
`ENABLED` are outside the prover's reach), of `Synch` the type invariant,
`NoLostWakeup`, `WaitersSorted`, `SignalledOnce` and `ReleaseHandsOver`, and
everything about `Alarm`.

## 6. Not modelled

See the plan and `components`.  Within the modelled parts: timer calibration and
busy waits, statistics, thread names and stack frames, and the `printf` in
`cond_wait`.
