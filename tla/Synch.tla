------------------------------- MODULE Synch --------------------------------
(***************************************************************************)
(* Semaphores, locks and condition variables of Project1/synch.c, on top   *)
(* of the scheduler.  More labels, all of calls that are not one region    *)
(* with interrupts off:                                                    *)
(*                                                                         *)
(*   "down", "acq", "wait_block"  blocked in sema_down, of a semaphore, of *)
(*               a lock's or of cond_wait's own; interrupts are still off  *)
(*               when the thread runs again                                *)
(*   "own"       in lock_acquire, has the semaphore, holder not yet set    *)
(*   "rel"       in lock_release, holder cleared, before sema_up           *)
(*   "wait_rel", "wait_up", "wait_down", "wait_acq"  in cond_wait: queued; *)
(*               lock half released; released; signalled                   *)
(*   "sig_up"    in cond_signal, waiter removed, before sema_up            *)
(*   "bcast", "bcast_up"  in cond_broadcast: loop head; as "sig_up"        *)
(*                                                                         *)
(* Client code is arbitrary, but respects what the header comments ask of  *)
(* it: it releases only locks it has acquired, does not acquire one twice, *)
(* uses a condition variable with its lock held, and does not exit with a  *)
(* lock.  The ASSERTs about holder are thus properties here, not guards.   *)
(***************************************************************************)
EXTENDS Scheduler, FiniteSets

CONSTANTS
    Semas,     \* semaphores used directly
    InitValue, \* what sema_init gives them
    MaxValue,  \* bound: clients stop raising a semaphore here
    Locks,     \* a lock and the semaphore in it are one object
    Conds,
    lockOf     \* the lock a condition variable is used with

ASSUME SynchAssumption ==
    /\ InitValue \in Nat /\ MaxValue \in Nat /\ InitValue <= MaxValue
    /\ lockOf \in [Conds -> Locks]
    /\ NULL \notin Semas \cup Locks \cup Conds
    /\ Semas \cap Locks = {} /\ Semas \cap Threads = {} /\ Locks \cap Threads = {}

\* Besides the named ones, the semaphore on the stack of a thread's cond_wait.
AllSemas == Semas \cup Locks \cup Threads

VARIABLES
    value, waiters,  \* struct semaphore
    holder,          \* struct lock
    cond_waiters,    \* struct condition, as the threads in cond_wait
    held             \* the locks a thread's completed calls have got it

synchVars == <<value, waiters, holder, cond_waiters, held>>
allVars   == <<vars, synchVars>>

goto(label, a) ==
    /\ pc' = [pc EXCEPT ![current] = label]
    /\ arg' = [arg EXCEPT ![current] = a]

-----------------------------------------------------------------------------
\* Bugs: sema_down tests the value only once, before it sleeps; the wait list is
\* FIFO, as before Project 1.
sema_down_if_bug(s, blocked, a, done, b) ==
    /\ IF value[s] = 0 /\ pc[current] # blocked
       THEN /\ waiters' = [waiters EXCEPT ![s] =
                  list_insert_ordered(@, current, value_less(current, priority))]
            /\ thread_block
            /\ goto(blocked, a)
            /\ UNCHANGED value
       ELSE /\ value' = [value EXCEPT ![s] = @ - 1]
            /\ goto(done, b)
            /\ UNCHANGED <<waiters, current, status, ready_list, thread_ticks>>
    /\ UNCHANGED <<priority, panicked>>

sema_down_fifo_bug(s, blocked, a, done, b) ==
    /\ IF value[s] = 0
       THEN /\ waiters' = [waiters EXCEPT ![s] = Append(@, current)]
            /\ thread_block
            /\ goto(blocked, a)
            /\ UNCHANGED value
       ELSE /\ value' = [value EXCEPT ![s] = @ - 1]
            /\ goto(done, b)
            /\ UNCHANGED <<waiters, current, status, ready_list, thread_ticks>>
    /\ UNCHANGED <<priority, panicked>>

(***************************************************************************)
(* sema_down, from its start or from where it blocked to its return or to  *)
(* where it blocks again.                                                  *)
(***************************************************************************)
sema_down(s, blocked, a, done, b) ==
    /\ IF value[s] = 0
       THEN /\ waiters' = [waiters EXCEPT ![s] =
                  list_insert_ordered(@, current, value_less(current, priority))]
            /\ thread_block
            /\ goto(blocked, a)
            /\ UNCHANGED value
       ELSE /\ value' = [value EXCEPT ![s] = @ - 1]
            /\ goto(done, b)
            /\ UNCHANGED <<waiters, current, status, ready_list, thread_ticks>>
    /\ UNCHANGED <<priority, panicked>>

\* Bugs: nobody is woken; the woken thread stays on the wait list.
sema_up_nowake_bug(s) ==
    /\ value' = [value EXCEPT ![s] = @ + 1]
    /\ UNCHANGED <<schedVars, panicked, waiters>>

sema_up_nopop_bug(s) ==
    /\ value' = [value EXCEPT ![s] = @ + 1]
    /\ IF waiters[s] = <<>>
       THEN UNCHANGED <<current, status, ready_list, thread_ticks>>
       ELSE thread_unblock(Head(waiters[s]), priority)
    /\ UNCHANGED <<waiters, priority, panicked>>

sema_up(s) ==
    /\ value' = [value EXCEPT ![s] = @ + 1]
    /\ IF waiters[s] = <<>>
       THEN UNCHANGED <<waiters, current, status, ready_list, thread_ticks>>
       ELSE /\ waiters' = [waiters EXCEPT ![s] = Tail(@)]
            /\ thread_unblock(Head(waiters[s]), priority)
    /\ UNCHANGED <<priority, panicked>>

-----------------------------------------------------------------------------
(* Semaphores *)

SemaDown(s) ==
    /\ Running("run")
    /\ sema_down(s, "down", s, "run", NULL)
    /\ UNCHANGED <<holder, cond_waiters, held>>

SemaDownResume ==
    /\ Running("down")
    /\ sema_down(arg[current], "down", arg[current], "run", NULL)
    /\ UNCHANGED <<holder, cond_waiters, held>>

SemaTryDown(s) ==
    /\ Running("run")
    /\ value[s] > 0
    /\ value' = [value EXCEPT ![s] = @ - 1]
    /\ UNCHANGED <<vars, waiters, holder, cond_waiters, held>>

SemaUp(s) ==
    /\ Running("run")
    /\ value[s] < MaxValue
    /\ sema_up(s)
    /\ UNCHANGED <<pc, arg, holder, cond_waiters, held>>

-----------------------------------------------------------------------------
(* Locks *)

LockAcquire(l) ==
    /\ Running("run")
    /\ l \notin held[current]
    /\ sema_down(l, "acq", l, "own", l)
    /\ UNCHANGED <<holder, cond_waiters, held>>

LockAcquireResume ==
    /\ Running("acq")
    /\ sema_down(arg[current], "acq", arg[current], "own", arg[current])
    /\ UNCHANGED <<holder, cond_waiters, held>>

\* Bug: lock_try_acquire ignores what sema_try_down returns.
LockTryAcquire_bug(l) ==
    /\ Running("run")
    /\ l \notin held[current]
    /\ value' = [value EXCEPT ![l] = IF @ > 0 THEN @ - 1 ELSE @]
    /\ goto("own", l)
    /\ UNCHANGED <<schedVars, panicked, waiters, holder, cond_waiters, held>>

LockTryAcquire(l) ==
    /\ Running("run")
    /\ l \notin held[current]
    /\ value[l] > 0
    /\ value' = [value EXCEPT ![l] = @ - 1]
    /\ goto("own", l)
    /\ UNCHANGED <<schedVars, panicked, waiters, holder, cond_waiters, held>>

LockOwn ==
    /\ Running("own")
    /\ holder' = [holder EXCEPT ![arg[current]] = current]
    /\ held' = [held EXCEPT ![current] = @ \cup {arg[current]}]
    /\ goto("run", NULL)
    /\ UNCHANGED <<schedVars, panicked, value, waiters, cond_waiters>>

\* Bug: the holder is left in place.
clearHolder_bug(l) ==
    /\ UNCHANGED holder
    /\ held' = [held EXCEPT ![current] = @ \ {l}]

\* The assignment with which lock_release begins.
clearHolder(l) ==
    /\ holder' = [holder EXCEPT ![l] = NULL]
    /\ held' = [held EXCEPT ![current] = @ \ {l}]

LockRelease(l) ==
    /\ Running("run")
    /\ l \in held[current]
    /\ clearHolder(l)
    /\ goto("rel", l)
    /\ UNCHANGED <<schedVars, panicked, value, waiters, cond_waiters>>

LockReleaseUp ==
    /\ Running("rel")
    /\ sema_up(arg[current])
    /\ goto("run", NULL)
    /\ UNCHANGED <<holder, cond_waiters, held>>

-----------------------------------------------------------------------------
(* Condition variables *)

\* cond_wait queues itself with value_less, which takes the semaphore_elem for
\* a struct thread: the order it sees is that of words on other threads'
\* stacks, and the new waiter may end up anywhere.
CondWait(c) ==
    /\ Running("run")
    /\ lockOf[c] \in held[current]
    /\ \E i \in 1..(Len(cond_waiters[c]) + 1) :
          cond_waiters' = [cond_waiters EXCEPT ![c] = list_insert(@, i, current)]
    /\ value' = [value EXCEPT ![current] = 0]
    /\ waiters' = [waiters EXCEPT ![current] = <<>>]
    /\ goto("wait_rel", c)
    /\ UNCHANGED <<schedVars, panicked, holder, held>>

CondWaitRelease ==
    /\ Running("wait_rel")
    /\ clearHolder(lockOf[arg[current]])
    /\ goto("wait_up", arg[current])
    /\ UNCHANGED <<schedVars, panicked, value, waiters, cond_waiters>>

CondWaitUp ==
    /\ Running("wait_up")
    /\ sema_up(lockOf[arg[current]])
    /\ goto("wait_down", arg[current])
    /\ UNCHANGED <<holder, cond_waiters, held>>

CondWaitDown ==
    /\ Running("wait_down") \/ Running("wait_block")
    /\ sema_down(current, "wait_block", arg[current], "wait_acq", arg[current])
    /\ UNCHANGED <<holder, cond_waiters, held>>

CondWaitAcquire ==
    /\ Running("wait_acq")
    /\ LET l == lockOf[arg[current]] IN sema_down(l, "acq", l, "own", l)
    /\ UNCHANGED <<holder, cond_waiters, held>>

\* Bug: the signalled thread stays queued.
popWaiter_bug(c) == UNCHANGED cond_waiters

popWaiter(c) == cond_waiters' = [cond_waiters EXCEPT ![c] = Tail(@)]

CondSignal(c) ==
    /\ Running("run")
    /\ lockOf[c] \in held[current]
    /\ cond_waiters[c] # <<>>
    /\ popWaiter(c)
    /\ goto("sig_up", Head(cond_waiters[c]))
    /\ UNCHANGED <<schedVars, panicked, value, waiters, holder, held>>

CondSignalUp ==
    /\ Running("sig_up")
    /\ sema_up(arg[current])
    /\ goto("run", NULL)
    /\ UNCHANGED <<holder, cond_waiters, held>>

CondBroadcast(c) ==
    /\ Running("run")
    /\ lockOf[c] \in held[current]
    /\ goto("bcast", c)
    /\ UNCHANGED <<schedVars, panicked, synchVars>>

CondBroadcastLoop ==
    /\ Running("bcast")
    /\ LET c == arg[current]
       IN  IF cond_waiters[c] = <<>>
           THEN goto("run", NULL) /\ UNCHANGED cond_waiters
           ELSE popWaiter(c) /\ goto("bcast_up", <<c, Head(cond_waiters[c])>>)
    /\ UNCHANGED <<schedVars, panicked, value, waiters, holder, held>>

CondBroadcastUp ==
    /\ Running("bcast_up")
    /\ sema_up(arg[current][2])
    /\ goto("bcast", arg[current][1])
    /\ UNCHANGED <<holder, cond_waiters, held>>

-----------------------------------------------------------------------------
(***************************************************************************)
(* Interrupts come only while they are on.  A device's handler may raise a *)
(* semaphore, as ide.c's does.                                             *)
(***************************************************************************)
InterruptsOn == pc[current] \notin {"down", "acq", "wait_block"}

InterruptUp(s) ==
    /\ ~panicked
    /\ InterruptsOn
    /\ value[s] < MaxValue
    /\ value' = [value EXCEPT ![s] = @ + 1]
    /\ IF waiters[s] = <<>>
       THEN interruptReturn /\ UNCHANGED <<schedVars, panicked, arg, waiters>>
       ELSE /\ waiters' = [waiters EXCEPT ![s] = Tail(@)]
            /\ interruptUnblock(Head(waiters[s]))
    /\ UNCHANGED <<holder, cond_waiters, held>>

\* thread.c, with its callers now known.
ThreadStep ==
    \/ \E t \in Threads, p \in Priorities : ThreadCreate(t, p)
    \/ ThreadCreateUnblock
    \/ ThreadYield
    \/ ThreadExit /\ held[current] = {}
    \/ \E p \in Priorities : ThreadSetPriority(p)
    \/ SetPriorityCheck
    \/ SetPriorityYield
    \/ IdleBlock
    \/ Tick /\ InterruptsOn
    \/ Halted

SemaStep ==
    \/ \E s \in Semas : SemaDown(s) \/ SemaTryDown(s) \/ SemaUp(s) \/ InterruptUp(s)
    \/ SemaDownResume

LockStep ==
    \/ \E l \in Locks : LockAcquire(l) \/ LockTryAcquire(l) \/ LockRelease(l)
    \/ LockAcquireResume
    \/ LockOwn
    \/ LockReleaseUp

CondStep ==
    \/ \E c \in Conds : CondWait(c) \/ CondSignal(c) \/ CondBroadcast(c)
    \/ CondWaitRelease
    \/ CondWaitUp
    \/ CondWaitDown
    \/ CondWaitAcquire
    \/ CondSignalUp
    \/ CondBroadcastLoop
    \/ CondBroadcastUp

SynchInit ==
    /\ SchedInit
    /\ value = [s \in AllSemas |-> IF s \in Semas THEN InitValue
                                   ELSE IF s \in Locks THEN 1 ELSE 0]
    /\ waiters = [s \in AllSemas |-> <<>>]
    /\ holder = [l \in Locks |-> NULL]
    /\ cond_waiters = [c \in Conds |-> <<>>]
    /\ held = [t \in Threads |-> {}]

SynchNext ==
    \/ ThreadStep /\ UNCHANGED synchVars
    \/ SemaStep
    \/ LockStep
    \/ CondStep

SynchSpec == SynchInit /\ [][SynchNext]_allVars

-----------------------------------------------------------------------------
(***************************************************************************)
(* What synch.c guarantees.                                                *)
(***************************************************************************)
Labels == {"run", "create", "set_pri", "yield", "hlt", "down", "acq", "own", "rel",
           "wait_rel", "wait_up", "wait_down", "wait_block", "wait_acq",
           "sig_up", "bcast", "bcast_up"}

\* What arg[t] is at each label.
LabelArg(label, a) ==
    /\ label \in {"run", "set_pri", "yield", "hlt"} => a = NULL
    /\ label \in {"create", "sig_up"} => a \in Threads
    /\ label = "down" => a \in Semas
    /\ label \in {"acq", "own", "rel"} => a \in Locks
    /\ label \in {"wait_rel", "wait_up", "wait_down", "wait_block", "wait_acq", "bcast"}
          => a \in Conds
    /\ label = "bcast_up" => a \in Conds \X Threads

Args == {NULL} \cup Threads \cup Semas \cup Locks \cup Conds \cup (Conds \X Threads)

\* Every variable has its type, and every suspended call its argument; a
\* lock's semaphore, in particular, is never above 1.
SynchTypeOK ==
    /\ current \in AllThreads
    /\ status \in [AllThreads -> Statuses]
    /\ priority \in [AllThreads -> Priorities]
    /\ thread_ticks \in 0..(TIME_SLICE - 1)
    /\ panicked \in BOOLEAN
    /\ pc \in [AllThreads -> Labels]
    /\ arg \in [AllThreads -> Args]
    /\ \A t \in AllThreads : LabelArg(pc[t], arg[t])
    /\ value \in [AllSemas -> Nat]
    /\ \A s \in AllSemas \ Semas : value[s] <= 1
    /\ waiters \in [AllSemas -> Seq(Threads)]
    /\ holder \in [Locks -> Threads \cup {NULL}]
    /\ cond_waiters \in [Conds -> Seq(Threads)]
    /\ held \in [Threads -> SUBSET Locks]

\* The semaphore in whose sema_down a thread is suspended.
WaitsOn(t, s) ==
    \/ pc[t] \in {"down", "acq"} /\ arg[t] = s
    \/ pc[t] = "wait_block" /\ t = s

\* thread.h: the one list element of a thread serves both the run queue and the
\* wait lists, which "are mutually exclusive".  A thread is on a semaphore's
\* wait list exactly while it is BLOCKED in that semaphore's sema_down, and it
\* is on each list at most once.
ElemOwnership ==
    /\ RunQueueOwnership
    /\ \A s \in AllSemas :
          /\ NoDuplicates(waiters[s])
          /\ \A t \in Threads :
                t \in Range(waiters[s]) <=> status[t] = "BLOCKED" /\ WaitsOn(t, s)

\* Threads woken on s that have not run yet, and so not yet looked at its value.
Woken(s) == {t \in Threads : status[t] # "BLOCKED" /\ WaitsOn(t, s)}

\* No wake-up is lost: while threads are queued on a semaphore, every unit of
\* its value has a thread of its own on the way to take it.  sema_up counts
\* before it wakes, and sema_down re-checks after it sleeps, so that a unit may
\* be snatched but never forgotten.
NoLostWakeup ==
    \A s \in AllSemas : waiters[s] # <<>> => value[s] <= Cardinality(Woken(s))

\* Wait lists stay in priority order, so that sema_up wakes the most important.
WaitersSorted ==
    \A s \in AllSemas : \A i, j \in 1..Len(waiters[s]) :
        i < j => priority[waiters[s][i]] >= priority[waiters[s][j]]

\* A lock that a thread's completed calls have got it is recorded as that
\* thread's (the ASSERTs of lock_release, cond_wait and cond_signal), and hence
\* no other thread has it too; and only such a thread is recorded as holder (the
\* ASSERT of lock_acquire).
LockExclusion ==
    \A l \in Locks, t \in Threads :
        (l \in held[t]) <=> (holder[l] = t)

\* Everyone between sema_down's success in lock_acquire and sema_up in
\* lock_release, on whichever path.
Owns(t, l) ==
    \/ l \in held[t]
    \/ pc[t] \in {"own", "rel"} /\ arg[t] = l
    \/ pc[t] = "wait_up" /\ lockOf[arg[t]] = l

\* A lock's semaphore is 1 exactly while nobody owns the lock, and there is
\* never more than one owner, counting the threads for which holder has not
\* been set yet or has been cleared already.
OneOwner ==
    \A l \in Locks :
        /\ value[l] = 1 <=> ~ \E t \in Threads : Owns(t, l)
        /\ \A t, u \in Threads : Owns(t, l) /\ Owns(u, l) => t = u

\* A thread in cond_wait is either queued, or has been signalled exactly once;
\* and no condition variable keeps the semaphore_elem of a thread that is not in
\* cond_wait, whose stack frame is gone.
InWait(t, c) == pc[t] \in {"wait_rel", "wait_up", "wait_down", "wait_block"} /\ arg[t] = c
Signalling(u, t) ==
    \/ pc[u] = "sig_up" /\ arg[u] = t
    \/ pc[u] = "bcast_up" /\ arg[u][2] = t
SignalledOnce ==
    /\ \A c \in Conds :
          /\ NoDuplicates(cond_waiters[c])
          /\ \A t \in Threads :
                t \in Range(cond_waiters[c]) <=>
                    InWait(t, c) /\ value[t] = 0 /\ ~ \E u \in Threads : Signalling(u, t)
    /\ \A t \in Threads :
          value[t] = 1 \/ (\E u \in Threads : Signalling(u, t))
              => \E c \in Conds : InWait(t, c)
    /\ \A t, u, v \in Threads :
          Signalling(u, t) => value[t] = 0 /\ (Signalling(v, t) => v = u)

\* Design document, B5: when lock_release is called on a lock that a
\* higher-priority thread waits for, "the lock is then handed to that thread": the
\* highest of the waiters runs at once, and finds the lock free.
ReleaseHandsOver ==
    [][ LET l == arg[current]
        IN  LockReleaseUp /\ (\E t \in Range(waiters[l]) : priority[t] > priority[current])
            => /\ current' \in Range(waiters[l])
               /\ \A t \in Range(waiters[l]) : priority[t] <= priority[current']
               /\ pc'[current'] = "acq" /\ value'[l] = 1 ]_allVars

\* Each lock implements the abstract mutex, whose owner changes with the
\* semaphore and not with holder.
lockOwner ==
    [l \in Locks |-> IF \E t \in Threads : Owns(t, l)
                     THEN CHOOSE t \in Threads : Owns(t, l) ELSE NULL]

AbstractMutex == INSTANCE Mutex WITH owner <- lockOwner, running <- current

\* Projecting Synch on who owns which lock gives a behaviour of Mutex: the
\* running thread takes a free lock, or gives up its own.
ImplementsMutex == AbstractMutex!Spec

\* Design document, B4: "we check to see if the current thread has a higher
\* priority that the lock holder.  If this is true, we set the lock holders
\* effective priority to the current threads priority."
DonatesPriority ==
    [][ \A l \in Locks :
            LockAcquire(l) /\ holder[l] # NULL
            => priority'[holder[l]] >= priority[current] ]_allVars

\* Design document, B3: the highest-priority thread waiting for a condition
\* variable is woken first.
SignalWakesHighest ==
    [][ \A c \in Conds :
            CondSignal(c) => \A t \in Range(cond_waiters[c]) :
                                 priority[t] <= priority[Head(cond_waiters[c])] ]_allVars
=============================================================================
