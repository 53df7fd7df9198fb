----------------------------- MODULE Scheduler ------------------------------
(***************************************************************************)
(* The priority scheduler of Project1/thread.c.                            *)
(*                                                                         *)
(* Pintos runs on one CPU, so a step is what the running thread, current,  *)
(* does with interrupts off, or one run of an interrupt handler.  Where a  *)
(* function leaves interrupts on between two such regions, the thread      *)
(* waits at a label pc[t] and the timer may preempt it there:              *)
(*                                                                         *)
(*   "run"      in its own code, free to call the kernel                   *)
(*   "create"   in thread_create, the new thread arg[t] initialised and    *)
(*              not yet unblocked                                          *)
(*   "set_pri"  in thread_set_priority, the new priority stored            *)
(*   "yield"    in thread_set_priority, about to call thread_yield         *)
(*   "hlt"      the idle thread, waiting for the next interrupt            *)
(*                                                                         *)
(* A thread is a page: FREE until thread_create takes it, and FREE again   *)
(* once the thread that follows a dying one has released it.               *)
(***************************************************************************)
EXTENDS KernelList, Integers

CONSTANTS
    Threads,         \* pages for kernel threads, the idle thread's excluded
    initial_thread,  \* the one the kernel boots in
    idle_thread,
    NULL,
    PRI_MIN, PRI_DEFAULT, PRI_MAX,
    TIME_SLICE       \* timer ticks a thread may run before it must yield

ASSUME ThreadsAssumption ==
    /\ initial_thread \in Threads
    /\ idle_thread \notin Threads
    /\ NULL \notin Threads \cup {idle_thread}

ASSUME PriorityAssumption ==
    /\ PRI_MIN \in Int /\ PRI_DEFAULT \in Int /\ PRI_MAX \in Int
    /\ PRI_MIN <= PRI_DEFAULT /\ PRI_DEFAULT <= PRI_MAX

ASSUME TimeSliceAssumption == TIME_SLICE \in Nat \ {0}

AllThreads == Threads \cup {idle_thread}
Priorities == PRI_MIN..PRI_MAX
Statuses   == {"FREE", "RUNNING", "READY", "BLOCKED", "DYING"}

VARIABLES
    current,       \* running_thread ()
    status,        \* struct thread, status
    priority,      \* struct thread, priority
    ready_list,
    thread_ticks,  \* timer ticks since the last yield
    panicked,      \* an ASSERT failed and the kernel has stopped
    pc, arg

schedVars == <<current, status, priority, ready_list, thread_ticks>>
vars      == <<schedVars, panicked, pc, arg>>

-----------------------------------------------------------------------------
(***************************************************************************)
(* thread.c.  The operators describe what the functions do to current,     *)
(* status, ready_list and thread_ticks; stat, list and pri are the values  *)
(* that status, ready_list and priority have by then.                      *)
(***************************************************************************)

\* Bug: an element goes in front of its equals.
value_less_bug(t, pri) == {e \in AllThreads : pri[t] >= pri[e]}

\* value_less (t, e), for every e: t goes in front of lower priorities.
value_less(t, pri) == {e \in AllThreads : pri[t] > pri[e]}

\* schedule, next_thread_to_run and thread_schedule_tail.  The thread that
\* was running has already taken its new status; a dying one is destroyed by
\* its successor, except for initial_thread, which palloc did not allocate.
schedule(list, stat) ==
    LET next == IF list = <<>> THEN idle_thread ELSE Head(list)
    IN  /\ current' = next
        /\ ready_list' = IF list = <<>> THEN list ELSE Tail(list)
        /\ status' = [stat EXCEPT
               ![current] = IF @ = "DYING" /\ current # initial_thread THEN "FREE" ELSE @,
               ![next] = "RUNNING"]
        /\ thread_ticks' = 0

thread_block == schedule(ready_list, [status EXCEPT ![current] = "BLOCKED"])

\* Bugs: the idle thread is queued too; the queue is FIFO, as before Project 1.
thread_yield_idle_bug(list, stat, pri) ==
    schedule(list_insert_ordered(list, current, value_less(current, pri)),
             [stat EXCEPT ![current] = "READY"])

thread_yield_fifo_bug(list, stat, pri) ==
    schedule(IF current = idle_thread THEN list ELSE Append(list, current),
             [stat EXCEPT ![current] = "READY"])

thread_yield(list, stat, pri) ==
    schedule(IF current = idle_thread THEN list
             ELSE list_insert_ordered(list, current, value_less(current, pri)),
             [stat EXCEPT ![current] = "READY"])

\* Bug: the woken thread goes to the back of the queue.
unblockedList_bug(t, pri) == Append(ready_list, t)

\* thread_unblock, up to the point where it may yield.
unblockedList(t, pri) == list_insert_ordered(ready_list, t, value_less(t, pri))
unblockedStatus(t)    == [status EXCEPT ![t] = "READY"]

\* Bug: thread_unblock never yields, as before Project 1.
mustYield_bug(t, pri) == FALSE

\* The condition on which thread_unblock gives up the CPU.
mustYield(t, pri) ==
    /\ pri[current] < pri[Head(unblockedList(t, pri))]
    /\ current # idle_thread

thread_unblock(t, pri) ==
    IF mustYield(t, pri)
    THEN thread_yield(unblockedList(t, pri), unblockedStatus(t), pri)
    ELSE /\ ready_list' = unblockedList(t, pri)
         /\ status' = unblockedStatus(t)
         /\ UNCHANGED <<current, thread_ticks>>

-----------------------------------------------------------------------------
(***************************************************************************)
(* What the running thread does.                                           *)
(***************************************************************************)
Running(label) ==
    /\ ~panicked
    /\ current \in Threads
    /\ pc[current] = label

\* thread_create, until the new thread is complete.  init_thread leaves it
\* BLOCKED and on no list; its tid comes from a counter under tid_lock.
ThreadCreate(t, p) ==
    /\ Running("run")
    /\ status[t] = "FREE"
    /\ status' = [status EXCEPT ![t] = "BLOCKED"]
    /\ priority' = [priority EXCEPT ![t] = p]
    /\ pc' = [pc EXCEPT ![current] = "create", ![t] = "run"]
    /\ arg' = [arg EXCEPT ![current] = t]
    /\ UNCHANGED <<current, ready_list, thread_ticks, panicked>>

ThreadCreateUnblock ==
    /\ Running("create")
    /\ thread_unblock(arg[current], priority)
    /\ pc' = [pc EXCEPT ![current] = "run"]
    /\ arg' = [arg EXCEPT ![current] = NULL]
    /\ UNCHANGED <<priority, panicked>>

ThreadYield ==
    /\ Running("run")
    /\ thread_yield(ready_list, status, priority)
    /\ UNCHANGED <<priority, panicked, pc, arg>>

ThreadExit ==
    /\ Running("run")
    /\ schedule(ready_list, [status EXCEPT ![current] = "DYING"])
    /\ UNCHANGED <<priority, panicked, pc, arg>>

\* thread_set_priority runs with interrupts on: it stores the priority, looks
\* at the head of the run queue, and yields, in three separate steps.
ThreadSetPriority(p) ==
    /\ Running("run")
    /\ priority' = [priority EXCEPT ![current] = p]
    /\ pc' = [pc EXCEPT ![current] = "set_pri"]
    /\ UNCHANGED <<current, status, ready_list, thread_ticks, panicked, arg>>

\* Bug: lowering the priority never gives up the CPU.
headIsHigher_bug == {FALSE}

\* The head of an empty run queue is not a thread: what is read there as its
\* priority is whatever the linker put in front of ready_list.
headIsHigher ==
    IF ready_list = <<>> THEN {TRUE, FALSE}
    ELSE {priority[Head(ready_list)] > priority[current]}

SetPriorityCheck ==
    /\ Running("set_pri")
    /\ \E higher \in headIsHigher :
          pc' = [pc EXCEPT ![current] = IF higher THEN "yield" ELSE "run"]
    /\ UNCHANGED <<schedVars, panicked, arg>>

SetPriorityYield ==
    /\ Running("yield")
    /\ thread_yield(ready_list, status, priority)
    /\ pc' = [pc EXCEPT ![current] = "run"]
    /\ UNCHANGED <<priority, panicked, arg>>

\* One turn of the loop in idle: block, and wait for an interrupt once
\* scheduled again.
IdleBlock ==
    /\ ~panicked
    /\ current = idle_thread /\ pc[idle_thread] = "run"
    /\ thread_block
    /\ pc' = [pc EXCEPT ![idle_thread] = "hlt"]
    /\ UNCHANGED <<priority, panicked, arg>>

(***************************************************************************)
(* Interrupts.  An interrupt ends the idle thread's hlt.                   *)
(***************************************************************************)
interruptReturn ==
    pc' = IF current = idle_thread THEN [pc EXCEPT ![idle_thread] = "run"] ELSE pc

\* Bug: the time slice is one tick too long.
Tick_bug ==
    /\ ~panicked
    /\ IF thread_ticks >= TIME_SLICE
       THEN thread_yield(ready_list, status, priority)
       ELSE /\ thread_ticks' = thread_ticks + 1
            /\ UNCHANGED <<current, status, ready_list>>
    /\ interruptReturn
    /\ UNCHANGED <<priority, panicked, arg>>

\* The timer: thread_tick, and the yield on return that it may request.
Tick ==
    /\ ~panicked
    /\ IF thread_ticks + 1 >= TIME_SLICE
       THEN thread_yield(ready_list, status, priority)
       ELSE /\ thread_ticks' = thread_ticks + 1
            /\ UNCHANGED <<current, status, ready_list>>
    /\ interruptReturn
    /\ UNCHANGED <<priority, panicked, arg>>

\* thread_unblock called from an interrupt handler.  When it wants to yield,
\* thread_yield's ASSERT (!intr_context ()) stops the kernel.
interruptUnblock(t) ==
    /\ ready_list' = unblockedList(t, priority)
    /\ status' = unblockedStatus(t)
    /\ panicked' = mustYield(t, priority)
    /\ interruptReturn
    /\ UNCHANGED <<current, priority, thread_ticks, arg>>

\* After a panic the machine is only good for a reset.
Halted == panicked /\ UNCHANGED vars

-----------------------------------------------------------------------------
(***************************************************************************)
(* The scheduler on its own: threads block when they please, and any       *)
(* thread or interrupt handler may wake a thread that has blocked itself.  *)
(***************************************************************************)
beingCreated == {arg[u] : u \in {v \in Threads : pc[v] = "create"}}
sleeping == {t \in Threads : status[t] = "BLOCKED"} \ beingCreated

ThreadBlock ==
    /\ Running("run")
    /\ thread_block
    /\ UNCHANGED <<priority, panicked, pc, arg>>

ThreadUnblock(t) ==
    /\ Running("run")
    /\ t \in sleeping
    /\ thread_unblock(t, priority)
    /\ UNCHANGED <<priority, panicked, pc, arg>>

InterruptUnblock(t) ==
    /\ ~panicked
    /\ t \in sleeping
    /\ interruptUnblock(t)

\* thread_start has returned: the idle thread has blocked for the first time.
SchedInit ==
    /\ current = initial_thread
    /\ status = [t \in AllThreads |-> IF t = initial_thread THEN "RUNNING"
                                      ELSE IF t = idle_thread THEN "BLOCKED" ELSE "FREE"]
    /\ priority = [t \in AllThreads |->
                      IF t = idle_thread THEN PRI_MIN ELSE PRI_DEFAULT]
    /\ ready_list = <<>>
    /\ thread_ticks = 0
    /\ panicked = FALSE
    /\ pc = [t \in AllThreads |-> IF t = idle_thread THEN "hlt" ELSE "run"]
    /\ arg = [t \in AllThreads |-> NULL]

SchedNext ==
    \/ \E t \in Threads, p \in Priorities : ThreadCreate(t, p)
    \/ ThreadCreateUnblock
    \/ ThreadBlock
    \/ \E t \in Threads : ThreadUnblock(t)
    \/ ThreadYield
    \/ ThreadExit
    \/ \E p \in Priorities : ThreadSetPriority(p)
    \/ SetPriorityCheck
    \/ SetPriorityYield
    \/ IdleBlock
    \/ Tick
    \/ \E t \in Threads : InterruptUnblock(t)
    \/ Halted

(***************************************************************************)
(* The timer keeps interrupting, and the idle thread's loop takes its next *)
(* turn after every interrupt.  Nothing is assumed about other threads.    *)
(***************************************************************************)
SchedFairness == WF_vars(Tick) /\ WF_vars(IdleBlock)

SchedSpec == SchedInit /\ [][SchedNext]_vars /\ SchedFairness

-----------------------------------------------------------------------------
(***************************************************************************)
(* What the scheduler guarantees.                                          *)
(***************************************************************************)

\* Every variable has its type; in particular a thread never exceeds its time
\* slice, which thread_tick counts and every switch restarts.
SchedTypeOK ==
    /\ current \in AllThreads
    /\ status \in [AllThreads -> Statuses]
    /\ priority \in [AllThreads -> Priorities]
    /\ ready_list \in Seq(Threads)
    /\ thread_ticks \in 0..(TIME_SLICE - 1)
    /\ panicked \in BOOLEAN
    /\ pc \in [AllThreads -> {"run", "create", "set_pri", "yield", "hlt"}]
    /\ arg \in [AllThreads -> Threads \cup {NULL}]

\* A thread's one list element is on the run queue exactly while the thread is
\* READY, once, and the idle thread's never is; exactly the current thread is
\* RUNNING (thread.h, "mutually exclusive"; thread_current's ASSERT).
RunQueueOwnership ==
    /\ ready_list \in Seq(Threads)
    /\ NoDuplicates(ready_list)
    /\ \A t \in Threads : status[t] = "READY" <=> t \in Range(ready_list)
    /\ \A t \in AllThreads : status[t] = "RUNNING" <=> t = current

\* "EVERYTHING SHOULD HAVE BEEN INSERTED IN ORDER": although no function ever
\* sorts the run queue, it stays sorted while priorities change.
RunQueueSorted ==
    \A i, j \in 1..Len(ready_list) :
        i < j => priority[ready_list[i]] >= priority[ready_list[j]]

\* No READY thread has a higher priority than the running one, except while
\* thread_set_priority is on its way to yield, and while the idle thread has
\* yet to notice that an interrupt handler woke somebody.
HighestPriorityRuns ==
    (~panicked /\ current # idle_thread /\ pc[current] \notin {"set_pri", "yield"})
    => \A t \in Threads :
          status[t] = "READY" => priority[t] <= priority[current]

\* A thread that loses the CPU without blocking or exiting loses it to a thread
\* of at least its own priority.
NeverYieldsDown ==
    [][ (current' # current /\ current # idle_thread /\ status'[current] = "READY")
        => priority[current'] >= priority[current] ]_vars

\* Equal priorities take turns: a READY thread of the highest priority gets the
\* CPU however long the others would like to keep it.
TopPriorityRuns ==
    \A t \in Threads :
        (status[t] = "READY" /\ priority[t] = PRI_MAX)
            ~> (status[t] = "RUNNING" \/ panicked)

\* synch.c on sema_up: "This function may be called from an interrupt handler."
\* sema_up wakes with thread_unblock, so no such call may stop the kernel.
InterruptMayUnblock == ~panicked

\* thread.c on thread_unblock: "This function does not preempt the running
\* thread."
UnblockDoesNotPreempt ==
    [][ \A t \in Threads : ThreadUnblock(t) => current' = current ]_vars
=============================================================================
