------------------------------- MODULE Alarm --------------------------------
(***************************************************************************)
(* The alarm clock of Project1/timer.c: timer_sleep and timer_interrupt,   *)
(* on top of the scheduler.                                                *)
(*                                                                         *)
(* timer_sleep walks wait_list and links itself into it with interrupts    *)
(* on, while timer_interrupt unlinks sleepers whose time has come.  The    *)
(* list is therefore modelled as list.c has it, next and prev pointers     *)
(* between two sentinels, and each statement of the insertion is a step:   *)
(*                                                                         *)
(*   "walk"   comparing with the element arg[t]                            *)
(*   "link1" ... "link4"  the statements of list_insert (arg[t], t)        *)
(*   "sleep"  about to call sema_down (&t->sema_sleep)                     *)
(*   "asleep" blocked in it; interrupts are still off on return            *)
(*                                                                         *)
(* timer_interrupt runs with interrupts off; irq is its loop cursor, or    *)
(* NULL when it is not running.                                            *)
(***************************************************************************)
EXTENDS Scheduler

CONSTANTS
    HEAD, TAIL,   \* the sentinels of wait_list
    Sleepers,     \* the threads that call timer_sleep
    SleepTicks,   \* with these arguments
    MaxTicks      \* bound: the timer stops here

ASSUME AlarmAssumption ==
    /\ HEAD # TAIL
    /\ {HEAD, TAIL} \cap (AllThreads \cup {NULL}) = {}
    /\ Sleepers \subseteq Threads
    /\ SleepTicks \subseteq Int
    /\ MaxTicks \in Nat

Nodes == Threads \cup {HEAD, TAIL}

VARIABLES
    ticks,
    next, prev,   \* struct thread, waiting_elem
    wakeupTime,
    sema_sleep,   \* its value; only its own thread ever waits on it
    irq

timerVars == <<ticks, next, prev, wakeupTime, sema_sleep, irq>>
alarmVars == <<vars, timerVars>>

goto(label, a) ==
    /\ pc' = [pc EXCEPT ![current] = label]
    /\ arg' = [arg EXCEPT ![current] = a]

InThread(label) == irq = NULL /\ Running(label)

-----------------------------------------------------------------------------
(* timer_sleep *)

TimerSleep(n) ==
    /\ InThread("run")
    /\ current \in Sleepers
    /\ n > 0
    /\ wakeupTime' = [wakeupTime EXCEPT ![current] = ticks + n]
    /\ goto("walk", next[HEAD])
    /\ UNCHANGED <<schedVars, panicked, ticks, next, prev, sema_sleep, irq>>

\* The loop of list_insert_ordered: value_less puts earlier wake-ups first.
Walk ==
    /\ InThread("walk")
    /\ LET e == arg[current]
       IN  IF e = TAIL \/ wakeupTime[current] < wakeupTime[e]
           THEN goto("link1", e)
           ELSE goto("walk", next[e])
    /\ UNCHANGED <<schedVars, panicked, timerVars>>

Link1 ==
    /\ InThread("link1")
    /\ prev' = [prev EXCEPT ![current] = prev[arg[current]]]
    /\ goto("link2", arg[current])
    /\ UNCHANGED <<schedVars, panicked, ticks, next, wakeupTime, sema_sleep, irq>>

Link2 ==
    /\ InThread("link2")
    /\ next' = [next EXCEPT ![current] = arg[current]]
    /\ goto("link3", arg[current])
    /\ UNCHANGED <<schedVars, panicked, ticks, prev, wakeupTime, sema_sleep, irq>>

Link3 ==
    /\ InThread("link3")
    /\ next' = [next EXCEPT ![prev[arg[current]]] = current]
    /\ goto("link4", arg[current])
    /\ UNCHANGED <<schedVars, panicked, ticks, prev, wakeupTime, sema_sleep, irq>>

Link4 ==
    /\ InThread("link4")
    /\ prev' = [prev EXCEPT ![arg[current]] = current]
    /\ goto("sleep", NULL)
    /\ UNCHANGED <<schedVars, panicked, ticks, next, wakeupTime, sema_sleep, irq>>

\* sema_down on the thread's own semaphore.
SleepDown ==
    /\ InThread("sleep") \/ InThread("asleep")
    /\ IF sema_sleep[current] = 0
       THEN thread_block /\ goto("asleep", NULL) /\ UNCHANGED sema_sleep
       ELSE /\ sema_sleep' = [sema_sleep EXCEPT ![current] = @ - 1]
            /\ goto("run", NULL)
            /\ UNCHANGED <<current, status, ready_list, thread_ticks>>
    /\ UNCHANGED <<priority, panicked, ticks, next, prev, wakeupTime, irq>>

-----------------------------------------------------------------------------
(* timer_interrupt *)

asleep(t) == pc[t] = "asleep" /\ status[t] = "BLOCKED"

TimerInterrupt ==
    /\ irq = NULL /\ ~panicked
    /\ pc[current] # "asleep"
    /\ ticks < MaxTicks
    /\ ticks' = ticks + 1
    /\ thread_ticks' = thread_ticks + 1
    /\ irq' = next[HEAD]
    /\ UNCHANGED <<current, status, priority, ready_list, panicked, pc, arg,
                   next, prev, wakeupTime, sema_sleep>>

\* Bug: the handler does not look at the time.
due_bug == irq # TAIL

due == irq # TAIL /\ wakeupTime[irq] <= ticks

\* Bug: the handler forgets to unlink the thread it wakes.
TimerWake_bug ==
    /\ irq # NULL /\ ~panicked
    /\ due
    /\ sema_sleep' = [sema_sleep EXCEPT ![irq] = @ + 1]
    /\ IF asleep(irq) THEN interruptUnblock(irq)
       ELSE UNCHANGED <<schedVars, panicked, pc, arg>>
    /\ irq' = next[irq]
    /\ UNCHANGED <<ticks, wakeupTime, next, prev>>

\* One turn of the loop: list_remove, sema_up, list_next.
TimerWake ==
    /\ irq # NULL /\ ~panicked
    /\ due
    /\ next' = [next EXCEPT ![prev[irq]] = next[irq]]
    /\ prev' = [prev EXCEPT ![next[irq]] = prev[irq]]
    /\ sema_sleep' = [sema_sleep EXCEPT ![irq] = @ + 1]
    /\ IF asleep(irq) THEN interruptUnblock(irq)
       ELSE UNCHANGED <<schedVars, panicked, pc, arg>>
    /\ irq' = next'[irq]
    /\ UNCHANGED <<ticks, wakeupTime>>

\* The loop ends, and the interrupt returns, perhaps into another thread.
TimerDone ==
    /\ irq # NULL /\ ~panicked
    /\ ~due
    /\ irq' = NULL
    /\ IF thread_ticks >= TIME_SLICE
       THEN thread_yield(ready_list, status, priority)
       ELSE UNCHANGED <<current, status, ready_list, thread_ticks>>
    /\ interruptReturn
    /\ UNCHANGED <<priority, panicked, arg, ticks, next, prev, wakeupTime, sema_sleep>>

-----------------------------------------------------------------------------
AlarmInit ==
    /\ SchedInit
    /\ ticks = 0
    /\ next = [x \in Nodes |-> IF x = HEAD THEN TAIL ELSE NULL]
    /\ prev = [x \in Nodes |-> IF x = TAIL THEN HEAD ELSE NULL]
    /\ wakeupTime = [t \in Threads |-> 0]
    /\ sema_sleep = [t \in Threads |-> 0]
    /\ irq = NULL

ThreadStep ==
    \/ \E t \in Threads : ThreadCreate(t, PRI_DEFAULT)
    \/ ThreadCreateUnblock
    \/ ThreadYield
    \/ IdleBlock

AlarmNext ==
    \/ irq = NULL /\ ThreadStep /\ UNCHANGED timerVars
    \/ \E n \in SleepTicks : TimerSleep(n)
    \/ Walk \/ Link1 \/ Link2 \/ Link3 \/ Link4
    \/ SleepDown
    \/ TimerInterrupt \/ TimerWake \/ TimerDone

AlarmSpec == AlarmInit /\ [][AlarmNext]_alarmVars

-----------------------------------------------------------------------------
(***************************************************************************)
(* What the alarm clock should guarantee.                                  *)
(***************************************************************************)

\* Every variable has its type; sema_sleep is "only a binary semaphore" (design
\* document, B7): a sleep is ended by one wake-up.
AlarmTypeOK ==
    /\ ticks \in 0..MaxTicks
    /\ next \in [Nodes -> Nodes \cup {NULL}]
    /\ prev \in [Nodes -> Nodes \cup {NULL}]
    /\ wakeupTime \in [Threads -> Int]
    /\ sema_sleep \in [Threads -> {0, 1}]
    /\ irq \in Threads \cup {TAIL, NULL}

\* A thread does not return from timer_sleep before its time.  True as long as
\* there is only one sleeper; design document, A4, claims it of several: "We avoid
\* race conditions because we don't use global or shared data".
NeverEarly ==
    [][ SleepDown /\ pc'[current] = "run" => wakeupTime[current] <= ticks ]_alarmVars

\* No sleeper is overdue when timer_interrupt returns.  Design document, A5, claims
\* that a timer interrupt during timer_sleep does no harm; wait_list is changed
\* before sema_down turns interrupts off.
WokenOnTime ==
    [][ TimerDone => \A t \in Threads : asleep(t) => wakeupTime[t] > ticks ]_alarmVars
=============================================================================
