-------------------------- MODULE SchedulerProofs ---------------------------
(***************************************************************************)
(* The scheduler's invariants, for any number of threads, any priorities   *)
(* and any time slice.                                                     *)
(*                                                                         *)
(* Everything the scheduler does to the run queue is an insertion or a     *)
(* removal of the front, so the proof rests on two lemmas about a run      *)
(* queue (QueueInsert, QueueHead), from which follow the effects of        *)
(* schedule, thread_block, thread_yield and thread_unblock, from whoever   *)
(* calls them.                                                             *)
(***************************************************************************)
EXTENDS Scheduler, KernelListProofs

\* list holds exactly the READY threads of stat, once each, by falling priority.
RunQueue(list, stat, pri) ==
    /\ list \in Seq(Threads)
    /\ NoDuplicates(list)
    /\ \A t \in Threads : stat[t] = "READY" <=> t \in Range(list)
    /\ \A i, j \in 1..Len(list) : i < j => pri[list[i]] >= pri[list[j]]

\* r is at least as important as every READY thread.
Top(r, stat, pri) ==
    r # idle_thread => \A t \in Threads : stat[t] = "READY" => pri[t] <= pri[r]

\* Types of what stat and pri stand for.
StatusMap == [AllThreads -> Statuses]
PriorityMap == [AllThreads -> Priorities]

\* Priorities are integers, and the idle thread is not one of Threads.
LEMMA Basics ==
    /\ \A pri \in PriorityMap : \A t \in AllThreads : pri[t] \in Int
    /\ \A t \in Threads : t \in AllThreads /\ t # idle_thread
    /\ idle_thread \in AllThreads /\ initial_thread \in Threads
    /\ 0 \in 0..(TIME_SLICE - 1)
BY ThreadsAssumption, PriorityAssumption, TimeSliceAssumption
   DEF PriorityMap, Priorities, AllThreads

\* Queueing a thread that is not queued, as thread_yield and thread_unblock do.
LEMMA QueueInsert ==
    ASSUME NEW list, NEW stat \in StatusMap, NEW pri \in PriorityMap,
           RunQueue(list, stat, pri), NEW t \in Threads, stat[t] # "READY"
    PROVE  LET r == list_insert_ordered(list, t, value_less(t, pri))
           IN  /\ RunQueue(r, [stat EXCEPT ![t] = "READY"], pri)
               /\ r # <<>>
<1> DEFINE Before == value_less(t, pri)
           r == list_insert_ordered(list, t, Before)
           key == [x \in Threads |-> pri[x]]
           stat2 == [stat EXCEPT ![t] = "READY"]
<1>1. list \in Seq(Threads) /\ NoDuplicates(list) /\ t \notin Range(list)
  BY DEF RunQueue
<1>2. /\ r \in Seq(Threads) /\ Len(r) = Len(list) + 1
      /\ Range(r) = Range(list) \cup {t} /\ NoDuplicates(r)
  <2> HIDE DEF Before
  <2> QED
    BY <1>1, InsertOrderedMembers
<1>3. key \in [Threads -> Int] /\ \A x \in Threads : x \in Before <=> key[t] > key[x]
  BY Basics DEF value_less
<1>4. \A i, j \in 1..Len(list) : i < j => key[list[i]] >= key[list[j]]
  BY <1>1 DEF RunQueue
<1>5. \A i, j \in 1..Len(r) : i < j => key[r[i]] >= key[r[j]]
  <2> HIDE DEF key, Before
  <2> QED
    BY <1>1, <1>3, <1>4, InsertOrderedSorted
<1>6. \A i, j \in 1..Len(r) : i < j => pri[r[i]] >= pri[r[j]]
  <2> HIDE DEF r
  <2>1. \A i \in 1..Len(r) : key[r[i]] = pri[r[i]]
    BY <1>2
  <2> QED
    BY <1>5, <2>1
<1>7. \A u \in Threads : stat2[u] = "READY" <=> u \in Range(r)
  <2> HIDE DEF r
  <2> QED
    BY <1>2, Basics DEF RunQueue, StatusMap
<1>8. r # <<>>
  <2> HIDE DEF r
  <2> QED
    BY <1>1, <1>2
<1> HIDE DEF r
<1>9. RunQueue(r, stat2, pri)
  BY <1>2, <1>6, <1>7 DEF RunQueue
<1> QED
  BY <1>8, <1>9 DEF r

\* Taking the front of the queue, as next_thread_to_run does.
LEMMA QueueHead ==
    ASSUME NEW list, NEW stat, NEW pri \in PriorityMap,
           RunQueue(list, stat, pri), list # <<>>
    PROVE  /\ Head(list) \in Threads /\ stat[Head(list)] = "READY"
           /\ \A t \in Threads : stat[t] = "READY" => pri[t] <= pri[Head(list)]
           /\ Tail(list) \in Seq(Threads) /\ NoDuplicates(Tail(list))
           /\ \A t \in Threads : stat[t] = "READY" /\ t # Head(list) <=> t \in Range(Tail(list))
           /\ \A i, j \in 1..Len(Tail(list)) : i < j => pri[Tail(list)[i]] >= pri[Tail(list)[j]]
<1> DEFINE n == Len(list)
           rest == Tail(list)
<1>1. /\ list \in Seq(Threads) /\ n \in Nat /\ n > 0 /\ DOMAIN list = 1..n
      /\ Head(list) = list[1] /\ Head(list) \in Threads
  BY DEF RunQueue
<1>2. /\ rest \in Seq(Threads) /\ Len(rest) = n - 1 /\ DOMAIN rest = 1..(n - 1)
      /\ \A i \in 1..(n - 1) : rest[i] = list[i + 1]
  BY <1>1
<1>3. \A t \in Threads : stat[t] = "READY" <=> \E i \in 1..n : list[i] = t
  BY <1>1 DEF RunQueue, Range
<1>4. \A i \in 1..n : pri[list[i]] \in Int /\ pri[list[1]] >= pri[list[i]]
  <2>1. \A i \in 1..n : pri[list[i]] \in Int
    BY <1>1, Basics
  <2> QED
    BY <1>1, <2>1 DEF RunQueue
<1> HIDE DEF rest
<1>5. NoDuplicates(rest)
  BY <1>1, <1>2 DEF RunQueue, NoDuplicates
<1>6. ASSUME NEW t \in Threads
      PROVE  stat[t] = "READY" /\ t # Head(list) <=> t \in Range(rest)
  <2>1. ASSUME stat[t] = "READY", t # Head(list) PROVE t \in Range(rest)
    <3>1. PICK i \in 1..n : list[i] = t
      BY <1>3, <2>1
    <3>2. i - 1 \in 1..(n - 1) /\ rest[i - 1] = t
      BY <1>1, <1>2, <2>1, <3>1
    <3> QED
      BY <1>2, <3>2 DEF Range
  <2>2. ASSUME t \in Range(rest) PROVE stat[t] = "READY" /\ t # Head(list)
    <3>1. PICK i \in 1..(n - 1) : rest[i] = t
      BY <1>2, <2>2 DEF Range
    <3>2. i + 1 \in 1..n /\ list[i + 1] = t /\ i + 1 # 1
      BY <1>1, <1>2, <3>1
    <3> QED
      BY <1>1, <1>3, <3>2 DEF RunQueue, NoDuplicates
  <2> QED
    BY <2>1, <2>2
<1>7. \A i, j \in 1..Len(rest) : i < j => pri[rest[i]] >= pri[rest[j]]
  BY <1>1, <1>2 DEF RunQueue
<1> QED
  BY <1>1, <1>2, <1>3, <1>4, <1>5, <1>6, <1>7 DEF rest

-----------------------------------------------------------------------------
\* The scheduler's data between two regions with interrupts off.
Core(cur, stat, pri, list, ticks) ==
    /\ cur \in AllThreads /\ stat \in StatusMap /\ pri \in PriorityMap
    /\ ticks \in 0..(TIME_SLICE - 1)
    /\ RunQueue(list, stat, pri)
    /\ \A t \in AllThreads : stat[t] = "RUNNING" <=> t = cur

\* Not a thread yet, or no longer one.
Gone == {"FREE", "DYING"}

\* schedule: whoever is at the front of the queue gets the CPU.
LEMMA ScheduleEffect ==
    ASSUME NEW list, NEW stat \in StatusMap, NEW pri \in PriorityMap,
           RunQueue(list, stat, pri), current \in AllThreads,
           \A t \in AllThreads : stat[t] # "RUNNING", schedule(list, stat)
    PROVE  /\ Core(current', status', pri, ready_list', thread_ticks')
           /\ Top(current', status', pri)
           /\ \A t \in Threads : status'[t] = "BLOCKED" <=> stat[t] = "BLOCKED"
           /\ \A t \in Threads : status'[t] = "READY" => stat[t] = "READY"
           /\ \A t \in Threads : status'[t] \in Gone => stat[t] \in Gone
           /\ list # <<>> => /\ current' \in Threads
                             /\ \A t \in Threads : stat[t] = "READY" => pri[t] <= pri[current']
<1> DEFINE next == IF list = <<>> THEN idle_thread ELSE Head(list)
<1>1. /\ current' = next
      /\ ready_list' = IF list = <<>> THEN list ELSE Tail(list)
      /\ thread_ticks' = 0
      /\ status' = [stat EXCEPT
             ![current] = IF @ = "DYING" /\ current # initial_thread THEN "FREE" ELSE @,
             ![next] = "RUNNING"]
  BY DEF schedule
<1>2. list # <<>> =>
        /\ Head(list) \in Threads /\ stat[Head(list)] = "READY"
        /\ \A t \in Threads : stat[t] = "READY" => pri[t] <= pri[Head(list)]
  BY QueueHead
<1>3. next \in AllThreads /\ (list = <<>> => next = idle_thread) /\ (list # <<>> => next = Head(list))
  BY <1>2, Basics
<1> HIDE DEF next
<1>4. /\ status' \in StatusMap
      /\ \A t \in AllThreads : status'[t] = "RUNNING" <=> t = next
      /\ \A t \in AllThreads : status'[t] = "READY" <=> stat[t] = "READY" /\ t # next
      /\ \A t \in AllThreads : status'[t] = "BLOCKED" <=> stat[t] = "BLOCKED" /\ t # next
      /\ \A t \in AllThreads : status'[t] \in Gone => stat[t] \in Gone
  BY <1>1, <1>3 DEF StatusMap, Statuses, Gone
<1>5. RunQueue(ready_list', status', pri)
  <2>1. CASE list = <<>>
    <3>1. ready_list' = list /\ next \notin Threads
      BY <1>1, <1>3, <2>1, Basics
    <3>2. \A t \in Threads : status'[t] = "READY" <=> stat[t] = "READY"
      BY <1>4, <3>1, Basics
    <3> QED
      BY <3>1, <3>2 DEF RunQueue
  <2>2. CASE list # <<>>
    <3> DEFINE rest == Tail(list)
    <3>1. ready_list' = rest /\ next = Head(list)
      BY <1>1, <1>3, <2>2
    <3>2. /\ rest \in Seq(Threads) /\ NoDuplicates(rest)
          /\ \A t \in Threads : stat[t] = "READY" /\ t # next <=> t \in Range(rest)
          /\ \A i, j \in 1..Len(rest) : i < j => pri[rest[i]] >= pri[rest[j]]
      BY <2>2, <3>1, QueueHead
    <3> HIDE DEF rest
    <3>3. \A t \in Threads : status'[t] = "READY" <=> t \in Range(rest)
      BY <1>4, <3>2, Basics
    <3> QED
      BY <3>1, <3>2, <3>3 DEF RunQueue
  <2> QED
    BY <2>1, <2>2
<1>6. Core(current', status', pri, ready_list', thread_ticks')
  BY <1>1, <1>3, <1>4, <1>5, Basics DEF Core
<1>7. Top(current', status', pri)
  BY <1>1, <1>2, <1>3, <1>4, Basics DEF Top
<1>8. /\ \A t \in Threads : status'[t] = "BLOCKED" <=> stat[t] = "BLOCKED"
      /\ \A t \in Threads : status'[t] = "READY" => stat[t] = "READY"
      /\ \A t \in Threads : status'[t] \in Gone => stat[t] \in Gone
  BY <1>2, <1>3, <1>4, Basics
<1>9. list # <<>> => /\ current' \in Threads
                     /\ \A t \in Threads : stat[t] = "READY" => pri[t] <= pri[current']
  BY <1>1, <1>2, <1>3
<1> QED
  BY <1>6, <1>7, <1>8, <1>9, Zenon

\* thread_block and thread_exit: the current thread is queued nowhere.
LEMMA BlockEffect ==
    ASSUME Core(current, status, priority, ready_list, thread_ticks),
           NEW new \in {"BLOCKED", "DYING"},
           schedule(ready_list, [status EXCEPT ![current] = new])
    PROVE  /\ Core(current', status', priority, ready_list', thread_ticks')
           /\ Top(current', status', priority)
           /\ \A t \in Threads : t # current => (status'[t] = "BLOCKED" <=> status[t] = "BLOCKED")
           /\ current \in Threads => /\ status'[current] = "BLOCKED" <=> new = "BLOCKED"
                                    /\ status'[current] # "READY"
           /\ \A t \in Threads : status'[t] \in Gone =>
                 status[t] \in Gone \/ (t = current /\ new = "DYING")
<1> DEFINE stat == [status EXCEPT ![current] = new]
<1>1. /\ stat \in StatusMap
      /\ \A t \in AllThreads : stat[t] = IF t = current THEN new ELSE status[t]
      /\ current \in AllThreads
  BY DEF Core, StatusMap, Statuses
<1>2. \A t \in AllThreads : stat[t] # "RUNNING" /\ (stat[t] = "READY" <=> status[t] = "READY")
  BY <1>1 DEF Core
<1>3. schedule(ready_list, stat)
  OBVIOUS
<1> HIDE DEF stat
<1>4. RunQueue(ready_list, stat, priority)
  BY <1>2, Basics DEF Core, RunQueue
<1>5. priority \in PriorityMap
  BY DEF Core
<1>6. /\ Core(current', status', priority, ready_list', thread_ticks')
      /\ Top(current', status', priority)
      /\ \A t \in Threads : status'[t] = "BLOCKED" <=> stat[t] = "BLOCKED"
      /\ \A t \in Threads : status'[t] = "READY" => stat[t] = "READY"
      /\ \A t \in Threads : status'[t] \in Gone => stat[t] \in Gone
  BY <1>1, <1>2, <1>3, <1>4, <1>5, ScheduleEffect
<1>7. \A t \in Threads : t # current => (status'[t] = "BLOCKED" <=> status[t] = "BLOCKED")
  BY <1>1, <1>6, Basics
<1>8. current \in Threads => /\ status'[current] = "BLOCKED" <=> new = "BLOCKED"
                            /\ status'[current] # "READY"
  BY <1>1, <1>6, Basics
<1>9. \A t \in Threads : status'[t] \in Gone =>
        status[t] \in Gone \/ (t = current /\ new = "DYING")
  BY <1>1, <1>6, Basics DEF Gone
<1> QED
  BY <1>6, <1>7, <1>8, <1>9

\* thread_yield: the thread that is current is queued and the front taken; it
\* only loses the CPU to a thread of at least its own priority.
LEMMA YieldEffect ==
    ASSUME NEW list, NEW stat \in StatusMap, NEW pri \in PriorityMap,
           RunQueue(list, stat, pri), current \in AllThreads,
           \A t \in AllThreads : stat[t] = "RUNNING" <=> t = current,
           thread_yield(list, stat, pri)
    PROVE  /\ Core(current', status', pri, ready_list', thread_ticks')
           /\ Top(current', status', pri)
           /\ \A t \in Threads : status'[t] = "BLOCKED" <=> stat[t] = "BLOCKED"
           /\ \A t \in Threads : status'[t] \in Gone => stat[t] \in Gone
           /\ current \in Threads =>
                 /\ current' \in Threads
                 /\ pri[current'] >= pri[current]
                 /\ \A t \in Threads : stat[t] = "READY" => pri[t] <= pri[current']
<1> DEFINE stat2 == [stat EXCEPT ![current] = "READY"]
           list2 == IF current = idle_thread THEN list
                    ELSE list_insert_ordered(list, current, value_less(current, pri))
<1>1. /\ stat2 \in StatusMap
      /\ \A t \in AllThreads : stat2[t] = IF t = current THEN "READY" ELSE stat[t]
  BY DEF StatusMap, Statuses
<1>2. \A t \in AllThreads : stat2[t] # "RUNNING"
  BY <1>1
<1>3. schedule(list2, stat2)
  BY DEF thread_yield
<1>4. RunQueue(list2, stat2, pri) /\ (current \in Threads => list2 # <<>>)
  <2>1. CASE current = idle_thread
    <3>1. list2 = list /\ \A t \in Threads : stat2[t] = stat[t]
      BY <1>1, <2>1, Basics
    <3> HIDE DEF list2, stat2
    <3> QED
      BY <2>1, <3>1, Basics DEF RunQueue
  <2>2. CASE current # idle_thread
    <3>1. current \in Threads /\ stat[current] # "READY"
      BY <2>2 DEF AllThreads
    <3> QED
      BY <2>2, <3>1, QueueInsert
  <2> QED
    BY <2>1, <2>2
<1> HIDE DEF list2, stat2
<1>5. /\ Core(current', status', pri, ready_list', thread_ticks')
      /\ Top(current', status', pri)
      /\ \A t \in Threads : status'[t] = "BLOCKED" <=> stat2[t] = "BLOCKED"
      /\ \A t \in Threads : status'[t] \in Gone => stat2[t] \in Gone
      /\ list2 # <<>> => /\ current' \in Threads
                         /\ \A t \in Threads : stat2[t] = "READY" => pri[t] <= pri[current']
  BY <1>1, <1>2, <1>3, <1>4, ScheduleEffect
<1>6. current \in Threads =>
         /\ current' \in Threads
         /\ pri[current'] >= pri[current]
         /\ \A t \in Threads : stat[t] = "READY" => pri[t] <= pri[current']
  BY <1>1, <1>4, <1>5, Basics
<1>7. \A t \in Threads : status'[t] = "BLOCKED" <=> stat[t] = "BLOCKED"
  BY <1>1, <1>5, Basics
<1>8. \A t \in Threads : status'[t] \in Gone => stat[t] \in Gone
  BY <1>1, <1>5, Basics DEF Gone
<1> QED
  BY <1>5, <1>6, <1>7, <1>8

\* Putting a BLOCKED thread on the run queue; when thread_unblock sees no need to
\* yield, nobody on the queue is more important than the current thread.
LEMMA UnblockedQueue ==
    ASSUME Core(current, status, priority, ready_list, thread_ticks),
           NEW t \in Threads, status[t] = "BLOCKED"
    PROVE  LET list == unblockedList(t, priority)
               stat == unblockedStatus(t)
           IN  /\ Core(current, stat, priority, list, thread_ticks)
               /\ ~mustYield(t, priority) => Top(current, stat, priority)
               /\ \A u \in Threads : stat[u] = "BLOCKED" <=> status[u] = "BLOCKED" /\ u # t
               /\ \A u \in Threads : stat[u] \in Gone => status[u] \in Gone
<1> DEFINE list == unblockedList(t, priority)
           stat == unblockedStatus(t)
<1>1. /\ stat \in StatusMap /\ t \in AllThreads
      /\ \A u \in AllThreads : stat[u] = IF u = t THEN "READY" ELSE status[u]
  BY Basics DEF Core, unblockedStatus, StatusMap, Statuses
<1>2. priority \in PriorityMap /\ status \in StatusMap /\ RunQueue(ready_list, status, priority)
  BY DEF Core
<1>3. RunQueue(list, stat, priority) /\ list # <<>>
  BY <1>2, QueueInsert DEF unblockedList, unblockedStatus
<1>4. ~mustYield(t, priority) <=>
        ~(priority[current] < priority[Head(list)] /\ current # idle_thread)
  BY DEF mustYield
<1> HIDE DEF list, stat
<1>5. Core(current, stat, priority, list, thread_ticks)
  BY <1>1, <1>3 DEF Core
<1>6. ASSUME ~mustYield(t, priority) PROVE Top(current, stat, priority)
  <2>1. /\ Head(list) \in Threads
        /\ \A u \in Threads : stat[u] = "READY" => priority[u] <= priority[Head(list)]
    BY <1>2, <1>3, QueueHead
  <2>2. /\ priority[current] \in Int /\ priority[Head(list)] \in Int
        /\ \A u \in Threads : priority[u] \in Int
    BY <2>1, <1>2, Basics DEF Core
  <2> QED
    BY <1>4, <1>6, <2>1, <2>2 DEF Top
<1>7. \A u \in Threads : stat[u] = "BLOCKED" <=> status[u] = "BLOCKED" /\ u # t
  BY <1>1, Basics
<1>8. \A u \in Threads : stat[u] \in Gone => status[u] \in Gone
  BY <1>1, Basics DEF Gone
<1> QED
  BY <1>5, <1>6, <1>7, <1>8 DEF list, stat

\* thread_unblock, called by a thread.
LEMMA UnblockEffect ==
    ASSUME Core(current, status, priority, ready_list, thread_ticks),
           NEW t \in Threads, status[t] = "BLOCKED", current \in Threads,
           thread_unblock(t, priority)
    PROVE  /\ Core(current', status', priority, ready_list', thread_ticks')
           /\ Top(current', status', priority)
           /\ \A u \in Threads : status'[u] = "BLOCKED" <=> status[u] = "BLOCKED" /\ u # t
           /\ \A u \in Threads : status'[u] \in Gone => status[u] \in Gone
           /\ current' \in Threads /\ priority[current'] >= priority[current]
<1> DEFINE list == unblockedList(t, priority)
           stat == unblockedStatus(t)
<1>1. /\ Core(current, stat, priority, list, thread_ticks)
      /\ ~mustYield(t, priority) => Top(current, stat, priority)
      /\ \A u \in Threads : stat[u] = "BLOCKED" <=> status[u] = "BLOCKED" /\ u # t
      /\ \A u \in Threads : stat[u] \in Gone => status[u] \in Gone
  BY UnblockedQueue
<1>2. CASE mustYield(t, priority)
  <2>1. thread_yield(list, stat, priority)
    BY <1>2 DEF thread_unblock
  <2>2. /\ stat \in StatusMap /\ priority \in PriorityMap /\ RunQueue(list, stat, priority)
        /\ current \in AllThreads
        /\ \A u \in AllThreads : stat[u] = "RUNNING" <=> u = current
    BY <1>1 DEF Core
  <2> HIDE DEF list, stat
  <2>3. /\ Core(current', status', priority, ready_list', thread_ticks')
        /\ Top(current', status', priority)
        /\ \A u \in Threads : status'[u] = "BLOCKED" <=> stat[u] = "BLOCKED"
        /\ \A u \in Threads : status'[u] \in Gone => stat[u] \in Gone
        /\ current' \in Threads /\ priority[current'] >= priority[current]
    BY <2>1, <2>2, YieldEffect
  <2> QED
    BY <1>1, <2>3
<1>3. CASE ~mustYield(t, priority)
  <2>1. /\ ready_list' = list /\ status' = stat
        /\ current' = current /\ thread_ticks' = thread_ticks
    BY <1>3 DEF thread_unblock
  <2>2. priority[current] \in Int
    BY Basics DEF Core
  <2> HIDE DEF list, stat
  <2> QED
    BY <1>1, <1>3, <2>1, <2>2
<1> QED
  BY <1>2, <1>3

-----------------------------------------------------------------------------
\* What thread_create relies on between its two regions: the new thread is still
\* BLOCKED, and nobody else is creating it.
Created ==
    \A u \in Threads : pc[u] = "create" =>
        /\ arg[u] \in Threads /\ status[arg[u]] = "BLOCKED"
        /\ \A v \in Threads : pc[v] = "create" /\ arg[v] = arg[u] => v = u

\* What every client of the scheduler keeps, whatever labels and arguments it
\* adds.
KernelInv ==
    /\ Core(current, status, priority, ready_list, thread_ticks)
    /\ panicked \in BOOLEAN /\ DOMAIN pc = AllThreads /\ DOMAIN arg = AllThreads
    /\ HighestPriorityRuns
    /\ Created

\* It says what the properties say.
LEMMA InvGivesProperties ==
    KernelInv => RunQueueOwnership /\ RunQueueSorted /\ HighestPriorityRuns
BY DEF KernelInv, Core, RunQueue, StatusMap, PriorityMap, RunQueueOwnership, RunQueueSorted

\* The kernel boots into it.
LEMMA InitInv == SchedInit => KernelInv
<1> SUFFICES ASSUME SchedInit PROVE KernelInv
  OBVIOUS
<1>1. /\ status \in StatusMap /\ priority \in PriorityMap
      /\ DOMAIN pc = AllThreads /\ DOMAIN arg = AllThreads
  BY ThreadsAssumption, PriorityAssumption
     DEF SchedInit, StatusMap, PriorityMap, Statuses, Priorities
<1>2. /\ current \in AllThreads /\ thread_ticks \in 0..(TIME_SLICE - 1) /\ panicked \in BOOLEAN
      /\ \A t \in AllThreads : status[t] = "RUNNING" <=> t = current
      /\ \A t \in Threads : status[t] # "READY" /\ pc[t] = "run"
  BY Basics DEF SchedInit
<1>3. ready_list = <<>> /\ Range(ready_list) = {} /\ Len(ready_list) = 0
  BY DEF SchedInit, Range
<1>4. RunQueue(ready_list, status, priority)
  BY <1>2, <1>3 DEF RunQueue, NoDuplicates
<1> QED
  BY <1>1, <1>2, <1>4 DEF KernelInv, Core, HighestPriorityRuns, Created

\* A step of the running thread or an interrupt that leaves somebody at least as
\* important as every READY thread on the CPU.
LEMMA TopGivesHighest ==
    ASSUME Top(current', status', priority') PROVE HighestPriorityRuns'
BY DEF Top, HighestPriorityRuns

\* Created survives when no thread under construction is woken.
LEMMA CreatedStays ==
    ASSUME Created, \A t \in Threads : pc'[t] = "create" => pc[t] = "create" /\ arg'[t] = arg[t],
           \A u \in Threads : pc'[u] = "create" /\ status[arg[u]] = "BLOCKED"
                                => status'[arg[u]] = "BLOCKED"
    PROVE  Created'
BY DEF Created

\* thread_create.
LEMMA CreateInv ==
    ASSUME KernelInv, NEW t \in Threads, NEW p \in Priorities, ThreadCreate(t, p)
    PROVE  KernelInv'
<1>1. /\ current \in Threads /\ pc[current] = "run" /\ ~panicked /\ status[t] = "FREE"
      /\ status' = [status EXCEPT ![t] = "BLOCKED"]
      /\ priority' = [priority EXCEPT ![t] = p]
      /\ pc' = [pc EXCEPT ![current] = "create", ![t] = "run"]
      /\ arg' = [arg EXCEPT ![current] = t]
      /\ current' = current /\ ready_list' = ready_list
      /\ thread_ticks' = thread_ticks /\ panicked' = panicked
  BY DEF ThreadCreate, Running
<1>2. /\ status \in StatusMap /\ priority \in PriorityMap /\ RunQueue(ready_list, status, priority)
      /\ current \in AllThreads /\ t \in AllThreads /\ t # current
      /\ \A u \in AllThreads : status[u] = "RUNNING" <=> u = current
      /\ DOMAIN pc = AllThreads /\ DOMAIN arg = AllThreads
  BY <1>1, Basics DEF KernelInv, Core
<1>3. status' \in StatusMap /\ priority' \in PriorityMap /\ DOMAIN pc' = AllThreads /\ DOMAIN arg' = AllThreads
  BY <1>1, <1>2 DEF StatusMap, Statuses, PriorityMap
<1>4. /\ \A u \in AllThreads : status'[u] = IF u = t THEN "BLOCKED" ELSE status[u]
      /\ \A u \in AllThreads : priority'[u] = IF u = t THEN p ELSE priority[u]
      /\ \A u \in AllThreads : pc'[u] = IF u = t THEN "run" ELSE IF u = current THEN "create" ELSE pc[u]
      /\ \A u \in AllThreads : arg'[u] = IF u = current THEN t ELSE arg[u]
  BY <1>1, <1>2 DEF StatusMap, PriorityMap
<1>5. RunQueue(ready_list', status', priority')
  <2>1. /\ ready_list \in Seq(Threads) /\ NoDuplicates(ready_list)
        /\ \A u \in Threads : status[u] = "READY" <=> u \in Range(ready_list)
        /\ \A i, j \in 1..Len(ready_list) :
              i < j => priority[ready_list[i]] >= priority[ready_list[j]]
    BY <1>2 DEF RunQueue
  <2>2. \A i \in 1..Len(ready_list) : ready_list[i] \in Threads /\ ready_list[i] # t
    BY <1>1, <2>1 DEF Range
  <2>3. \A i \in 1..Len(ready_list) : priority'[ready_list[i]] = priority[ready_list[i]]
    BY <1>4, <2>2, Basics
  <2>4. \A u \in Threads : status'[u] = "READY" <=> u \in Range(ready_list)
    BY <1>1, <1>4, <2>1, Basics
  <2> QED
    BY <1>1, <2>1, <2>3, <2>4 DEF RunQueue
<1>6. Core(current', status', priority', ready_list', thread_ticks')
  BY <1>1, <1>2, <1>3, <1>4, <1>5 DEF KernelInv, Core
<1>7. HighestPriorityRuns'
  BY <1>1, <1>2, <1>4, Basics DEF KernelInv, HighestPriorityRuns
<1>8. Created'
  <2>1. \A u \in Threads : pc[u] = "create" => arg[u] # t
    BY <1>1 DEF KernelInv, Created
  <2>2. \A u \in Threads : pc'[u] = "create" <=> u = current \/ (pc[u] = "create" /\ u # t)
    BY <1>1, <1>2, <1>4, Basics
  <2>3. ASSUME NEW u \in Threads, pc'[u] = "create"
        PROVE  /\ arg'[u] \in Threads /\ status'[arg'[u]] = "BLOCKED"
               /\ \A v \in Threads : pc'[v] = "create" /\ arg'[v] = arg'[u] => v = u
    <3>1. CASE u = current
      BY <1>2, <1>4, <2>1, <2>2, <3>1, Basics
    <3>2. CASE u # current
      <4>1. pc[u] = "create" /\ arg'[u] = arg[u]
        BY <1>4, <2>2, <2>3, <3>2, Basics
      <4>2. arg[u] \in Threads /\ status[arg[u]] = "BLOCKED" /\ arg[u] # t
        BY <2>1, <4>1 DEF KernelInv, Created
      <4>3. ASSUME NEW v \in Threads, pc'[v] = "create", arg'[v] = arg'[u] PROVE v = u
        <5>1. v # current /\ pc[v] = "create" /\ arg[v] = arg[u]
          BY <1>4, <2>2, <4>1, <4>2, <4>3, Basics
        <5> QED
          BY <4>1, <5>1 DEF KernelInv, Created
      <4> QED
        BY <1>4, <4>1, <4>2, <4>3, Basics
    <3> QED
      BY <3>1, <3>2
  <2> QED
    BY <2>3 DEF Created
<1> QED
  BY <1>1, <1>3, <1>6, <1>7, <1>8 DEF KernelInv

\* What is left to show of a step that leaves priorities alone.
LEMMA SwitchInv ==
    ASSUME KernelInv, Core(current', status', priority, ready_list', thread_ticks'),
           panicked' \/ Top(current', status', priority), priority' = priority,
           panicked' \in BOOLEAN, DOMAIN pc' = AllThreads, DOMAIN arg' = AllThreads,
           \A u \in Threads : pc'[u] = "create" => pc[u] = "create" /\ arg'[u] = arg[u],
           \A u \in Threads : pc'[u] = "create" => status'[arg[u]] = "BLOCKED"
    PROVE  KernelInv'
<1>1. Created'
  BY CreatedStays DEF KernelInv
<1>2. HighestPriorityRuns'
  BY TopGivesHighest DEF HighestPriorityRuns
<1> QED
  BY <1>1, <1>2 DEF KernelInv

\* thread_create, its second region.
LEMMA CreateUnblockInv ==
    ASSUME KernelInv, ThreadCreateUnblock PROVE KernelInv'
<1> DEFINE t == arg[current]
<1>1. /\ current \in Threads /\ pc[current] = "create" /\ thread_unblock(t, priority)
      /\ pc' = [pc EXCEPT ![current] = "run"] /\ arg' = [arg EXCEPT ![current] = NULL]
      /\ priority' = priority /\ panicked' = panicked
  BY DEF ThreadCreateUnblock, Running
<1>2. /\ t \in Threads /\ status[t] = "BLOCKED"
      /\ \A u \in Threads : pc[u] = "create" /\ u # current => status[arg[u]] = "BLOCKED" /\ arg[u] # t
  BY <1>1 DEF KernelInv, Created
<1>3. Core(current, status, priority, ready_list, thread_ticks)
  BY DEF KernelInv
<1> HIDE DEF t
<1>4. /\ Core(current', status', priority, ready_list', thread_ticks')
      /\ Top(current', status', priority)
      /\ \A u \in Threads : status'[u] = "BLOCKED" <=> status[u] = "BLOCKED" /\ u # t
  BY <1>1, <1>2, <1>3, UnblockEffect
<1>5. /\ DOMAIN pc' = AllThreads /\ DOMAIN arg' = AllThreads /\ panicked' \in BOOLEAN
      /\ \A u \in Threads : pc'[u] = "create" => u # current /\ pc[u] = "create" /\ arg'[u] = arg[u]
  BY <1>1, Basics DEF KernelInv
<1>6. \A u \in Threads : pc'[u] = "create" => status'[arg[u]] = "BLOCKED"
  BY <1>2, <1>4, <1>5 DEF KernelInv, Created
<1> QED
  BY <1>1, <1>4, <1>5, <1>6, SwitchInv

\* thread_block, thread_exit and the idle thread's loop.
LEMMA BlockInv ==
    ASSUME KernelInv, ThreadBlock \/ ThreadExit \/ IdleBlock PROVE KernelInv'
<1>1. PICK new \in {"BLOCKED", "DYING"} : schedule(ready_list, [status EXCEPT ![current] = new])
  BY DEF ThreadBlock, ThreadExit, IdleBlock, thread_block
<1>2. /\ priority' = priority /\ panicked' = panicked /\ arg' = arg
      /\ pc' = pc \/ pc' = [pc EXCEPT ![idle_thread] = "hlt"]
  BY DEF ThreadBlock, ThreadExit, IdleBlock
<1>3. Core(current, status, priority, ready_list, thread_ticks)
  BY DEF KernelInv
<1>4. /\ Core(current', status', priority, ready_list', thread_ticks')
      /\ Top(current', status', priority)
      /\ \A t \in Threads : t # current => (status'[t] = "BLOCKED" <=> status[t] = "BLOCKED")
  BY <1>1, <1>3, BlockEffect
<1>5. /\ DOMAIN pc' = AllThreads /\ DOMAIN arg' = AllThreads /\ panicked' \in BOOLEAN
      /\ \A u \in Threads : pc'[u] = pc[u]
  BY <1>2, Basics DEF KernelInv
<1>6. \A u \in Threads : pc'[u] = "create" => status'[arg[u]] = "BLOCKED"
  BY <1>3, <1>4, <1>5, Basics DEF KernelInv, Created, Core
<1> QED
  BY <1>2, <1>4, <1>5, <1>6, SwitchInv

\* thread_unblock called by a thread.
LEMMA UnblockInv ==
    ASSUME KernelInv, NEW t \in Threads, ThreadUnblock(t) PROVE KernelInv'
<1>1. /\ current \in Threads /\ thread_unblock(t, priority) /\ t \in sleeping
      /\ priority' = priority /\ panicked' = panicked /\ pc' = pc /\ arg' = arg
  BY DEF ThreadUnblock, Running
<1>2. status[t] = "BLOCKED" /\ \A u \in Threads : pc[u] = "create" => arg[u] # t
  BY <1>1 DEF sleeping, beingCreated
<1>3. Core(current, status, priority, ready_list, thread_ticks)
  BY DEF KernelInv
<1>4. /\ Core(current', status', priority, ready_list', thread_ticks')
      /\ Top(current', status', priority)
      /\ \A u \in Threads : status'[u] = "BLOCKED" <=> status[u] = "BLOCKED" /\ u # t
  BY <1>1, <1>2, <1>3, UnblockEffect
<1>5. \A u \in Threads : pc'[u] = "create" => status'[arg[u]] = "BLOCKED"
  BY <1>1, <1>2, <1>4 DEF KernelInv, Created
<1> QED
  BY <1>1, <1>4, <1>5, SwitchInv DEF KernelInv

\* thread_yield, from wherever it is called.
LEMMA YieldInv ==
    ASSUME KernelInv, thread_yield(ready_list, status, priority),
           priority' = priority, panicked' = panicked, arg' = arg, DOMAIN pc' = AllThreads,
           \A u \in Threads : pc'[u] = "create" => pc[u] = "create"
    PROVE  KernelInv'
<1>1. /\ status \in StatusMap /\ priority \in PriorityMap /\ current \in AllThreads
      /\ RunQueue(ready_list, status, priority)
      /\ \A t \in AllThreads : status[t] = "RUNNING" <=> t = current
  BY DEF KernelInv, Core
<1>2. /\ Core(current', status', priority, ready_list', thread_ticks')
      /\ Top(current', status', priority)
      /\ \A t \in Threads : status'[t] = "BLOCKED" <=> status[t] = "BLOCKED"
  BY <1>1, YieldEffect
<1>3. \A u \in Threads : pc'[u] = "create" => status'[arg[u]] = "BLOCKED"
  BY <1>2 DEF KernelInv, Created
<1> QED
  BY <1>2, <1>3, SwitchInv DEF KernelInv

\* thread_set_priority, the store: the running thread is on no list, so that
\* changing its priority puts none out of order.
LEMMA SetPriorityInv ==
    ASSUME KernelInv, NEW p \in Priorities, ThreadSetPriority(p) PROVE KernelInv'
<1>1. /\ current \in Threads /\ pc[current] = "run"
      /\ priority' = [priority EXCEPT ![current] = p]
      /\ pc' = [pc EXCEPT ![current] = "set_pri"]
      /\ current' = current /\ status' = status /\ ready_list' = ready_list
      /\ thread_ticks' = thread_ticks /\ panicked' = panicked /\ arg' = arg
  BY DEF ThreadSetPriority, Running
<1>2. /\ priority \in PriorityMap /\ RunQueue(ready_list, status, priority)
      /\ current \in AllThreads /\ status[current] = "RUNNING" /\ DOMAIN pc = AllThreads
  BY DEF KernelInv, Core
<1>3. /\ priority' \in PriorityMap /\ DOMAIN pc' = AllThreads
      /\ \A u \in AllThreads : u # current => priority'[u] = priority[u] /\ pc'[u] = pc[u]
      /\ pc'[current] = "set_pri"
  BY <1>1, <1>2 DEF PriorityMap
<1>4. RunQueue(ready_list', status', priority')
  <2>1. /\ ready_list \in Seq(Threads)
        /\ \A i, j \in 1..Len(ready_list) :
              i < j => priority[ready_list[i]] >= priority[ready_list[j]]
        /\ \A t \in Range(ready_list) : t \in Threads => status[t] = "READY"
    BY <1>2 DEF RunQueue
  <2>2. \A i \in 1..Len(ready_list) : ready_list[i] \in Threads /\ ready_list[i] # current
    BY <1>2, <2>1 DEF Range
  <2>3. \A i \in 1..Len(ready_list) : priority'[ready_list[i]] = priority[ready_list[i]]
    BY <1>3, <2>2, Basics
  <2> QED
    BY <1>1, <1>2, <2>1, <2>3 DEF RunQueue
<1>5. Core(current', status', priority', ready_list', thread_ticks')
  BY <1>1, <1>3, <1>4 DEF KernelInv, Core
<1>6. HighestPriorityRuns'
  BY <1>1, <1>3 DEF HighestPriorityRuns
<1>7. Created'
  <2>1. \A u \in Threads : pc'[u] = "create" => pc[u] = "create"
    BY <1>3, Basics
  <2> QED
    BY <1>1, <2>1, CreatedStays DEF KernelInv
<1> QED
  BY <1>1, <1>3, <1>5, <1>6, <1>7 DEF KernelInv

\* thread_set_priority, the look at the head of the queue: it is the highest.
LEMMA SetPriorityCheckInv ==
    ASSUME KernelInv, SetPriorityCheck PROVE KernelInv'
<1>1. PICK higher \in headIsHigher :
        pc' = [pc EXCEPT ![current] = IF higher THEN "yield" ELSE "run"]
  BY DEF SetPriorityCheck
<1>2. /\ current \in Threads /\ ~panicked
      /\ current' = current /\ status' = status /\ priority' = priority
      /\ ready_list' = ready_list /\ thread_ticks' = thread_ticks
      /\ panicked' = panicked /\ arg' = arg
  BY DEF SetPriorityCheck, Running, schedVars
<1>3. /\ Core(current', status', priority', ready_list', thread_ticks')
      /\ RunQueue(ready_list, status, priority) /\ priority \in PriorityMap
      /\ current \in AllThreads /\ DOMAIN pc = AllThreads
  BY <1>2 DEF KernelInv, Core
<1>4. /\ DOMAIN pc' = AllThreads
      /\ \A u \in Threads : pc'[u] = "create" => pc[u] = "create"
      /\ pc'[current] = IF higher THEN "yield" ELSE "run"
  BY <1>1, <1>3, Basics
<1>5. Created'
  BY <1>2, <1>4, CreatedStays DEF KernelInv
<1>6. HighestPriorityRuns'
  <2>1. CASE higher
    BY <1>2, <1>4, <2>1 DEF HighestPriorityRuns
  <2>2. CASE ~higher /\ ready_list = <<>>
    <3>1. \A t \in Threads : status[t] # "READY"
      BY <1>3, <2>2 DEF RunQueue, Range
    <3> QED
      BY <1>2, <3>1 DEF HighestPriorityRuns
  <2>3. CASE ~higher /\ ready_list # <<>>
    <3>1. ~(priority[Head(ready_list)] > priority[current])
      BY <1>1, <2>3 DEF headIsHigher
    <3>2. /\ Head(ready_list) \in Threads
          /\ \A t \in Threads : status[t] = "READY" => priority[t] <= priority[Head(ready_list)]
      BY <1>3, <2>3, QueueHead
    <3>3. \A t \in AllThreads : priority[t] \in Int
      BY <1>3, Basics
    <3>4. \A t \in Threads : status[t] = "READY" => priority[t] <= priority[current]
      BY <1>2, <3>1, <3>2, <3>3, Basics
    <3> QED
      BY <1>2, <3>4 DEF HighestPriorityRuns
  <2> QED
    BY <2>1, <2>2, <2>3
<1> QED
  BY <1>2, <1>3, <1>4, <1>5, <1>6 DEF KernelInv

\* The timer interrupt.
LEMMA TickInv == ASSUME KernelInv, Tick PROVE KernelInv'
<1>1. /\ priority' = priority /\ panicked' = panicked /\ arg' = arg
      /\ pc' = pc \/ (current = idle_thread /\ pc' = [pc EXCEPT ![idle_thread] = "run"])
  BY DEF Tick, interruptReturn
<1>2. DOMAIN pc' = AllThreads /\ \A u \in Threads : pc'[u] = pc[u]
  BY <1>1, Basics DEF KernelInv
<1>3. CASE thread_ticks + 1 >= TIME_SLICE
  <2>1. thread_yield(ready_list, status, priority)
    BY <1>3 DEF Tick
  <2> QED
    BY <1>1, <1>2, <2>1, YieldInv
<1>4. CASE ~(thread_ticks + 1 >= TIME_SLICE)
  <2>1. /\ thread_ticks' = thread_ticks + 1
        /\ current' = current /\ status' = status /\ ready_list' = ready_list
    BY <1>4 DEF Tick
  <2>2. thread_ticks \in 0..(TIME_SLICE - 1)
    BY DEF KernelInv, Core
  <2>3. thread_ticks' \in 0..(TIME_SLICE - 1)
    BY <1>4, <2>1, <2>2, TimeSliceAssumption
  <2>4. Core(current', status', priority', ready_list', thread_ticks')
    BY <1>1, <2>1, <2>3 DEF KernelInv, Core
  <2>5. current = idle_thread \/ pc' = pc
    BY <1>1
  <2>6. HighestPriorityRuns'
    BY <1>1, <2>1, <2>5 DEF KernelInv, HighestPriorityRuns
  <2>7. Created'
    BY <1>1, <1>2, <2>1, CreatedStays DEF KernelInv
  <2> QED
    BY <1>1, <1>2, <2>4, <2>6, <2>7 DEF KernelInv
<1> QED
  BY <1>3, <1>4

\* thread_unblock called by an interrupt handler.
LEMMA InterruptUnblockInv ==
    ASSUME KernelInv, NEW t \in Threads, InterruptUnblock(t) PROVE KernelInv'
<1> DEFINE list == unblockedList(t, priority)
           stat == unblockedStatus(t)
<1>1. /\ t \in sleeping /\ ready_list' = list /\ status' = stat
      /\ panicked' = mustYield(t, priority)
      /\ current' = current /\ priority' = priority /\ thread_ticks' = thread_ticks /\ arg' = arg
      /\ pc' = pc \/ (current = idle_thread /\ pc' = [pc EXCEPT ![idle_thread] = "run"])
  BY DEF InterruptUnblock, interruptUnblock, interruptReturn
<1>2. status[t] = "BLOCKED" /\ \A u \in Threads : pc[u] = "create" => arg[u] # t
  BY <1>1 DEF sleeping, beingCreated
<1>3. Core(current, status, priority, ready_list, thread_ticks)
  BY DEF KernelInv
<1>4. /\ Core(current, stat, priority, list, thread_ticks)
      /\ ~mustYield(t, priority) => Top(current, stat, priority)
      /\ \A u \in Threads : stat[u] = "BLOCKED" <=> status[u] = "BLOCKED" /\ u # t
  BY <1>2, <1>3, UnblockedQueue
<1>5. mustYield(t, priority) \in BOOLEAN
  BY DEF mustYield
<1> HIDE DEF list, stat
<1>6. DOMAIN pc' = AllThreads /\ \A u \in Threads : pc'[u] = pc[u]
  BY <1>1, Basics DEF KernelInv
<1>7. \A u \in Threads : pc'[u] = "create" => status'[arg[u]] = "BLOCKED"
  BY <1>1, <1>2, <1>4, <1>6 DEF KernelInv, Created
<1>8. Core(current', status', priority, ready_list', thread_ticks')
  BY <1>1, <1>4
<1>9. panicked' \in BOOLEAN /\ (panicked' \/ Top(current', status', priority))
  BY <1>1, <1>4, <1>5
<1> QED
  BY <1>1, <1>6, <1>7, <1>8, <1>9, SwitchInv DEF KernelInv

-----------------------------------------------------------------------------
\* The invariant is inductive: every step of a thread and every interrupt keeps it.
LEMMA NextInv == KernelInv /\ [SchedNext]_vars => KernelInv'
<1> SUFFICES ASSUME KernelInv, [SchedNext]_vars PROVE KernelInv'
  OBVIOUS
<1>1. CASE UNCHANGED vars
  BY <1>1 DEF vars, schedVars, KernelInv, Core, Created, HighestPriorityRuns
<1>2. CASE SetPriorityYield
  <2>1. /\ current \in Threads /\ thread_yield(ready_list, status, priority)
        /\ pc' = [pc EXCEPT ![current] = "run"]
        /\ priority' = priority /\ panicked' = panicked /\ arg' = arg
    BY <1>2 DEF SetPriorityYield, Running
  <2>2. DOMAIN pc' = AllThreads /\ \A u \in Threads : pc'[u] = "create" => pc[u] = "create"
    BY <2>1, Basics DEF KernelInv
  <2> QED
    BY <2>1, <2>2, YieldInv
<1>3. CASE ThreadYield
  <2>1. /\ thread_yield(ready_list, status, priority)
        /\ priority' = priority /\ panicked' = panicked /\ arg' = arg /\ pc' = pc
    BY <1>3 DEF ThreadYield
  <2> QED
    BY <2>1, YieldInv DEF KernelInv
<1> QED
  BY <1>1, <1>2, <1>3, CreateInv, CreateUnblockInv, BlockInv, UnblockInv, SetPriorityInv,
     SetPriorityCheckInv, TickInv, InterruptUnblockInv
     DEF SchedNext, Halted

\* Labels and arguments of the scheduler's own calls.
PcMap  == [AllThreads -> {"run", "create", "set_pri", "yield", "hlt"}]
ArgMap == [AllThreads -> Threads \cup {NULL}]

\* Every action moves to labels of the scheduler.
LEMMA NextLabels ==
    ASSUME KernelInv, pc \in PcMap, arg \in ArgMap, [SchedNext]_vars
    PROVE  pc' \in PcMap /\ arg' \in ArgMap
<1> USE DEF PcMap, ArgMap
<1>1. CASE UNCHANGED vars
  BY <1>1 DEF vars
<1>2. ASSUME NEW t \in Threads, NEW p \in Priorities, ThreadCreate(t, p)
      PROVE  pc' \in PcMap /\ arg' \in ArgMap
  BY <1>2 DEF ThreadCreate
<1>3. CASE ThreadCreateUnblock
  BY <1>3 DEF ThreadCreateUnblock
<1>4. CASE ThreadBlock \/ ThreadYield \/ ThreadExit \/ \E t \in Threads : ThreadUnblock(t)
  BY <1>4 DEF ThreadBlock, ThreadYield, ThreadExit, ThreadUnblock
<1>5. CASE SetPriorityCheck \/ SetPriorityYield \/ IdleBlock
           \/ \E p \in Priorities : ThreadSetPriority(p)
  BY <1>5 DEF SetPriorityCheck, SetPriorityYield, IdleBlock, ThreadSetPriority
<1>6. CASE Tick \/ \E t \in Threads : InterruptUnblock(t)
  BY <1>6 DEF Tick, InterruptUnblock, interruptUnblock, interruptReturn
<1> QED
  BY <1>1, <1>2, <1>3, <1>4, <1>5, <1>6 DEF SchedNext, Halted

\* Every type, and the length of a time slice, for every number of threads.
THEOREM SchedulerTypes == SchedSpec => []SchedTypeOK
<1> DEFINE Inv == KernelInv /\ pc \in PcMap /\ arg \in ArgMap
<1>1. SchedInit => Inv
  BY InitInv DEF SchedInit, PcMap, ArgMap
<1>2. Inv /\ [SchedNext]_vars => Inv'
  BY NextInv, NextLabels
<1>3. Inv => SchedTypeOK
  BY DEF KernelInv, Core, RunQueue, StatusMap, PriorityMap, PcMap, ArgMap, SchedTypeOK
<1> QED
  BY <1>1, <1>2, <1>3, PTL DEF SchedSpec

\* thread.h's promise about the one list element of a thread, and thread_current's
\* ASSERT.
THEOREM SchedulerOwnership == SchedSpec => []RunQueueOwnership
BY InitInv, NextInv, InvGivesProperties, PTL DEF SchedSpec

\* The run queue needs no sorting.
THEOREM SchedulerSorted == SchedSpec => []RunQueueSorted
BY InitInv, NextInv, InvGivesProperties, PTL DEF SchedSpec

\* The highest priority runs.
THEOREM SchedulerHighest == SchedSpec => []HighestPriorityRuns
BY InitInv, NextInv, InvGivesProperties, PTL DEF SchedSpec

\* Being preempted and yielding never let a lower priority run.
LEMMA NeverDownStep ==
    ASSUME KernelInv, SchedNext, current' # current, current # idle_thread,
           status'[current] = "READY"
    PROVE  priority[current'] >= priority[current]
<1>1. /\ Core(current, status, priority, ready_list, thread_ticks)
      /\ status \in StatusMap /\ priority \in PriorityMap /\ current \in Threads
      /\ current \in AllThreads /\ RunQueue(ready_list, status, priority)
      /\ \A t \in AllThreads : status[t] = "RUNNING" <=> t = current
  BY DEF KernelInv, Core, AllThreads
<1>2. CASE thread_yield(ready_list, status, priority)
  BY <1>1, <1>2, YieldEffect
<1>3. ASSUME NEW t \in Threads, status[t] = "BLOCKED", thread_unblock(t, priority)
      PROVE  priority[current'] >= priority[current]
  BY <1>1, <1>3, UnblockEffect
<1>4. ASSUME NEW new \in {"BLOCKED", "DYING"},
             schedule(ready_list, [status EXCEPT ![current] = new])
      PROVE  FALSE
  BY <1>1, <1>4, BlockEffect
<1>5. CASE ThreadCreateUnblock
  <2>1. arg[current] \in Threads /\ status[arg[current]] = "BLOCKED"
    BY <1>1, <1>5 DEF KernelInv, Created, ThreadCreateUnblock, Running
  <2> QED
    BY <1>3, <1>5, <2>1 DEF ThreadCreateUnblock
<1>6. ASSUME NEW t \in Threads, ThreadUnblock(t) PROVE priority[current'] >= priority[current]
  BY <1>3, <1>6 DEF ThreadUnblock, sleeping
<1>7. ~(ThreadBlock \/ ThreadExit \/ IdleBlock)
  BY <1>4 DEF ThreadBlock, ThreadExit, IdleBlock, thread_block
<1>8. CASE ThreadYield \/ SetPriorityYield \/ Tick
  BY <1>2, <1>8 DEF ThreadYield, SetPriorityYield, Tick
<1>9. \A t \in Threads, p \in Priorities : ~ThreadCreate(t, p)
  BY DEF ThreadCreate
<1>10. /\ \A p \in Priorities : ~ThreadSetPriority(p)
       /\ ~SetPriorityCheck /\ ~Halted
       /\ \A t \in Threads : ~InterruptUnblock(t)
  BY DEF ThreadSetPriority, SetPriorityCheck, Halted, InterruptUnblock, interruptUnblock,
         vars, schedVars
<1> QED
  BY <1>5, <1>6, <1>7, <1>8, <1>9, <1>10 DEF SchedNext

\* thread_yield, thread_unblock and the timer never hand the CPU to a thread of
\* lower priority than the one that loses it.
THEOREM SchedulerNeverYieldsDown == SchedSpec => NeverYieldsDown
<1>1. KernelInv /\ [SchedNext]_vars =>
        [(current' # current /\ current # idle_thread /\ status'[current] = "READY")
         => priority[current'] >= priority[current]]_vars
  BY NeverDownStep
<1> QED
  BY <1>1, InitInv, NextInv, PTL DEF SchedSpec, NeverYieldsDown
=============================================================================
