---------------------------- MODULE SynchProofs -----------------------------
(***************************************************************************)
(* Invariants of semaphores, locks and condition variables, for any        *)
(* number of them and of threads.                                          *)
(*                                                                         *)
(* BaseInv is about the kernel's lists: who is on which.  It joins the     *)
(* scheduler's invariant, KernelInv, to the wait lists of the semaphores,  *)
(* and every call in synch.c keeps it for one of three reasons: it leaves  *)
(* the lists alone (QuietStep), it queues the current thread and blocks    *)
(* (SleepStep), or it takes a thread from a wait list and wakes it         *)
(* (WakeStep).                                                             *)
(***************************************************************************)
EXTENDS Synch, SchedulerProofs

\* Suspended calls.
CallTypes ==
    /\ pc \in [AllThreads -> Labels] /\ arg \in [AllThreads -> Args]
    /\ \A t \in AllThreads : LabelArg(pc[t], arg[t])
    /\ arg[idle_thread] = NULL

DataTypes ==
    /\ value \in [AllSemas -> Nat]
    /\ holder \in [Locks -> Threads \cup {NULL}]
    /\ cond_waiters \in [Conds -> Seq(Threads)]
    /\ held \in [Threads -> SUBSET Locks]

\* Blocked in a sema_down.
Suspended == {"down", "acq", "wait_block"}

WaitLists ==
    /\ waiters \in [AllSemas -> Seq(Threads)]
    /\ \A s \in AllSemas :
          /\ NoDuplicates(waiters[s])
          /\ \A t \in Threads :
                t \in Range(waiters[s]) <=> status[t] = "BLOCKED" /\ WaitsOn(t, s)

\* Pages without a thread, and threads that have not run yet, are in no call.
Fresh ==
    /\ \A t \in Threads : status[t] \in Gone => pc[t] = "run"
    /\ \A u \in Threads : pc[u] = "create" => pc[arg[u]] = "run"

BaseInv == KernelInv /\ CallTypes /\ DataTypes /\ WaitLists /\ Fresh

\* Facts about the current thread that every step needs.
LEMMA CurrentFacts ==
    ASSUME BaseInv, current \in Threads
    PROVE  /\ current \in AllThreads /\ status[current] = "RUNNING"
           /\ Core(current, status, priority, ready_list, thread_ticks)
           /\ \A s \in AllSemas : current \notin Range(waiters[s])
           /\ \A u \in Threads : pc[u] = "create" => arg[u] \in Threads /\ arg[u] # current
<1>1. /\ current \in AllThreads /\ status[current] = "RUNNING"
      /\ Core(current, status, priority, ready_list, thread_ticks)
  BY DEF BaseInv, KernelInv, Core
<1>2. \A s \in AllSemas : current \notin Range(waiters[s])
  BY <1>1 DEF BaseInv, WaitLists
<1>3. \A u \in Threads : pc[u] = "create" => arg[u] \in Threads /\ arg[u] # current
  BY <1>1 DEF BaseInv, KernelInv, Created
<1> QED
  BY <1>1, <1>2, <1>3

\* The current thread moves to another label.
LEMMA Moves ==
    ASSUME BaseInv, current \in Threads, NEW l \in Labels, NEW a \in Args, LabelArg(l, a), goto(l, a)
    PROVE  /\ CallTypes' /\ DOMAIN pc' = AllThreads /\ DOMAIN arg' = AllThreads
           /\ pc'[current] = l /\ arg'[current] = a
           /\ \A t \in AllThreads : t # current => pc'[t] = pc[t] /\ arg'[t] = arg[t]
<1>1. /\ pc' = [pc EXCEPT ![current] = l] /\ arg' = [arg EXCEPT ![current] = a]
      /\ pc \in [AllThreads -> Labels] /\ arg \in [AllThreads -> Args] /\ current \in AllThreads
  BY CurrentFacts DEF goto, BaseInv, CallTypes
<1>2. /\ pc' \in [AllThreads -> Labels] /\ arg' \in [AllThreads -> Args]
      /\ pc'[current] = l /\ arg'[current] = a
      /\ \A t \in AllThreads : t # current => pc'[t] = pc[t] /\ arg'[t] = arg[t]
  BY <1>1
<1>3. \A t \in AllThreads : LabelArg(pc'[t], arg'[t])
  BY <1>2 DEF BaseInv, CallTypes
<1>4. arg'[idle_thread] = NULL
  BY <1>2, Basics DEF BaseInv, CallTypes
<1> QED
  BY <1>2, <1>3, <1>4 DEF CallTypes

\* A thread waits for one semaphore at a time.
LEMMA WaitsOnOne ==
    ASSUME CallTypes, NEW t \in Threads, NEW r \in AllSemas, NEW s \in AllSemas,
           WaitsOn(t, r), WaitsOn(t, s)
    PROVE  r = s
BY DEF WaitsOn

\* What a thread waits for depends on its own label and argument only.
LEMMA WaitsOnStays ==
    ASSUME NEW t, NEW s, pc'[t] = pc[t], arg'[t] = arg[t]
    PROVE  WaitsOn(t, s)' <=> WaitsOn(t, s)
BY DEF WaitsOn

\* A step of the current thread that leaves all lists alone.
LEMMA QuietStep ==
    ASSUME BaseInv, current \in Threads, pc[current] \notin {"set_pri", "yield"},
           UNCHANGED schedVars, panicked' = panicked, waiters' = waiters, DataTypes',
           NEW l \in Labels \ {"create"}, NEW a \in Args, LabelArg(l, a), goto(l, a)
    PROVE  BaseInv'
<1>1. /\ CallTypes' /\ DOMAIN pc' = AllThreads /\ DOMAIN arg' = AllThreads
      /\ pc'[current] = l
      /\ \A t \in AllThreads : t # current => pc'[t] = pc[t] /\ arg'[t] = arg[t]
  BY Moves
<1>2. /\ current' = current /\ status' = status /\ priority' = priority
      /\ ready_list' = ready_list /\ thread_ticks' = thread_ticks
  BY DEF schedVars
<1>3. /\ current \in AllThreads /\ status[current] = "RUNNING"
      /\ \A s \in AllSemas : current \notin Range(waiters[s])
      /\ \A u \in Threads : pc[u] = "create" => arg[u] \in Threads /\ arg[u] # current
  BY CurrentFacts
<1>4. KernelInv'
  <2>1. \A u \in Threads : pc'[u] = "create" => pc[u] = "create" /\ arg'[u] = arg[u]
    BY <1>1, Basics
  <2>2. Created'
    BY <1>2, <2>1, CreatedStays DEF BaseInv, KernelInv
  <2>3. HighestPriorityRuns'
    BY <1>2 DEF BaseInv, KernelInv, HighestPriorityRuns
  <2> QED
    BY <1>1, <1>2, <2>2, <2>3 DEF BaseInv, KernelInv
<1>5. WaitLists'
  <2> SUFFICES ASSUME NEW s \in AllSemas, NEW t \in Threads
               PROVE  t \in Range(waiters[s]) <=> status[t] = "BLOCKED" /\ WaitsOn(t, s)'
    BY <1>2 DEF BaseInv, WaitLists
  <2>1. CASE t = current
    BY <1>3, <2>1
  <2>2. CASE t # current
    BY <1>1, <2>2, WaitsOnStays, Basics DEF BaseInv, WaitLists
  <2> QED
    BY <2>1, <2>2
<1>6. Fresh'
  <2>1. \A t \in Threads : status'[t] \in Gone => pc'[t] = "run"
    BY <1>1, <1>2, <1>3, Basics DEF BaseInv, Fresh, Gone
  <2>2. \A u \in Threads : pc'[u] = "create" => pc'[arg'[u]] = "run"
    BY <1>1, <1>3, Basics DEF BaseInv, Fresh
  <2> QED
    BY <2>1, <2>2 DEF Fresh
<1> QED
  BY <1>1, <1>4, <1>5, <1>6 DEF BaseInv

\* sema_down on a semaphore that is 0: the current thread joins the wait list and
\* blocks.
LEMMA SleepStep ==
    ASSUME BaseInv, current \in Threads, NEW s \in AllSemas,
           waiters' = [waiters EXCEPT ![s] =
               list_insert_ordered(@, current, value_less(current, priority))],
           thread_block, priority' = priority, panicked' = panicked, DataTypes',
           NEW l \in Labels \ {"create"}, NEW a \in Args, LabelArg(l, a), goto(l, a),
           \A r \in AllSemas :
               (l \in {"down", "acq"} /\ a = r) \/ (l = "wait_block" /\ current = r) <=> r = s
    PROVE  BaseInv'
<1> DEFINE q == waiters[s]
           q2 == list_insert_ordered(q, current, value_less(current, priority))
<1>1. /\ CallTypes' /\ DOMAIN pc' = AllThreads /\ DOMAIN arg' = AllThreads
      /\ \A t \in AllThreads : t # current => pc'[t] = pc[t] /\ arg'[t] = arg[t]
      /\ pc'[current] = l /\ arg'[current] = a
  BY Moves
<1>2. /\ current \in AllThreads /\ status[current] = "RUNNING"
      /\ Core(current, status, priority, ready_list, thread_ticks)
      /\ \A r \in AllSemas : current \notin Range(waiters[r])
      /\ \A u \in Threads : pc[u] = "create" => arg[u] \in Threads /\ arg[u] # current
  BY CurrentFacts
<1>3. /\ Core(current', status', priority, ready_list', thread_ticks')
      /\ Top(current', status', priority)
      /\ \A t \in Threads : t # current => (status'[t] = "BLOCKED" <=> status[t] = "BLOCKED")
      /\ status'[current] = "BLOCKED"
      /\ \A t \in Threads : status'[t] \in Gone => status[t] \in Gone
  <2>1. schedule(ready_list, [status EXCEPT ![current] = "BLOCKED"])
    BY DEF thread_block
  <2> QED
    BY <1>2, <2>1, BlockEffect
<1>4. \A u \in Threads : pc'[u] = "create" => u # current /\ pc[u] = "create" /\ arg'[u] = arg[u]
  BY <1>1, Basics
<1>5. KernelInv'
  <2>1. \A u \in Threads : pc'[u] = "create" => status'[arg[u]] = "BLOCKED"
    BY <1>2, <1>3, <1>4 DEF BaseInv, KernelInv, Created
  <2> QED
    BY <1>1, <1>3, <1>4, <2>1, SwitchInv DEF BaseInv, KernelInv
<1>6. WaitLists'
  <2>1. /\ waiters \in [AllSemas -> Seq(Threads)] /\ q \in Seq(Threads) /\ NoDuplicates(q)
        /\ current \notin Range(q)
    BY <1>2 DEF BaseInv, WaitLists
  <2>2. q2 \in Seq(Threads) /\ NoDuplicates(q2) /\ Range(q2) = Range(q) \cup {current}
    <3> HIDE DEF q
    <3> QED
      BY <2>1, InsertOrderedMembers
  <2>3. waiters' = [waiters EXCEPT ![s] = q2]
    OBVIOUS
  <2> HIDE DEF q, q2
  <2>4. /\ waiters' \in [AllSemas -> Seq(Threads)]
        /\ \A r \in AllSemas : waiters'[r] = IF r = s THEN q2 ELSE waiters[r]
    BY <2>1, <2>2, <2>3
  <2>5. \A r \in AllSemas : NoDuplicates(waiters'[r])
    BY <2>2, <2>4 DEF BaseInv, WaitLists
  <2>6. ASSUME NEW r \in AllSemas, NEW t \in Threads
        PROVE  t \in Range(waiters'[r]) <=> status'[t] = "BLOCKED" /\ WaitsOn(t, r)'
    <3>1. t \in Range(waiters'[r]) <=> t \in Range(waiters[r]) \/ (t = current /\ r = s)
      BY <2>2, <2>4 DEF q
    <3>2. CASE t = current
      <4>1. WaitsOn(t, r)' <=> r = s
        BY <1>1, <3>2 DEF WaitsOn
      <4> QED
        BY <1>2, <1>3, <3>1, <3>2, <4>1
    <3>3. CASE t # current
      <4>1. WaitsOn(t, r)' <=> WaitsOn(t, r)
        BY <1>1, <3>3, WaitsOnStays, Basics
      <4>2. t \in Range(waiters[r]) <=> status[t] = "BLOCKED" /\ WaitsOn(t, r)
        BY DEF BaseInv, WaitLists
      <4> QED
        BY <1>3, <3>1, <3>3, <4>1, <4>2
    <3> QED
      BY <3>2, <3>3
  <2> QED
    BY <2>4, <2>5, <2>6 DEF WaitLists
<1>7. Fresh'
  <2>1. \A t \in Threads : status'[t] \in Gone => pc'[t] = "run"
    BY <1>1, <1>2, <1>3, Basics DEF BaseInv, Fresh, Gone
  <2>2. \A u \in Threads : pc'[u] = "create" => pc'[arg'[u]] = "run"
    BY <1>1, <1>2, <1>4, Basics DEF BaseInv, Fresh
  <2> QED
    BY <2>1, <2>2 DEF Fresh
<1> QED
  BY <1>1, <1>5, <1>6, <1>7 DEF BaseInv

\* The front of a wait list is a BLOCKED thread, and nobody's new thread.
LEMMA FrontOfWaiters ==
    ASSUME BaseInv, NEW s \in AllSemas, waiters[s] # <<>>
    PROVE  LET t == Head(waiters[s])
           IN  /\ t \in Threads /\ status[t] = "BLOCKED" /\ WaitsOn(t, s)
               /\ \A u \in Threads : pc[u] = "create" => arg[u] # t
               /\ Tail(waiters[s]) \in Seq(Threads) /\ NoDuplicates(Tail(waiters[s]))
               /\ Range(Tail(waiters[s])) = Range(waiters[s]) \ {t}
<1> DEFINE q == waiters[s]
           t == Head(q)
<1>1. q \in Seq(Threads) /\ NoDuplicates(q) /\ q # <<>>
  BY DEF BaseInv, WaitLists
<1>2. /\ t \in Range(q) /\ t \in Threads
      /\ Tail(q) \in Seq(Threads) /\ NoDuplicates(Tail(q))
      /\ Range(Tail(q)) = Range(q) \ {t}
  <2> HIDE DEF q
  <2> QED
    BY <1>1, PopFront
<1>3. status[t] = "BLOCKED" /\ WaitsOn(t, s)
  BY <1>2 DEF BaseInv, WaitLists
<1>4. \A u \in Threads : pc[u] = "create" => arg[u] # t
  BY <1>3 DEF BaseInv, Fresh, WaitsOn
<1> QED
  BY <1>2, <1>3, <1>4

\* The wait lists after the front of one has been made ready.
LEMMA WaitListsPop ==
    ASSUME BaseInv, NEW s \in AllSemas, waiters[s] # <<>>,
           waiters' = [waiters EXCEPT ![s] = Tail(@)],
           \A u \in Threads : status'[u] = "BLOCKED" <=>
                               status[u] = "BLOCKED" /\ u # Head(waiters[s]),
           \A u \in Threads : status[u] = "BLOCKED" => pc'[u] = pc[u] /\ arg'[u] = arg[u]
    PROVE  WaitLists'
<1> DEFINE t == Head(waiters[s])
           rest == Tail(waiters[s])
<1>1. /\ t \in Threads /\ WaitsOn(t, s)
      /\ rest \in Seq(Threads) /\ NoDuplicates(rest) /\ Range(rest) = Range(waiters[s]) \ {t}
  BY FrontOfWaiters
<1>2. \A u \in Threads : status'[u] = "BLOCKED" <=> status[u] = "BLOCKED" /\ u # t
  OBVIOUS
<1>3. /\ waiters \in [AllSemas -> Seq(Threads)] /\ CallTypes
      /\ waiters' = [waiters EXCEPT ![s] = rest]
  BY DEF BaseInv, WaitLists
<1> HIDE DEF t, rest
<1>4. /\ waiters' \in [AllSemas -> Seq(Threads)]
      /\ \A r \in AllSemas : waiters'[r] = IF r = s THEN rest ELSE waiters[r]
  BY <1>1, <1>3
<1>5. \A r \in AllSemas : NoDuplicates(waiters'[r])
  BY <1>1, <1>4 DEF BaseInv, WaitLists
<1>6. ASSUME NEW r \in AllSemas, NEW u \in Threads
      PROVE  u \in Range(waiters'[r]) <=> status'[u] = "BLOCKED" /\ WaitsOn(u, r)'
  <2>1. u \in Range(waiters[r]) <=> status[u] = "BLOCKED" /\ WaitsOn(u, r)
    BY DEF BaseInv, WaitLists
  <2>2. u \in Range(waiters'[r]) <=> u \in Range(waiters[r]) /\ ~(r = s /\ u = t)
    BY <1>1, <1>4
  <2>3. status[u] = "BLOCKED" => (WaitsOn(u, r)' <=> WaitsOn(u, r))
    BY WaitsOnStays
  <2>4. u = t /\ WaitsOn(u, r) => r = s
    BY <1>1, <1>3, WaitsOnOne
  <2> QED
    BY <1>2, <2>1, <2>2, <2>3, <2>4
<1> QED
  BY <1>4, <1>5, <1>6 DEF WaitLists

\* sema_up on a semaphore that threads wait for.
LEMMA WakeStep ==
    ASSUME BaseInv, current \in Threads, NEW s \in AllSemas, waiters[s] # <<>>,
           waiters' = [waiters EXCEPT ![s] = Tail(@)],
           thread_unblock(Head(waiters[s]), priority),
           priority' = priority, panicked' = panicked, DataTypes',
           NEW l \in Labels \ {"create"}, NEW a \in Args, LabelArg(l, a), goto(l, a)
    PROVE  BaseInv'
<1> DEFINE t == Head(waiters[s])
<1>1. /\ CallTypes' /\ DOMAIN pc' = AllThreads /\ DOMAIN arg' = AllThreads
      /\ \A u \in AllThreads : u # current => pc'[u] = pc[u] /\ arg'[u] = arg[u]
      /\ pc'[current] = l
  BY Moves
<1>2. /\ current \in AllThreads /\ status[current] = "RUNNING"
      /\ Core(current, status, priority, ready_list, thread_ticks)
      /\ \A u \in Threads : pc[u] = "create" => arg[u] \in Threads /\ arg[u] # current
  BY CurrentFacts
<1>3. /\ t \in Threads /\ status[t] = "BLOCKED"
      /\ \A u \in Threads : pc[u] = "create" => arg[u] # t
  BY FrontOfWaiters
<1>4. /\ Core(current', status', priority, ready_list', thread_ticks')
      /\ Top(current', status', priority)
      /\ \A u \in Threads : status'[u] = "BLOCKED" <=> status[u] = "BLOCKED" /\ u # t
      /\ \A u \in Threads : status'[u] \in Gone => status[u] \in Gone
  BY <1>2, <1>3, UnblockEffect
<1>5. WaitLists'
  <2>1. \A u \in Threads : status[u] = "BLOCKED" => pc'[u] = pc[u] /\ arg'[u] = arg[u]
    BY <1>1, <1>2, Basics
  <2> QED
    BY <1>4, <2>1, WaitListsPop
<1> HIDE DEF t
<1>6. \A u \in Threads : pc'[u] = "create" => u # current /\ pc[u] = "create" /\ arg'[u] = arg[u]
  BY <1>1, Basics
<1>7. KernelInv'
  <2>1. \A u \in Threads : pc'[u] = "create" => status'[arg[u]] = "BLOCKED"
    BY <1>2, <1>3, <1>4, <1>6 DEF BaseInv, KernelInv, Created
  <2> QED
    BY <1>1, <1>4, <1>6, <2>1, SwitchInv DEF BaseInv, KernelInv
<1>8. Fresh'
  <2>1. \A u \in Threads : status'[u] \in Gone => pc'[u] = "run"
    BY <1>1, <1>2, <1>4, Basics DEF BaseInv, Fresh, Gone
  <2>2. \A u \in Threads : pc'[u] = "create" => pc'[arg'[u]] = "run"
    BY <1>1, <1>2, <1>6, Basics DEF BaseInv, Fresh
  <2> QED
    BY <2>1, <2>2 DEF Fresh
<1> QED
  BY <1>1, <1>5, <1>7, <1>8 DEF BaseInv

\* sema_down, either way.
LEMMA DownInv ==
    ASSUME BaseInv, current \in Threads, pc[current] \notin {"set_pri", "yield"},
           NEW s \in AllSemas, UNCHANGED <<holder, cond_waiters, held>>,
           NEW l \in Labels \ {"create"}, NEW a \in Args, LabelArg(l, a),
           \A r \in AllSemas :
               (l \in {"down", "acq"} /\ a = r) \/ (l = "wait_block" /\ current = r) <=> r = s,
           NEW m \in Labels \ {"create"}, NEW b \in Args, LabelArg(m, b),
           sema_down(s, l, a, m, b)
    PROVE  BaseInv'
<1>1. value \in [AllSemas -> Nat]
  BY DEF BaseInv, DataTypes
<1>2. CASE value[s] = 0
  <2>1. /\ waiters' = [waiters EXCEPT ![s] =
                list_insert_ordered(@, current, value_less(current, priority))]
        /\ thread_block /\ goto(l, a) /\ value' = value
        /\ priority' = priority /\ panicked' = panicked
    BY <1>2 DEF sema_down
  <2>2. DataTypes'
    BY <2>1 DEF BaseInv, DataTypes
  <2> QED
    BY <2>1, <2>2, SleepStep
<1>3. CASE value[s] # 0
  <2>1. /\ value' = [value EXCEPT ![s] = @ - 1] /\ goto(m, b) /\ waiters' = waiters
        /\ UNCHANGED schedVars /\ panicked' = panicked
    BY <1>3 DEF sema_down, schedVars
  <2>2. value' \in [AllSemas -> Nat]
    BY <1>1, <1>3, <2>1
  <2>3. DataTypes'
    BY <2>2 DEF BaseInv, DataTypes
  <2> QED
    BY <2>1, <2>3, QuietStep
<1> QED
  BY <1>2, <1>3

\* sema_up, either way.
LEMMA UpInv ==
    ASSUME BaseInv, current \in Threads, pc[current] \notin {"set_pri", "yield"},
           NEW s \in AllSemas, UNCHANGED <<holder, cond_waiters, held>>, sema_up(s),
           NEW l \in Labels \ {"create"}, NEW a \in Args, LabelArg(l, a), goto(l, a)
    PROVE  BaseInv'
<1>1. value' \in [AllSemas -> Nat]
  BY DEF BaseInv, DataTypes, sema_up
<1>2. DataTypes'
  BY <1>1 DEF BaseInv, DataTypes
<1>3. CASE waiters[s] = <<>>
  <2>1. waiters' = waiters /\ UNCHANGED schedVars /\ panicked' = panicked
    BY <1>3 DEF sema_up, schedVars
  <2> QED
    BY <1>2, <2>1, QuietStep
<1>4. CASE waiters[s] # <<>>
  <2>1. /\ waiters' = [waiters EXCEPT ![s] = Tail(@)]
        /\ thread_unblock(Head(waiters[s]), priority)
        /\ priority' = priority /\ panicked' = panicked
    BY <1>4 DEF sema_up
  <2> QED
    BY <1>2, <1>4, <2>1, WakeStep
<1> QED
  BY <1>3, <1>4

\* What running at a label means, and that not moving is a move.
LEMMA AtLabel ==
    ASSUME BaseInv, NEW l, Running(l)
    PROVE  /\ current \in Threads /\ current \in AllThreads /\ pc[current] = l
           /\ l \in Labels /\ arg[current] \in Args /\ LabelArg(l, arg[current])
           /\ pc' = pc /\ arg' = arg => goto(l, arg[current])
BY Basics DEF Running, BaseInv, CallTypes, goto

\* Semaphores, locks and conditions are different objects, and none of them NULL.
LEMMA Objects ==
    /\ \A s \in Semas : s \in AllSemas /\ s \in Args /\ s \notin Locks /\ s \notin Threads
    /\ \A l \in Locks : l \in AllSemas /\ l \in Args /\ l \notin Semas /\ l \notin Threads
    /\ \A t \in Threads : t \in AllSemas /\ t \in Args /\ t \notin Semas /\ t \notin Locks
    /\ \A c \in Conds : c \in Args /\ lockOf[c] \in Locks
    /\ \A c \in Conds, t \in Threads : <<c, t>> \in Args
    /\ NULL \in Args
BY SynchAssumption DEF AllSemas, Args

\* sema_down, sema_try_down and sema_up called by threads.
LEMMA SemaInv ==
    ASSUME BaseInv, NEW s \in Semas, SemaDown(s) \/ SemaTryDown(s) \/ SemaUp(s)
    PROVE  BaseInv'
<1>1. /\ Running("run") /\ arg[current] = NULL
      /\ current \in Threads /\ pc[current] = "run" /\ s \in AllSemas /\ s \in Args /\ NULL \in Args
  BY AtLabel, Objects DEF SemaDown, SemaTryDown, SemaUp, LabelArg
<1>2. CASE SemaDown(s)
  <2>1. LabelArg("down", s) /\ LabelArg("run", NULL)
    BY DEF LabelArg
  <2>2. /\ "down" \in Labels \ {"create"} /\ "run" \in Labels \ {"create"}
    BY DEF Labels
  <2>3. /\ sema_down(s, "down", s, "run", NULL) /\ UNCHANGED <<holder, cond_waiters, held>>
    BY <1>2 DEF SemaDown
  <2> QED
    BY <1>1, <2>1, <2>2, <2>3, DownInv
<1>3. CASE SemaTryDown(s)
  <2>1. /\ value' = [value EXCEPT ![s] = @ - 1] /\ value[s] > 0 /\ waiters' = waiters
        /\ UNCHANGED <<holder, cond_waiters, held>>
        /\ UNCHANGED schedVars /\ panicked' = panicked /\ pc' = pc /\ arg' = arg
    BY <1>3 DEF SemaTryDown, vars
  <2>2. value' \in [AllSemas -> Nat]
    BY <1>1, <2>1 DEF BaseInv, DataTypes
  <2>3. DataTypes'
    BY <2>1, <2>2 DEF BaseInv, DataTypes
  <2>4. goto("run", NULL) /\ LabelArg("run", NULL) /\ "run" \in Labels \ {"create"}
    BY <1>1, <2>1, AtLabel DEF LabelArg, Labels
  <2> QED
    BY <1>1, <2>1, <2>3, <2>4, QuietStep
<1>4. CASE SemaUp(s)
  <2>1. sema_up(s) /\ UNCHANGED <<holder, cond_waiters, held>> /\ pc' = pc /\ arg' = arg
    BY <1>4 DEF SemaUp
  <2>2. goto("run", NULL) /\ LabelArg("run", NULL) /\ "run" \in Labels \ {"create"}
    BY <1>1, <2>1, AtLabel DEF LabelArg, Labels
  <2> QED
    BY <1>1, <2>1, <2>2, UpInv
<1> QED
  BY <1>2, <1>3, <1>4

\* A thread that goes on in sema_down after having been woken.
LEMMA SemaResumeInv == ASSUME BaseInv, SemaDownResume PROVE BaseInv'
<1> DEFINE s == arg[current]
<1>1. current \in Threads /\ pc[current] = "down" /\ s \in Semas
  BY AtLabel DEF SemaDownResume, LabelArg
<1>2. s \in AllSemas /\ s \in Args /\ NULL \in Args
  BY <1>1, Objects
<1>3. /\ sema_down(s, "down", s, "run", NULL) /\ UNCHANGED <<holder, cond_waiters, held>>
  BY DEF SemaDownResume
<1>4. /\ "down" \in Labels \ {"create"} /\ "run" \in Labels \ {"create"}
      /\ LabelArg("down", s) /\ LabelArg("run", NULL)
  BY <1>1 DEF Labels, LabelArg
<1> QED
  BY <1>1, <1>2, <1>3, <1>4, DownInv

\* lock_acquire, from its start or from where it was woken, and the end of
\* cond_wait.
LEMMA AcquireInv ==
    ASSUME BaseInv, current \in Threads, pc[current] \notin {"set_pri", "yield"},
           NEW l \in Locks, sema_down(l, "acq", l, "own", l),
           UNCHANGED <<holder, cond_waiters, held>>
    PROVE  BaseInv'
<1>1. l \in AllSemas /\ l \in Args
  BY Objects
<1>2. /\ "acq" \in Labels \ {"create"} /\ "own" \in Labels \ {"create"}
      /\ LabelArg("acq", l) /\ LabelArg("own", l)
  BY DEF Labels, LabelArg
<1> QED
  BY <1>1, <1>2, DownInv

\* The other steps of lock_acquire, lock_try_acquire and lock_release.
LEMMA LockInvStep == ASSUME BaseInv, LockStep PROVE BaseInv'
<1>1. ASSUME NEW l \in Locks, LockAcquire(l) PROVE BaseInv'
  <2>1. current \in Threads /\ pc[current] = "run"
    BY <1>1 DEF LockAcquire, Running
  <2>2. sema_down(l, "acq", l, "own", l) /\ UNCHANGED <<holder, cond_waiters, held>>
    BY <1>1 DEF LockAcquire
  <2> QED
    BY <2>1, <2>2, AcquireInv
<1>2. CASE LockAcquireResume
  <2>1. current \in Threads /\ pc[current] = "acq" /\ arg[current] \in Locks
    BY <1>2, AtLabel DEF LockAcquireResume, LabelArg
  <2>2. /\ sema_down(arg[current], "acq", arg[current], "own", arg[current])
        /\ UNCHANGED <<holder, cond_waiters, held>>
    BY <1>2 DEF LockAcquireResume
  <2> QED
    BY <2>1, <2>2, AcquireInv
<1>3. ASSUME NEW l \in Locks, LockTryAcquire(l) PROVE BaseInv'
  <2>1. /\ current \in Threads /\ pc[current] = "run" /\ goto("own", l)
        /\ value[l] > 0 /\ value' = [value EXCEPT ![l] = @ - 1]
        /\ UNCHANGED schedVars /\ panicked' = panicked /\ waiters' = waiters
        /\ UNCHANGED <<holder, cond_waiters, held>>
    BY <1>3 DEF LockTryAcquire, Running
  <2>2. l \in AllSemas /\ l \in Args /\ "own" \in Labels \ {"create"} /\ LabelArg("own", l)
    BY Objects DEF Labels, LabelArg
  <2>3. value' \in [AllSemas -> Nat]
    BY <2>1, <2>2 DEF BaseInv, DataTypes
  <2>4. DataTypes'
    BY <2>1, <2>3 DEF BaseInv, DataTypes
  <2> QED
    BY <2>1, <2>2, <2>4, QuietStep
<1>4. CASE LockOwn
  <2>1. current \in Threads /\ pc[current] = "own" /\ arg[current] \in Locks
    BY <1>4, AtLabel DEF LockOwn, LabelArg
  <2>2. /\ holder' = [holder EXCEPT ![arg[current]] = current]
        /\ held' = [held EXCEPT ![current] = @ \cup {arg[current]}]
        /\ goto("run", NULL) /\ UNCHANGED schedVars /\ panicked' = panicked
        /\ waiters' = waiters /\ UNCHANGED <<value, cond_waiters>>
    BY <1>4 DEF LockOwn
  <2>3. DataTypes'
    BY <2>1, <2>2 DEF BaseInv, DataTypes
  <2>4. "run" \in Labels \ {"create"} /\ LabelArg("run", NULL) /\ NULL \in Args
    BY Objects DEF Labels, LabelArg
  <2> QED
    BY <2>1, <2>2, <2>3, <2>4, QuietStep
<1>5. ASSUME NEW l \in Locks, LockRelease(l) PROVE BaseInv'
  <2>1. /\ current \in Threads /\ pc[current] = "run" /\ goto("rel", l)
        /\ holder' = [holder EXCEPT ![l] = NULL]
        /\ held' = [held EXCEPT ![current] = @ \ {l}]
        /\ UNCHANGED schedVars /\ panicked' = panicked
        /\ waiters' = waiters /\ UNCHANGED <<value, cond_waiters>>
    BY <1>5 DEF LockRelease, Running, clearHolder
  <2>2. DataTypes'
    BY <2>1 DEF BaseInv, DataTypes
  <2>3. "rel" \in Labels \ {"create"} /\ LabelArg("rel", l) /\ l \in Args
    BY Objects DEF Labels, LabelArg
  <2> QED
    BY <2>1, <2>2, <2>3, QuietStep
<1>6. CASE LockReleaseUp
  <2>1. current \in Threads /\ pc[current] = "rel" /\ arg[current] \in Locks
    BY <1>6, AtLabel DEF LockReleaseUp, LabelArg
  <2>2. sema_up(arg[current]) /\ goto("run", NULL) /\ UNCHANGED <<holder, cond_waiters, held>>
    BY <1>6 DEF LockReleaseUp
  <2>3. /\ "run" \in Labels \ {"create"} /\ LabelArg("run", NULL) /\ NULL \in Args
        /\ arg[current] \in AllSemas
    BY <2>1, Objects DEF Labels, LabelArg
  <2> QED
    BY <2>1, <2>2, <2>3, UpInv
<1> QED
  BY <1>1, <1>2, <1>3, <1>4, <1>5, <1>6 DEF LockStep

\* Nobody but cond_wait's own thread is ever queued on its semaphore, so that
\* sema_init finds it empty.
LEMMA OwnSemaEmpty ==
    ASSUME BaseInv, current \in Threads PROVE waiters[current] = <<>>
<1>1. waiters[current] \in Seq(Threads) /\ current \in AllSemas
  BY Objects DEF BaseInv, WaitLists
<1>2. \A t \in Threads : t \in Range(waiters[current]) => WaitsOn(t, current)
  BY <1>1 DEF BaseInv, WaitLists
<1>3. \A t \in Threads : WaitsOn(t, current) => t = current
  BY Objects, Basics DEF WaitsOn, BaseInv, CallTypes, LabelArg
<1>4. \A t \in Threads : t \notin Range(waiters[current])
  BY <1>1, <1>2, <1>3, CurrentFacts
<1>5. ASSUME waiters[current] # <<>> PROVE FALSE
  <2>1. Head(waiters[current]) \in Threads /\ Head(waiters[current]) \in Range(waiters[current])
    BY <1>1, <1>5, PopFront DEF BaseInv, WaitLists
  <2> QED
    BY <1>4, <2>1
<1> QED
  BY <1>5

\* Steps of cond_signal and cond_broadcast: of all data they change the waiters
\* of the condition only.
LEMMA CondQuiet ==
    ASSUME BaseInv, current \in Threads, pc[current] \notin {"set_pri", "yield"},
           cond_waiters' \in [Conds -> Seq(Threads)],
           UNCHANGED schedVars, UNCHANGED <<panicked, value, waiters, holder, held>>,
           NEW l \in Labels \ {"create"}, NEW a \in Args, LabelArg(l, a), goto(l, a)
    PROVE  BaseInv'
<1>1. DataTypes'
  BY DEF BaseInv, DataTypes
<1> QED
  BY <1>1, QuietStep

\* Removing the front of a condition's waiters.
LEMMA CondPop ==
    ASSUME BaseInv, NEW c \in Conds, cond_waiters[c] # <<>>
    PROVE  /\ Head(cond_waiters[c]) \in Threads
           /\ popWaiter(c) => cond_waiters' \in [Conds -> Seq(Threads)]
<1>1. cond_waiters \in [Conds -> Seq(Threads)] /\ cond_waiters[c] \in Seq(Threads)
  BY DEF BaseInv, DataTypes
<1>2. Head(cond_waiters[c]) \in Threads /\ Tail(cond_waiters[c]) \in Seq(Threads)
  BY <1>1
<1> QED
  BY <1>1, <1>2 DEF popWaiter

\* cond_wait.
LEMMA CondWaitInv ==
    ASSUME BaseInv,
           \/ \E c \in Conds : CondWait(c)
           \/ CondWaitRelease \/ CondWaitUp \/ CondWaitDown \/ CondWaitAcquire
    PROVE  BaseInv'
<1>1. ASSUME NEW c \in Conds, CondWait(c) PROVE BaseInv'
  <2>1. /\ current \in Threads /\ pc[current] = "run" /\ goto("wait_rel", c)
        /\ UNCHANGED schedVars /\ panicked' = panicked /\ UNCHANGED <<holder, held>>
        /\ value' = [value EXCEPT ![current] = 0]
        /\ waiters' = [waiters EXCEPT ![current] = <<>>]
    BY <1>1 DEF CondWait, Running
  <2>2. PICK i \in 1..(Len(cond_waiters[c]) + 1) :
            cond_waiters' = [cond_waiters EXCEPT ![c] = list_insert(@, i, current)]
    BY <1>1 DEF CondWait
  <2>3. cond_waiters \in [Conds -> Seq(Threads)] /\ cond_waiters[c] \in Seq(Threads)
    BY DEF BaseInv, DataTypes
  <2>4. list_insert(cond_waiters[c], i, current) \in Seq(Threads)
    BY <2>1, <2>3, InsertElements
  <2>5. cond_waiters' \in [Conds -> Seq(Threads)]
    BY <2>2, <2>3, <2>4
  <2>6. waiters' = waiters
    <3>1. waiters \in [AllSemas -> Seq(Threads)] /\ waiters[current] = <<>>
      BY <2>1, OwnSemaEmpty DEF BaseInv, WaitLists
    <3> QED
      BY <2>1, <3>1
  <2>7. DataTypes'
    BY <2>1, <2>5 DEF BaseInv, DataTypes
  <2>8. "wait_rel" \in Labels \ {"create"} /\ LabelArg("wait_rel", c) /\ c \in Args
    BY Objects DEF Labels, LabelArg
  <2> QED
    BY <2>1, <2>6, <2>7, <2>8, QuietStep
<1>2. CASE CondWaitRelease
  <2>1. /\ current \in Threads /\ pc[current] = "wait_rel"
        /\ arg[current] \in Conds /\ arg[current] \in Args
    BY <1>2, AtLabel DEF CondWaitRelease, LabelArg
  <2>2. /\ goto("wait_up", arg[current]) /\ clearHolder(lockOf[arg[current]])
        /\ UNCHANGED schedVars /\ panicked' = panicked
        /\ waiters' = waiters /\ UNCHANGED <<value, cond_waiters>>
    BY <1>2 DEF CondWaitRelease
  <2>3. DataTypes'
    BY <2>1, <2>2 DEF BaseInv, DataTypes, clearHolder
  <2>4. "wait_up" \in Labels \ {"create"} /\ LabelArg("wait_up", arg[current])
    BY <2>1 DEF Labels, LabelArg
  <2> QED
    BY <2>1, <2>2, <2>3, <2>4, QuietStep
<1>3. CASE CondWaitUp
  <2>1. /\ current \in Threads /\ pc[current] = "wait_up"
        /\ arg[current] \in Conds /\ arg[current] \in Args
    BY <1>3, AtLabel DEF CondWaitUp, LabelArg
  <2>2. /\ sema_up(lockOf[arg[current]]) /\ goto("wait_down", arg[current])
        /\ UNCHANGED <<holder, cond_waiters, held>>
    BY <1>3 DEF CondWaitUp
  <2>3. /\ "wait_down" \in Labels \ {"create"} /\ LabelArg("wait_down", arg[current])
        /\ lockOf[arg[current]] \in AllSemas
    BY <2>1, Objects DEF Labels, LabelArg
  <2> QED
    BY <2>1, <2>2, <2>3, UpInv
<1>4. CASE CondWaitDown
  <2>1. /\ current \in Threads /\ pc[current] \in {"wait_down", "wait_block"}
        /\ arg[current] \in Conds /\ arg[current] \in Args
    BY <1>4, AtLabel DEF CondWaitDown, LabelArg
  <2>2. /\ sema_down(current, "wait_block", arg[current], "wait_acq", arg[current])
        /\ UNCHANGED <<holder, cond_waiters, held>>
    BY <1>4 DEF CondWaitDown
  <2>3. /\ "wait_block" \in Labels \ {"create"} /\ LabelArg("wait_block", arg[current])
        /\ "wait_acq" \in Labels \ {"create"} /\ LabelArg("wait_acq", arg[current])
        /\ current \in AllSemas
    BY <2>1, Objects DEF Labels, LabelArg
  <2> QED
    BY <2>1, <2>2, <2>3, DownInv
<1>5. CASE CondWaitAcquire
  <2>1. current \in Threads /\ pc[current] = "wait_acq" /\ lockOf[arg[current]] \in Locks
    BY <1>5, AtLabel, Objects DEF CondWaitAcquire, LabelArg
  <2>2. /\ sema_down(lockOf[arg[current]], "acq", lockOf[arg[current]],
                     "own", lockOf[arg[current]])
        /\ UNCHANGED <<holder, cond_waiters, held>>
    BY <1>5 DEF CondWaitAcquire
  <2> QED
    BY <2>1, <2>2, AcquireInv
<1> QED
  BY <1>1, <1>2, <1>3, <1>4, <1>5

\* cond_signal and cond_broadcast.
LEMMA CondSignalInv ==
    ASSUME BaseInv,
           \/ \E c \in Conds : CondSignal(c) \/ CondBroadcast(c)
           \/ CondSignalUp \/ CondBroadcastLoop \/ CondBroadcastUp
    PROVE  BaseInv'
<1>0. /\ {"run", "sig_up", "bcast", "bcast_up"} \subseteq Labels \ {"create"}
      /\ LabelArg("run", NULL) /\ \A t \in Threads : LabelArg("sig_up", t)
      /\ \A c \in Conds : LabelArg("bcast", c)
      /\ \A c \in Conds, t \in Threads : LabelArg("bcast_up", <<c, t>>)
      /\ cond_waiters \in [Conds -> Seq(Threads)]
  BY DEF Labels, LabelArg, BaseInv, DataTypes
<1>1. ASSUME NEW c \in Conds, CondSignal(c) PROVE BaseInv'
  <2>1. /\ current \in Threads /\ pc[current] = "run" /\ goto("sig_up", Head(cond_waiters[c]))
        /\ cond_waiters[c] # <<>> /\ popWaiter(c) /\ UNCHANGED schedVars
        /\ UNCHANGED <<panicked, value, waiters, holder, held>>
    BY <1>1 DEF CondSignal, Running
  <2> QED
    BY <1>0, <2>1, CondPop, CondQuiet, Objects
<1>2. ASSUME NEW c \in Conds, CondBroadcast(c) PROVE BaseInv'
  <2>1. /\ current \in Threads /\ pc[current] = "run" /\ goto("bcast", c)
        /\ UNCHANGED schedVars /\ cond_waiters' = cond_waiters
        /\ UNCHANGED <<panicked, value, waiters, holder, held>>
    BY <1>2 DEF CondBroadcast, Running, synchVars
  <2> QED
    BY <1>0, <2>1, CondQuiet, Objects
<1>3. CASE CondSignalUp
  <2>1. current \in Threads /\ pc[current] = "sig_up" /\ arg[current] \in Threads
    BY <1>3, AtLabel DEF CondSignalUp, LabelArg
  <2>2. sema_up(arg[current]) /\ goto("run", NULL) /\ UNCHANGED <<holder, cond_waiters, held>>
    BY <1>3 DEF CondSignalUp
  <2> QED
    BY <1>0, <2>1, <2>2, UpInv, Objects
<1>4. CASE CondBroadcastLoop
  <2>1. current \in Threads /\ pc[current] = "bcast" /\ arg[current] \in Conds
    BY <1>4, AtLabel DEF CondBroadcastLoop, LabelArg
  <2>2. UNCHANGED schedVars /\ UNCHANGED <<panicked, value, waiters, holder, held>>
    BY <1>4 DEF CondBroadcastLoop
  <2>3. CASE cond_waiters[arg[current]] = <<>>
    <3>1. goto("run", NULL) /\ cond_waiters' = cond_waiters
      BY <1>4, <2>3 DEF CondBroadcastLoop
    <3> QED
      BY <1>0, <2>1, <2>2, <3>1, CondQuiet, Objects
  <2>4. CASE cond_waiters[arg[current]] # <<>>
    <3>1. /\ popWaiter(arg[current])
          /\ goto("bcast_up", <<arg[current], Head(cond_waiters[arg[current]])>>)
      BY <1>4, <2>4 DEF CondBroadcastLoop
    <3>2. /\ Head(cond_waiters[arg[current]]) \in Threads
          /\ cond_waiters' \in [Conds -> Seq(Threads)]
      BY <2>1, <2>4, <3>1, CondPop
    <3> QED
      BY <1>0, <2>1, <2>2, <3>1, <3>2, CondQuiet, Objects
  <2> QED
    BY <2>3, <2>4
<1>5. CASE CondBroadcastUp
  <2>1. /\ current \in Threads /\ pc[current] = "bcast_up"
        /\ arg[current][1] \in Conds /\ arg[current][2] \in Threads
    BY <1>5, AtLabel DEF CondBroadcastUp, LabelArg
  <2>2. /\ sema_up(arg[current][2]) /\ goto("bcast", arg[current][1])
        /\ UNCHANGED <<holder, cond_waiters, held>>
    BY <1>5 DEF CondBroadcastUp
  <2> QED
    BY <1>0, <2>1, <2>2, UpInv, Objects
<1> QED
  BY <1>1, <1>2, <1>3, <1>4, <1>5

\* A step of thread.c.  It concerns the labels of the current thread only, and
\* never the wait of a thread suspended in sema_down.
LEMMA ThreadFrame ==
    ASSUME BaseInv, KernelInv', CallTypes', UNCHANGED synchVars,
           \A u \in Threads : u # current => pc'[u] = pc[u] /\ arg'[u] = arg[u],
           current \in Threads => pc[current] \notin Suspended /\ pc'[current] \notin Suspended,
           \A u \in Threads : pc[u] \in Suspended =>
                                  (status'[u] = "BLOCKED" <=> status[u] = "BLOCKED"),
           \A u \in Threads : status'[u] \in Gone => status[u] \in Gone \/ pc'[u] = "run",
           current \in Threads /\ pc'[current] = "create" =>
               /\ arg'[current] \in Threads /\ arg'[current] # current
               /\ pc[arg'[current]] = "run"
    PROVE  BaseInv'
<1>1. /\ waiters' = waiters /\ value' = value /\ holder' = holder
      /\ cond_waiters' = cond_waiters /\ held' = held
  BY DEF synchVars
<1>2. DataTypes'
  BY <1>1 DEF BaseInv, DataTypes
<1>3. WaitLists'
  <2> SUFFICES ASSUME NEW s \in AllSemas, NEW t \in Threads
               PROVE  t \in Range(waiters[s]) <=> status'[t] = "BLOCKED" /\ WaitsOn(t, s)'
    BY <1>1 DEF BaseInv, WaitLists
  <2>1. t \in Range(waiters[s]) <=> status[t] = "BLOCKED" /\ WaitsOn(t, s)
    BY DEF BaseInv, WaitLists
  <2>2. CASE t = current
    <3>1. ~WaitsOn(t, s) /\ ~WaitsOn(t, s)'
      BY <2>2 DEF WaitsOn, Suspended
    <3> QED
      BY <2>1, <3>1
  <2>3. CASE t # current
    <3>1. WaitsOn(t, s)' <=> WaitsOn(t, s)
      BY <2>3, WaitsOnStays
    <3>2. WaitsOn(t, s) => pc[t] \in Suspended
      BY DEF WaitsOn, Suspended
    <3> QED
      BY <2>1, <3>1, <3>2
  <2> QED
    BY <2>2, <2>3
<1>4. Fresh'
  <2>1. \A u \in Threads : status[u] \in Gone => pc[u] = "run" /\ u # current
    BY CurrentFacts DEF BaseInv, Fresh, Gone
  <2>2. \A u \in Threads : pc[u] = "create" => arg[u] \in Threads /\ pc[arg[u]] = "run"
    BY DEF BaseInv, KernelInv, Created, Fresh
  <2>3. \A u \in Threads : pc[u] = "create" => arg[u] # current
    BY <2>2, CurrentFacts
  <2>4. \A u \in Threads : status'[u] \in Gone => pc'[u] = "run"
    BY <2>1
  <2>5. \A u \in Threads : pc'[u] = "create" => pc'[arg'[u]] = "run"
    BY <2>2, <2>3
  <2> QED
    BY <2>4, <2>5 DEF Fresh
<1> QED
  BY <1>2, <1>3, <1>4 DEF BaseInv

\* What the scheduler's queue operations leave alone.
LEMMA StatusFrame ==
    ASSUME BaseInv
    PROVE  /\ thread_yield(ready_list, status, priority) =>
                 /\ \A u \in Threads : status'[u] = "BLOCKED" <=> status[u] = "BLOCKED"
                 /\ \A u \in Threads : status'[u] \in Gone => status[u] \in Gone
           /\ \A new \in {"BLOCKED", "DYING"} :
                 schedule(ready_list, [status EXCEPT ![current] = new]) =>
                 /\ \A u \in Threads : u # current => (status'[u] = "BLOCKED" <=> status[u] = "BLOCKED")
                 /\ \A u \in Threads : status'[u] \in Gone => status[u] \in Gone \/ u = current
<1>1. Core(current, status, priority, ready_list, thread_ticks)
  BY DEF BaseInv, KernelInv
<1>2. /\ status \in StatusMap /\ priority \in PriorityMap /\ current \in AllThreads
      /\ RunQueue(ready_list, status, priority)
      /\ \A t \in AllThreads : status[t] = "RUNNING" <=> t = current
  BY <1>1 DEF Core
<1>3. ASSUME thread_yield(ready_list, status, priority)
      PROVE  /\ \A u \in Threads : status'[u] = "BLOCKED" <=> status[u] = "BLOCKED"
             /\ \A u \in Threads : status'[u] \in Gone => status[u] \in Gone
  BY <1>2, <1>3, YieldEffect
<1>4. ASSUME NEW new \in {"BLOCKED", "DYING"},
             schedule(ready_list, [status EXCEPT ![current] = new])
      PROVE  /\ \A u \in Threads : u # current => (status'[u] = "BLOCKED" <=> status[u] = "BLOCKED")
             /\ \A u \in Threads : status'[u] \in Gone => status[u] \in Gone \/ u = current
  BY <1>1, <1>4, BlockEffect
<1> QED
  BY <1>3, <1>4

\* thread_create.
LEMMA ThreadCreateInv ==
    ASSUME BaseInv, UNCHANGED synchVars,
           \/ \E t \in Threads, p \in Priorities : ThreadCreate(t, p)
           \/ ThreadCreateUnblock
    PROVE  BaseInv'
<1>1. ASSUME NEW t \in Threads, NEW p \in Priorities, ThreadCreate(t, p) PROVE BaseInv'
  <2>1. /\ current \in Threads /\ pc[current] = "run" /\ status[t] = "FREE"
        /\ status' = [status EXCEPT ![t] = "BLOCKED"]
        /\ pc' = [pc EXCEPT ![current] = "create", ![t] = "run"]
        /\ arg' = [arg EXCEPT ![current] = t]
    BY <1>1 DEF ThreadCreate, Running
  <2>2. /\ current \in AllThreads /\ t \in AllThreads /\ t # current /\ pc[t] = "run"
        /\ status \in [AllThreads -> Statuses]
        /\ pc \in [AllThreads -> Labels] /\ arg \in [AllThreads -> Args]
    BY <2>1, CurrentFacts, Basics DEF BaseInv, Fresh, Gone, Core, StatusMap, CallTypes
  <2>3. pc' = [pc EXCEPT ![current] = "create"]
    BY <2>1, <2>2
  <2>4. "create" \in Labels /\ LabelArg("create", t) /\ t \in Args /\ goto("create", t)
    BY <2>1, <2>3, Objects DEF Labels, LabelArg, goto
  <2>5. /\ CallTypes' /\ pc'[current] = "create" /\ arg'[current] = t
        /\ \A u \in AllThreads : u # current => pc'[u] = pc[u] /\ arg'[u] = arg[u]
    BY <2>1, <2>4, Moves
  <2>6. \A u \in Threads : status'[u] = IF u = t THEN "BLOCKED" ELSE status[u]
    BY <2>1, <2>2, Basics
  <2>7. KernelInv'
    BY <1>1, CreateInv DEF BaseInv
  <2> QED
    BY <2>1, <2>2, <2>5, <2>6, <2>7, ThreadFrame, Basics DEF Suspended, Gone
<1>2. CASE ThreadCreateUnblock
  <2>1. /\ current \in Threads /\ pc[current] = "create" /\ goto("run", NULL)
        /\ thread_unblock(arg[current], priority)
    BY <1>2 DEF ThreadCreateUnblock, Running, goto
  <2>2. /\ arg[current] \in Threads /\ status[arg[current]] = "BLOCKED"
        /\ pc[arg[current]] = "run"
    BY <2>1 DEF BaseInv, KernelInv, Created, Fresh
  <2>3. /\ \A u \in Threads : status'[u] = "BLOCKED" <=> status[u] = "BLOCKED" /\ u # arg[current]
        /\ \A u \in Threads : status'[u] \in Gone => status[u] \in Gone
    BY <2>1, <2>2, CurrentFacts, UnblockEffect
  <2>4. "run" \in Labels /\ LabelArg("run", NULL) /\ NULL \in Args
    BY Objects DEF Labels, LabelArg
  <2>5. /\ CallTypes' /\ pc'[current] = "run"
        /\ \A u \in AllThreads : u # current => pc'[u] = pc[u] /\ arg'[u] = arg[u]
    BY <2>1, <2>4, Moves
  <2>6. KernelInv'
    BY <1>2, CreateUnblockInv DEF BaseInv
  <2>7. \A u \in Threads : pc[u] \in Suspended =>
                                (status'[u] = "BLOCKED" <=> status[u] = "BLOCKED")
    BY <2>2, <2>3 DEF Suspended
  <2> QED
    BY <2>1, <2>3, <2>5, <2>6, <2>7, ThreadFrame, Basics DEF Suspended
<1> QED
  BY <1>1, <1>2

\* The idle thread and interrupts move the idle thread's label only.
LEMMA IdleMoves ==
    ASSUME BaseInv, NEW l \in {"run", "hlt"}, arg' = arg,
           pc' = pc \/ pc' = [pc EXCEPT ![idle_thread] = l]
    PROVE  CallTypes' /\ \A u \in Threads : pc'[u] = pc[u]
<1>1. /\ pc \in [AllThreads -> Labels] /\ idle_thread \in AllThreads /\ l \in Labels
      /\ LabelArg(l, NULL) /\ arg[idle_thread] = NULL
  BY Basics DEF BaseInv, CallTypes, Labels, LabelArg
<1>2. /\ pc' \in [AllThreads -> Labels]
      /\ \A u \in AllThreads : pc'[u] = pc[u] \/ (u = idle_thread /\ pc'[u] = l)
  BY <1>1
<1>3. \A u \in AllThreads : LabelArg(pc'[u], arg'[u])
  BY <1>1, <1>2 DEF BaseInv, CallTypes
<1>4. CallTypes'
  BY <1>2, <1>3 DEF BaseInv, CallTypes
<1> QED
  BY <1>2, <1>4, Basics

\* thread_set_priority, its three steps, and the other calls of a running thread.
LEMMA ThreadCallInv ==
    ASSUME BaseInv, UNCHANGED synchVars,
           \/ ThreadYield \/ ThreadExit \/ SetPriorityCheck \/ SetPriorityYield
           \/ \E p \in Priorities : ThreadSetPriority(p)
    PROVE  BaseInv'
<1>1. KernelInv'
  <2>1. SchedNext
    BY DEF SchedNext
  <2> QED
    BY <2>1, NextInv DEF BaseInv
<1>2. /\ current \in Threads /\ pc[current] \in {"run", "set_pri", "yield"} /\ arg[current] = NULL
  BY AtLabel DEF ThreadYield, ThreadExit, SetPriorityCheck, SetPriorityYield,
                 ThreadSetPriority, LabelArg, Running
<1>3. PICK l \in {"run", "set_pri", "yield"} : goto(l, NULL) /\ (ThreadExit => l = "run")
  <2>1. pc = [pc EXCEPT ![current] = pc[current]] /\ arg = [arg EXCEPT ![current] = NULL]
    BY <1>2, CurrentFacts DEF BaseInv, CallTypes
  <2>2. CASE ThreadYield \/ ThreadExit
    <3>1. pc' = pc /\ arg' = arg /\ pc[current] = "run"
      BY <2>2 DEF ThreadYield, ThreadExit, Running
    <3> QED
      BY <2>1, <3>1 DEF goto
  <2>3. CASE ~ThreadExit /\ (SetPriorityCheck \/ SetPriorityYield
                             \/ \E p \in Priorities : ThreadSetPriority(p))
    <3>1. arg' = arg /\ \E l \in {"run", "set_pri", "yield"} : pc' = [pc EXCEPT ![current] = l]
      BY <2>3 DEF SetPriorityCheck, SetPriorityYield, ThreadSetPriority
    <3> QED
      BY <2>1, <2>3, <3>1 DEF goto
  <2> QED
    BY <2>2, <2>3
<1>4. l \in Labels /\ LabelArg(l, NULL) /\ NULL \in Args
  BY Objects DEF Labels, LabelArg
<1>5. /\ CallTypes' /\ pc'[current] = l
      /\ \A u \in AllThreads : u # current => pc'[u] = pc[u] /\ arg'[u] = arg[u]
  BY <1>2, <1>3, <1>4, Moves
<1>6. /\ \A u \in Threads : u # current => (status'[u] = "BLOCKED" <=> status[u] = "BLOCKED")
      /\ \A u \in Threads : status'[u] \in Gone =>
                                status[u] \in Gone \/ (u = current /\ ThreadExit)
  <2>1. CASE thread_yield(ready_list, status, priority)
    BY <2>1, StatusFrame
  <2>2. CASE ThreadExit
    BY <2>2, StatusFrame DEF ThreadExit
  <2>3. CASE status' = status
    BY <2>3
  <2> QED
    BY <2>1, <2>2, <2>3 DEF ThreadYield, SetPriorityCheck, SetPriorityYield, ThreadSetPriority,
                            schedVars
<1>7. \A u \in Threads : pc[u] \in Suspended =>
                              (status'[u] = "BLOCKED" <=> status[u] = "BLOCKED")
  BY <1>2, <1>6 DEF Suspended
<1> QED
  BY <1>1, <1>2, <1>3, <1>5, <1>6, <1>7, ThreadFrame, Basics DEF Suspended

\* The idle thread and the timer.
LEMMA ThreadTickInv ==
    ASSUME BaseInv, UNCHANGED synchVars, IdleBlock \/ (Tick /\ InterruptsOn)
    PROVE  BaseInv'
<1>1. KernelInv'
  BY BlockInv, TickInv DEF BaseInv
<1>2. /\ arg' = arg /\ \E l \in {"run", "hlt"} : pc' = pc \/ pc' = [pc EXCEPT ![idle_thread] = l]
      /\ current \in Threads => pc[current] \notin Suspended
  BY Basics DEF IdleBlock, Tick, interruptReturn, InterruptsOn, Suspended
<1>3. CallTypes' /\ \A u \in Threads : pc'[u] = pc[u] /\ arg'[u] = arg[u]
  BY <1>2, IdleMoves
<1>4. /\ \A u \in Threads : status'[u] = "BLOCKED" <=> status[u] = "BLOCKED"
      /\ \A u \in Threads : status'[u] \in Gone => status[u] \in Gone
  <2>1. CASE IdleBlock
    <3>1. current = idle_thread /\ schedule(ready_list, [status EXCEPT ![current] = "BLOCKED"])
      BY <2>1 DEF IdleBlock, thread_block
    <3> QED
      BY <3>1, StatusFrame, Basics
  <2>2. CASE Tick
    <3>1. thread_yield(ready_list, status, priority) \/ status' = status
      BY <2>2 DEF Tick
    <3> QED
      BY <3>1, StatusFrame
  <2> QED
    BY <2>1, <2>2
<1>5. current \in Threads /\ pc'[current] = "create" =>
          /\ arg'[current] \in Threads /\ arg'[current] # current
          /\ pc[arg'[current]] = "run"
  BY <1>3, CurrentFacts DEF BaseInv, Fresh
<1> QED
  BY <1>1, <1>2, <1>3, <1>4, <1>5, ThreadFrame

\* sema_up called by an interrupt handler.
LEMMA InterruptUpInv ==
    ASSUME BaseInv, NEW s \in Semas, InterruptUp(s) PROVE BaseInv'
<1>1. /\ ~panicked /\ value' = [value EXCEPT ![s] = @ + 1] /\ s \in AllSemas
      /\ UNCHANGED <<holder, cond_waiters, held>> /\ arg' = arg
      /\ pc' = pc \/ (current = idle_thread /\ pc' = [pc EXCEPT ![idle_thread] = "run"])
      /\ current' = current /\ priority' = priority /\ thread_ticks' = thread_ticks
  BY Objects DEF InterruptUp, interruptUnblock, interruptReturn, schedVars
<1>2. DataTypes'
  BY <1>1 DEF BaseInv, DataTypes
<1>3. CallTypes' /\ \A u \in Threads : pc'[u] = pc[u] /\ arg'[u] = arg[u]
  BY <1>1, IdleMoves
<1>4. ASSUME \A u \in Threads : status'[u] \in Gone => status[u] \in Gone
      PROVE  Fresh'
  BY <1>3, <1>4 DEF BaseInv, Fresh, KernelInv, Created
<1>5. CASE waiters[s] = <<>>
  <2>1. status' = status /\ ready_list' = ready_list /\ panicked' = panicked /\ waiters' = waiters
    BY <1>5 DEF InterruptUp, schedVars
  <2>2. KernelInv'
    <3>1. Created'
      BY <1>3, <2>1, CreatedStays DEF BaseInv, KernelInv
    <3>2. HighestPriorityRuns'
      BY <1>1, <2>1 DEF BaseInv, KernelInv, HighestPriorityRuns
    <3>3. DOMAIN pc' = AllThreads /\ DOMAIN arg' = AllThreads
      BY <1>3 DEF CallTypes
    <3> QED
      BY <1>1, <2>1, <3>1, <3>2, <3>3 DEF BaseInv, KernelInv
  <2>3. WaitLists'
    <3>1. \A r \in AllSemas, t \in Threads : WaitsOn(t, r)' <=> WaitsOn(t, r)
      BY <1>3, WaitsOnStays
    <3> QED
      BY <2>1, <3>1 DEF BaseInv, WaitLists
  <2> QED
    BY <1>2, <1>3, <1>4, <2>1, <2>2, <2>3 DEF BaseInv
<1>6. CASE waiters[s] # <<>>
  <2> DEFINE t == Head(waiters[s])
  <2>1. waiters' = [waiters EXCEPT ![s] = Tail(@)] /\ interruptUnblock(t)
    BY <1>6 DEF InterruptUp
  <2>2. /\ t \in Threads /\ status[t] = "BLOCKED"
        /\ \A u \in Threads : pc[u] = "create" => arg[u] # t
    BY <1>1, <1>6, FrontOfWaiters
  <2>3. KernelInv'
    <3> HIDE DEF t
    <3>1. InterruptUnblock(t)
      BY <1>1, <2>1, <2>2 DEF InterruptUnblock, sleeping, beingCreated
    <3> QED
      BY <2>2, <3>1, InterruptUnblockInv DEF BaseInv
  <2>4. /\ \A u \in Threads : status'[u] = "BLOCKED" <=> status[u] = "BLOCKED" /\ u # t
        /\ \A u \in Threads : status'[u] \in Gone => status[u] \in Gone
    <3>1. status' = unblockedStatus(t) /\ Core(current, status, priority, ready_list, thread_ticks)
      BY <2>1 DEF interruptUnblock, BaseInv, KernelInv
    <3> HIDE DEF t
    <3> QED
      BY <2>2, <3>1, UnblockedQueue
  <2>5. WaitLists'
    BY <1>1, <1>3, <1>6, <2>1, <2>4, WaitListsPop
  <2> QED
    BY <1>2, <1>3, <1>4, <2>3, <2>4, <2>5 DEF BaseInv
<1> QED
  BY <1>5, <1>6

-----------------------------------------------------------------------------
LEMMA BaseInit == SynchInit => BaseInv
<1> SUFFICES ASSUME SynchInit PROVE BaseInv
  OBVIOUS
<1>1. KernelInv
  BY InitInv DEF SynchInit
<1>2. /\ pc = [t \in AllThreads |-> IF t = idle_thread THEN "hlt" ELSE "run"]
      /\ arg = [t \in AllThreads |-> NULL] /\ waiters = [s \in AllSemas |-> <<>>]
  BY DEF SynchInit, SchedInit
<1>3. CallTypes
  BY <1>2, Objects, Basics DEF CallTypes, Labels, LabelArg
<1>4. DataTypes
  <2>1. \A S : <<>> \in Seq(S)
    OBVIOUS
  <2>2. value \in [AllSemas -> Nat]
    BY SynchAssumption DEF SynchInit
  <2> QED
    BY <2>1, <2>2 DEF SynchInit, DataTypes
<1>5. WaitLists
  <2>1. <<>> \in Seq(Threads) /\ NoDuplicates(<<>>) /\ Range(<<>>) = {}
    BY DEF NoDuplicates, Range
  <2>2. \A s \in AllSemas, t \in Threads : ~WaitsOn(t, s)
    BY <1>2, Basics DEF WaitsOn
  <2> QED
    BY <1>2, <2>1, <2>2 DEF WaitLists
<1>6. Fresh
  BY <1>2, Basics DEF Fresh
<1> QED
  BY <1>1, <1>3, <1>4, <1>5, <1>6 DEF BaseInv

\* The kernel's lists stay consistent through every call of thread.c and synch.c.
LEMMA BaseNext == BaseInv /\ [SynchNext]_allVars => BaseInv'
<1> SUFFICES ASSUME BaseInv, [SynchNext]_allVars PROVE BaseInv'
  OBVIOUS
<1>1. CASE UNCHANGED allVars
  <2>1. UNCHANGED <<schedVars, panicked, pc, arg, value, waiters, holder, cond_waiters, held>>
    BY <1>1 DEF allVars, vars, synchVars
  <2>2. KernelInv'
    BY <1>1, NextInv DEF allVars, BaseInv
  <2> QED
    BY <2>1, <2>2 DEF schedVars, BaseInv, CallTypes, DataTypes, WaitLists, Fresh, WaitsOn
<1>2. CASE ThreadStep /\ UNCHANGED synchVars
  <2>1. CASE Halted
    <3>1. UNCHANGED <<schedVars, panicked, pc, arg, value, waiters, holder, cond_waiters, held>>
      BY <1>2, <2>1 DEF Halted, vars, synchVars
    <3>2. KernelInv'
      BY <2>1, NextInv DEF Halted, BaseInv
    <3> QED
      BY <3>1, <3>2 DEF schedVars, BaseInv, CallTypes, DataTypes, WaitLists, Fresh, WaitsOn
  <2> QED
    BY <1>2, <2>1, ThreadCreateInv, ThreadCallInv, ThreadTickInv DEF ThreadStep
<1>3. CASE SemaStep
  BY <1>3, SemaInv, SemaResumeInv, InterruptUpInv DEF SemaStep
<1>4. CASE CondStep
  BY <1>4, CondWaitInv, CondSignalInv DEF CondStep
<1> QED
  BY <1>1, <1>2, <1>3, <1>4, LockInvStep DEF SynchNext

\* thread.h's promise that a thread's one list element is on one list only: the
\* run queue, or the wait list of the semaphore the thread is blocked on.
THEOREM SynchOwnership == SynchSpec => []ElemOwnership
<1>1. BaseInv => ElemOwnership
  BY InvGivesProperties DEF BaseInv, WaitLists, ElemOwnership
<1> QED
  BY <1>1, BaseInit, BaseNext, PTL DEF SynchSpec

\* The highest priority runs, whoever sleeps on or wakes from a semaphore.
THEOREM SynchHighest == SynchSpec => []HighestPriorityRuns
<1>1. BaseInv => HighestPriorityRuns
  BY DEF BaseInv, KernelInv
<1> QED
  BY <1>1, BaseInit, BaseNext, PTL DEF SynchSpec
=============================================================================
