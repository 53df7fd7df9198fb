----------------------------- MODULE LockProofs -----------------------------
(***************************************************************************)
(* Mutual exclusion: who owns which lock, for any number of locks and      *)
(* threads.                                                                *)
(*                                                                         *)
(* OneOwner is almost inductive.  What it lacks is which locks a thread    *)
(* has in the middle of lock_acquire, lock_release and cond_wait, where    *)
(* holder and the semaphore disagree (LockCalls).  In every step the       *)
(* owners stay the same, or the current thread takes or gives up a single  *)
(* lock; this is also what makes the locks implement Mutex.                *)
(***************************************************************************)
EXTENDS SynchProofs

\* Where a thread owns the lock its call is about, and holder may not say so.
OwnLabels == {"own", "rel", "wait_rel", "wait_up"}

LockCalls ==
    \A t \in Threads :
        /\ pc[t] \in {"own", "rel"} => arg[t] \notin held[t]
        /\ pc[t] = "wait_up" => lockOf[arg[t]] \notin held[t]
        /\ pc[t] = "wait_rel" => lockOf[arg[t]] \in held[t]

LockInv ==
    /\ \A l \in Locks : value[l] \in {0, 1}
    /\ OneOwner
    /\ LockExclusion
    /\ LockCalls

\* The three things a step can do to the owners of locks.
SameOwners ==
    \A k \in Locks : /\ value'[k] = value[k]
                     /\ \A t \in Threads : Owns(t, k)' <=> Owns(t, k)

Taken(l) ==
    /\ value[l] = 1 /\ current \in Threads
    /\ \A k \in Locks :
          /\ value'[k] = IF k = l THEN 0 ELSE value[k]
          /\ \A t \in Threads : Owns(t, k)' <=> Owns(t, k) \/ (t = current /\ k = l)

GivenUp(l) ==
    /\ current \in Threads /\ Owns(current, l)
    /\ \A k \in Locks :
          /\ value'[k] = IF k = l THEN 1 ELSE value[k]
          /\ \A t \in Threads : Owns(t, k)' <=> Owns(t, k) /\ k # l

OwnerStep == SameOwners \/ \E l \in Locks : Taken(l) \/ GivenUp(l)

\* Mutual exclusion survives each of them.
LEMMA OneOwnerStep ==
    ASSUME OneOwner, \A l \in Locks : value[l] \in {0, 1}, OwnerStep
    PROVE  OneOwner' /\ \A l \in Locks : value'[l] \in {0, 1}
<1>1. CASE SameOwners
  BY <1>1 DEF SameOwners, OneOwner
<1>2. ASSUME NEW l \in Locks, Taken(l) PROVE OneOwner' /\ \A k \in Locks : value'[k] \in {0, 1}
  <2>1. \A t \in Threads : ~Owns(t, l)
    BY <1>2 DEF Taken, OneOwner
  <2> QED
    BY <1>2, <2>1 DEF Taken, OneOwner
<1>3. ASSUME NEW l \in Locks, GivenUp(l) PROVE OneOwner' /\ \A k \in Locks : value'[k] \in {0, 1}
  BY <1>3 DEF GivenUp, OneOwner
<1> QED
  BY <1>1, <1>2, <1>3 DEF OwnerStep

\* What a thread owns depends on its own label, argument and locks.
LEMMA OwnsStays ==
    ASSUME NEW t, NEW l, held'[t] = held[t], pc'[t] = pc[t], arg'[t] = arg[t]
    PROVE  Owns(t, l)' <=> Owns(t, l)
BY DEF Owns

\* A step that touches neither holder, nor a lock's semaphore, nor a thread in
\* the middle of acquiring or releasing.
LEMMA LockFrame ==
    ASSUME LockInv, holder' = holder, held' = held, \A l \in Locks : value'[l] = value[l],
           \A t \in Threads : (pc'[t] = pc[t] /\ arg'[t] = arg[t])
                               \/ (pc[t] \notin OwnLabels /\ pc'[t] \notin OwnLabels)
    PROVE  LockInv' /\ OwnerStep
<1>1. \A t \in Threads, l \in Locks : Owns(t, l)' <=> Owns(t, l)
  BY DEF Owns, OwnLabels
<1>2. OwnerStep
  BY <1>1 DEF OwnerStep, SameOwners
<1>3. LockCalls'
  BY DEF LockInv, LockCalls, OwnLabels
<1>4. LockExclusion'
  BY DEF LockInv, LockExclusion
<1> QED
  BY <1>2, <1>3, <1>4, OneOwnerStep DEF LockInv

\* The current thread's move, as far as locks are concerned.
LEMMA LockMoves ==
    ASSUME BaseInv, current \in Threads, NEW l, NEW a, goto(l, a)
    PROVE  /\ pc'[current] = l /\ arg'[current] = a
           /\ \A t \in Threads : t # current => pc'[t] = pc[t] /\ arg'[t] = arg[t]
BY Basics DEF BaseInv, CallTypes, goto

\* Passing sema_down in lock_acquire, or sema_try_down in lock_try_acquire.
LEMMA TakeStep ==
    ASSUME BaseInv, LockInv, current \in Threads, pc[current] \notin OwnLabels,
           NEW l \in Locks, value[l] # 0, value' = [value EXCEPT ![l] = @ - 1],
           goto("own", l), holder' = holder, held' = held
    PROVE  LockInv' /\ OwnerStep
<1>1. /\ pc'[current] = "own" /\ arg'[current] = l
      /\ \A t \in Threads : t # current => pc'[t] = pc[t] /\ arg'[t] = arg[t]
  BY LockMoves
<1>2. value[l] = 1 /\ \A k \in Locks : value'[k] = IF k = l THEN 0 ELSE value[k]
  BY Objects DEF LockInv, BaseInv, DataTypes
<1>3. \A k \in Locks, t \in Threads : Owns(t, k)' <=> Owns(t, k) \/ (t = current /\ k = l)
  BY <1>1 DEF Owns, OwnLabels
<1>4. Taken(l)
  BY <1>2, <1>3 DEF Taken
<1>5. OwnerStep
  BY <1>4 DEF OwnerStep
<1>6. l \notin held[current]
  BY <1>2 DEF LockInv, OneOwner, Owns
<1>7. LockCalls'
  BY <1>1, <1>6 DEF LockInv, LockCalls
<1>8. LockExclusion'
  BY DEF LockInv, LockExclusion
<1> QED
  BY <1>5, <1>7, <1>8, OneOwnerStep DEF LockInv

\* sema_up in lock_release, also when cond_wait has called it.
LEMMA GiveStep ==
    ASSUME BaseInv, LockInv, current \in Threads, NEW k \in Locks,
           \/ pc[current] = "rel" /\ arg[current] = k
           \/ pc[current] = "wait_up" /\ lockOf[arg[current]] = k,
           value' = [value EXCEPT ![k] = @ + 1], holder' = holder, held' = held,
           NEW l, l \notin OwnLabels, NEW a, goto(l, a)
    PROVE  LockInv' /\ OwnerStep
<1>1. /\ pc'[current] = l /\ arg'[current] = a
      /\ \A t \in Threads : t # current => pc'[t] = pc[t] /\ arg'[t] = arg[t]
  BY LockMoves
<1>2. Owns(current, k) /\ k \notin held[current]
  BY DEF Owns, LockInv, LockCalls
<1>3. \A t \in Threads : Owns(t, k) => t = current
  BY <1>2 DEF LockInv, OneOwner
<1>4. value[k] = 0
  BY <1>2 DEF LockInv, OneOwner
<1>5. \A m \in Locks : value'[m] = IF m = k THEN 1 ELSE value[m]
  BY <1>4, Objects DEF BaseInv, DataTypes
<1>6. \A m \in Locks, t \in Threads : Owns(t, m)' <=> Owns(t, m) /\ m # k
  <2> SUFFICES ASSUME NEW m \in Locks, NEW t \in Threads
               PROVE  Owns(t, m)' <=> Owns(t, m) /\ m # k
    OBVIOUS
  <2>1. CASE t = current
    BY <1>1, <1>2, <2>1 DEF Owns, OwnLabels
  <2>2. CASE t # current
    BY <1>1, <1>3, <2>2, OwnsStays
  <2> QED
    BY <2>1, <2>2
<1>7. OwnerStep
  BY <1>2, <1>5, <1>6 DEF OwnerStep, GivenUp
<1>8. LockCalls'
  BY <1>1 DEF LockInv, LockCalls, OwnLabels
<1>9. LockExclusion'
  BY DEF LockInv, LockExclusion
<1> QED
  BY <1>7, <1>8, <1>9, OneOwnerStep DEF LockInv

\* The first half of lock_release.
LEMMA ClearStep ==
    ASSUME BaseInv, LockInv, current \in Threads, NEW k \in Locks, k \in held[current],
           \/ pc[current] = "run"
           \/ pc[current] = "wait_rel" /\ lockOf[arg[current]] = k,
           clearHolder(k), value' = value, NEW l, NEW a, goto(l, a),
           (l = "rel" /\ a = k) \/ (l = "wait_up" /\ lockOf[a] = k)
    PROVE  LockInv' /\ OwnerStep
<1>1. /\ pc'[current] = l /\ arg'[current] = a
      /\ \A t \in Threads : t # current => pc'[t] = pc[t] /\ arg'[t] = arg[t]
  BY LockMoves
<1>2. /\ \A m \in Locks : holder'[m] = IF m = k THEN NULL ELSE holder[m]
      /\ \A t \in Threads : held'[t] = IF t = current THEN held[t] \ {k} ELSE held[t]
  BY DEF clearHolder, BaseInv, DataTypes
<1>3. \A m \in Locks, t \in Threads : Owns(t, m)' <=> Owns(t, m)
  <2> SUFFICES ASSUME NEW m \in Locks, NEW t \in Threads PROVE Owns(t, m)' <=> Owns(t, m)
    OBVIOUS
  <2>1. CASE t = current
    BY <1>1, <1>2, <2>1 DEF Owns
  <2>2. CASE t # current
    BY <1>1, <1>2, <2>2, OwnsStays
  <2> QED
    BY <2>1, <2>2
<1>4. OwnerStep
  BY <1>3 DEF OwnerStep, SameOwners
<1>5. LockCalls'
  <2> SUFFICES ASSUME NEW t \in Threads
               PROVE  /\ pc'[t] \in {"own", "rel"} => arg'[t] \notin held'[t]
                      /\ pc'[t] = "wait_up" => lockOf[arg'[t]] \notin held'[t]
                      /\ pc'[t] = "wait_rel" => lockOf[arg'[t]] \in held'[t]
    BY DEF LockCalls
  <2>1. CASE t = current
    BY <1>1, <1>2, <2>1
  <2>2. CASE t # current
    BY <1>1, <1>2, <2>2 DEF LockInv, LockCalls
  <2> QED
    BY <2>1, <2>2
<1>6. LockExclusion'
  <2>1. \A t \in Threads : k \in held[t] => t = current
    BY DEF LockInv, LockExclusion
  <2>2. \A m \in Locks, t \in Threads : m \in held'[t] <=> m \in held[t] /\ m # k
    BY <1>2, <2>1
  <2>3. \A m \in Locks, t \in Threads : holder'[m] = t <=> holder[m] = t /\ m # k
    BY <1>2, ThreadsAssumption
  <2> QED
    BY <2>2, <2>3 DEF LockInv, LockExclusion
<1> QED
  BY <1>4, <1>5, <1>6, OneOwnerStep DEF LockInv

\* The last step of lock_acquire.
LEMMA OwnStep ==
    ASSUME BaseInv, LockInv, LockOwn PROVE LockInv' /\ OwnerStep
<1> DEFINE k == arg[current]
<1>1. current \in Threads /\ pc[current] = "own" /\ k \in Locks
  BY AtLabel DEF LockOwn, LabelArg
<1>2. /\ holder' = [holder EXCEPT ![k] = current] /\ value' = value
      /\ held' = [held EXCEPT ![current] = @ \cup {k}] /\ goto("run", NULL)
  BY DEF LockOwn
<1>3. /\ pc'[current] = "run"
      /\ \A t \in Threads : t # current => pc'[t] = pc[t] /\ arg'[t] = arg[t]
  BY <1>1, <1>2, LockMoves
<1>4. /\ \A m \in Locks : holder'[m] = IF m = k THEN current ELSE holder[m]
      /\ \A t \in Threads : held'[t] = IF t = current THEN held[t] \cup {k} ELSE held[t]
  BY <1>1, <1>2 DEF BaseInv, DataTypes
<1>5. Owns(current, k) /\ \A t \in Threads : k \in held[t] => t = current
  BY <1>1 DEF LockInv, OneOwner, Owns
<1>6. \A m \in Locks, t \in Threads : Owns(t, m)' <=> Owns(t, m)
  <2> SUFFICES ASSUME NEW m \in Locks, NEW t \in Threads PROVE Owns(t, m)' <=> Owns(t, m)
    OBVIOUS
  <2>1. CASE t = current
    <3>1. Owns(t, m) <=> m \in held[t] \/ m = k
      BY <1>1, <2>1 DEF Owns
    <3>2. Owns(t, m)' <=> m \in held'[t]
      BY <1>3, <2>1 DEF Owns
    <3> HIDE DEF k
    <3> QED
      BY <1>4, <2>1, <3>1, <3>2
  <2>2. CASE t # current
    BY <1>3, <1>4, <2>2, OwnsStays
  <2> QED
    BY <2>1, <2>2
<1> HIDE DEF k
<1>7. OwnerStep
  BY <1>2, <1>6 DEF OwnerStep, SameOwners
<1>8. LockCalls'
  BY <1>3, <1>4 DEF LockInv, LockCalls
<1>9. LockExclusion'
  <2>1. \A m \in Locks, t \in Threads :
            m \in held'[t] <=> IF m = k THEN t = current ELSE m \in held[t]
    BY <1>1, <1>4, <1>5
  <2>2. \A m \in Locks, t \in Threads :
            holder'[m] = t <=> IF m = k THEN t = current ELSE holder[m] = t
    BY <1>4
  <2> QED
    BY <2>1, <2>2 DEF LockInv, LockExclusion
<1> QED
  BY <1>7, <1>8, <1>9, OneOwnerStep DEF LockInv

\* A call that is not about acquiring or releasing a lock.
LEMMA OtherCall ==
    ASSUME BaseInv, LockInv, current \in Threads, pc[current] \notin OwnLabels,
           NEW l, l \notin OwnLabels, NEW a, goto(l, a), holder' = holder, held' = held,
           \A k \in Locks : value'[k] = value[k]
    PROVE  LockInv' /\ OwnerStep
BY LockMoves, LockFrame

\* A semaphore that is not a lock's.
LEMMA OtherSema ==
    ASSUME BaseInv, NEW s \in AllSemas \ Locks,
           NEW x, value' = value \/ value' = [value EXCEPT ![s] = x]
    PROVE  \A k \in Locks : value'[k] = value[k]
BY Objects DEF BaseInv, DataTypes

\* sema_down, and that it ends at one of two labels.
LEMMA DownCases ==
    ASSUME NEW s, NEW l, NEW a, NEW m, NEW b, sema_down(s, l, a, m, b)
    PROVE  \/ value' = value /\ goto(l, a)
           \/ value[s] # 0 /\ value' = [value EXCEPT ![s] = @ - 1] /\ goto(m, b)
BY DEF sema_down

\* The calls of thread.c.
LEMMA ThreadLocks ==
    ASSUME BaseInv, LockInv, ThreadStep, UNCHANGED synchVars
    PROVE  LockInv' /\ OwnerStep
<1>1. value' = value /\ holder' = holder /\ held' = held
  BY DEF synchVars
<1>2. ASSUME NEW t \in Threads, NEW p \in Priorities, ThreadCreate(t, p)
      PROVE  LockInv' /\ OwnerStep
  <2>1. /\ current \in Threads /\ pc[current] = "run" /\ status[t] = "FREE"
        /\ pc' = [pc EXCEPT ![current] = "create", ![t] = "run"]
        /\ arg' = [arg EXCEPT ![current] = t]
    BY <1>2 DEF ThreadCreate, Running
  <2>2. pc[t] = "run" /\ t # current
    BY <2>1, CurrentFacts DEF BaseInv, Fresh, Gone
  <2>3. /\ \A u \in Threads : u # current => pc'[u] = pc[u] /\ arg'[u] = arg[u]
        /\ pc'[current] = "create"
    BY <2>1, <2>2, Basics DEF BaseInv, CallTypes
  <2> QED
    BY <1>1, <2>1, <2>3, LockFrame DEF OwnLabels
<1>3. CASE ThreadCreateUnblock
  BY <1>1, <1>3, OtherCall DEF ThreadCreateUnblock, Running, goto, OwnLabels
<1>4. CASE pc' = pc /\ arg' = arg
  BY <1>1, <1>4, LockFrame
<1>5. ASSUME NEW l \in {"run", "set_pri", "yield"}, pc' = [pc EXCEPT ![current] = l], arg' = arg,
             current \in Threads, pc[current] \in {"run", "set_pri", "yield"}
      PROVE  LockInv' /\ OwnerStep
  <2>1. /\ \A u \in Threads : u # current => pc'[u] = pc[u] /\ arg'[u] = arg[u]
        /\ pc'[current] = l
    BY <1>5, Basics DEF BaseInv, CallTypes
  <2> QED
    BY <1>1, <1>5, <2>1, LockFrame DEF OwnLabels
<1>6. ASSUME NEW l, pc' = [pc EXCEPT ![idle_thread] = l], arg' = arg
      PROVE  LockInv' /\ OwnerStep
  <2>1. \A u \in Threads : pc'[u] = pc[u] /\ arg'[u] = arg[u]
    BY <1>6, Basics DEF BaseInv, CallTypes
  <2> QED
    BY <1>1, <2>1, LockFrame
<1>7. CASE ThreadYield \/ ThreadExit \/ Halted
  BY <1>4, <1>7 DEF ThreadYield, ThreadExit, Halted, vars
<1>8. CASE SetPriorityCheck
  <2>1. PICK higher \in headIsHigher :
            pc' = [pc EXCEPT ![current] = IF higher THEN "yield" ELSE "run"]
    BY <1>8 DEF SetPriorityCheck
  <2> QED
    BY <1>5, <1>8, <2>1 DEF SetPriorityCheck, Running
<1>9. CASE SetPriorityYield \/ \E p \in Priorities : ThreadSetPriority(p)
  BY <1>5, <1>9 DEF SetPriorityYield, ThreadSetPriority, Running
<1>10. CASE IdleBlock \/ Tick
  BY <1>4, <1>6, <1>10 DEF IdleBlock, Tick, interruptReturn
<1> QED
  BY <1>2, <1>3, <1>7, <1>8, <1>9, <1>10 DEF ThreadStep

\* Semaphores that are not locks'.
LEMMA SemaLocks ==
    ASSUME BaseInv, LockInv, SemaStep PROVE LockInv' /\ OwnerStep
<1>1. ASSUME NEW s \in Semas, SemaDown(s) PROVE LockInv' /\ OwnerStep
  <2>1. current \in Threads /\ pc[current] = "run" /\ holder' = holder /\ held' = held
    BY <1>1 DEF SemaDown, Running
  <2>2. sema_down(s, "down", s, "run", NULL) /\ s \in AllSemas \ Locks
    BY <1>1, Objects DEF SemaDown
  <2> QED
    BY <2>1, <2>2, DownCases, OtherSema, OtherCall DEF OwnLabels
<1>2. CASE SemaDownResume
  <2>1. /\ current \in Threads /\ pc[current] = "down" /\ holder' = holder /\ held' = held
        /\ arg[current] \in AllSemas \ Locks
    BY <1>2, AtLabel, Objects DEF SemaDownResume, LabelArg
  <2>2. sema_down(arg[current], "down", arg[current], "run", NULL)
    BY <1>2 DEF SemaDownResume
  <2> QED
    BY <2>1, <2>2, DownCases, OtherSema, OtherCall DEF OwnLabels
<1>3. ASSUME NEW s \in Semas, SemaTryDown(s) \/ SemaUp(s) \/ InterruptUp(s)
      PROVE  LockInv' /\ OwnerStep
  <2>1. s \in AllSemas \ Locks /\ holder' = holder /\ held' = held
    BY <1>3, Objects DEF SemaTryDown, SemaUp, InterruptUp
  <2>2. \E x : value' = [value EXCEPT ![s] = x]
    BY <1>3 DEF SemaTryDown, SemaUp, InterruptUp, sema_up
  <2>3. \A u \in Threads : pc'[u] = pc[u] /\ arg'[u] = arg[u]
    BY <1>3, Basics DEF SemaTryDown, SemaUp, InterruptUp, interruptUnblock, interruptReturn, vars,
                        BaseInv, CallTypes
  <2> QED
    BY <2>1, <2>2, <2>3, OtherSema, LockFrame
<1> QED
  BY <1>1, <1>2, <1>3 DEF SemaStep

\* sema_down on a lock's semaphore.
LEMMA AcquireLocks ==
    ASSUME BaseInv, LockInv, current \in Threads, pc[current] \notin OwnLabels,
           NEW l \in Locks, sema_down(l, "acq", l, "own", l), holder' = holder, held' = held
    PROVE  LockInv' /\ OwnerStep
<1>1. CASE value' = value /\ goto("acq", l)
  BY <1>1, OtherCall DEF OwnLabels
<1>2. CASE value[l] # 0 /\ value' = [value EXCEPT ![l] = @ - 1] /\ goto("own", l)
  BY <1>2, TakeStep
<1> QED
  BY <1>1, <1>2, DownCases

\* Locks.
LEMMA LockLocks ==
    ASSUME BaseInv, LockInv, LockStep PROVE LockInv' /\ OwnerStep
<1>1. ASSUME NEW l \in Locks, LockAcquire(l) PROVE LockInv' /\ OwnerStep
  BY <1>1, AcquireLocks DEF LockAcquire, Running, OwnLabels
<1>2. ASSUME NEW l \in Locks, LockTryAcquire(l) PROVE LockInv' /\ OwnerStep
  <2>1. /\ current \in Threads /\ pc[current] = "run" /\ value[l] # 0 /\ goto("own", l)
        /\ value' = [value EXCEPT ![l] = @ - 1] /\ holder' = holder /\ held' = held
    BY <1>2 DEF LockTryAcquire, Running
  <2> QED
    BY <2>1, TakeStep DEF OwnLabels
<1>3. ASSUME NEW l \in Locks, LockRelease(l) PROVE LockInv' /\ OwnerStep
  BY <1>3, ClearStep DEF LockRelease, Running
<1>4. CASE LockAcquireResume
  <2>1. /\ current \in Threads /\ pc[current] = "acq" /\ arg[current] \in Locks
        /\ holder' = holder /\ held' = held
    BY <1>4, AtLabel DEF LockAcquireResume, LabelArg
  <2>2. sema_down(arg[current], "acq", arg[current], "own", arg[current])
    BY <1>4 DEF LockAcquireResume
  <2> QED
    BY <2>1, <2>2, AcquireLocks DEF OwnLabels
<1>5. CASE LockReleaseUp
  <2>1. /\ current \in Threads /\ pc[current] = "rel" /\ arg[current] \in Locks
        /\ holder' = holder /\ held' = held /\ goto("run", NULL)
        /\ value' = [value EXCEPT ![arg[current]] = @ + 1]
    BY <1>5, AtLabel DEF LockReleaseUp, LabelArg, sema_up
  <2> QED
    BY <2>1, GiveStep DEF OwnLabels
<1> QED
  BY <1>1, <1>2, <1>3, <1>4, <1>5, OwnStep DEF LockStep

\* Condition variables: the calls that concern the lock.
LEMMA WaitLocks ==
    ASSUME BaseInv, LockInv,
           \/ \E c \in Conds : CondWait(c)
           \/ CondWaitRelease \/ CondWaitUp \/ CondWaitAcquire
    PROVE  LockInv' /\ OwnerStep
<1>1. ASSUME NEW c \in Conds, CondWait(c) PROVE LockInv' /\ OwnerStep
  <2>1. /\ current \in Threads /\ pc[current] = "run" /\ goto("wait_rel", c)
        /\ holder' = holder /\ held' = held /\ lockOf[c] \in held[current]
        /\ value' = [value EXCEPT ![current] = 0]
    BY <1>1 DEF CondWait, Running
  <2>2. \A k \in Locks : value'[k] = value[k]
    BY <2>1, Objects, OtherSema
  <2>3. /\ pc'[current] = "wait_rel" /\ arg'[current] = c
        /\ \A t \in Threads : t # current => pc'[t] = pc[t] /\ arg'[t] = arg[t]
    BY <2>1, LockMoves
  <2>4. \A k \in Locks, t \in Threads : Owns(t, k)' <=> Owns(t, k)
    BY <2>1, <2>3 DEF Owns
  <2>5. OwnerStep
    BY <2>2, <2>4 DEF OwnerStep, SameOwners
  <2>6. LockCalls'
    BY <2>1, <2>3 DEF LockInv, LockCalls
  <2>7. LockExclusion'
    BY <2>1 DEF LockInv, LockExclusion
  <2> QED
    BY <2>5, <2>6, <2>7, OneOwnerStep DEF LockInv
<1>2. CASE CondWaitRelease
  <2>1. /\ current \in Threads /\ pc[current] = "wait_rel" /\ lockOf[arg[current]] \in Locks
        /\ lockOf[arg[current]] \in held[current]
    BY <1>2, AtLabel, Objects DEF CondWaitRelease, LabelArg, LockInv, LockCalls
  <2>2. clearHolder(lockOf[arg[current]]) /\ value' = value /\ goto("wait_up", arg[current])
    BY <1>2 DEF CondWaitRelease
  <2> QED
    BY <2>1, <2>2, ClearStep
<1>3. CASE CondWaitUp
  <2>1. /\ current \in Threads /\ pc[current] = "wait_up" /\ lockOf[arg[current]] \in Locks
        /\ holder' = holder /\ held' = held /\ goto("wait_down", arg[current])
        /\ value' = [value EXCEPT ![lockOf[arg[current]]] = @ + 1]
    BY <1>3, AtLabel, Objects DEF CondWaitUp, LabelArg, sema_up
  <2> QED
    BY <2>1, GiveStep DEF OwnLabels
<1>4. CASE CondWaitAcquire
  <2>1. /\ current \in Threads /\ pc[current] = "wait_acq" /\ lockOf[arg[current]] \in Locks
        /\ holder' = holder /\ held' = held
    BY <1>4, AtLabel, Objects DEF CondWaitAcquire, LabelArg
  <2>2. sema_down(lockOf[arg[current]], "acq", lockOf[arg[current]], "own", lockOf[arg[current]])
    BY <1>4 DEF CondWaitAcquire
  <2> QED
    BY <2>1, <2>2, AcquireLocks DEF OwnLabels
<1> QED
  BY <1>1, <1>2, <1>3, <1>4

\* The other steps of condition variables.
LEMMA SignalLocks ==
    ASSUME BaseInv, LockInv,
           \/ \E c \in Conds : CondSignal(c) \/ CondBroadcast(c)
           \/ CondWaitDown \/ CondSignalUp \/ CondBroadcastLoop \/ CondBroadcastUp
    PROVE  LockInv' /\ OwnerStep
<1>1. CASE \E c \in Conds : CondSignal(c) \/ CondBroadcast(c)
  BY <1>1, OtherCall DEF CondSignal, CondBroadcast, Running, OwnLabels, synchVars
<1>2. CASE CondBroadcastLoop
  <2>1. /\ current \in Threads /\ pc[current] = "bcast"
        /\ value' = value /\ holder' = holder /\ held' = held
    BY <1>2 DEF CondBroadcastLoop, Running
  <2>2. \E l \in {"run", "bcast_up"} : \E a : goto(l, a)
    BY <1>2 DEF CondBroadcastLoop
  <2> QED
    BY <2>1, <2>2, OtherCall DEF OwnLabels
<1>3. CASE CondWaitDown
  <2>1. /\ current \in Threads /\ pc[current] \in {"wait_down", "wait_block"}
        /\ holder' = holder /\ held' = held /\ current \in AllSemas \ Locks
    BY <1>3, Objects DEF CondWaitDown, Running
  <2>2. sema_down(current, "wait_block", arg[current], "wait_acq", arg[current])
    BY <1>3 DEF CondWaitDown
  <2> QED
    BY <2>1, <2>2, DownCases, OtherSema, OtherCall DEF OwnLabels
<1>4. CASE CondSignalUp
  <2>1. /\ current \in Threads /\ pc[current] = "sig_up" /\ arg[current] \in AllSemas \ Locks
        /\ holder' = holder /\ held' = held /\ goto("run", NULL)
        /\ value' = [value EXCEPT ![arg[current]] = @ + 1]
    BY <1>4, AtLabel, Objects DEF CondSignalUp, LabelArg, sema_up
  <2> QED
    BY <2>1, OtherSema, OtherCall DEF OwnLabels
<1>5. CASE CondBroadcastUp
  <2>1. /\ current \in Threads /\ pc[current] = "bcast_up" /\ arg[current][2] \in AllSemas \ Locks
        /\ holder' = holder /\ held' = held /\ goto("bcast", arg[current][1])
        /\ value' = [value EXCEPT ![arg[current][2]] = @ + 1]
    BY <1>5, AtLabel, Objects DEF CondBroadcastUp, LabelArg, sema_up
  <2> QED
    BY <2>1, OtherSema, OtherCall DEF OwnLabels
<1> QED
  BY <1>1, <1>2, <1>3, <1>4, <1>5

-----------------------------------------------------------------------------
LEMMA LockInit == SynchInit => LockInv
<1> SUFFICES ASSUME SynchInit PROVE LockInv
  OBVIOUS
<1>1. /\ \A l \in Locks : value[l] = 1 /\ holder[l] = NULL
      /\ \A t \in Threads : held[t] = {} /\ pc[t] = "run"
  BY Objects, Basics DEF SynchInit, SchedInit
<1>2. \A l \in Locks, t \in Threads : ~Owns(t, l)
  BY <1>1 DEF Owns
<1>3. OneOwner
  BY <1>1, <1>2 DEF OneOwner
<1>4. LockExclusion
  BY <1>1, ThreadsAssumption DEF LockExclusion
<1>5. LockCalls
  BY <1>1 DEF LockCalls
<1> QED
  BY <1>1, <1>3, <1>4, <1>5 DEF LockInv

\* Every step keeps the invariant, and does one of the three things to the owners.
LEMMA LockNext == BaseInv /\ LockInv /\ [SynchNext]_allVars => LockInv' /\ OwnerStep
<1> SUFFICES ASSUME BaseInv, LockInv, [SynchNext]_allVars PROVE LockInv' /\ OwnerStep
  OBVIOUS
<1>1. CASE UNCHANGED allVars
  BY <1>1, LockFrame DEF allVars, vars, synchVars
<1>2. CASE CondStep
  BY <1>2, WaitLocks, SignalLocks DEF CondStep
<1> QED
  BY <1>1, <1>2, ThreadLocks, SemaLocks, LockLocks DEF SynchNext

\* The ASSERTs of synch.c about a lock's holder never fail, for any number of
\* threads, locks and condition variables: lock_release, cond_wait and
\* cond_signal find the caller in holder whenever it has acquired the lock,
\* lock_acquire never does when it has not.
THEOREM LocksExclusive == SynchSpec => []LockExclusion
<1>1. LockInv => LockExclusion
  BY DEF LockInv
<1> QED
  BY <1>1, BaseInit, BaseNext, LockInit, LockNext, PTL DEF SynchSpec

\* At most one thread is between sema_down in lock_acquire and sema_up in
\* lock_release, and the semaphore says whether one is.
THEOREM LocksOneOwner == SynchSpec => []OneOwner
<1>1. LockInv => OneOwner
  BY DEF LockInv
<1> QED
  BY <1>1, BaseInit, BaseNext, LockInit, LockNext, PTL DEF SynchSpec

\* With one owner, lockOwner is that owner.
LEMMA LockOwnerIs ==
    ASSUME OneOwner, NEW l \in Locks
    PROVE  /\ \A t \in Threads : Owns(t, l) => lockOwner[l] = t
           /\ (\A t \in Threads : ~Owns(t, l)) => lockOwner[l] = NULL
BY DEF OneOwner, lockOwner

LEMMA LockOwnerWillBe ==
    ASSUME OneOwner', NEW l \in Locks
    PROVE  /\ \A t \in Threads : Owns(t, l)' => lockOwner'[l] = t
           /\ (\A t \in Threads : ~Owns(t, l)') => lockOwner'[l] = NULL
BY DEF OneOwner, lockOwner

\* The step simulation.
LEMMA MutexStep ==
    ASSUME OneOwner, OneOwner', OwnerStep
    PROVE  [AbstractMutex!Next]_lockOwner
<1>1. /\ lockOwner = [l \in Locks |-> lockOwner[l]]
      /\ lockOwner' = [l \in Locks |-> lockOwner'[l]]
  BY DEF lockOwner
<1>2. ASSUME NEW k \in Locks, \A t \in Threads : Owns(t, k)' <=> Owns(t, k)
      PROVE  lockOwner'[k] = lockOwner[k]
  BY <1>2, LockOwnerIs, LockOwnerWillBe
<1>3. CASE SameOwners
  <2>1. \A k \in Locks : lockOwner'[k] = lockOwner[k]
    BY <1>2, <1>3 DEF SameOwners
  <2> QED
    BY <1>1, <2>1
<1>4. ASSUME NEW l \in Locks, Taken(l) PROVE AbstractMutex!Next
  <2>1. \A t \in Threads : ~Owns(t, l)
    BY <1>4 DEF Taken, OneOwner
  <2>2. lockOwner[l] = NULL
    BY <2>1, LockOwnerIs
  <2>3. lockOwner'[l] = current /\ current \in Threads
    BY <1>4, LockOwnerWillBe DEF Taken
  <2>4. \A k \in Locks : k # l => lockOwner'[k] = lockOwner[k]
    BY <1>2, <1>4 DEF Taken
  <2>5. lockOwner' = [lockOwner EXCEPT ![l] = current]
    BY <1>1, <2>3, <2>4
  <2> QED
    BY <2>2, <2>3, <2>5 DEF AbstractMutex!Next, AbstractMutex!Acquire
<1>5. ASSUME NEW l \in Locks, GivenUp(l) PROVE AbstractMutex!Next
  <2>1. lockOwner[l] = current /\ current \in Threads
    BY <1>5, LockOwnerIs DEF GivenUp
  <2>2. lockOwner'[l] = NULL
    BY <1>5, LockOwnerWillBe DEF GivenUp
  <2>3. \A k \in Locks : k # l => lockOwner'[k] = lockOwner[k]
    BY <1>2, <1>5 DEF GivenUp
  <2>4. lockOwner' = [lockOwner EXCEPT ![l] = NULL]
    BY <1>1, <2>2, <2>3
  <2> QED
    BY <2>1, <2>4 DEF AbstractMutex!Next, AbstractMutex!Release
<1> QED
  BY <1>3, <1>4, <1>5 DEF OwnerStep

\* The locks of synch.c implement the abstract mutex: only the running thread
\* takes a lock, and only a free one; only its owner gives it up.
THEOREM LocksImplementMutex == SynchSpec => ImplementsMutex
<1>1. SynchInit => AbstractMutex!Init
  <2> SUFFICES ASSUME SynchInit PROVE lockOwner = [l \in Locks |-> NULL]
    BY DEF AbstractMutex!Init
  <2>1. \A t \in Threads : held[t] = {} /\ pc[t] = "run"
    BY Basics DEF SynchInit, SchedInit
  <2>2. \A l \in Locks, t \in Threads : ~Owns(t, l)
    BY <2>1 DEF Owns
  <2> QED
    BY <2>2 DEF lockOwner
<1>2. BaseInv /\ LockInv /\ [SynchNext]_allVars => [AbstractMutex!Next]_lockOwner
  <2>1. LockInv => OneOwner
    BY DEF LockInv
  <2>2. LockInv' => OneOwner'
    BY DEF LockInv
  <2> QED
    BY <2>1, <2>2, LockNext, MutexStep
<1> QED
  BY <1>1, <1>2, BaseInit, BaseNext, LockInit, LockNext, PTL
     DEF SynchSpec, ImplementsMutex, AbstractMutex!Spec
=============================================================================
