------------------------------- MODULE Mutex --------------------------------
(***************************************************************************)
(* What lock_init's comment promises of a lock: it "can be held by at most *)
(* a single thread at any given time", is not recursive, and "the same     *)
(* thread must both acquire and release it".                               *)
(***************************************************************************)
CONSTANTS Threads, Locks, NULL

VARIABLES
    owner,
    running  \* the thread on the CPU

Init == owner = [l \in Locks |-> NULL]

Acquire(l) ==
    /\ owner[l] = NULL
    /\ owner' = [owner EXCEPT ![l] = running]

Release(l) ==
    /\ owner[l] = running
    /\ owner' = [owner EXCEPT ![l] = NULL]

Next == running \in Threads /\ \E l \in Locks : Acquire(l) \/ Release(l)

Spec == Init /\ [][Next]_owner
=============================================================================
