------------------------------ MODULE MCSynch -------------------------------
EXTENDS Synch
CONSTANTS main, t1, t2, s1, l1, c1
NoConds == [x \in {} |-> x]
LockOfC == [x \in {c1} |-> l1]
=============================================================================
