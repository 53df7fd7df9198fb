----------------------------- MODULE KernelList -----------------------------
(***************************************************************************)
(* lib/kernel/list.c, as the kernel uses it: a list is a sequence of its   *)
(* elements.  The pointer surgery inside list_insert matters only where a  *)
(* list is changed with interrupts on, and is modelled there (module       *)
(* Alarm); everywhere else an insertion is one atomic step.                *)
(***************************************************************************)
EXTENDS Naturals, Sequences, Functions

\* list_insert, in front of the element at position i.
list_insert(list, i, elem) ==
    SubSeq(list, 1, i - 1) \o <<elem>> \o SubSeq(list, i, Len(list))

(***************************************************************************)
(* Where list_insert_ordered stops walking: at the first element in        *)
(* Before, the set of the elements e for which less(elem, e) holds, or     *)
(* past the last element when there is none.                               *)
(***************************************************************************)
InsertPos(list, Before) ==
    CHOOSE i \in 1..(Len(list) + 1) :
        /\ i <= Len(list) => list[i] \in Before
        /\ \A j \in 1..(i - 1) : list[j] \notin Before

\* An element goes behind the ones it is equal to: less is strict.
list_insert_ordered(list, elem, Before) ==
    list_insert(list, InsertPos(list, Before), elem)

NoDuplicates(list) ==
    \A i, j \in 1..Len(list) : i # j => list[i] # list[j]
=============================================================================
