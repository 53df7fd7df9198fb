-------------------------- MODULE KernelListProofs --------------------------
(***************************************************************************)
(* What list_insert_ordered does to a list, for lists of every length.     *)
(***************************************************************************)
EXTENDS KernelList, WellFoundedInduction, TLAPS

\* Every non-empty set of naturals has a least element.
LEMMA LeastNat ==
    ASSUME NEW T \in SUBSET Nat, T # {}
    PROVE  \E x \in T : \A y \in T : x <= y
<1> DEFINE R == {p \in Nat \X Nat : p[1] < p[2]}
<1>1. R = OpToRel(<, Nat)
  BY Zenon DEF OpToRel
<1>2. IsWellFoundedOn(R, Nat)
  BY <1>1, NatLessThanWellFounded, Zenon
<1>3. PICK x \in T : \A y \in T : <<y, x>> \notin R
  <2> HIDE DEF R
  <2> QED
    BY <1>2, WFMin
<1>4. \A y \in T : ~(y < x)
  BY <1>3
<1> QED
  BY <1>4

\* The walk of list_insert_ordered ends: there is one place where it stops.
LEMMA InsertPosExists ==
    ASSUME NEW S, NEW list \in Seq(S), NEW Before
    PROVE  LET i == InsertPos(list, Before)
           IN  /\ i \in 1..(Len(list) + 1)
               /\ i <= Len(list) => list[i] \in Before
               /\ \A j \in 1..(i - 1) : list[j] \notin Before
<1> DEFINE Stop == {i \in 1..Len(list) : list[i] \in Before} \cup {Len(list) + 1}
<1>1. Stop \in SUBSET Nat /\ Stop # {}
  OBVIOUS
<1>2. PICK i \in Stop : \A j \in Stop : i <= j
  BY <1>1, LeastNat
<1>3. /\ i \in 1..(Len(list) + 1)
      /\ i <= Len(list) => list[i] \in Before
      /\ \A j \in 1..(i - 1) : list[j] \notin Before
  BY <1>2
<1> QED
  BY <1>3 DEF InsertPos

\* list_insert, element by element.
LEMMA InsertElements ==
    ASSUME NEW S, NEW list \in Seq(S), NEW e \in S, NEW i \in 1..(Len(list) + 1)
    PROVE  /\ list_insert(list, i, e) \in Seq(S)
           /\ Len(list_insert(list, i, e)) = Len(list) + 1
           /\ list_insert(list, i, e)[i] = e
           /\ \A j \in 1..(i - 1) : list_insert(list, i, e)[j] = list[j]
           /\ \A j \in (i + 1)..(Len(list) + 1) : list_insert(list, i, e)[j] = list[j - 1]
<1> DEFINE a == SubSeq(list, 1, i - 1)
           b == SubSeq(list, i, Len(list))
<1>1. /\ a \in Seq(S) /\ Len(a) = i - 1
      /\ \A j \in 1..(i - 1) : a[j] = list[j]
  OBVIOUS
<1>2. /\ b \in Seq(S) /\ Len(b) = Len(list) - i + 1
      /\ \A j \in 1..(Len(list) - i + 1) : b[j] = list[j + i - 1]
  OBVIOUS
<1> HIDE DEF a, b
<1> DEFINE c == a \o <<e>>
<1>3. /\ c \in Seq(S) /\ Len(c) = i
      /\ c[i] = e
      /\ \A j \in 1..(i - 1) : c[j] = list[j]
  BY <1>1
<1> HIDE DEF c
<1>4. /\ c \o b \in Seq(S) /\ Len(c \o b) = Len(list) + 1
      /\ \A j \in 1..i : (c \o b)[j] = c[j]
      /\ \A j \in (i + 1)..(Len(list) + 1) : (c \o b)[j] = b[j - i]
  BY <1>2, <1>3
<1>5. list_insert(list, i, e) = c \o b
  BY DEF list_insert, c, a, b
<1> QED
  BY <1>2, <1>3, <1>4, <1>5

\* r is list with e inserted at position i, where the walk ends.
InsertedAt(i, list, e, Before, r) ==
    /\ i <= Len(list) => list[i] \in Before
    /\ \A j \in 1..(i - 1) : list[j] \notin Before
    /\ Len(r) = Len(list) + 1
    /\ r[i] = e
    /\ \A j \in 1..(i - 1) : r[j] = list[j]
    /\ \A j \in (i + 1)..(Len(list) + 1) : r[j] = list[j - 1]

\* list_insert_ordered, element by element.
LEMMA InsertOrderedElements ==
    ASSUME NEW S, NEW list \in Seq(S), NEW e \in S, NEW Before
    PROVE  /\ list_insert_ordered(list, e, Before) \in Seq(S)
           /\ \E i \in 1..(Len(list) + 1) :
                 InsertedAt(i, list, e, Before, list_insert_ordered(list, e, Before))
<1> DEFINE i == InsertPos(list, Before)
           r == list_insert_ordered(list, e, Before)
<1>1. /\ i \in 1..(Len(list) + 1)
      /\ i <= Len(list) => list[i] \in Before
      /\ \A j \in 1..(i - 1) : list[j] \notin Before
  BY InsertPosExists
<1>2. r = list_insert(list, i, e)
  BY DEF list_insert_ordered
<1> HIDE DEF i, r
<1>3. /\ r \in Seq(S)
      /\ Len(r) = Len(list) + 1
      /\ r[i] = e
      /\ \A j \in 1..(i - 1) : r[j] = list[j]
      /\ \A j \in (i + 1)..(Len(list) + 1) : r[j] = list[j - 1]
  BY <1>1, <1>2, InsertElements
<1> QED
  BY <1>1, <1>3 DEF r, InsertedAt

-----------------------------------------------------------------------------
\* list_insert_ordered adds the element, once, and nothing else.
THEOREM InsertOrderedMembers ==
    ASSUME NEW S, NEW list \in Seq(S), NEW e \in S, NEW Before
    PROVE  LET r == list_insert_ordered(list, e, Before)
           IN  /\ r \in Seq(S)
               /\ Len(r) = Len(list) + 1
               /\ Range(r) = Range(list) \cup {e}
               /\ NoDuplicates(list) /\ e \notin Range(list) => NoDuplicates(r)
<1> DEFINE r == list_insert_ordered(list, e, Before)
           n == Len(list)
<1>1. n \in Nat /\ DOMAIN list = 1..n
  OBVIOUS
<1>2. PICK i \in 1..(n + 1) : InsertedAt(i, list, e, Before, r)
  BY InsertOrderedElements
<1>3. /\ i \in 1..(n + 1) /\ r \in Seq(S) /\ Len(r) = n + 1 /\ r[i] = e
      /\ \A j \in 1..(i - 1) : r[j] = list[j]
      /\ \A j \in (i + 1)..(n + 1) : r[j] = list[j - 1]
  BY <1>2, InsertOrderedElements DEF InsertedAt
<1> HIDE DEF r, n
<1>4. DOMAIN r = 1..(n + 1)
  BY <1>3
<1>5. \A j \in 1..(n + 1) : r[j] \in Range(list) \cup {e}
  <2> SUFFICES ASSUME NEW j \in 1..(n + 1) PROVE r[j] \in Range(list) \cup {e}
    OBVIOUS
  <2>1. CASE j = i
    BY <2>1, <1>3
  <2>2. CASE j < i
    BY <2>2, <1>1, <1>2, <1>3 DEF Range
  <2>3. CASE j > i
    <3>1. r[j] = list[j - 1] /\ j - 1 \in 1..n
      BY <2>3, <1>1, <1>2, <1>3
    <3> QED
      BY <3>1, <1>1 DEF Range
  <2> QED
    BY <2>1, <2>2, <2>3, <1>1, <1>2
<1>6. \A j \in 1..n : list[j] \in Range(r)
  <2> SUFFICES ASSUME NEW j \in 1..n PROVE list[j] \in Range(r)
    OBVIOUS
  <2>1. CASE j < i
    <3>1. r[j] = list[j] /\ j \in 1..(n + 1)
      BY <2>1, <1>1, <1>3
    <3> QED
      BY <3>1, <1>4 DEF Range
  <2>2. CASE j >= i
    <3>1. r[j + 1] = list[j] /\ j + 1 \in 1..(n + 1)
      BY <2>2, <1>1, <1>2, <1>3
    <3> QED
      BY <3>1, <1>4 DEF Range
  <2> QED
    BY <2>1, <2>2, <1>1, <1>2
<1>7. Range(r) = Range(list) \cup {e}
  <2>1. e \in Range(r)
    BY <1>1, <1>2, <1>3, <1>4 DEF Range
  <2> QED
    BY <2>1, <1>1, <1>4, <1>5, <1>6 DEF Range
<1>8. NoDuplicates(list) /\ e \notin Range(list) => NoDuplicates(r)
  <2> SUFFICES ASSUME NoDuplicates(list), e \notin Range(list),
                      NEW j \in 1..(n + 1), NEW k \in 1..(n + 1), j < k
               PROVE  r[j] # r[k]
    BY <1>1, <1>3 DEF NoDuplicates
  <2> DEFINE at(m) == IF m < i THEN m ELSE m - 1
  <2>1. \A m \in 1..(n + 1) : m # i => at(m) \in 1..n /\ r[m] = list[at(m)]
    BY <1>1, <1>2, <1>3
  <2>2. \A m \in 1..n : list[m] # e
    BY <1>1 DEF Range
  <2>3. CASE j = i \/ k = i
    BY <2>1, <2>2, <2>3, <1>3
  <2>4. CASE j # i /\ k # i
    <3>1. at(j) # at(k)
      BY <2>4, <1>1, <1>2
    <3>2. list[at(j)] # list[at(k)]
      BY <3>1, <2>1, <2>4 DEF NoDuplicates, n
    <3> QED
      BY <3>2, <2>1, <2>4
  <2> QED
    BY <2>3, <2>4
<1> QED
  BY <1>3, <1>7, <1>8 DEF r, n

\* Inserting e at position i of a descending list, where its key belongs.
LEMMA InsertKeepsDescending ==
    ASSUME NEW n \in Nat, NEW i \in 1..(n + 1), NEW list, NEW r, NEW key, NEW e,
           key[e] \in Int, \A j \in 1..n : key[list[j]] \in Int,
           \A j, k \in 1..n : j < k => key[list[j]] >= key[list[k]],
           \A j \in 1..(i - 1) : key[list[j]] >= key[e],
           i <= n => key[e] >= key[list[i]],
           r[i] = e,
           \A j \in 1..(i - 1) : r[j] = list[j],
           \A j \in (i + 1)..(n + 1) : r[j] = list[j - 1]
    PROVE  \A j, k \in 1..(n + 1) : j < k => key[r[j]] >= key[r[k]]
<1>1. \A j \in i..n : key[e] >= key[list[j]]
  OBVIOUS
<1>2. \A j \in 1..n : j < i => r[j] = list[j]
  OBVIOUS
<1>3. \A j \in 1..(n + 1) : j > i => r[j] = list[j - 1] /\ j - 1 \in i..n
  OBVIOUS
<1> SUFFICES ASSUME NEW j \in 1..(n + 1), NEW k \in 1..(n + 1), j < k
             PROVE  key[r[j]] >= key[r[k]]
  OBVIOUS
<1>4. CASE k < i
  BY <1>4, <1>2
<1>5. CASE k = i
  BY <1>5, <1>2
<1>6. CASE j < i /\ i < k
  BY <1>1, <1>2, <1>3, <1>6
<1>7. CASE j = i
  BY <1>1, <1>3, <1>7
<1>8. CASE i < j
  BY <1>3, <1>8
<1> QED
  BY <1>4, <1>5, <1>6, <1>7, <1>8

\* Inserting in front of the smaller keys keeps a list in descending order.
THEOREM InsertOrderedSorted ==
    ASSUME NEW S, NEW list \in Seq(S), NEW e \in S, NEW key \in [S -> Int],
           NEW Before, \A x \in S : x \in Before <=> key[e] > key[x],
           \A j, k \in 1..Len(list) : j < k => key[list[j]] >= key[list[k]]
    PROVE  LET r == list_insert_ordered(list, e, Before)
           IN  \A j, k \in 1..Len(r) : j < k => key[r[j]] >= key[r[k]]
<1> DEFINE r == list_insert_ordered(list, e, Before)
           n == Len(list)
<1>1. n \in Nat /\ key[e] \in Int /\ \A j \in 1..n : list[j] \in S /\ key[list[j]] \in Int
  OBVIOUS
<1>2. PICK i \in 1..(n + 1) : InsertedAt(i, list, e, Before, r)
  BY InsertOrderedElements
<1>3. \A j \in 1..(i - 1) : key[list[j]] >= key[e]
  BY <1>1, <1>2 DEF InsertedAt
<1>4. i <= n => key[e] >= key[list[i]]
  BY <1>1, <1>2 DEF InsertedAt
<1>5. \A j, k \in 1..n : j < k => key[list[j]] >= key[list[k]]
  OBVIOUS
<1>6. /\ r[i] = e
      /\ \A j \in 1..(i - 1) : r[j] = list[j]
      /\ \A j \in (i + 1)..(n + 1) : r[j] = list[j - 1]
  BY <1>2 DEF InsertedAt
<1> HIDE DEF r, n
<1>7. \A j, k \in 1..(n + 1) : j < k => key[r[j]] >= key[r[k]]
  BY <1>1, <1>6, <1>3, <1>4, <1>5, InsertKeepsDescending
<1> QED
  BY <1>2, <1>7 DEF r, n, InsertedAt

\* list_pop_front removes the front, and nothing else.
THEOREM PopFront ==
    ASSUME NEW S, NEW list \in Seq(S), NoDuplicates(list), list # <<>>
    PROVE  /\ Head(list) \in Range(list) /\ Head(list) \in S
           /\ Tail(list) \in Seq(S) /\ NoDuplicates(Tail(list))
           /\ Range(Tail(list)) = Range(list) \ {Head(list)}
<1> DEFINE n == Len(list)
           rest == Tail(list)
<1>1. /\ n \in Nat /\ n > 0 /\ DOMAIN list = 1..n
      /\ Head(list) = list[1] /\ Head(list) \in S
  OBVIOUS
<1>2. /\ rest \in Seq(S) /\ Len(rest) = n - 1 /\ DOMAIN rest = 1..(n - 1)
      /\ \A i \in 1..(n - 1) : rest[i] = list[i + 1]
  BY <1>1
<1> HIDE DEF rest
<1>3. NoDuplicates(rest)
  BY <1>1, <1>2 DEF NoDuplicates
<1>4. Head(list) \in Range(list)
  BY <1>1 DEF Range
<1>5. ASSUME NEW x \in Range(rest) PROVE x \in Range(list) \ {Head(list)}
  <2>1. PICK i \in 1..(n - 1) : rest[i] = x
    BY <1>2 DEF Range
  <2>2. i + 1 \in 1..n /\ list[i + 1] = x /\ i + 1 # 1
    BY <1>1, <1>2, <2>1
  <2> QED
    BY <1>1, <2>2 DEF Range, NoDuplicates
<1>6. ASSUME NEW x \in Range(list), x # Head(list) PROVE x \in Range(rest)
  <2>1. PICK i \in 1..n : list[i] = x
    BY <1>1 DEF Range
  <2>2. i - 1 \in 1..(n - 1) /\ rest[i - 1] = x
    BY <1>1, <1>2, <1>6, <2>1
  <2> QED
    BY <1>2, <2>2 DEF Range
<1> QED
  BY <1>1, <1>2, <1>3, <1>4, <1>5, <1>6 DEF rest
=============================================================================
