--------------------------- MODULE JournalProofs ---------------------------
(***************************************************************************)
(* Lemmas about the tables of Journal: what its two transactions keep, and *)
(* that its read paths agree, for any number of rows.  AuditProofs has the *)
(* theorems about the processes that use them.                             *)
(***************************************************************************)
EXTENDS Journal, TLAPS, FiniteSetTheorems, WellFoundedInduction

\* A non-empty set of numbers has a least one.
LEMMA LeastOf ==
    ASSUME NEW S, S \subseteq Nat, S # {}
    PROVE  \E m \in S : \A i \in S : m <= i
<1> DEFINE less == {ss \in Nat \X Nat : ss[1] < ss[2]}
<1>1. IsWellFoundedOn(less, Nat)
  <2>1. OpToRel(<, Nat) = less
    BY Zenon DEF OpToRel
  <2> QED
    BY <2>1, NatLessThanWellFounded, Zenon
<1> HIDE DEF less
<1>2. PICK m \in S : \A i \in S : <<i, m>> \notin less
  BY <1>1, WFMin, Zenon
<1>3. ASSUME NEW i \in S PROVE m <= i
  <2>1. i \in Nat /\ m \in Nat /\ <<i, m>> \notin less
    BY <1>2, <1>3
  <2> QED
    BY <2>1 DEF less
<1> QED
  BY <1>3

\* A bounded, non-empty set of numbers has a greatest element, and Max is that one.
LEMMA MaxOfBounded ==
    ASSUME NEW S, S \subseteq Nat, S # {}, NEW n \in Nat, \A i \in S : i <= n
    PROVE  Max(S) \in S /\ \A i \in S : Max(S) >= i
<1> DEFINE gaps == {d \in Nat : \E i \in S : d = n - i}
<1>1. gaps \subseteq Nat /\ gaps # {}
  <2>1. PICK i \in S : TRUE
    OBVIOUS
  <2>2. n - i \in Nat
    BY <2>1
  <2> QED
    BY <2>1, <2>2
<1>2. PICK d \in gaps : \A g \in gaps : d <= g
  BY <1>1, LeastOf
<1>3. PICK m \in S : d = n - m
  BY <1>2
<1>4. \A i \in S : m >= i
  <2> SUFFICES ASSUME NEW i \in S PROVE m >= i
    OBVIOUS
  <2>1. n - i \in gaps /\ i \in Nat /\ m \in Nat
    OBVIOUS
  <2> QED
    BY <1>2, <1>3, <2>1
<1> QED
  BY <1>4 DEF Max

-----------------------------------------------------------------------------
(* Rows in order.                                                          *)

Descending(s) == \A i, j \in DOMAIN s : i < j => s[i] > s[j]
Ascending(s) == \A i, j \in DOMAIN s : i < j => s[i] < s[j]

\* A finite set of numbers can be listed in descending order.
LEMMA DescendingExists ==
    ASSUME NEW S, S \subseteq Nat, IsFiniteSet(S)
    PROVE  \E s \in [1 .. Cardinality(S) -> S] : Descending(s)
<1> DEFINE Listed(T, n) == \E s \in [1 .. n -> T] : Descending(s)
           bad == {n \in Nat : \E T \in SUBSET Nat :
                      IsFiniteSet(T) /\ Cardinality(T) = n /\ ~Listed(T, n)}
<1>1. SUFFICES ASSUME bad # {} PROVE FALSE
  BY FS_CardinalityType
<1>2. PICK n \in bad : \A k \in bad : n <= k
  BY <1>1, LeastOf
<1>3. PICK T \in SUBSET Nat : IsFiniteSet(T) /\ Cardinality(T) = n /\ ~Listed(T, n)
  BY <1>2
<1>4. n \in Nat
  BY <1>2
<1>5. CASE n = 0
  <2>1. [i \in 1 .. 0 |-> 0] \in [1 .. 0 -> T] /\ Descending([i \in 1 .. 0 |-> 0])
    BY DEF Descending
  <2> QED
    BY <1>3, <1>5, <2>1
<1>6. CASE n # 0
  <2>1. T # {}
    BY <1>3, <1>6, FS_EmptySet
  <2>2. PICK m \in T : \A i \in T : m <= i
    BY <2>1, LeastOf
  <2>3. /\ IsFiniteSet(T \ {m}) /\ Cardinality(T \ {m}) = n - 1 /\ n - 1 \in Nat
    BY <1>3, <1>4, <1>6, FS_RemoveElement
  <2>4. n - 1 \notin bad
    BY <1>2, <1>4
  <2>5. Listed(T \ {m}, n - 1)
    BY <2>3, <2>4
  <2>6. PICK t \in [1 .. n - 1 -> T \ {m}] : Descending(t)
    BY <2>5
  <2> DEFINE s == [i \in 1 .. n |-> IF i = n THEN m ELSE t[i]]
  <2>7. s \in [1 .. n -> T]
    BY <1>4, <2>6
  <2>8. Descending(s)
    <3> SUFFICES ASSUME NEW i \in 1 .. n, NEW j \in 1 .. n, i < j PROVE s[i] > s[j]
      BY <2>7 DEF Descending
    <3>1. i \in 1 .. n - 1 /\ s[i] = t[i] /\ t[i] \in T \ {m}
      BY <1>4, <2>6
    <3>2. CASE j = n
      <4>1. s[j] = m
        BY <3>2
      <4>2. t[i] \in Nat /\ m \in Nat /\ m <= t[i] /\ m # t[i]
        BY <2>2, <3>1
      <4> QED
        BY <3>1, <4>1, <4>2
    <3>3. CASE j # n
      <4>1. j \in 1 .. n - 1 /\ s[j] = t[j]
        BY <1>4, <3>3
      <4> QED
        BY <2>6, <3>1, <4>1 DEF Descending
    <3> QED
      BY <3>2, <3>3
  <2> QED
    BY <1>3, <2>7, <2>8
<1> QED
  BY <1>5, <1>6

\* ... and the list has every element of the set.
LEMMA ListIsOnto ==
    ASSUME NEW S, S \subseteq Nat, IsFiniteSet(S), NEW s \in [1 .. Cardinality(S) -> S],
           Descending(s) \/ Ascending(s)
    PROVE  /\ \A x \in S : \E i \in 1 .. Cardinality(S) : s[i] = x
           /\ \A i, j \in 1 .. Cardinality(S) : s[i] = s[j] => i = j
<1> DEFINE n == Cardinality(S)
<1>1. n \in Nat
  BY FS_CardinalityType
<1>2. IsFiniteSet(1 .. n) /\ Cardinality(1 .. n) = n
  BY <1>1, FS_Interval
<1> HIDE DEF n
<1>3. s \in [1 .. n -> S] /\ S \subseteq Nat
  BY DEF n
<1>4. ASSUME NEW i \in 1 .. n, NEW j \in 1 .. n, s[i] = s[j] PROVE i = j
  <2>0. s[i] \in S /\ s[j] \in S /\ DOMAIN s = 1 .. n
    BY <1>3
  <2>1. s[i] \in Nat /\ s[j] \in Nat /\ i \in Nat /\ j \in Nat /\ DOMAIN s = 1 .. n
    <3>1. i \in Nat /\ j \in Nat
      BY <1>1
    <3>2. s[i] \in Nat /\ s[j] \in Nat
      BY <2>0, Zenon
    <3> QED
      BY <2>0, <3>1, <3>2
  <2>2. ~(i < j)
    BY <1>4, <2>1 DEF Descending, Ascending
  <2>3. ~(j < i)
    BY <1>4, <2>1 DEF Descending, Ascending
  <2> QED
    BY <2>1, <2>2, <2>3
<1>5. s \in Injection(1 .. n, S)
  BY <1>3, <1>4 DEF Injection, IsInjective
<1>6. s \in Surjection(1 .. n, S)
  BY <1>2, <1>5, FS_Injection, Zenon DEF n
<1>7. \A x \in S : \E i \in 1 .. n : s[i] = x
  BY <1>3, <1>6 DEF Surjection
<1> QED
  BY <1>4, <1>7 DEF n

LEMMA NewestFirstIs ==
    ASSUME NEW S, S \subseteq Nat, IsFiniteSet(S)
    PROVE  NewestFirst(S) \in [1 .. Cardinality(S) -> S] /\ Descending(NewestFirst(S))
BY DescendingExists, Zenon DEF NewestFirst, Descending

LEMMA OldestFirstIs ==
    ASSUME NEW S, S \subseteq Nat, IsFiniteSet(S)
    PROVE  OldestFirst(S) \in [1 .. Cardinality(S) -> S] /\ Ascending(OldestFirst(S))
<1> DEFINE n == Cardinality(S)
           d == NewestFirst(S)
           a == [i \in 1 .. n |-> d[(n - i) + 1]]
<1>1. n \in Nat
  BY FS_CardinalityType
<1>2. d \in [1 .. n -> S] /\ Descending(d)
  BY NewestFirstIs
<1> HIDE DEF n, d
<1>3. \A i \in 1 .. n : (n - i) + 1 \in 1 .. n
  BY <1>1
<1>4. a \in [1 .. n -> S]
  BY <1>2, <1>3
<1>5. Ascending(a)
  <2> SUFFICES ASSUME NEW i \in 1 .. n, NEW j \in 1 .. n, i < j PROVE a[i] < a[j]
    BY <1>4 DEF Ascending
  <2>1. d[(n - j) + 1] > d[(n - i) + 1]
    BY <1>1, <1>2, <1>3 DEF Descending
  <2>2. a[i] = d[(n - i) + 1] /\ a[j] = d[(n - j) + 1] /\ a[i] \in Nat /\ a[j] \in Nat
    BY <1>4
  <2> QED
    BY <2>1, <2>2
<1> HIDE DEF a
<1>6. \E s \in [1 .. n -> S] : Ascending(s)
  BY <1>4, <1>5
<1> QED
  BY <1>6, Zenon DEF OldestFirst, Ascending, n

\* Two lists of the same rows in the same order are equal: at the first place
\* where they differ, one of them has a row that the other cannot have.
LEMMA AscendingIsUnique ==
    ASSUME NEW S, S \subseteq Nat, IsFiniteSet(S),
           NEW s \in [1 .. Cardinality(S) -> S], Ascending(s),
           NEW t \in [1 .. Cardinality(S) -> S], Ascending(t)
    PROVE  s = t
<1> DEFINE n == Cardinality(S)
           apart == {i \in 1 .. n : s[i] # t[i]}
<1>1. n \in Nat
  BY FS_CardinalityType
<1>2. /\ \A x \in S : \E i \in 1 .. n : s[i] = x
      /\ \A i, j \in 1 .. n : s[i] = s[j] => i = j
  BY ListIsOnto, Zenon
<1>2a. /\ \A x \in S : \E i \in 1 .. n : t[i] = x
       /\ \A i, j \in 1 .. n : t[i] = t[j] => i = j
  BY ListIsOnto, Zenon
<1>3. /\ s \in [1 .. n -> S] /\ t \in [1 .. n -> S] /\ DOMAIN s = 1 .. n /\ DOMAIN t = 1 .. n
      /\ S \subseteq Nat
  OBVIOUS
<1> HIDE DEF n
<1>4. SUFFICES ASSUME apart # {} PROVE FALSE
  <2> SUFFICES ASSUME \A i \in 1 .. n : s[i] = t[i] PROVE s = t
    OBVIOUS
  <2>1. s = [i \in 1 .. n |-> s[i]] /\ t = [i \in 1 .. n |-> t[i]]
    BY <1>3
  <2>2. [i \in 1 .. n |-> s[i]] = [i \in 1 .. n |-> t[i]]
    OBVIOUS
  <2> QED
    BY <2>1, <2>2
<1>5. apart \subseteq Nat
  BY <1>1
<1>6. PICK m \in apart : \A i \in apart : m <= i
  BY <1>4, <1>5, LeastOf
<1>7. m \in 1 .. n /\ s[m] # t[m] /\ s[m] \in Nat /\ t[m] \in Nat /\ m \in Nat
  <2>1. m \in 1 .. n /\ s[m] # t[m]
    BY <1>6
  <2>2. s[m] \in S /\ t[m] \in S
    BY <1>3, <2>1
  <2>3. s[m] \in Nat /\ t[m] \in Nat
    BY <1>3, <2>2, Zenon
  <2> QED
    BY <1>1, <2>1, <2>3
<1>8. \A i \in 1 .. n : i < m => s[i] = t[i]
  BY <1>6, <1>7
<1>9. PICK i \in 1 .. n : t[i] = s[m]
  BY <1>2a, <1>3, <1>7
<1>10. PICK j \in 1 .. n : s[j] = t[m]
  BY <1>2, <1>3, <1>7
<1>11. i > m /\ j > m
  BY <1>1, <1>2, <1>2a, <1>7, <1>8, <1>9, <1>10
<1>12. t[i] > t[m] /\ s[j] > s[m]
  BY <1>3, <1>7, <1>11 DEF Ascending
<1> QED
  BY <1>7, <1>9, <1>10, <1>12

-----------------------------------------------------------------------------
(* The indexes.                                                            *)

\* The sequence numbers are bounded, so that append finds a last one.
Numbered ==
    /\ DOMAIN events \subseteq Nat
    /\ \E n \in Nat : \A i \in DOMAIN events : i <= n


IndexInv == Numbered /\ IndexesAgree

\* append's number is a new one.
LEMMA NextIdIsFree ==
    ASSUME Numbered
    PROVE  NextId \in Nat /\ NextId \notin DOMAIN events /\ \A i \in DOMAIN events : i <= NextId
<1>1. CASE DOMAIN events = {}
  BY <1>1 DEF NextId
<1>2. CASE DOMAIN events # {}
  <2>1. PICK n \in Nat : \A i \in DOMAIN events : i <= n
    BY DEF Numbered
  <2>2. Max(DOMAIN events) \in DOMAIN events /\ \A i \in DOMAIN events : Max(DOMAIN events) >= i
    BY <1>2, <2>1, MaxOfBounded DEF Numbered
  <2>3. NextId = Max(DOMAIN events) + 1
    BY <1>2 DEF NextId
  <2> HIDE DEF NextId
  <2> QED
    BY <2>2, <2>3 DEF Numbered
<1> QED
  BY <1>1, <1>2

\* A transaction of append keeps them.
LEMMA AppendKeeps ==
    ASSUME IndexInv, NEW e, AppendRow(e)
    PROVE  IndexInv'
<1>1. NextId \in Nat /\ NextId \notin DOMAIN events /\ \A i \in DOMAIN events : i <= NextId
  BY NextIdIsFree DEF IndexInv
<1> DEFINE id == NextId
<1> HIDE DEF id
<1>2. /\ events' = [i \in DOMAIN events \cup {id} |-> IF i = id THEN e ELSE events[i]]
      /\ by_run' = by_run \cup IndexRow(e.run, id)
      /\ by_session' = by_session \cup {<<e.session, id>>}
      /\ by_expiry' = by_expiry \cup IndexRow(e.valid_to, id)
      /\ by_idem' = by_idem \cup IndexRow(e.key, id)
  BY DEF AppendRow, id
<1>3. id \in Nat /\ id \notin DOMAIN events /\ \A i \in DOMAIN events : i <= id
  BY <1>1 DEF id
<1>4. /\ DOMAIN events' = DOMAIN events \cup {id}
      /\ events'[id] = e
      /\ \A i \in DOMAIN events : events'[i] = events[i]
  BY <1>2, <1>3
<1>5. Numbered'
  <2>1. DOMAIN events' \subseteq Nat
    BY <1>3, <1>4 DEF IndexInv, Numbered
  <2>2. \A i \in DOMAIN events' : i <= id
    BY <1>3, <1>4
  <2> QED
    BY <1>3, <2>1, <2>2 DEF Numbered
<1>6. by_run' = {<<events'[i].run, i>> : i \in {j \in DOMAIN events' : events'[j].run # None}}
  BY <1>2, <1>3, <1>4 DEF IndexInv, IndexesAgree, IndexRow
<1>7. by_session' = {<<events'[i].session, i>> : i \in DOMAIN events'}
  BY <1>2, <1>3, <1>4 DEF IndexInv, IndexesAgree
<1>8. by_expiry' = {<<events'[i].valid_to, i>> : i \in {j \in DOMAIN events' : events'[j].valid_to # None}}
  BY <1>2, <1>3, <1>4 DEF IndexInv, IndexesAgree, IndexRow
<1>9. by_idem' = {<<events'[i].key, i>> : i \in {j \in DOMAIN events' : events'[j].key # None}}
  BY <1>2, <1>3, <1>4 DEF IndexInv, IndexesAgree, IndexRow
<1> QED
  BY <1>5, <1>6, <1>7, <1>8, <1>9 DEF IndexInv, IndexesAgree

\* A transaction of delete_expired keeps them.
LEMMA DeleteKeeps ==
    ASSUME IndexInv, DeleteExpired
    PROVE  IndexInv'
<1>1. Swept \subseteq DOMAIN events
  BY DEF Swept
<1>2. /\ DOMAIN events' = DOMAIN events \ Swept
      /\ \A i \in DOMAIN events \ Swept : events'[i] = events[i]
  BY DEF DeleteExpired
<1>3. Numbered'
  BY <1>2 DEF IndexInv, Numbered
<1>4. by_run' = {<<events'[i].run, i>> : i \in {j \in DOMAIN events' : events'[j].run # None}}
  <2>1. by_run = {<<events[i].run, i>> : i \in {j \in DOMAIN events : events[j].run # None}}
    BY DEF IndexInv, IndexesAgree
  <2>2. by_run' = by_run \ {<<events[i].run, i>> : i \in Swept}
    BY DEF DeleteExpired
  <2> QED
    BY <1>1, <1>2, <2>1, <2>2, Z3
<1>5. by_session' = {<<events'[i].session, i>> : i \in DOMAIN events'}
  <2>1. by_session = {<<events[i].session, i>> : i \in DOMAIN events}
    BY DEF IndexInv, IndexesAgree
  <2>2. by_session' = by_session \ {<<events[i].session, i>> : i \in Swept}
    BY DEF DeleteExpired
  <2> QED
    BY <1>1, <1>2, <2>1, <2>2, Z3
<1>6. by_expiry' = {<<events'[i].valid_to, i>> : i \in {j \in DOMAIN events' : events'[j].valid_to # None}}
  <2>1. by_expiry = {<<events[i].valid_to, i>> : i \in {j \in DOMAIN events : events[j].valid_to # None}}
    BY DEF IndexInv, IndexesAgree
  <2>2. by_expiry' = by_expiry \ {<<events[i].valid_to, i>> : i \in Swept}
    BY DEF DeleteExpired
  <2> QED
    BY <1>1, <1>2, <2>1, <2>2, Z3
<1>7. by_idem' = {<<events'[i].key, i>> : i \in {j \in DOMAIN events' : events'[j].key # None}}
  <2>1. by_idem = {<<events[i].key, i>> : i \in {j \in DOMAIN events : events[j].key # None}}
    BY DEF IndexInv, IndexesAgree
  <2>2. by_idem' = by_idem \ {<<events[i].key, i>> : i \in Swept}
    BY DEF DeleteExpired
  <2> QED
    BY <1>1, <1>2, <2>1, <2>2, Z3
<1> QED
  BY <1>3, <1>4, <1>5, <1>6, <1>7 DEF IndexInv, IndexesAgree

-----------------------------------------------------------------------------
(* The read paths.                                                         *)

\* The number of rows is finite.
LEMMA RowsFinite ==
    ASSUME Numbered, NEW S, S \subseteq DOMAIN events
    PROVE  /\ S \subseteq Nat /\ IsFiniteSet(S) /\ Cardinality(S) \in Nat
           /\ Cardinality(DOMAIN events) \in Nat /\ Cardinality(S) <= Cardinality(DOMAIN events)
<1>1. PICK n \in Nat : \A i \in DOMAIN events : i <= n
  BY DEF Numbered
<1>2. DOMAIN events \in SUBSET Nat
  BY DEF Numbered
<1>3. IsFiniteSet(DOMAIN events)
  BY <1>1, <1>2, FS_BoundedSetOfNaturals, Zenon
<1>4. IsFiniteSet(S) /\ Cardinality(S) <= Cardinality(DOMAIN events)
  BY <1>3, FS_Subset
<1> QED
  BY <1>2, <1>3, <1>4, FS_CardinalityType

Least(a, b) == IF a < b THEN a ELSE b

\* The first k elements of a list.
LEMMA TakeAt ==
    ASSUME NEW S, NEW n \in Nat, NEW s \in [1 .. n -> S], NEW k \in Nat
    PROVE  \A i \in 1 .. Least(k, n) : Take(s, k)[i] = s[i]
<1>1. s \in Seq(S) /\ Len(s) = n
  OBVIOUS
<1>2. Least(k, n) \in Nat /\ Least(k, n) <= n
  BY DEF Least
<1>3. Take(s, k) = SubSeq(s, 1, Least(k, n))
  BY <1>1 DEF Take, Least
<1> QED
  BY <1>1, <1>2, <1>3

LEMMA TakeIs ==
    ASSUME NEW S, NEW n \in Nat, NEW s \in [1 .. n -> S], NEW k \in Nat
    PROVE  /\ Least(k, n) \in Nat
           /\ Take(s, k) \in [1 .. Least(k, n) -> S] /\ Len(Take(s, k)) = Least(k, n)
<1>1. s \in Seq(S) /\ Len(s) = n
  OBVIOUS
<1> DEFINE l == Least(k, n)
<1>2. l \in Nat /\ l <= n
  BY DEF Least
<1>3. Take(s, k) = SubSeq(s, 1, l)
  BY <1>1 DEF Take, Least
<1> HIDE DEF l
<1>4. SubSeq(s, 1, l) \in Seq(S) /\ Len(SubSeq(s, 1, l)) = l
  BY <1>1, <1>2
<1>5. SubSeq(s, 1, l) \in [1 .. l -> S]
  <2> DEFINE t == SubSeq(s, 1, l)
  <2>1. t \in Seq(S) /\ Len(t) = l
    BY <1>4
  <2> HIDE DEF t
  <2>2. t \in [1 .. l -> S]
    BY <1>2, <2>1
  <2> QED
    BY <2>2 DEF t
<1> QED
  BY <1>2, <1>3, <1>4, <1>5, Zenon DEF l

LEMMA TakeHolds ==
    ASSUME NEW S, NEW n \in Nat, NEW s \in [1 .. n -> S], NEW k \in Nat
    PROVE  /\ \A x \in ToSet(Take(s, k)) : \E i \in 1 .. Least(k, n) : s[i] = x
           /\ \A i \in 1 .. Least(k, n) : s[i] \in ToSet(Take(s, k))
<1> DEFINE l == Least(k, n)
           t == Take(s, k)
<1>0. t \in [1 .. l -> S]
  BY TakeIs
<1>b. \A i \in 1 .. l : t[i] = s[i]
  BY TakeAt
<1> HIDE DEF l, t
<1>1. DOMAIN t = 1 .. l /\ \A i \in 1 .. l : t[i] = s[i]
  BY <1>0, <1>b
<1>2. /\ \A x \in ToSet(t) : \E i \in 1 .. l : s[i] = x
      /\ \A i \in 1 .. l : s[i] \in ToSet(t)
  BY <1>1 DEF ToSet
<1> QED
  BY <1>2 DEF l, t

\* What a list of rows holds.
LEMMA NewestFirstHolds ==
    ASSUME NEW S, S \subseteq Nat, IsFiniteSet(S)
    PROVE  /\ Cardinality(S) \in Nat
           /\ NewestFirst(S) \in [1 .. Cardinality(S) -> S]
           /\ Descending(NewestFirst(S))
           /\ Len(NewestFirst(S)) = Cardinality(S)
           /\ ToSet(NewestFirst(S)) = S
           /\ \A x \in S : \E i \in 1 .. Cardinality(S) : NewestFirst(S)[i] = x
           /\ \A i, j \in 1 .. Cardinality(S) : NewestFirst(S)[i] = NewestFirst(S)[j] => i = j
<1> DEFINE n == Cardinality(S)
           s == NewestFirst(S)
<1>1. n \in Nat
  BY FS_CardinalityType
<1>2. s \in [1 .. n -> S] /\ Descending(s)
  BY NewestFirstIs
<1>3. /\ \A x \in S : \E i \in 1 .. n : s[i] = x
      /\ \A i, j \in 1 .. n : s[i] = s[j] => i = j
  <2> HIDE DEF s
  <2> QED
    BY <1>2, ListIsOnto, Zenon
<1> HIDE DEF n, s
<1>4. Len(s) = n /\ DOMAIN s = 1 .. n
  BY <1>1, <1>2
<1>5. ToSet(s) = S
  <2>1. ToSet(s) = {s[i] : i \in 1 .. n}
    BY <1>4 DEF ToSet
  <2>2. \A i \in 1 .. n : s[i] \in S
    BY <1>2
  <2>3. \A x \in S : x \in {s[i] : i \in 1 .. n}
    BY <1>3
  <2> QED
    BY <2>1, <2>2, <2>3
<1> QED
  BY <1>1, <1>2, <1>3, <1>4, <1>5 DEF n, s

\* The index of runs, read oldest first, gives the scan's rows in reverse.
LEMMA RunReads ==
    ASSUME IndexInv, NEW r \in RunIds
    PROVE  QueryByRun(r) = Reverse(Query([AnyRow EXCEPT !.run = r], Cardinality(DOMAIN events)))
<1> DEFINE S == {i \in DOMAIN events : <<r, i>> \in by_run /\ ~IsExpired(i)}
           f == [AnyRow EXCEPT !.run = r]
           all == Cardinality(DOMAIN events)
<1>1. r # None
  BY JournalAssumption
<1>2. \A i \in DOMAIN events : <<r, i>> \in by_run <=> events[i].run = r
  BY <1>1 DEF IndexInv, IndexesAgree
<1>3. /\ f.namespace = None /\ f.type = None /\ f.run = r /\ f.session = None /\ f.include_expired = FALSE
  BY DEF AnyRow
<1> HIDE DEF f
<1>4. \A i \in DOMAIN events : Matches(f, i) <=> events[i].run = r /\ ~IsExpired(i)
  BY <1>1, <1>3 DEF Matches
<1>5. S = {i \in DOMAIN events : Matches(f, i)}
  BY <1>2, <1>4
<1>6. QueryByRun(r) = OldestFirst(S) /\ Query(f, all) = Take(NewestFirst(S), all)
  BY <1>5 DEF QueryByRun, Query
<1>7. S \subseteq DOMAIN events
  OBVIOUS
<1> HIDE DEF S, all
<1>8. /\ S \subseteq Nat /\ IsFiniteSet(S) /\ Cardinality(S) \in Nat /\ all \in Nat
      /\ Cardinality(S) <= all
  BY <1>7, RowsFinite DEF IndexInv, all
<1> DEFINE n == Cardinality(S)
           d == NewestFirst(S)
           a == [i \in 1 .. n |-> d[(n - i) + 1]]
<1>9. d \in [1 .. n -> S] /\ Descending(d) /\ n \in Nat
  BY <1>8, NewestFirstIs
<1>10. OldestFirst(S) \in [1 .. n -> S] /\ Ascending(OldestFirst(S))
  BY <1>8, OldestFirstIs
<1> HIDE DEF n, d
<1>11. Len(d) = n
  BY <1>9
<1>12. Take(d, all) = d
  <2>1. Least(all, n) = n
    BY <1>8 DEF n, Least
  <2>2. d \in [1 .. n -> S] /\ n \in Nat /\ all \in Nat
    BY <1>8, <1>9
  <2>3. Take(d, all) \in [1 .. Least(all, n) -> S]
    BY <2>2, TakeIs
  <2>3a. \A i \in 1 .. Least(all, n) : Take(d, all)[i] = d[i]
    BY <2>2, TakeAt
  <2> DEFINE t == Take(d, all)
  <2>4. t \in [1 .. n -> S] /\ \A i \in 1 .. n : t[i] = d[i]
    BY <2>1, <2>3, <2>3a
  <2> HIDE DEF t
  <2>5. t = d
    BY <2>2, <2>4
  <2> QED
    BY <2>5 DEF t
<1>13. Reverse(d) = a
  BY <1>11 DEF Reverse
<1>14. a \in [1 .. n -> S] /\ Ascending(a)
  <2>1. \A i \in 1 .. n : (n - i) + 1 \in 1 .. n
    BY <1>9
  <2>2. a \in [1 .. n -> S]
    BY <1>9, <2>1
  <2>3. Ascending(a)
    <3> SUFFICES ASSUME NEW i \in 1 .. n, NEW j \in 1 .. n, i < j PROVE a[i] < a[j]
      BY <2>2 DEF Ascending
    <3>1. d[(n - j) + 1] > d[(n - i) + 1]
      BY <1>9, <2>1 DEF Descending
    <3>2. a[i] = d[(n - i) + 1] /\ a[j] = d[(n - j) + 1] /\ a[i] \in S /\ a[j] \in S
      BY <2>2
    <3>3. a[i] \in Nat /\ a[j] \in Nat
      BY <1>8, <3>2
    <3> QED
      BY <3>1, <3>2, <3>3
  <2> QED
    BY <2>2, <2>3
<1> HIDE DEF a
<1>15. OldestFirst(S) = a
  BY <1>8, <1>10, <1>14, AscendingIsUnique DEF n
<1> QED
  BY <1>6, <1>12, <1>13, <1>15 DEF d, f, all

LEMMA SessionReads ==
    ASSUME IndexInv, NEW s \in Sessions, NEW n
    PROVE  QueryBySession(s, n) = Query([AnyRow EXCEPT !.session = s], n)
<1> DEFINE f == [AnyRow EXCEPT !.session = s]
<1>1. s # None
  BY JournalAssumption
<1>2. \A i \in DOMAIN events : <<s, i>> \in by_session <=> events[i].session = s
  BY DEF IndexInv, IndexesAgree
<1>3. /\ f.namespace = None /\ f.type = None /\ f.run = None /\ f.session = s /\ f.include_expired = FALSE
  BY DEF AnyRow
<1> HIDE DEF f
<1>4. \A i \in DOMAIN events : Matches(f, i) <=> events[i].session = s /\ ~IsExpired(i)
  BY <1>1, <1>3 DEF Matches
<1>5. {i \in DOMAIN events : <<s, i>> \in by_session /\ ~IsExpired(i)}
         = {i \in DOMAIN events : Matches(f, i)}
  BY <1>2, <1>4
<1> QED
  BY <1>5 DEF QueryBySession, Query, f

\* Counting agrees with listing.
LEMMA CountReads ==
    ASSUME Numbered, NEW f
    PROVE  Count(f) = Len(Query(f, Cardinality(DOMAIN events)))
<1> DEFINE S == {i \in DOMAIN events : Matches(f, i)}
           all == Cardinality(DOMAIN events)
           n == Cardinality(S)
<1>1. S \subseteq DOMAIN events
  OBVIOUS
<1>2. Count(f) = n /\ Query(f, all) = Take(NewestFirst(S), all)
  BY DEF Count, Query
<1> HIDE DEF S
<1>3. /\ S \subseteq Nat /\ IsFiniteSet(S) /\ n \in Nat /\ all \in Nat /\ n <= all
  BY <1>1, RowsFinite
<1>4. NewestFirst(S) \in [1 .. n -> S]
  BY <1>3, NewestFirstIs
<1> HIDE DEF n, all
<1>5. Len(Take(NewestFirst(S), all)) = Least(all, n)
  BY <1>3, <1>4, TakeIs
<1>6. Least(all, n) = n
  BY <1>3 DEF Least
<1> QED
  BY <1>2, <1>5, <1>6 DEF all

\* The newest n rows, less the expired, are among the newest n that have not expired.
LEMMA RecentReads ==
    ASSUME Numbered, NEW n \in Nat
    PROVE  ToSet(Recent(n)) \subseteq ToSet(Query(AnyRow, n))
<1> DEFINE D == DOMAIN events
           A == {i \in D : ~IsExpired(i)}
           d == NewestFirst(D)
           a == NewestFirst(A)
           X == {i \in ToSet(Take(d, n)) : ~IsExpired(i)}
           cd == Cardinality(D)
           ca == Cardinality(A)
<1>1. A = {i \in D : Matches(AnyRow, i)}
  BY DEF Matches, AnyRow
<1>2. Recent(n) = NewestFirst(X) /\ Query(AnyRow, n) = Take(a, n)
  BY <1>1 DEF Recent, Query
<1>3. /\ D \subseteq Nat /\ IsFiniteSet(D) /\ cd \in Nat
      /\ A \subseteq Nat /\ IsFiniteSet(A) /\ ca \in Nat
  <2>1. D \subseteq D /\ A \subseteq D
    OBVIOUS
  <2> QED
    BY <2>1, RowsFinite
<1>4. /\ d \in [1 .. cd -> D] /\ Descending(d)
      /\ \A i, j \in 1 .. cd : d[i] = d[j] => i = j
      /\ \A x \in D : \E i \in 1 .. cd : d[i] = x
  <2> HIDE DEF D
  <2> QED
    BY <1>3, NewestFirstHolds, Zenon
<1>5. /\ a \in [1 .. ca -> A] /\ Descending(a)
      /\ \A x \in A : \E i \in 1 .. ca : a[i] = x
      /\ \A i, j \in 1 .. ca : a[i] = a[j] => i = j
  <2> HIDE DEF A
  <2> QED
    BY <1>3, NewestFirstHolds, Zenon
<1>b. A \subseteq D
  OBVIOUS
<1> HIDE DEF D, A, d, a, cd, ca
<1>6. \A x \in ToSet(Take(d, n)) : \E i \in 1 .. Least(n, cd) : d[i] = x
  <2>1. cd \in Nat /\ d \in [1 .. cd -> D]
    BY <1>3, <1>4
  <2> QED
    BY <2>1, TakeHolds
<1>7. \A i \in 1 .. Least(n, ca) : a[i] \in ToSet(Take(a, n))
  <2>1. ca \in Nat /\ a \in [1 .. ca -> A]
    BY <1>3, <1>5
  <2> QED
    BY <2>1, TakeHolds
<1>8. Least(n, cd) \in Nat /\ Least(n, cd) <= cd /\ Least(n, cd) <= n
  BY <1>3 DEF Least
<1>9. X \subseteq A
  <2>1. \A i \in 1 .. Least(n, cd) : d[i] \in D
    BY <1>3, <1>4, <1>8
  <2> QED
    BY <1>6, <2>1 DEF A
<1>10. ToSet(NewestFirst(X)) = X
  <2>1. X \subseteq DOMAIN events
    BY <1>9 DEF A, D
  <2> HIDE DEF X
  <2> QED
    BY <2>1, RowsFinite, NewestFirstHolds
<1>11. ASSUME NEW x \in X PROVE x \in ToSet(Take(a, n))
  <2>1. PICK k \in 1 .. Least(n, cd) : d[k] = x
    BY <1>6
  <2>2. k \in Nat /\ k \in 1 .. cd /\ k <= n /\ x \in A
    BY <1>3, <1>8, <1>9, <2>1
  <2>3. PICK p \in 1 .. ca : a[p] = x
    BY <1>5, <2>2
  <2>4. ASSUME NEW j \in 1 .. p PROVE \E i \in 1 .. k : d[i] = a[j]
    <3>1. j \in 1 .. ca /\ p \in Nat /\ j \in Nat
      BY <1>3, <2>3
    <3>2. a[j] \in A /\ a[j] \in D /\ a[j] \in Nat /\ x \in Nat
      BY <1>3, <1>5, <1>b, <2>2, <3>1
    <3>3. a[j] >= x
      BY <1>5, <2>3, <3>1, <3>2 DEF Descending
    <3>4. PICK i \in 1 .. cd : d[i] = a[j]
      BY <1>4, <3>2
    <3>5. ~(k < i)
      <4> SUFFICES ASSUME k < i PROVE FALSE
        OBVIOUS
      <4>1. d[k] > d[i]
        BY <1>4, <2>2 DEF Descending
      <4> QED
        BY <2>1, <3>2, <3>3, <3>4, <4>1
    <3>6. i \in 1 .. k
      BY <1>3, <2>2, <3>5
    <3> QED
      BY <3>4, <3>6
  <2> DEFINE g == [j \in 1 .. p |-> CHOOSE i \in 1 .. k : d[i] = a[j]]
  <2>5. ASSUME NEW j \in 1 .. p PROVE g[j] \in 1 .. k /\ d[g[j]] = a[j]
    BY <2>4
  <2>6. g \in [1 .. p -> 1 .. k]
    BY <2>5
  <2> HIDE DEF g
  <2>7. ASSUME NEW i \in 1 .. p, NEW j \in 1 .. p, g[i] = g[j] PROVE i = j
    <3>1. a[i] = a[j]
      BY <2>5, <2>7
    <3>2. i \in 1 .. ca /\ j \in 1 .. ca
      BY <1>3, <2>3
    <3> QED
      BY <1>5, <3>1, <3>2
  <2>8. g \in Injection(1 .. p, 1 .. k)
    BY <2>6, <2>7 DEF Injection, IsInjective
  <2>9. p \in Nat /\ p >= 1
    BY <1>3, <2>3
  <2>10. /\ IsFiniteSet(1 .. k) /\ Cardinality(1 .. k) = k
         /\ IsFiniteSet(1 .. p) /\ Cardinality(1 .. p) = p
    BY <2>2, <2>9, FS_Interval
  <2>11. p <= k
    BY <2>8, <2>10, FS_Injection
  <2>12. p \in 1 .. Least(n, ca)
    BY <1>3, <2>2, <2>3, <2>9, <2>11 DEF Least
  <2> QED
    BY <1>7, <2>3, <2>12
<1> QED
  BY <1>2, <1>10, <1>11 DEF D, A, d, a

LEMMA KeyReads ==
    ASSUME IndexInv, NEW k \in Keys, GetByIdempotencyKey(k) # None
    PROVE  events[GetByIdempotencyKey(k)].key = k /\ ~IsExpired(GetByIdempotencyKey(k))
<1> DEFINE ids == {i \in DOMAIN events : <<k, i>> \in by_idem}
<1>1. \A i \in ids : events[i].key = k
  BY DEF IndexInv, IndexesAgree
<1>2. ids # {} /\ ~IsExpired(Max(ids)) /\ GetByIdempotencyKey(k) = Max(ids)
  BY DEF GetByIdempotencyKey
<1>3. PICK n \in Nat : \A i \in DOMAIN events : i <= n
  BY DEF IndexInv, Numbered
<1>4. ids \subseteq Nat /\ \A i \in ids : i <= n
  BY <1>3 DEF IndexInv, Numbered
<1> HIDE DEF ids
<1>5. Max(ids) \in ids
  BY <1>2, <1>3, <1>4, MaxOfBounded
<1> QED
  BY <1>1, <1>2, <1>5

\* The read paths agree whenever the indexes do.
LEMMA IndexReads == IndexInv => ReadPathsAgree
<1> SUFFICES ASSUME IndexInv PROVE ReadPathsAgree
  OBVIOUS
<1> DEFINE all == Cardinality(DOMAIN events)
<1>1. all \in Nat
  <2>1. DOMAIN events \subseteq DOMAIN events
    OBVIOUS
  <2> QED
    BY <2>1, RowsFinite DEF IndexInv
<1>2. \A r \in RunIds : QueryByRun(r) = Reverse(Query([AnyRow EXCEPT !.run = r], all))
  BY RunReads
<1>3. \A s \in Sessions : \A n \in 0 .. all :
         QueryBySession(s, n) = Query([AnyRow EXCEPT !.session = s], n)
  BY SessionReads
<1>4. \A s \in Spaces :
         Count([AnyRow EXCEPT !.namespace = s]) = Len(Query([AnyRow EXCEPT !.namespace = s], all))
  BY CountReads DEF IndexInv
<1>5. \A n \in 0 .. all : ToSet(Recent(n)) \subseteq ToSet(Query(AnyRow, n))
  <2>1. \A n \in 0 .. all : n \in Nat
    BY <1>1
  <2> QED
    BY <2>1, RecentReads DEF IndexInv
<1>6. \A k \in Keys : LET i == GetByIdempotencyKey(k) IN
         i # None => events[i].key = k /\ ~IsExpired(i)
  BY KeyReads
<1> QED
  BY <1>2, <1>3, <1>4, <1>5, <1>6 DEF ReadPathsAgree

=============================================================================
