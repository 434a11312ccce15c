---------------------------- MODULE FilesProofs ----------------------------
(* What holds of the served files for any clients, books, writes, commands   *)
(* and length of the log: the log by Ring, field files by Kept (books, fids  *)
(* and commands), bulk commands by Tally and Coursed on top of it.           *)
EXTENDS Files, TLAPS, SequenceTheorems, FiniteSetTheorems

\* Where the last results are: behind the next slot, and once the ring has gone
\* round from it to the end as well.
Ring ==
  /\ next \in 0 .. LogSize - 1
  /\ full \in BOOLEAN
  /\ entries = [k \in 0 .. LogSize - 1 |-> entries[k]]
  /\ \E S : appended \in Seq(S)
  /\ IF full THEN Len(appended) >= LogSize ELSE Len(appended) = next
  /\ \A k \in 0 .. next - 1 : entries[k] = appended[Len(appended) - next + 1 + k]
  /\ full => \A k \in next .. LogSize - 1 :
               entries[k] = appended[Len(appended) - next - LogSize + 1 + k]

\* An empty log is such a ring.
LEMMA EmptyRing == LogInit => Ring
<1> SUFFICES ASSUME LogInit PROVE Ring
  OBVIOUS
<1>1. appended \in Seq({}) /\ Len(appended) = 0
  BY DEF LogInit
<1>2. entries = [k \in 0 .. LogSize - 1 |-> entries[k]]
  BY DEF LogInit
<1>3. \E S : appended \in Seq(S)
  BY <1>1, Zenon
<1>4. next = 0 /\ full = FALSE
  BY DEF LogInit
<1>5. next \in 0 .. LogSize - 1 /\ 0 .. next - 1 = {}
  BY <1>4, LogSizeAssumption
<1> QED
  BY <1>1, <1>2, <1>3, <1>4, <1>5 DEF Ring

\* The slot after next, with no modulus.
LEMMA NextSlot ==
  ASSUME NEW n \in 0 .. LogSize - 1
  PROVE  (n + 1) % LogSize = IF n + 1 = LogSize THEN 0 ELSE n + 1
  BY LogSizeAssumption, SMT

\* Adding a result to a sequence.
LEMMA Grown ==
  ASSUME NEW S, NEW s \in Seq(S), NEW e
  PROVE  /\ s \o <<e>> \in Seq(S \union {e})
         /\ Len(s \o <<e>>) = Len(s) + 1
         /\ \A k \in 1 .. Len(s) : (s \o <<e>>)[k] = s[k]
         /\ (s \o <<e>>)[Len(s) + 1] = e
  OBVIOUS

\* Append keeps the ring.
LEMMA LoggedRing ==
  ASSUME Ring, NEW e, Logged(e)
  PROVE  Ring'
<1> USE LogSizeAssumption
<1>1. PICK S : appended \in Seq(S)
  BY DEF Ring
<1>2. /\ appended' \in Seq(S \union {e})
      /\ Len(appended) \in Nat
      /\ Len(appended') = Len(appended) + 1
      /\ \A k \in 1 .. Len(appended) : appended'[k] = appended[k]
      /\ appended'[Len(appended) + 1] = e
  BY <1>1, Grown DEF Logged
<1>3. next' = IF next + 1 = LogSize THEN 0 ELSE next + 1
  BY NextSlot DEF Ring, Logged
<1>4. full' = (full \/ next' = 0)
  BY DEF Logged
<1>5. /\ entries' = [k \in 0 .. LogSize - 1 |-> entries'[k]]
      /\ entries'[next] = e
      /\ \A k \in (0 .. LogSize - 1) \ {next} : entries'[k] = entries[k]
  BY DEF Ring, Logged
<1>6. next \in 0 .. LogSize - 1 /\ full \in BOOLEAN
  BY DEF Ring
<1>7. next' \in 0 .. LogSize - 1 /\ full' \in BOOLEAN
  <2>1. next' \in 0 .. LogSize - 1
    BY <1>3, <1>6
  <2>2. full' \in BOOLEAN
    BY <1>4, Zenon
  <2> QED
    BY <2>1, <2>2
<1>8. IF full' THEN Len(appended') >= LogSize ELSE Len(appended') = next'
  <2>1. CASE full
    <3>1. full' /\ Len(appended) >= LogSize
      BY <1>4, <2>1 DEF Ring
    <3> QED
      BY <3>1, <1>2
  <2>2. CASE ~full /\ next' = 0
    <3>1. full' /\ Len(appended) = next /\ next + 1 = LogSize
      BY <1>3, <1>4, <1>6, <2>2 DEF Ring
    <3> QED
      BY <3>1, <1>2
  <2>3. CASE ~full /\ next' # 0
    <3>1. ~full'
      BY <1>4, <2>3, Zenon
    <3>2. Len(appended) = next /\ next' = next + 1
      BY <1>3, <1>6, <2>3 DEF Ring
    <3> QED
      BY <3>1, <3>2, <1>2
  <2> QED
    BY <2>1, <2>2, <2>3
<1>9. \A k \in 0 .. next' - 1 : entries'[k] = appended'[Len(appended') - next' + 1 + k]
  <2> SUFFICES ASSUME NEW k \in 0 .. next' - 1
               PROVE  entries'[k] = appended'[Len(appended') - next' + 1 + k]
    OBVIOUS
  <2>1. next' = next + 1
    BY <1>3, <1>6
  <2>2. CASE k = next
    BY <2>1, <2>2, <1>2, <1>5, <1>6
  <2>3. CASE k # next
    <3>1. k \in 0 .. next - 1 /\ k \in (0 .. LogSize - 1) \ {next}
      BY <2>1, <2>3, <1>6
    <3>2. Len(appended) - next + 1 + k \in 1 .. Len(appended)
      BY <3>1, <1>2, <1>6 DEF Ring
    <3>3. Len(appended') - next' + 1 + k = Len(appended) - next + 1 + k
      BY <2>1, <1>2, <1>6
    <3> QED
      BY <3>1, <3>2, <3>3, <1>2, <1>5 DEF Ring
  <2> QED
    BY <2>2, <2>3
<1>10. ASSUME full', NEW k \in next' .. LogSize - 1
       PROVE  entries'[k] = appended'[Len(appended') - next' - LogSize + 1 + k]
  <2>1. CASE next' = 0
    <3>1. next = LogSize - 1
      BY <2>1, <1>3, <1>6
    <3>2. CASE k = next
      BY <3>1, <3>2, <2>1, <1>2, <1>5, <1>6
    <3>3. CASE k # next
      <4>1. k \in 0 .. next - 1 /\ k \in (0 .. LogSize - 1) \ {next}
        BY <3>1, <3>3, <2>1, <1>6
      <4>2. Len(appended) - next + 1 + k \in 1 .. Len(appended)
        BY <4>1, <1>2, <1>6 DEF Ring
      <4>3. Len(appended') - next' - LogSize + 1 + k = Len(appended) - next + 1 + k
        BY <2>1, <3>1, <4>1, <1>2, <1>6
      <4> QED
        BY <4>1, <4>2, <4>3, <1>2, <1>5 DEF Ring
    <3> QED
      BY <3>2, <3>3
  <2>2. CASE next' # 0
    <3>1. full /\ next' = next + 1
      BY <2>2, <1>3, <1>4, <1>10
    <3>2. k \in next .. LogSize - 1 /\ k \in (0 .. LogSize - 1) \ {next}
      BY <3>1, <1>6
    <3>3. Len(appended) - next - LogSize + 1 + k \in 1 .. Len(appended)
      BY <3>1, <3>2, <1>2, <1>6 DEF Ring
    <3>4. Len(appended') - next' - LogSize + 1 + k = Len(appended) - next - LogSize + 1 + k
      BY <3>1, <3>2, <1>2, <1>6
    <3>5. entries[k] = appended[Len(appended) - next - LogSize + 1 + k]
      BY <3>1, <3>2 DEF Ring
    <3> QED
      BY <3>2, <3>3, <3>4, <3>5, <1>2, <1>5
  <2> QED
    BY <2>1, <2>2
<1>11. \E T : appended' \in Seq(T)
  BY <1>2, Zenon
<1> QED
  BY <1>5, <1>7, <1>8, <1>9, <1>10, <1>11 DEF Ring

\* Entries of such a ring are the last results.
LEMMA RingShows == Ring => LogShowsTheLast
<1> SUFFICES ASSUME Ring PROVE LogShowsTheLast
  OBVIOUS
<1> USE LogSizeAssumption
<1>1. PICK S : appended \in Seq(S)
  BY DEF Ring
<1>2. Len(appended) \in Nat /\ next \in 0 .. LogSize - 1 /\ full \in BOOLEAN
  BY <1>1 DEF Ring
<1> DEFINE n == Len(appended)
           from == IF n <= LogSize THEN 1 ELSE n - LogSize + 1
           kept == SubSeq(appended, from, n)
<1>3. kept = [k \in 1 .. n - from + 1 |-> appended[from + k - 1]]
  <2>1. from \in 1 .. n + 1 /\ n \in Nat
    BY <1>2
  <2>2. \A i \in from .. n : appended[i] \in S
    BY <1>1, <2>1
  <2> HIDE DEF n, from
  <2>3. /\ kept \in Seq(S)
        /\ Len(kept) = IF from <= n THEN n - from + 1 ELSE 0
        /\ \A i \in 1 .. n - from + 1 : kept[i] = appended[from + i - 1]
    BY <2>1, <2>2, SubSeqProperties
  <2>4. Len(kept) = n - from + 1
    BY <2>1, <2>3
  <2> HIDE DEF kept
  <2>5. kept = [k \in 1 .. n - from + 1 |-> kept[k]]
    BY <2>3, <2>4
  <2> QED
    BY <2>3, <2>5
<1>4. CASE ~full
  <2>1. n = next /\ n < LogSize /\ from = 1
    BY <1>2, <1>4 DEF Ring
  <2>2. ASSUME NEW k \in 1 .. next PROVE entries[k - 1] = appended[from + k - 1]
    <3>1. k - 1 \in 0 .. next - 1 /\ n - next + 1 + (k - 1) = from + k - 1
      BY <2>1, <1>2
    <3> QED
      BY <3>1 DEF Ring
  <2>3. LogEntries = [k \in 1 .. next |-> entries[k - 1]]
    BY <1>4 DEF LogEntries
  <2>4. n - from + 1 = next
    BY <2>1, <1>2
  <2> QED
    BY <2>2, <2>3, <2>4, <1>3 DEF LogShowsTheLast
<1>5. CASE full
  <2>1. n >= LogSize /\ from = n - LogSize + 1 /\ n - from + 1 = LogSize
    BY <1>2, <1>5 DEF Ring
  <2> DEFINE slot(k) == IF k <= LogSize - next THEN entries[next + k - 1]
                        ELSE entries[k - (LogSize - next) - 1]
  <2>2. ASSUME NEW k \in 1 .. LogSize PROVE slot(k) = appended[from + k - 1]
    <3>1. CASE k <= LogSize - next
      <4>1. next + k - 1 \in next .. LogSize - 1
        BY <3>1, <1>2
      <4>2. n - next - LogSize + 1 + (next + k - 1) = from + k - 1
        BY <2>1, <1>2
      <4> QED
        BY <3>1, <4>1, <4>2, <1>5 DEF Ring
    <3>2. CASE ~(k <= LogSize - next)
      <4>1. k - (LogSize - next) - 1 \in 0 .. next - 1
        BY <3>2, <1>2
      <4>2. n - next + 1 + (k - (LogSize - next) - 1) = from + k - 1
        BY <2>1, <1>2
      <4> QED
        BY <3>2, <4>1, <4>2 DEF Ring
    <3> QED
      BY <3>1, <3>2
  <2>3. LogEntries = [k \in 1 .. LogSize |-> slot(k)]
    BY <1>5 DEF LogEntries
  <2> HIDE DEF slot
  <2> QED
    BY <2>1, <2>2, <2>3, <1>3 DEF LogShowsTheLast
<1> QED
  BY <1>2, <1>4, <1>5

\* A step logs one result or leaves the log alone.
LEMMA StepOfLog == [Next]_vars => UNCHANGED logvars \/ \E e : Logged(e)
  BY DEF Next, vars, Upload, Open, Write, Close, Execute, EditNext, Finish, DeleteBook

\* However many commands clients run, a reader of the log gets the last ones, as
\* many as the ring has room for, oldest first (CommandLog.Append, Entries).
THEOREM LogShows == Spec => []LogShowsTheLast
<1>1. Init => Ring
  BY EmptyRing DEF Init
<1>2. Ring /\ [Next]_vars => Ring'
  <2> SUFFICES ASSUME Ring, [Next]_vars PROVE Ring'
    OBVIOUS
  <2>1. CASE UNCHANGED logvars
    BY <2>1 DEF Ring, logvars
  <2>2. CASE \E e : Logged(e)
    BY <2>2, LoggedRing
  <2> QED
    BY <2>1, <2>2, StepOfLog
<1> QED
  BY <1>1, <1>2, RingShows, PTL DEF Spec

-----------------------------------------------------------------------------
(* Numbers in order, and what is picked from a list by them. *)

\* What holds of 0, and of n + 1 if it holds of n, holds of all.
LEMMA Induction ==
  ASSUME NEW T, 0 \in T, \A n \in Nat : n \in T => n + 1 \in T
  PROVE  Nat \subseteq T
<1> SUFFICES ASSUME NEW n \in Nat, n \notin T PROVE FALSE
  OBVIOUS
<1> DEFINE N == Nat \ T
           R == OpToRel(<, Nat)
<1>1. IsWellFoundedOn(R, Nat)
  BY NatLessThanWellFounded
<1>2. \A x, y \in Nat : x < y => <<x, y>> \in R
  BY DEF OpToRel
<1>3. N \subseteq Nat /\ N # {}
  OBVIOUS
<1> HIDE DEF R
<1>4. PICK x \in N : \A y \in N : ~(<<y, x>> \in R)
  BY <1>1, <1>3, WFMin
<1>5. x \in Nat /\ x # 0 /\ x - 1 \in Nat /\ x - 1 < x
  BY <1>4
<1>6. x - 1 \in T
  BY <1>2, <1>4, <1>5
<1> QED
  BY <1>4, <1>5, <1>6

\* Of the numbers up to n one is the last.
LEMMA Greatest ==
  ASSUME NEW S \in SUBSET Nat, NEW n \in Nat, \A k \in S : k <= n, S # {}
  PROVE  \E m \in S : \A k \in S : k <= m
<1> DEFINE T == {j \in Nat : \A R \in SUBSET S : R # {} /\ (\A k \in R : k <= j)
                               => \E m \in R : \A k \in R : k <= m}
<1>1. 0 \in T
  <2> SUFFICES ASSUME NEW R \in SUBSET S, R # {}, \A k \in R : k <= 0
               PROVE  \E m \in R : \A k \in R : k <= m
    OBVIOUS
  <2>1. PICK k \in R : TRUE
    OBVIOUS
  <2>2. k = 0
    OBVIOUS
  <2> QED
    BY <2>2
<1>2. ASSUME NEW j \in Nat, j \in T PROVE j + 1 \in T
  <2> SUFFICES ASSUME NEW R \in SUBSET S, R # {}, \A k \in R : k <= j + 1
               PROVE  \E m \in R : \A k \in R : k <= m
    OBVIOUS
  <2>1. CASE j + 1 \in R
    BY <2>1
  <2>2. CASE j + 1 \notin R
    <3>1. \A k \in R : k <= j
      <4> SUFFICES ASSUME NEW k \in R PROVE k <= j
        OBVIOUS
      <4>1. k \in Nat /\ k <= j + 1 /\ k # j + 1
        BY <2>2
      <4> QED
        BY <4>1
    <3> QED
      BY <1>2, <3>1
  <2> QED
    BY <2>1, <2>2
<1>3. n \in T
  <2> HIDE DEF T
  <2> QED
    BY <1>1, <1>2, Induction
<1> QED
  BY <1>3

\* Ascending lists the numbers of a finite set, each once, in order.
LEMMA AscendingFacts ==
  ASSUME NEW S \in SUBSET Nat, IsFiniteSet(S)
  PROVE  /\ Cardinality(S) \in Nat
         /\ Ascending(S) \in [1 .. Cardinality(S) -> S]
         /\ \A k \in S : \E n \in 1 .. Cardinality(S) : Ascending(S)[n] = k
         /\ \A m, n \in 1 .. Cardinality(S) : m < n => Ascending(S)[m] < Ascending(S)[n]
<1> DEFINE upto(k) == {j \in S : j <= k}
           c == Cardinality(S)
           rank == [k \in S |-> Cardinality(upto(k))]
           A == Ascending(S)
<1>1. c \in Nat /\ IsFiniteSet(1 .. c) /\ Cardinality(1 .. c) = c
  <2>1. c \in Nat
    BY FS_CardinalityType
  <2> HIDE DEF c
  <2> QED
    BY <2>1, FS_Interval
<1>2. ASSUME NEW k PROVE IsFiniteSet(upto(k)) /\ Cardinality(upto(k)) \in Nat /\ Cardinality(upto(k)) <= c
  <2>1. upto(k) \in SUBSET S
    OBVIOUS
  <2> HIDE DEF upto
  <2> QED
    BY <2>1, FS_Subset, FS_CardinalityType
<1>3. ASSUME NEW k \in S PROVE Cardinality(upto(k)) \in 1 .. c
  <2>1. k \in upto(k)
    OBVIOUS
  <2>2. Cardinality(upto(k)) # 0
    <3> HIDE DEF upto
    <3> QED
      BY <1>2, <2>1, FS_EmptySet
  <2> HIDE DEF upto, c
  <2> QED
    BY <1>1, <1>2, <2>2
<1>4. ASSUME NEW j \in S, NEW k \in S, j < k PROVE Cardinality(upto(j)) < Cardinality(upto(k))
  <2>1. upto(j) \in SUBSET upto(k) /\ k \in upto(k) /\ k \notin upto(j)
    <3>1. j \in Nat /\ k \in Nat /\ \A i \in S : i \in Nat
      OBVIOUS
    <3>2. \A i \in S : i <= j => i <= k
      BY <1>4, <3>1
    <3>3. ~(k <= j) /\ k <= k
      BY <1>4, <3>1
    <3> QED
      BY ONLY <3>2, <3>3, k \in S
  <2>2. Cardinality(upto(j)) <= Cardinality(upto(k)) /\ Cardinality(upto(j)) # Cardinality(upto(k))
    <3>1. IsFiniteSet(upto(k))
      BY <1>2
    <3> HIDE DEF upto
    <3> QED
      BY <2>1, <3>1, FS_Subset
  <2>3. Cardinality(upto(j)) \in Nat /\ Cardinality(upto(k)) \in Nat
    BY <1>2
  <2> HIDE DEF upto
  <2> QED
    BY <2>2, <2>3
<1>5. rank \in [S -> 1 .. c]
  BY <1>3
<1>6. rank \in Injection(S, 1 .. c)
  <2>1. ASSUME NEW j \in S, NEW k \in S, rank[j] = rank[k] PROVE j = k
    <3>1. j \in Nat /\ k \in Nat /\ rank[j] \in Nat /\ rank[k] \in Nat
      BY <1>1, <1>5
    <3>2. ~(j < k) /\ ~(k < j)
      <4>1. rank[j] = Cardinality(upto(j)) /\ rank[k] = Cardinality(upto(k))
        OBVIOUS
      <4> HIDE DEF rank, upto, c
      <4>2. ~(rank[j] < rank[k]) /\ ~(rank[k] < rank[j])
        BY <2>1, <3>1
      <4> QED
        BY <1>4, <4>1, <4>2
    <3> QED
      BY <3>1, <3>2
  <2> HIDE DEF rank, c
  <2> QED
    BY <1>5, <2>1 DEF Injection, IsInjective
<1>7. rank \in Surjection(S, 1 .. c)
  <2> HIDE DEF rank
  <2> QED
    BY <1>1, <1>6, FS_Injection
<1>8. \A n \in 1 .. c : \E k \in S : Cardinality(upto(k)) = n
  <2>1. \A n \in 1 .. c : \E k \in S : rank[k] = n
    <3> HIDE DEF rank, c
    <3> QED
      BY <1>7 DEF Surjection
  <2> QED
    BY <2>1
<1>9. A = [n \in 1 .. c |-> CHOOSE k \in S : Cardinality(upto(k)) = n]
  BY DEF Ascending
<1>10. \A n \in 1 .. c : A[n] \in S /\ Cardinality(upto(A[n])) = n
  <2> HIDE DEF upto, c, A
  <2> QED
    BY <1>8, <1>9
<1>11. A \in [1 .. c -> S]
  <2> HIDE DEF upto, c, A
  <2> QED
    BY <1>9, <1>10
<1>12. ASSUME NEW k \in S PROVE \E n \in 1 .. c : A[n] = k
  <2> DEFINE n == Cardinality(upto(k))
  <2>1. n \in 1 .. c
    BY <1>3
  <2>2. A[n] \in S /\ Cardinality(upto(A[n])) = n
    BY <1>10, <2>1
  <2> HIDE DEF upto, A, c
  <2>3. A[n] \in Nat /\ k \in Nat /\ n \in Nat
    <3> HIDE DEF n
    <3>1. A[n] \in Nat /\ k \in Nat
      BY <2>2
    <3>2. c \in Nat
      BY <1>1
    <3> QED
      BY <2>1, <3>1, <3>2
  <2>4. ~(A[n] < k) /\ ~(k < A[n])
    <3>1. ~(n < n)
      BY <2>3
    <3> QED
      BY <1>4, <2>2, <3>1 DEF n
  <2>5. A[n] = k
    <3> HIDE DEF n
    <3> QED
      BY <2>3, <2>4
  <2> QED
    BY <2>1, <2>5
<1>13. ASSUME NEW m \in 1 .. c, NEW n \in 1 .. c, m < n PROVE A[m] < A[n]
  <2>1. /\ A[m] \in S /\ Cardinality(upto(A[m])) = m
        /\ A[n] \in S /\ Cardinality(upto(A[n])) = n
    BY <1>10
  <2> HIDE DEF upto, A, c
  <2>2. A[m] \in Nat /\ A[n] \in Nat /\ m \in Nat /\ n \in Nat
    <3>1. A[m] \in Nat /\ A[n] \in Nat
      BY <2>1
    <3>2. c \in Nat
      BY <1>1
    <3>3. m \in Nat /\ n \in Nat
      BY <3>2
    <3> QED
      BY <3>1, <3>3
  <2>3. ~(A[n] < A[m])
    <3>1. ~(n < m)
      BY <1>13, <2>2
    <3> QED
      BY <1>4, <2>1, <3>1
  <2>4. A[n] # A[m]
    <3>1. m # n
      BY <1>13, <2>2
    <3> QED
      BY <2>1, <3>1
  <2> QED
    BY <2>2, <2>3, <2>4
<1> HIDE DEF A, c
<1>14. /\ c \in Nat /\ A \in [1 .. c -> S]
       /\ \A k \in S : \E n \in 1 .. c : A[n] = k
       /\ \A m, n \in 1 .. c : m < n => A[m] < A[n]
  BY <1>1, <1>11, <1>12, <1>13
<1> QED
  BY <1>14 DEF A, c

\* Picked keeps the order, what is at the chosen places and nothing else.
LEMMA PickedFacts ==
  ASSUME NEW X, NEW list \in Seq(X), NEW S \in SUBSET DOMAIN list
  PROVE  /\ Picked(list, S) \in Seq(X)
         /\ Range(Picked(list, S)) = {list[n] : n \in S}
         /\ (\A m, n \in S : list[m] = list[n] => m = n) => IsInjective(Picked(list, S))
<1> DEFINE c == Cardinality(S)
           A == Ascending(S)
           P == Picked(list, S)
<1>1. S \in SUBSET Nat /\ IsFiniteSet(S)
  <2>1. DOMAIN list = 1 .. Len(list) /\ Len(list) \in Nat
    OBVIOUS
  <2>2. IsFiniteSet(1 .. Len(list))
    BY <2>1, FS_Interval
  <2> QED
    BY <2>1, <2>2, FS_Subset
<1>2. /\ c \in Nat /\ A \in [1 .. c -> S]
      /\ \A k \in S : \E n \in 1 .. c : A[n] = k
      /\ \A m, n \in 1 .. c : m < n => A[m] < A[n]
  BY <1>1, AscendingFacts
<1>3. P = [n \in DOMAIN A |-> list[A[n]]] /\ DOMAIN A = 1 .. c
  BY <1>2 DEF Picked
<1> HIDE DEF A, c, P
<1>4. \A n \in 1 .. c : A[n] \in S /\ P[n] = list[A[n]] /\ P[n] \in X
  BY <1>2, <1>3
<1>5. DOMAIN P = 1 .. c /\ P = [n \in 1 .. c |-> P[n]]
  BY <1>3
<1>6. P \in Seq(X)
  <2>1. P \in [1 .. c -> X]
    BY <1>4, <1>5
  <2> QED
    BY <1>2, <2>1
<1>7. Range(P) = {list[n] : n \in S}
  <2>1. Range(P) = {P[n] : n \in 1 .. c}
    BY <1>5 DEF Range
  <2>2. \A n \in 1 .. c : \E k \in S : P[n] = list[k]
    BY <1>4
  <2>3. \A k \in S : \E n \in 1 .. c : P[n] = list[k]
    BY <1>2, <1>4
  <2> QED
    BY ONLY <2>1, <2>2, <2>3
<1>8. ASSUME \A m, n \in S : list[m] = list[n] => m = n PROVE IsInjective(P)
  <2>1. ASSUME NEW m \in 1 .. c, NEW n \in 1 .. c, P[m] = P[n] PROVE m = n
    <3>1. A[m] = A[n] /\ A[m] \in Nat /\ A[n] \in Nat /\ m \in Nat /\ n \in Nat
      BY <1>1, <1>2, <1>4, <1>8, <2>1
    <3>2. ~(A[m] < A[n]) /\ ~(A[n] < A[m])
      BY <3>1
    <3>3. ~(m < n) /\ ~(n < m)
      BY <1>2, <3>2
    <3> QED
      BY <3>1, <3>3
  <2> QED
    BY <1>5, <2>1 DEF IsInjective
<1> QED
  BY <1>6, <1>7, <1>8 DEF P

\* Flattening gives a list of what the lists hold.
LEMMA Flattened ==
  ASSUME NEW X, NEW s \in Seq(Seq(X))
  PROVE  FlattenSeq(s) \in Seq(X)
<1> DEFINE N == Len(s)
           Def(g, i) == IF i = 1 THEN s[i] ELSE g[i - 1] \o s[i]
           Some(n) == \E g \in [1 .. n -> Seq(X)] : \A i \in 1 .. n : g[i] = Def(g, i)
           T == {n \in Nat : n <= N => Some(n)}
<1>0. N \in Nat /\ \A i \in 1 .. N : s[i] \in Seq(X)
  OBVIOUS
<1> HIDE DEF N
<1>1. 0 \in T
  <2>1. [i \in 1 .. 0 |-> <<>>] \in [1 .. 0 -> Seq(X)]
    OBVIOUS
  <2>2. \A g : \A i \in 1 .. 0 : g[i] = Def(g, i)
    OBVIOUS
  <2>3. Some(0)
    BY <2>1, <2>2
  <2> HIDE DEF Some
  <2> QED
    BY <2>3
<1>2. ASSUME NEW n \in Nat, n \in T PROVE n + 1 \in T
  <2> SUFFICES ASSUME n + 1 <= N PROVE Some(n + 1)
    <3> HIDE DEF Some
    <3> QED
      OBVIOUS
  <2>0. Some(n)
    <3> HIDE DEF Some
    <3> QED
      BY <1>0, <1>2
  <2>1. PICK g \in [1 .. n -> Seq(X)] : \A i \in 1 .. n : g[i] = Def(g, i)
    BY <2>0
  <2> DEFINE last == IF n = 0 THEN s[1] ELSE g[n] \o s[n + 1]
             h == [i \in 1 .. n + 1 |-> IF i <= n THEN g[i] ELSE last]
  <2>2. last \in Seq(X)
    <3>1. CASE n = 0
      BY <1>0, <3>1
    <3>2. CASE n # 0
      <4>1. g[n] \in Seq(X) /\ s[n + 1] \in Seq(X)
        BY <1>0, <3>2
      <4> QED
        BY <3>2, <4>1
    <3> QED
      BY <3>1, <3>2
  <2>3. h \in [1 .. n + 1 -> Seq(X)]
    <3> HIDE DEF last
    <3> QED
      BY <2>2
  <2>4. ASSUME NEW i \in 1 .. n + 1 PROVE h[i] = Def(h, i)
    <3>1. CASE i <= n
      <4>0. i \in 1 .. n
        BY <3>1
      <4>1. h[i] = g[i] /\ g[i] = Def(g, i)
        <5>1. h[i] = g[i]
          <6> HIDE DEF last
          <6> QED
            BY <3>1
        <5>2. g[i] = Def(g, i)
          BY <2>1, <4>0
        <5> QED
          BY <5>1, <5>2
      <4>2. i # 1 => i - 1 \in 1 .. n + 1 /\ i - 1 <= n /\ h[i - 1] = g[i - 1]
        BY <3>1
      <4> HIDE DEF h
      <4> QED
        BY <4>1, <4>2
    <3>2. CASE i = n + 1
      <4>1. h[i] = last
        BY <3>2
      <4>2. n # 0 => n \in 1 .. n + 1 /\ h[n] = g[n]
        OBVIOUS
      <4> HIDE DEF h
      <4> QED
        BY <3>2, <4>1, <4>2
    <3> QED
      BY <3>1, <3>2
  <2> HIDE DEF h
  <2> QED
    BY <2>3, <2>4
<1>3. Some(N)
  <2>1. N \in T
    <3> HIDE DEF T
    <3> QED
      BY <1>0, <1>1, <1>2, Induction
  <2> HIDE DEF Some
  <2> QED
    BY <1>0, <2>1
<1>4. CASE N = 0
  <2>1. FlattenSeq(s) = s /\ s = <<>>
    BY <1>4 DEF FlattenSeq, N
  <2> QED
    BY <2>1
<1>5. CASE N # 0
  <2>1. PICK g \in [1 .. N -> Seq(X)] : \A i \in 1 .. N : g[i] = Def(g, i)
    BY <1>3
  <2> DEFINE flat == CHOOSE f : f = [i \in 1 .. N |-> Def(f, i)]
  <2>2. flat = [i \in 1 .. N |-> Def(flat, i)]
    <3>1. g = [i \in 1 .. N |-> Def(g, i)]
      BY <2>1
    <3> QED
      BY <3>1
  <2>3. FlattenSeq(s) = flat[N]
    BY <1>5 DEF FlattenSeq, N
  <2> HIDE DEF flat
  <2> DEFINE U == {n \in Nat : n \in 1 .. N => flat[n] \in Seq(X)}
  <2>4. 0 \in U
    OBVIOUS
  <2>5. ASSUME NEW n \in Nat, n \in U PROVE n + 1 \in U
    <3> SUFFICES ASSUME n + 1 \in 1 .. N PROVE flat[n + 1] \in Seq(X)
      OBVIOUS
    <3>1. flat[n + 1] = Def(flat, n + 1)
      BY <2>2
    <3>2. s[n + 1] \in Seq(X)
      BY <1>0
    <3>3. CASE n = 0
      BY <3>1, <3>2, <3>3
    <3>4. CASE n # 0
      <4>1. n \in 1 .. N /\ n + 1 # 1
        BY <1>0, <3>4
      <4>2. flat[n] \in Seq(X)
        BY <2>5, <4>1
      <4>3. flat[n + 1] = flat[n] \o s[n + 1]
        <5>1. flat[n + 1] = flat[(n + 1) - 1] \o s[n + 1]
          BY <3>1, <4>1
        <5>2. (n + 1) - 1 = n
          OBVIOUS
        <5> QED
          BY <5>1, <5>2
      <4> QED
        BY <3>2, <4>2, <4>3
    <3> QED
      BY <3>3, <3>4
  <2>6. N \in U
    <3> HIDE DEF U
    <3> QED
      BY <1>0, <2>4, <2>5, Induction
  <2> QED
    BY <1>0, <1>5, <2>3, <2>6
<1> QED
  BY <1>4, <1>5

-----------------------------------------------------------------------------
(* The write buffer. *)

Writes == [at : Nat, data : Text \ {<<>>}]

\* n is the size of what ws make of seed.
Sized(seed, ws, n) ==
  /\ n \in {Len(Base(seed, ws))} \union {End(ws[j].at, ws[j].data) : j \in DOMAIN ws}
  /\ Len(Base(seed, ws)) <= n
  /\ \A j \in DOMAIN ws : End(ws[j].at, ws[j].data) <= n

\* What ws leave at place k.
Byted(seed, ws, k) ==
  LET over == {j \in DOMAIN ws : Over(ws[j], k)} IN
  IF over # {}
  THEN LET last == CHOOSE j \in over : \A i \in over : i <= j IN ws[last].data[k - ws[last].at]
  ELSE IF k <= Len(Base(seed, ws)) THEN Base(seed, ws)[k] ELSE Zero

LEMMA ZeroByte == Zero \in Byte
  BY WriteBufferAssumption

\* copy makes room up to the end of what is written, and no further.
LEMMA OverlaidFacts ==
  ASSUME NEW buf \in Text, NEW off \in Nat, NEW data \in Text
  PROVE  /\ Overlaid(buf, off, data) \in Text
         /\ Len(Overlaid(buf, off, data)) = IF Len(buf) < End(off, data) THEN End(off, data) ELSE Len(buf)
         /\ \A k \in 1 .. Len(Overlaid(buf, off, data)) :
              Overlaid(buf, off, data)[k] = IF k \in off + 1 .. End(off, data) THEN data[k - off]
                                            ELSE IF k <= Len(buf) THEN buf[k] ELSE Zero
<1> DEFINE n == IF Len(buf) < End(off, data) THEN End(off, data) ELSE Len(buf)
           at(k) == IF k \in off + 1 .. End(off, data) THEN data[k - off]
                    ELSE IF k <= Len(buf) THEN buf[k] ELSE Zero
<1>1. n \in Nat /\ Len(buf) \in Nat /\ Len(data) \in Nat
  BY DEF End, Text
<1>2. Overlaid(buf, off, data) = [k \in 1 .. n |-> at(k)]
  BY DEF Overlaid
<1>3. ASSUME NEW k \in 1 .. n PROVE at(k) \in Byte
  <2>1. CASE k \in off + 1 .. End(off, data)
    <3>1. k - off \in 1 .. Len(data)
      BY <1>1, <2>1 DEF End
    <3>2. data[k - off] \in Byte
      BY <3>1 DEF Text
    <3> QED
      BY <2>1, <3>2
  <2>2. CASE k \notin off + 1 .. End(off, data) /\ k <= Len(buf)
    <3>1. k \in 1 .. Len(buf)
      BY <1>1, <2>2
    <3>2. buf[k] \in Byte
      BY <3>1 DEF Text
    <3> QED
      BY <2>2, <3>2
  <2> QED
    BY <2>1, <2>2, ZeroByte
<1> HIDE DEF n, at
<1>4. [k \in 1 .. n |-> at(k)] \in [1 .. n -> Byte]
  BY <1>3
<1>5. [k \in 1 .. n |-> at(k)] \in Seq(Byte) /\ Len([k \in 1 .. n |-> at(k)]) = n
  BY <1>1, <1>4
<1>6. /\ Overlaid(buf, off, data) \in Text
      /\ Len(Overlaid(buf, off, data)) = n
      /\ \A k \in 1 .. n : Overlaid(buf, off, data)[k] = at(k)
  BY <1>2, <1>5 DEF Text
<1> QED
  BY <1>6 DEF n, at

\* A prefix.
LEMMA PrefixFacts ==
  ASSUME NEW S, NEW s \in Seq(S), NEW n \in 0 .. Len(s)
  PROVE  /\ SubSeq(s, 1, n) \in Seq(S) /\ Len(SubSeq(s, 1, n)) = n
         /\ \A k \in 1 .. n : SubSeq(s, 1, n)[k] = s[k]
<1>1. Len(s) \in Nat /\ n \in Nat /\ 1 \in 1 .. n + 1
  OBVIOUS
<1>2. \A i \in 1 .. n : s[i] \in S
  OBVIOUS
<1>3. /\ SubSeq(s, 1, n) \in Seq(S)
      /\ Len(SubSeq(s, 1, n)) = IF 1 <= n THEN n - 1 + 1 ELSE 0
      /\ \A i \in 1 .. n - 1 + 1 : SubSeq(s, 1, n)[i] = s[1 + i - 1]
  BY <1>1, <1>2, SubSeqProperties
<1>4. n - 1 + 1 = n /\ (~(1 <= n) => n = 0) /\ \A k \in 1 .. n : 1 + k - 1 = k
  BY <1>1
<1> QED
  BY <1>3, <1>4

\* Write never makes the buffer longer than what is written or than it was.
LEMMA WrittenFacts ==
  ASSUME NEW buf \in Text \union {None}, NEW seed \in Text, NEW off \in Nat,
         NEW data \in Text \ {<<>>}
  PROVE  /\ Written(buf, seed, off, data) \in Text \ {<<>>}
         /\ LET old == IF buf = None THEN seed ELSE buf IN
            Len(Written(buf, seed, off, data))
              <= IF Len(old) < End(off, data) THEN End(off, data) ELSE Len(old)
<1> DEFINE old == IF buf = None THEN seed ELSE buf
           new == Overlaid(old, off, data)
           max == IF Len(old) < End(off, data) THEN End(off, data) ELSE Len(old)
<1>1. old \in Text
  OBVIOUS
<1>2. Len(data) \in Nat \ {0} /\ Len(old) \in Nat /\ data \in Text
  <2> HIDE DEF old
  <2> QED
    BY <1>1 DEF Text
<1>3. new \in Text /\ Len(new) = max
  <2> HIDE DEF old
  <2> QED
    BY <1>1, <1>2, OverlaidFacts
<1>4. max \in Nat \ {0}
  <2> HIDE DEF old
  <2> QED
    BY <1>2 DEF End
<1>5. Written(buf, seed, off, data) =
        IF buf = None /\ off = 0 /\ Len(data) < Len(new) THEN SubSeq(new, 1, Len(data)) ELSE new
  BY DEF Written
<1> HIDE DEF old, new, max
<1>6. CASE buf = None /\ off = 0 /\ Len(data) < Len(new)
  <2>1. Len(data) \in 0 .. Len(new)
    BY <1>2, <1>3, <1>4, <1>6
  <2>2. SubSeq(new, 1, Len(data)) \in Text /\ Len(SubSeq(new, 1, Len(data))) = Len(data)
    BY <1>3, <2>1, PrefixFacts DEF Text
  <2>3. SubSeq(new, 1, Len(data)) # <<>>
    BY <1>2, <2>2
  <2>4. Len(data) <= max
    BY <1>2, <1>3, <1>4, <1>6
  <2> QED
    BY <1>5, <1>6, <2>2, <2>3, <2>4 DEF max, old
<1>7. CASE ~(buf = None /\ off = 0 /\ Len(data) < Len(new))
  <2>1. Written(buf, seed, off, data) = new
    BY <1>5, <1>7
  <2>2. new # <<>> /\ Len(new) <= max
    BY <1>3, <1>4
  <2> QED
    BY <1>3, <2>1, <2>2 DEF max, old
<1> QED
  BY <1>6, <1>7

\* A size is the size.
LEMMA OneSize ==
  ASSUME NEW seed \in Text, NEW ws \in Seq(Writes), NEW n \in Nat, Sized(seed, ws, n), ws # <<>>
  PROVE  /\ SizeOf(seed, ws) = n
         /\ Intended(seed, ws) = [k \in 1 .. n |-> Byted(seed, ws, k)]
<1> DEFINE S == {Len(Base(seed, ws))} \union {End(ws[j].at, ws[j].data) : j \in DOMAIN ws}
           P(m) == Len(Base(seed, ws)) <= m /\ \A j \in DOMAIN ws : End(ws[j].at, ws[j].data) <= m
<1>1. Base(seed, ws) \in Text
  BY DEF Base, Text
<1>2. Len(Base(seed, ws)) \in Nat
  BY <1>1 DEF Text
<1>3. \A j \in DOMAIN ws : End(ws[j].at, ws[j].data) \in Nat
  <2> SUFFICES ASSUME NEW j \in DOMAIN ws PROVE End(ws[j].at, ws[j].data) \in Nat
    OBVIOUS
  <2>1. ws[j] \in Writes
    OBVIOUS
  <2>2. ws[j].at \in Nat /\ ws[j].data \in Seq(Byte)
    BY <2>1 DEF Writes, Text
  <2> QED
    BY <2>2 DEF End
<1>4. S \subseteq Nat
  BY <1>2, <1>3
<1>5. \A m, o \in S : P(m) /\ P(o) => m <= o
  OBVIOUS
<1>6. n \in S /\ P(n)
  BY DEF Sized
<1>7. SizeOf(seed, ws) = CHOOSE m \in S : P(m)
  BY DEF SizeOf
<1> HIDE DEF S, P
<1>8. (CHOOSE m \in S : P(m)) \in S /\ P(CHOOSE m \in S : P(m))
  BY <1>6
<1>9. SizeOf(seed, ws) = n
  BY <1>4, <1>5, <1>6, <1>7, <1>8
<1>10. Intended(seed, ws) = [k \in 1 .. SizeOf(seed, ws) |-> Byted(seed, ws, k)]
  BY DEF Intended, Byted
<1> QED
  BY <1>9, <1>10

\* One write more decides the bytes it is over.
LEMMA OneWriteMore ==
  ASSUME NEW seed \in Text, NEW ws \in Seq(Writes), NEW w \in Writes, NEW k \in Nat, ws # <<>>
  PROVE  /\ Base(seed, Append(ws, w)) = Base(seed, ws)
         /\ Byted(seed, Append(ws, w), k)
              = IF Over(w, k) THEN w.data[k - w.at] ELSE Byted(seed, ws, k)
<1> DEFINE N == Len(ws)
           wss == Append(ws, w)
           over == {j \in DOMAIN ws : Over(ws[j], k)}
           overs == {j \in DOMAIN wss : Over(wss[j], k)}
           last(S) == CHOOSE j \in S : \A i \in S : i <= j
<1>1. /\ N \in Nat \ {0} /\ DOMAIN ws = 1 .. N /\ DOMAIN wss = 1 .. N + 1
      /\ \A j \in 1 .. N : wss[j] = ws[j]
      /\ wss[N + 1] = w
  OBVIOUS
<1>2. Base(seed, wss) = Base(seed, ws)
  BY <1>1 DEF Base
<1>3. Byted(seed, wss, k) =
        IF overs # {} THEN wss[last(overs)].data[k - wss[last(overs)].at]
        ELSE IF k <= Len(Base(seed, wss)) THEN Base(seed, wss)[k] ELSE Zero
  BY DEF Byted
<1>4. Byted(seed, ws, k) =
        IF over # {} THEN ws[last(over)].data[k - ws[last(over)].at]
        ELSE IF k <= Len(Base(seed, ws)) THEN Base(seed, ws)[k] ELSE Zero
  BY DEF Byted
<1> HIDE DEF N, wss
<1>5. CASE Over(w, k)
  <2>1. N + 1 \in overs /\ \A j \in overs : j \in 1 .. N + 1
    BY <1>1, <1>5
  <2> HIDE DEF overs
  <2>2. \A i \in overs : i <= N + 1
    BY <1>1, <2>1
  <2>3. last(overs) \in overs /\ \A i \in overs : i <= last(overs)
    BY <2>1, <2>2
  <2> HIDE DEF last
  <2>4. last(overs) = N + 1
    BY <1>1, <2>1, <2>2, <2>3
  <2> QED
    BY <1>1, <1>2, <1>3, <1>5, <2>1, <2>4 DEF wss
<1>6. CASE ~Over(w, k)
  <2>1. overs = over
    <3>1. \A j \in overs : j \in 1 .. N
      BY <1>1, <1>6
    <3> QED
      BY <1>1, <3>1
  <2>2. over # {} => last(over) \in over
    <3> SUFFICES ASSUME over # {} PROVE last(over) \in over
      OBVIOUS
    <3>1. over \in SUBSET Nat /\ \A j \in over : j <= N
      BY <1>1
    <3> HIDE DEF over
    <3>2. \E m \in over : \A j \in over : j <= m
      BY <1>1, <3>1, Greatest
    <3> QED
      BY <3>2
  <2>3. over # {} => wss[last(over)] = ws[last(over)]
    <3>1. over \subseteq 1 .. N
      BY <1>1
    <3> HIDE DEF over, last
    <3> QED
      BY <1>1, <2>2, <3>1
  <2> HIDE DEF over, overs, last
  <2>4. Byted(seed, wss, k) = Byted(seed, ws, k)
    BY <1>2, <1>3, <1>4, <2>1, <2>3
  <2> QED
    BY <1>2, <1>6, <2>4 DEF wss
<1> QED
  BY <1>5, <1>6

\* The same for the first write, which replaces a longer seed from its start.
LEMMA FirstWrite ==
  ASSUME NEW seed \in Text, NEW w \in Writes, NEW k \in Nat
  PROVE  LET base == IF w.at = 0 /\ Len(w.data) < Len(seed) THEN <<>> ELSE seed IN
         /\ Base(seed, <<w>>) = base
         /\ Byted(seed, <<w>>, k) = IF Over(w, k) THEN w.data[k - w.at]
                                    ELSE IF k <= Len(base) THEN base[k] ELSE Zero
<1> DEFINE over == {j \in DOMAIN <<w>> : Over(<<w>>[j], k)}
           last == CHOOSE j \in over : \A i \in over : i <= j
<1>1. DOMAIN <<w>> = {1} /\ <<w>>[1] = w
  OBVIOUS
<1>2. Base(seed, <<w>>) = IF w.at = 0 /\ Len(w.data) < Len(seed) THEN <<>> ELSE seed
  BY DEF Base
<1>3. Byted(seed, <<w>>, k) =
        IF over # {} THEN <<w>>[last].data[k - <<w>>[last].at]
        ELSE IF k <= Len(Base(seed, <<w>>)) THEN Base(seed, <<w>>)[k] ELSE Zero
  BY DEF Byted
<1>4. over = IF Over(w, k) THEN {1} ELSE {}
  BY <1>1
<1>5. Over(w, k) => last = 1
  BY <1>4
<1> HIDE DEF over, last
<1> QED
  BY <1>1, <1>2, <1>3, <1>4, <1>5

\* Nothing was written to a place past the end.
LEMMA PastTheEnd ==
  ASSUME NEW seed \in Text, NEW ws \in Seq(Writes), ws # <<>>, NEW n \in Nat, Sized(seed, ws, n),
         NEW k \in Nat, k > n
  PROVE  Byted(seed, ws, k) = Zero
<1>1. Len(Base(seed, ws)) \in Nat /\ Len(Base(seed, ws)) <= n
  BY DEF Sized, Base, Text
<1>2. {j \in DOMAIN ws : Over(ws[j], k)} = {}
  <2> SUFFICES ASSUME NEW j \in DOMAIN ws, Over(ws[j], k) PROVE FALSE
    OBVIOUS
  <2>1. ws[j] \in Writes
    OBVIOUS
  <2>2. ws[j].at \in Nat /\ ws[j].data \in Seq(Byte)
    BY <2>1 DEF Writes, Text
  <2>3. End(ws[j].at, ws[j].data) \in Nat /\ End(ws[j].at, ws[j].data) <= n
    BY <2>2 DEF Sized, End
  <2> QED
    BY <2>3, <2>2 DEF Over
<1>3. Byted(seed, ws, k) = IF k <= Len(Base(seed, ws)) THEN Base(seed, ws)[k] ELSE Zero
  BY <1>2 DEF Byted
<1> QED
  BY <1>1, <1>3

\* Write, one call after the other, makes what the writes are meant to make.
Buffered(seed, ws, buf) ==
  IF ws = <<>> THEN buf = None
  ELSE /\ buf \in Text \ {<<>>}
       /\ Sized(seed, ws, Len(buf))
       /\ buf = Intended(seed, ws)

LEMMA WriteFirst ==
  ASSUME NEW seed \in Text, NEW w \in Writes
  PROVE  Buffered(seed, <<w>>, Written(None, seed, w.at, w.data))
<1> DEFINE off == w.at
           data == w.data
           new == Overlaid(seed, off, data)
           base == IF off = 0 /\ Len(data) < Len(seed) THEN <<>> ELSE seed
           buf == Written(None, seed, off, data)
           max == IF Len(seed) < off + Len(data) THEN off + Len(data) ELSE Len(seed)
<1>1. off \in Nat /\ data \in Text \ {<<>>} /\ Len(data) \in Nat /\ Len(seed) \in Nat
  BY DEF Writes, Text
<1>2. /\ new \in Text /\ Len(new) = max
      /\ \A k \in 1 .. max : new[k] = IF Over(w, k) THEN data[k - off]
                                      ELSE IF k <= Len(seed) THEN seed[k] ELSE Zero
  <2> HIDE DEF off, data
  <2>1. new \in Text
    BY <1>1, OverlaidFacts
  <2>2. Len(new) = max
    BY <1>1, OverlaidFacts DEF End
  <2>3. \A k \in 1 .. Len(new) : new[k] = IF k \in off + 1 .. End(off, data) THEN data[k - off]
                                         ELSE IF k <= Len(seed) THEN seed[k] ELSE Zero
    BY <1>1, OverlaidFacts
  <2>4. \A k : Over(w, k) <=> k \in off + 1 .. End(off, data)
    BY DEF Over, off, data
  <2> HIDE DEF new, max
  <2>5. \A k \in 1 .. max : new[k] = IF Over(w, k) THEN data[k - off]
                                   ELSE IF k <= Len(seed) THEN seed[k] ELSE Zero
    BY ONLY <2>2, <2>3, <2>4
  <2> QED
    BY <2>1, <2>2, <2>5
<1>3. buf = IF off = 0 /\ Len(data) < Len(new) THEN SubSeq(new, 1, Len(data)) ELSE new
  BY DEF Written
<1>4. buf \in Text \ {<<>>}
  BY <1>1, WrittenFacts
<1>5. Base(seed, <<w>>) = base
  BY FirstWrite
<1>6. \A k \in Nat : Byted(seed, <<w>>, k) = IF Over(w, k) THEN data[k - off]
                                             ELSE IF k <= Len(base) THEN base[k] ELSE Zero
  BY FirstWrite
<1>7. <<w>> \in Seq(Writes) /\ <<w>> # <<>> /\ DOMAIN <<w>> = {1} /\ <<w>>[1] = w
  OBVIOUS
<1>8. End(off, data) = off + Len(data)
  BY DEF End
<1>9. \A k \in Nat : Over(w, k) <=> k \in off + 1 .. off + Len(data)
  BY DEF Over, End
<1> HIDE DEF new, buf
<1>10. Sized(seed, <<w>>, Len(buf)) /\ \A k \in 1 .. Len(buf) : buf[k] = Byted(seed, <<w>>, k)
  <2>1. CASE off = 0 /\ Len(data) < Len(seed)
    <3>1. base = <<>> /\ Len(base) = 0
      BY <2>1
    <3>2. max = Len(seed)
      BY <1>1, <2>1
    <3>3. buf = SubSeq(new, 1, Len(data)) /\ Len(data) \in 0 .. Len(new)
      BY <1>1, <1>2, <1>3, <2>1, <3>2
    <3>4. Len(buf) = Len(data) /\ \A k \in 1 .. Len(data) : buf[k] = new[k]
      BY <1>2, <3>3, PrefixFacts DEF Text
    <3>5. Sized(seed, <<w>>, Len(buf))
      <4>1. End(w.at, w.data) = Len(data)
        BY <1>1, <1>8, <2>1
      <4> QED
        BY <1>1, <1>5, <1>7, <3>1, <3>4, <4>1 DEF Sized
    <3>6. ASSUME NEW k \in 1 .. Len(data) PROVE buf[k] = Byted(seed, <<w>>, k)
      <4>1. k \in Nat /\ Over(w, k) /\ k \in 1 .. max
        BY <1>1, <1>9, <2>1, <3>2
      <4> HIDE DEF max
      <4> QED
        BY <1>2, <1>6, <3>4, <4>1
    <3> QED
      BY <3>4, <3>5, <3>6
  <2>2. CASE ~(off = 0 /\ Len(data) < Len(seed))
    <3>1. base = seed
      BY <2>2
    <3>2. ~(off = 0 /\ Len(data) < Len(new))
      <4> SUFFICES ASSUME off = 0, Len(data) < max PROVE FALSE
        BY <1>2
      <4> QED
        BY <1>1, <2>2
    <3>3. buf = new
      BY <1>3, <3>2
    <3>4. Sized(seed, <<w>>, max)
      <4>1. Len(Base(seed, <<w>>)) = Len(seed)
        BY <1>5, <3>1
      <4>2. End(w.at, w.data) = off + Len(data)
        BY <1>8
      <4> QED
        BY <1>1, <1>7, <4>1, <4>2 DEF Sized
    <3>5. ASSUME NEW k \in 1 .. max PROVE new[k] = Byted(seed, <<w>>, k)
      <4>1. k \in Nat
        BY <1>1
      <4> HIDE DEF max, base
      <4> QED
        BY <1>2, <1>6, <3>1, <4>1
    <3> QED
      BY <1>2, <3>3, <3>4, <3>5
  <2> QED
    BY <2>1, <2>2
<1>11. buf = Intended(seed, <<w>>)
  <2>1. Len(buf) \in Nat /\ buf = [k \in 1 .. Len(buf) |-> buf[k]]
    BY <1>4 DEF Text
  <2>2. Intended(seed, <<w>>) = [k \in 1 .. Len(buf) |-> Byted(seed, <<w>>, k)]
    BY <1>7, <1>10, <2>1, OneSize
  <2> QED
    BY <1>10, <2>1, <2>2
<1> QED
  BY <1>4, <1>7, <1>10, <1>11 DEF Buffered, buf

LEMMA WriteNext ==
  ASSUME NEW seed \in Text, NEW ws \in Seq(Writes), NEW w \in Writes, NEW buf,
         ws # <<>>, Buffered(seed, ws, buf)
  PROVE  Buffered(seed, Append(ws, w), Written(buf, seed, w.at, w.data))
<1> DEFINE off == w.at
           data == w.data
           new == Overlaid(buf, off, data)
           n == Len(buf)
           max == IF n < off + Len(data) THEN off + Len(data) ELSE n
           wss == Append(ws, w)
<1>1. off \in Nat /\ data \in Text \ {<<>>} /\ Len(data) \in Nat
  BY DEF Writes, Text
<1>2. buf \in Text \ {<<>>} /\ n \in Nat /\ Sized(seed, ws, n) /\ buf = Intended(seed, ws)
  BY DEF Buffered, Text
<1>3. buf # None
  BY <1>2, WriteBufferAssumption DEF Text
<1>4. Written(buf, seed, off, data) = new
  BY <1>3 DEF Written
<1>5. new \in Text \ {<<>>}
  BY <1>1, <1>2, <1>4, WrittenFacts
<1>6. /\ Len(new) = max
      /\ \A k \in 1 .. max : new[k] = IF Over(w, k) THEN data[k - off]
                                      ELSE IF k <= n THEN buf[k] ELSE Zero
  <2> HIDE DEF off, data
  <2>1. Len(new) = max
    BY <1>1, <1>2, OverlaidFacts DEF End
  <2>2. \A k \in 1 .. Len(new) : new[k] = IF k \in off + 1 .. End(off, data) THEN data[k - off]
                                         ELSE IF k <= n THEN buf[k] ELSE Zero
    BY <1>1, <1>2, OverlaidFacts
  <2>3. \A k : Over(w, k) <=> k \in off + 1 .. End(off, data)
    BY DEF Over, off, data
  <2> HIDE DEF new, n, max
  <2> QED
    BY <2>1, <2>2, <2>3
<1>7. buf = [k \in 1 .. n |-> Byted(seed, ws, k)]
  BY <1>2, OneSize
<1>8. /\ wss \in Seq(Writes) /\ wss # <<>>
      /\ DOMAIN wss = DOMAIN ws \union {Len(ws) + 1}
      /\ \A j \in DOMAIN ws : wss[j] = ws[j]
      /\ wss[Len(ws) + 1] = w
  OBVIOUS
<1>9. Base(seed, wss) = Base(seed, ws)
  BY OneWriteMore
<1>10. End(w.at, w.data) = off + Len(data)
  BY DEF End
<1> HIDE DEF new, wss
<1>11. max \in Nat /\ n <= max /\ off + Len(data) <= max /\ max \in {n, off + Len(data)}
  BY <1>1, <1>2
<1> HIDE DEF max
<1>12. Sized(seed, wss, max)
  <2>1. /\ n \in {Len(Base(seed, ws))} \union {End(ws[j].at, ws[j].data) : j \in DOMAIN ws}
        /\ Len(Base(seed, ws)) <= n
        /\ \A j \in DOMAIN ws : End(ws[j].at, ws[j].data) <= n
    BY <1>2 DEF Sized
  <2>2. Len(Base(seed, ws)) \in Nat
    BY DEF Base, Text
  <2>3. \A j \in DOMAIN ws : End(ws[j].at, ws[j].data) \in Nat
    <3> SUFFICES ASSUME NEW j \in DOMAIN ws PROVE End(ws[j].at, ws[j].data) \in Nat
      OBVIOUS
    <3>1. ws[j] \in Writes
      OBVIOUS
    <3>2. ws[j].at \in Nat /\ ws[j].data \in Seq(Byte)
      BY <3>1 DEF Writes, Text
    <3> QED
      BY <3>2 DEF End
  <2> HIDE DEF n
  <2>4. Len(Base(seed, wss)) <= max
    BY <1>2, <1>9, <1>11, <2>1, <2>2
  <2>5. \A j \in DOMAIN wss : End(wss[j].at, wss[j].data) <= max
    <3> SUFFICES ASSUME NEW j \in DOMAIN wss PROVE End(wss[j].at, wss[j].data) <= max
      OBVIOUS
    <3>1. CASE j \in DOMAIN ws
      <4>1. wss[j] = ws[j] /\ End(ws[j].at, ws[j].data) <= n /\ End(ws[j].at, ws[j].data) \in Nat
        BY <1>8, <2>1, <2>3, <3>1
      <4> QED
        BY <1>2, <1>11, <4>1
    <3>2. CASE j = Len(ws) + 1
      BY <1>8, <1>10, <1>11, <3>2
    <3> QED
      BY <1>8, <3>1, <3>2
  <2>6. max \in {Len(Base(seed, wss))} \union {End(wss[j].at, wss[j].data) : j \in DOMAIN wss}
    <3>1. CASE max = n
      <4>1. CASE n = Len(Base(seed, ws))
        BY <1>9, <3>1, <4>1
      <4>2. CASE n # Len(Base(seed, ws))
        <5>1. PICK j \in DOMAIN ws : n = End(ws[j].at, ws[j].data)
          BY <2>1, <4>2
        <5>2. j \in DOMAIN wss /\ n = End(wss[j].at, wss[j].data)
          BY <1>8, <5>1
        <5> QED
          BY <3>1, <5>2
      <4> QED
        BY <4>1, <4>2
    <3>2. CASE max = off + Len(data)
      <4>1. Len(ws) + 1 \in DOMAIN wss /\ max = End(wss[Len(ws) + 1].at, wss[Len(ws) + 1].data)
        BY <1>8, <1>10, <3>2
      <4> QED
        BY <4>1
    <3> QED
      BY <1>11, <3>1, <3>2
  <2> QED
    BY <2>4, <2>5, <2>6 DEF Sized
<1>13. ASSUME NEW k \in 1 .. max PROVE new[k] = Byted(seed, wss, k)
  <2>1. k \in Nat
    BY <1>11
  <2>2. Byted(seed, wss, k) = IF Over(w, k) THEN data[k - off] ELSE Byted(seed, ws, k)
    BY <2>1, OneWriteMore DEF wss
  <2>3. CASE k <= n
    <3>1. k \in 1 .. n
      BY <1>2, <2>1, <2>3
    <3>2. buf[k] = Byted(seed, ws, k)
      BY <1>7, <3>1
    <3> QED
      BY <1>6, <2>2, <2>3, <3>2
  <2>4. CASE ~(k <= n)
    <3>1. k > n
      BY <1>2, <2>1, <2>4
    <3>2. Byted(seed, ws, k) = Zero
      BY <1>2, <2>1, <3>1, PastTheEnd
    <3> QED
      BY <1>6, <2>2, <2>4, <3>2
  <2> QED
    BY <2>3, <2>4
<1>14. new = Intended(seed, wss)
  <2>1. new = [k \in 1 .. max |-> new[k]]
    BY <1>5, <1>6 DEF Text
  <2>2. Intended(seed, wss) = [k \in 1 .. max |-> Byted(seed, wss, k)]
    BY <1>8, <1>11, <1>12, OneSize
  <2> QED
    BY <1>13, <2>1, <2>2
<1> QED
  BY <1>4, <1>5, <1>6, <1>8, <1>12, <1>14 DEF Buffered, wss

-----------------------------------------------------------------------------
(* What values look like as text. *)

LEMMA NewlineByte == Newline \in Byte
  BY FieldFilesAssumption

\* TrimRight gives a prefix.
LEMMA TrimmedText ==
  ASSUME NEW s \in Text
  PROVE  Trimmed(s) \in Text
<1> DEFINE last == {k \in DOMAIN s : \A j \in k .. Len(s) : s[j] = Newline}
<1>1. DOMAIN s = 1 .. Len(s) /\ Len(s) \in Nat
  BY DEF Text
<1>2. IsFiniteSet(1 .. Len(s)) /\ Cardinality(1 .. Len(s)) = Len(s)
  <2>1. 1 \in Int /\ Len(s) \in Int
    BY <1>1
  <2>2. Cardinality(1 .. Len(s)) = IF 1 > Len(s) THEN 0 ELSE Len(s) - 1 + 1
    BY <2>1, FS_Interval
  <2>3. IsFiniteSet(1 .. Len(s))
    BY <2>1, FS_Interval
  <2> QED
    BY <1>1, <2>2, <2>3
<1>3. last \in SUBSET (1 .. Len(s))
  BY <1>1
<1> HIDE DEF last
<1>4. Cardinality(last) \in Nat /\ Cardinality(last) <= Len(s)
  BY <1>2, <1>3, FS_Subset, FS_CardinalityType
<1>5. Len(s) - Cardinality(last) \in 0 .. Len(s)
  BY <1>1, <1>4
<1>6. Trimmed(s) = SubSeq(s, 1, Len(s) - Cardinality(last))
  BY DEF Trimmed, last
<1> QED
  BY <1>5, <1>6, PrefixFacts DEF Text

\* FieldsFunc gives lines, none of them empty.
LEMMA LinesFacts ==
  ASSUME NEW s \in Text
  PROVE  Lines(s) \in Seq(Line \ {<<>>})
<1> DEFINE starts == {k \in DOMAIN s : s[k] # Newline /\ (k = 1 \/ s[k - 1] = Newline)}
           from == Ascending(starts)
           c == Cardinality(starts)
           P(k, j) == /\ j = Len(s) \/ s[j + 1] = Newline
                      /\ \A i \in k .. j : s[i] # Newline
           to(k) == CHOOSE j \in k .. Len(s) : P(k, j)
<1>1. DOMAIN s = 1 .. Len(s) /\ Len(s) \in Nat /\ \A k \in 1 .. Len(s) : s[k] \in Byte
  BY DEF Text
<1>2. starts \in SUBSET Nat /\ IsFiniteSet(starts)
  <2>1. IsFiniteSet(1 .. Len(s))
    <3>1. 1 \in Int /\ Len(s) \in Int
      BY <1>1
    <3> QED
      BY <3>1, FS_Interval
  <2>2. starts \subseteq 1 .. Len(s)
    BY <1>1
  <2>3. IsFiniteSet(starts)
    <3> HIDE DEF starts
    <3> QED
      BY <2>1, <2>2, FS_Subset
  <2> QED
    BY <1>1, <2>2, <2>3
<1>3. ASSUME NEW k \in starts
      PROVE  \E j \in k .. Len(s) : P(k, j)
  <2> DEFINE S == {j \in k .. Len(s) : \A i \in k .. j : s[i] # Newline}
  <2>1. k \in 1 .. Len(s) /\ k \in Nat /\ s[k] # Newline
    BY <1>1
  <2>2. k \in S
    BY <1>1, <2>1
  <2>3. S \in SUBSET Nat /\ \A j \in S : j <= Len(s)
    BY <1>1, <2>1
  <2>4. PICK m \in S : \A j \in S : j <= m
    <3> HIDE DEF S
    <3> QED
      BY <1>1, <2>2, <2>3, Greatest
  <2>5. m \in Nat /\ m \in k .. Len(s) /\ \A i \in k .. m : s[i] # Newline
    BY <2>3
  <2>6. CASE m # Len(s) /\ s[m + 1] # Newline
    <3>1. m + 1 \in k .. Len(s)
      <4> HIDE DEF S
      <4>1. m # Len(s)
        BY <2>6
      <4>2. m \in Nat /\ k \in Nat /\ Len(s) \in Nat
        BY <1>1, <2>1, <2>5
      <4>3. k <= m /\ m <= Len(s)
        BY <2>5, <4>2
      <4> QED
        BY ONLY <4>1, <4>2, <4>3
    <3>2. \A i \in k .. m + 1 : s[i] # Newline
      <4> SUFFICES ASSUME NEW i \in k .. m + 1 PROVE s[i] # Newline
        OBVIOUS
      <4>1. i = m + 1 \/ i \in k .. m
        BY <2>1, <2>5
      <4> QED
        BY <2>5, <2>6, <4>1
    <3>3. m + 1 \in S
      BY <3>1, <3>2
    <3> HIDE DEF S
    <3>4. m + 1 <= m
      BY <2>4, <3>3
    <3> QED
      BY <2>5, <3>4
  <2>7. CASE m = Len(s) \/ s[m + 1] = Newline
    BY <2>5, <2>7
  <2> QED
    BY <2>6, <2>7
<1>4. ASSUME NEW k \in starts
      PROVE  SubSeq(s, k, to(k)) \in Line \ {<<>>}
  <2>1. to(k) \in k .. Len(s) /\ P(k, to(k))
    <3> HIDE DEF P, starts
    <3> QED
      BY <1>3
  <2>2. k \in Nat /\ 1 <= k
    BY <1>1
  <2> DEFINE m == to(k)
             l == SubSeq(s, k, m)
  <2>3. m \in Nat /\ k <= m /\ m <= Len(s) /\ \A i \in k .. m : s[i] # Newline
    <3> HIDE DEF to
    <3> QED
      BY <1>1, <2>1, <2>2
  <2> HIDE DEF m
  <2>4. k \in 1 .. m + 1 /\ \A i \in k .. m : s[i] \in Byte
    BY <1>1, <2>2, <2>3
  <2>5. /\ l \in Seq(Byte)
        /\ Len(l) = IF k <= m THEN m - k + 1 ELSE 0
        /\ \A i \in 1 .. m - k + 1 : l[i] = s[k + i - 1]
    <3> HIDE DEF l
    <3>0. m \in Nat
      BY <2>3
    <3> QED
      BY <2>4, <3>0, SubSeqProperties DEF l
  <2> HIDE DEF l
  <2>6. Len(l) = m - k + 1 /\ DOMAIN l = 1 .. m - k + 1 /\ l # <<>>
    BY <2>2, <2>3, <2>5
  <2>7. Newline \notin Range(l)
    <3> SUFFICES ASSUME NEW i \in DOMAIN l PROVE l[i] # Newline
      BY DEF Range
    <3>1. k + i - 1 \in k .. m /\ l[i] = s[k + i - 1]
      BY <2>2, <2>3, <2>5, <2>6
    <3> QED
      BY <2>3, <3>1
  <2>8. l \in Line \ {<<>>}
    BY <2>5, <2>6, <2>7 DEF Line, Text
  <2> QED
    BY <2>8 DEF l, m
<1>5. Lines(s) = [n \in DOMAIN from |-> SubSeq(s, from[n], to(from[n]))]
  BY DEF Lines
<1> HIDE DEF starts, to, from
<1>6. from \in [1 .. c -> starts] /\ c \in Nat
  BY <1>2, AscendingFacts DEF from
<1> HIDE DEF c
<1>7. \A n \in 1 .. c : SubSeq(s, from[n], to(from[n])) \in Line \ {<<>>}
  BY <1>4, <1>6
<1>8. Lines(s) \in [1 .. c -> Line \ {<<>>}]
  BY <1>5, <1>6, <1>7
<1> QED
  BY <1>6, <1>8

LEMMA LineText == Line \subseteq Text
  BY DEF Line

\* A file shows text.
LEMMA JoinedText ==
  ASSUME NEW list \in Seq(Text)
  PROVE  Joined(list) \in Text
<1> DEFINE s == [n \in DOMAIN list |-> IF n = 1 THEN list[n] ELSE <<Newline>> \o list[n]]
<1>1. DOMAIN list = 1 .. Len(list) /\ Len(list) \in Nat /\ \A n \in 1 .. Len(list) : list[n] \in Text
  OBVIOUS
<1>2. <<Newline>> \in Text
  BY NewlineByte DEF Text
<1>3. \A n \in 1 .. Len(list) : <<Newline>> \o list[n] \in Text
  BY <1>1, <1>2 DEF Text
<1>4. s \in [1 .. Len(list) -> Text]
  BY <1>1, <1>3
<1>5. Joined(list) = FlattenSeq(s)
  BY DEF Joined
<1> HIDE DEF s
<1>6. s \in Seq(Seq(Byte))
  <2>1. s \in [1 .. Len(list) -> Seq(Byte)]
    BY <1>4 DEF Text
  <2> QED
    BY <1>1, <2>1
<1> QED
  BY <1>5, <1>6, Flattened DEF Text

LEMMA ShownText ==
  ASSUME NEW b \in BookIds, NEW field \in Fields, book[b].title \in Text, book[b].tags \in Seq(Text)
  PROVE  Shown(b, field) \in Text
<1>1. <<Newline>> \in Text
  BY NewlineByte DEF Text
<1>2. \A t \in Text : t \o <<Newline>> \in Text
  BY <1>1 DEF Text
<1>3. Joined(book[b].tags) \in Text
  BY JoinedText
<1>4. Pubdate \in Text
  BY FieldFilesAssumption
<1> QED
  BY <1>2, <1>3, <1>4 DEF Shown, Fields

-----------------------------------------------------------------------------
(* What the variables of Files hold. *)

TagLists == {l \in Seq(Line \ {<<>>}) : ValidTags(l)}
Books == [title : Text \ {<<>>}, tags : TagLists]
Results == [affected : Nat, skipped : Nat, errs : SUBSET Nat]

BooksOK == book \in [BookIds -> Books \union {None}]

\* A fid that is not open holds nothing; a buffer is what the writes make of
\* what was there, within the cap.
FidsOK ==
  /\ opened \in [Fids -> Opens \union {None}]
  /\ reads \in [Fids -> Text]
  /\ bufs \in [Fids -> (Text \ {<<>>}) \union {None}]
  /\ writes \in [Fids -> Seq(Writes)]
  /\ \A f \in Fids :
       /\ opened[f] = None => reads[f] = <<>> /\ bufs[f] = None /\ writes[f] = <<>>
       /\ Buffered(Seed(f), writes[f], bufs[f])
       /\ bufs[f] # None => Len(bufs[f]) <= IF Len(reads[f]) < Cap THEN Cap ELSE Len(reads[f])

CommandsOK ==
  /\ running \in [Fids -> Commands \union {None}]
  /\ visit \in [Fids -> Seq(Nat)]
  /\ result \in [Fids -> Results]
  /\ found = [f \in Fids |-> found[f]]
  /\ \A f \in Fids :
       /\ DOMAIN found[f] \subseteq BookIds
       /\ \A b \in DOMAIN found[f] : found[f][b] \in TagLists

\* No book is None.
LEMMA BookNotNone ==
  ASSUME NEW b \in Books
  PROVE  /\ b # None /\ b.title \in Text \ {<<>>} /\ b.tags \in TagLists
         /\ b.tags \in Seq(Text)
<1>1. b \in [title : Text, tags : Seq(Text)]
  BY LineText DEF Books, TagLists
<1> QED
  BY <1>1, FieldFilesAssumption DEF Books

\* A book whose tags or title an edit replaced.
LEMMA BookEdited ==
  ASSUME BooksOK, NEW b \in BookIds, book[b] # None
  PROVE  /\ \A l \in TagLists : [book EXCEPT ![b].tags = l] \in [BookIds -> Books \union {None}]
         /\ \A t \in Text \ {<<>>} : [book EXCEPT ![b].title = t] \in [BookIds -> Books \union {None}]
<1>1. book[b] \in Books
  BY DEF BooksOK
<1>2. \A l \in TagLists : [book[b] EXCEPT !.tags = l] \in Books
  BY <1>1 DEF Books
<1>3. \A t \in Text \ {<<>>} : [book[b] EXCEPT !.title = t] \in Books
  BY <1>1 DEF Books
<1> QED
  BY <1>2, <1>3 DEF BooksOK

\* An edit makes the book what was asked for, or fails and leaves it.
LEMMA EditOutcome ==
  ASSUME NEW valid \in BOOLEAN, NEW new, Edited(valid, new)
  PROVE  /\ book' = book \/ (valid /\ book' = new)
         /\ failures' = failures => book' = IF valid THEN new ELSE book
         /\ failures' # failures => book' = book
         /\ failures \in 0 .. MaxFailures => failures' \in 0 .. MaxFailures /\ failures' >= failures
<1>1. CASE ~valid /\ UNCHANGED <<book, failures>>
  BY <1>1, FieldFilesAssumption
<1>2. CASE valid /\ book' = new /\ UNCHANGED failures
  BY <1>2, FieldFilesAssumption
<1>3. CASE /\ valid /\ failures < MaxFailures
           /\ failures' = failures + 1 /\ UNCHANGED book
  <2>1. failures \in 0 .. MaxFailures => failures' \in 0 .. MaxFailures /\ failures' >= failures
    BY <1>3, FieldFilesAssumption
  <2>2. CASE failures' = failures
    <3>1. failures \notin Int
      BY <1>3, <2>2
    <3> QED
      BY <1>3, <2>1
  <2>3. CASE failures' # failures
    BY <1>3, <2>1, <2>3
  <2> QED
    BY <2>2, <2>3
<1> QED
  BY <1>1, <1>2, <1>3 DEF Edited

\* What is read back of a title that is not white is text, and something.
LEMMA ReadBackText ==
  ASSUME NEW t \in Text, ~White(t)
  PROVE  ReadBack(t) \in Text \ {<<>>}
<1> DEFINE kept == {k \in DOMAIN t : \/ t[k] \notin Spaces
                                     \/ /\ k > 1 /\ t[k - 1] \notin Spaces
                                        /\ \E j \in k .. Len(t) : t[j] \notin Spaces}
           p == Picked(t, kept)
<1>1. ReadBack(t) = [n \in DOMAIN p |-> InXML(p[n])]
  BY DEF ReadBack
<1>2. PICK i \in DOMAIN t : t[i] \notin Spaces
  BY DEF White, Range
<1>3. i \in kept /\ kept \in SUBSET DOMAIN t
  BY <1>2
<1> HIDE DEF kept
<1>4. t \in Seq(Byte)
  BY DEF Text
<1>5. p \in Seq(Byte) /\ Range(p) = {t[n] : n \in kept}
  BY <1>3, <1>4, PickedFacts
<1> HIDE DEF p
<1>6. t[i] \in Range(p)
  BY <1>3, <1>5
<1>7. DOMAIN p = 1 .. Len(p) /\ Len(p) \in Nat /\ \A n \in 1 .. Len(p) : p[n] \in Byte
  BY <1>5
<1>8. PICK n \in 1 .. Len(p) : TRUE
  BY <1>6, <1>7 DEF Range
<1>9. \A c \in Byte : InXML(c) \in Byte
  BY FieldFilesAssumption DEF InXML
<1>10. ReadBack(t) \in [1 .. Len(p) -> Byte]
  BY <1>1, <1>7, <1>9
<1>11. ReadBack(t) \in Seq(Byte)
  BY <1>7, <1>10
<1>12. ReadBack(t) # <<>>
  <2>1. n \in DOMAIN ReadBack(t)
    BY <1>8, <1>10
  <2> QED
    BY <2>1
<1> QED
  BY <1>11, <1>12 DEF Text

LEMMA TagsSet ==
  ASSUME BooksOK, NEW b \in BookIds, NEW list \in Seq(Line \ {<<>>}), SetTags(b, list)
  PROVE  BooksOK'
<1> DEFINE valid == Editable(b) /\ ValidTags(list)
           new == [book EXCEPT ![b].tags = list]
<1>1. book' = book \/ (valid /\ book' = new)
  <2>1. valid \in BOOLEAN /\ Edited(valid, new)
    BY DEF SetTags
  <2> HIDE DEF valid, new
  <2> QED
    BY <2>1, EditOutcome
<1>2. CASE valid /\ book' = new
  <2>1. list \in TagLists
    BY <1>2 DEF TagLists
  <2> QED
    BY <1>2, <2>1, BookEdited DEF BooksOK, Editable
<1>3. CASE book' = book
  BY <1>3 DEF BooksOK
<1> QED
  BY <1>1, <1>2, <1>3

LEMMA TitleSet ==
  ASSUME BooksOK, NEW b \in BookIds, NEW t \in Text, SetTitle(b, t)
  PROVE  BooksOK'
<1> DEFINE valid == Editable(b) /\ ~White(t)
           new == [book EXCEPT ![b].title = ReadBack(t)]
<1>1. book' = book \/ (valid /\ book' = new)
  <2>1. valid \in BOOLEAN /\ Edited(valid, new)
    BY DEF SetTitle
  <2> HIDE DEF valid, new
  <2> QED
    BY <2>1, EditOutcome
<1>2. CASE valid /\ book' = new
  <2>1. ReadBack(t) \in Text \ {<<>>}
    BY <1>2, ReadBackText
  <2> QED
    BY <1>2, <2>1, BookEdited DEF BooksOK, Editable
<1>3. CASE book' = book
  BY <1>3 DEF BooksOK
<1> QED
  BY <1>1, <1>2, <1>3

LEMMA ValueSet ==
  ASSUME BooksOK, NEW b \in BookIds, NEW field \in Fields, NEW s \in Text, Set(b, field, s)
  PROVE  BooksOK'
<1>1. CASE field = "tags"
  <2>1. SetTags(b, Lines(s))
    BY <1>1 DEF Set
  <2> QED
    BY <2>1, LinesFacts, TagsSet
<1>2. CASE field = "title"
  <2>1. SetTitle(b, s)
    BY <1>2 DEF Set
  <2> QED
    BY <2>1, TitleSet
<1>3. CASE field = "pubdate"
  BY <1>3 DEF Set, BooksOK
<1> QED
  BY <1>1, <1>2, <1>3 DEF Fields

\* However an edit ends, the failures stay within their bound.
LEMMA FailuresCounted ==
  ASSUME failures \in 0 .. MaxFailures
  PROVE  /\ \A b, list : SetTags(b, list) => failures' \in 0 .. MaxFailures /\ failures' >= failures
         /\ \A b, s : \A field \in Fields :
              Set(b, field, s) => failures' \in 0 .. MaxFailures /\ failures' >= failures
<1>1. ASSUME NEW b, NEW list, SetTags(b, list)
      PROVE  failures' \in 0 .. MaxFailures /\ failures' >= failures
  <2> DEFINE valid == Editable(b) /\ ValidTags(list)
             new == [book EXCEPT ![b].tags = list]
  <2>1. valid \in BOOLEAN /\ Edited(valid, new)
    BY <1>1 DEF SetTags
  <2> HIDE DEF valid, new
  <2> QED
    BY <2>1, EditOutcome
<1>2. ASSUME NEW b, NEW t, SetTitle(b, t)
      PROVE  failures' \in 0 .. MaxFailures /\ failures' >= failures
  <2> DEFINE valid == Editable(b) /\ ~White(t)
             new == [book EXCEPT ![b].title = ReadBack(t)]
  <2>1. valid \in BOOLEAN /\ Edited(valid, new)
    BY <1>2 DEF SetTitle
  <2> HIDE DEF valid, new
  <2> QED
    BY <2>1, EditOutcome
<1>3. ASSUME UNCHANGED failures
      PROVE  failures' \in 0 .. MaxFailures /\ failures' >= failures
  BY <1>3, FieldFilesAssumption
<1>4. ASSUME NEW b, NEW s, NEW field \in Fields, Set(b, field, s)
      PROVE  failures' \in 0 .. MaxFailures /\ failures' >= failures
  BY <1>1, <1>2, <1>3, <1>4 DEF Set, Fields
<1> QED
  BY <1>1, <1>4

\* What the commands' constants are.
LEMMA CommandOps ==
  ASSUME NEW c \in Commands
  PROVE  /\ c.op \in {"add-tag", "remove-tag", "rename-tag", "delete"}
         /\ c.op # "delete" => c.tag \in Line \ {<<>>}
         /\ c.op = "rename-tag" => c.new \in Line \ {<<>>}
         /\ c.op \in {"add-tag", "remove-tag"} => c.ids \in Seq(Nat) \union {None}
         /\ c.op = "delete" => c.id \in Nat
  BY CtlAssumption DEF Word

\* Wanted gives a list of tags, or None where there is nothing to do.
LEMMA WantedLines ==
  ASSUME NEW c \in Commands, c.op # "delete", NEW list \in TagLists
  PROVE  Wanted(c, list) \in Seq(Line \ {<<>>}) \union {None}
<1>1. list \in Seq(Line \ {<<>>})
  BY DEF TagLists
<1>2. \A tag : Without(list, tag) \in Seq(Line \ {<<>>})
  <2> SUFFICES ASSUME NEW tag PROVE Without(list, tag) \in Seq(Line \ {<<>>})
    OBVIOUS
  <2>1. {n \in DOMAIN list : list[n] # tag} \in SUBSET DOMAIN list
    OBVIOUS
  <2> QED
    BY <1>1, <2>1, PickedFacts DEF Without
<1>3. \A tag \in Line \ {<<>>} : Append(list, tag) \in Seq(Line \ {<<>>})
  BY <1>1
<1>4. \A old : \A new \in Line \ {<<>>} : Replaced(list, old, new) \in Seq(Line \ {<<>>})
  <2> SUFFICES ASSUME NEW old, NEW new \in Line \ {<<>>}
               PROVE  Replaced(list, old, new) \in Seq(Line \ {<<>>})
    OBVIOUS
  <2>1. DOMAIN list = 1 .. Len(list) /\ Len(list) \in Nat /\ \A n \in 1 .. Len(list) : list[n] \in Line \ {<<>>}
    BY <1>1
  <2>2. Replaced(list, old, new) \in [1 .. Len(list) -> Line \ {<<>>}]
    BY <2>1 DEF Replaced
  <2> QED
    BY <2>1, <2>2
<1>5. CASE c.op = "add-tag"
  BY <1>3, <1>5, CommandOps DEF Wanted
<1>6. CASE c.op = "remove-tag"
  BY <1>2, <1>6 DEF Wanted
<1>7. CASE c.op = "rename-tag"
  <2>1. Wanted(c, list) = Renamed(list, c.tag, c.new)
    BY <1>7 DEF Wanted
  <2>2. c.new \in Line \ {<<>>}
    BY <1>7, CommandOps
  <2> QED
    BY <1>2, <1>4, <2>1, <2>2 DEF Renamed
<1> QED
  BY <1>5, <1>6, <1>7, CommandOps

\* The walk is over ids.
LEMMA Enumerated ==
  ASSUME NEW S \in SUBSET BookIds
  PROVE  /\ SetToSeq(S) \in Seq(S) /\ SetToSeq(S) \in Seq(Nat)
         /\ Range(SetToSeq(S)) = S /\ IsInjective(SetToSeq(S))
<1>1. IsFiniteSet(S) /\ Cardinality(S) \in Nat
  <2>1. IsFiniteSet(BookIds)
    BY FieldFilesAssumption
  <2>2. IsFiniteSet(S)
    BY <2>1, FS_Subset
  <2> QED
    BY <2>2, FS_CardinalityType
<1> DEFINE n == Cardinality(S)
           q == SetToSeq(S)
<1>2. ExistsBijection(1 .. n, S)
  BY <1>1, FS_CardinalityType
<1>3. PICK g \in [1 .. n -> S] : IsInjective(g)
  BY <1>2 DEF ExistsBijection, Bijection, Injection
<1>4. q \in [1 .. n -> S] /\ IsInjective(q)
  <2>1. q = CHOOSE h \in [1 .. n -> S] : IsInjective(h)
    BY DEF SetToSeq
  <2> HIDE DEF q, n
  <2> QED
    BY <1>3, <2>1
<1>5. q \in Seq(S) /\ DOMAIN q = 1 .. n
  <2> HIDE DEF q, n
  <2> QED
    BY <1>1, <1>4 DEF n
<1>6. Range(q) = S
  <2>1. IsFiniteSet(1 .. n) /\ Cardinality(1 .. n) = n
    <3>1. 1 \in Int /\ n \in Int
      BY <1>1
    <3>2. IsFiniteSet(1 .. n) /\ Cardinality(1 .. n) = IF 1 > n THEN 0 ELSE n - 1 + 1
      BY <3>1, FS_Interval
    <3> HIDE DEF n
    <3>3. n \in Nat
      BY <1>1 DEF n
    <3> QED
      BY <3>2, <3>3
  <2>2. q \in Injection(1 .. n, S)
    BY <1>4 DEF Injection
  <2> HIDE DEF q, n
  <2>3. q \in Surjection(1 .. n, S)
    BY <1>1, <2>1, <2>2, FS_Injection DEF n
  <2> QED
    BY <1>5, <2>3, <1>4 DEF Surjection, Range
<1>7. S \subseteq Nat
  BY FieldFilesAssumption
<1>8. q \in Seq(Nat)
  <2> HIDE DEF q, n
  <2>1. q \in [1 .. n -> Nat] /\ n \in Nat
    BY <1>1, <1>4, <1>7 DEF n
  <2> QED
    BY <2>1
<1> QED
  BY <1>4, <1>5, <1>6, <1>8

CountsOK == issued \in Nat /\ failures \in 0 .. MaxFailures

Kept == BooksOK /\ FidsOK /\ CommandsOK /\ CountsOK

LEMMA KeptFirst == Init => Kept
<1> SUFFICES ASSUME Init PROVE Kept
  OBVIOUS
<1>1. BooksOK
  <2>1. ValidTags(<<>>)
    BY DEF ValidTags, IsInjective
  <2>2. <<>> \in TagLists
    BY <2>1 DEF TagLists
  <2>3. NewBook \in Books
    BY <2>2, FieldFilesAssumption DEF Books, NewBook
  <2> QED
    BY <2>3 DEF Init, FieldsInit, BooksOK
<1>2. FidsOK
  <2>1. <<>> \in Text /\ <<>> \in Seq(Writes)
    BY DEF Text
  <2>2. /\ opened = [f \in Fids |-> None] /\ reads = [f \in Fids |-> <<>>]
        /\ bufs = [f \in Fids |-> None] /\ writes = [f \in Fids |-> <<>>]
    BY DEF Init, FieldsInit
  <2> QED
    BY <2>1, <2>2 DEF FidsOK, Buffered
<1>3. CommandsOK
  <2>1. NoResult \in Results
    BY DEF NoResult, Results
  <2>2. <<>> \in Seq(Nat) /\ DOMAIN <<>> = {}
    OBVIOUS
  <2>3. /\ running = [f \in Fids |-> None] /\ found = [f \in Fids |-> <<>>]
        /\ visit = [f \in Fids |-> <<>>] /\ result = [f \in Fids |-> NoResult]
    BY DEF Init, CtlInit
  <2> QED
    BY <2>1, <2>2, <2>3 DEF CommandsOK
<1>4. CountsOK
  BY FieldFilesAssumption DEF CountsOK, Init, FieldsInit
<1> QED
  BY <1>1, <1>2, <1>3, <1>4 DEF Kept

\* What the other parts leave alone.
LEMMA CommandsSame ==
  ASSUME CommandsOK, UNCHANGED <<running, found, visit, result>>
  PROVE  CommandsOK'
  BY DEF CommandsOK

LEMMA FidsSame ==
  ASSUME FidsOK, UNCHANGED fidvars
  PROVE  FidsOK'
  BY DEF FidsOK, fidvars, Seed

LEMMA CountsSame ==
  ASSUME CountsOK, UNCHANGED libvars
  PROVE  CountsOK'
  BY DEF CountsOK, libvars

LEMMA NewBookIsBook == NewBook \in Books
<1>1. ValidTags(<<>>)
  BY DEF ValidTags, IsInjective
<1>2. <<>> \in TagLists
  BY <1>1 DEF TagLists
<1> QED
  BY <1>2, FieldFilesAssumption DEF Books, NewBook

\* An upload adds one book, as books come.
LEMMA UploadKept ==
  ASSUME Kept, Upload
  PROVE  Kept'
<1>1. FidsOK' /\ CommandsOK'
  BY FidsSame, CommandsSame DEF Kept, Upload, AddBook
<1>2. book' = [book EXCEPT ![issued + 1] = NewBook] /\ issued' = issued + 1 /\ failures' = failures
  BY DEF Upload, AddBook
<1>3. BooksOK'
  BY <1>2, NewBookIsBook DEF Kept, BooksOK
<1>4. CountsOK'
  BY <1>2 DEF Kept, CountsOK
<1> QED
  BY <1>1, <1>3, <1>4 DEF Kept

LEMMA OpensAre ==
  ASSUME NEW o \in Opens
  PROVE  /\ o # None /\ o.book \in BookIds /\ o.field \in Fields /\ o.truncated \in BOOLEAN
         /\ o = [book |-> o.book, field |-> o.field, truncated |-> o.truncated]
<1>1. o \in [book : BookIds, field : Fields, truncated : BOOLEAN]
  BY FilesAssumption
<1> QED
  BY <1>1, FilesAssumption

LEMMA SeedText ==
  ASSUME FidsOK, NEW f \in Fids
  PROVE  Seed(f) \in Text /\ Len(Seed(f)) \in Nat
         /\ Len(reads[f]) \in Nat /\ Len(Seed(f)) <= Len(reads[f])
<1>1. reads[f] \in Text /\ <<>> \in Text
  BY DEF FidsOK, Text
<1>2. Len(reads[f]) \in Nat /\ Len(<<>>) = 0
  BY <1>1 DEF Text
<1> QED
  BY <1>1, <1>2 DEF Seed

\* What FidsOK says of one fid.
FidOK(f) ==
  /\ opened[f] = None => reads[f] = <<>> /\ bufs[f] = None /\ writes[f] = <<>>
  /\ Buffered(Seed(f), writes[f], bufs[f])
  /\ bufs[f] # None => Len(bufs[f]) <= IF Len(reads[f]) < Cap THEN Cap ELSE Len(reads[f])

LEMMA FidSame ==
  ASSUME NEW f \in Fids, FidOK(f), opened'[f] = opened[f], reads'[f] = reads[f],
         bufs'[f] = bufs[f], writes'[f] = writes[f]
  PROVE  FidOK(f)'
  BY DEF FidOK, Seed

LEMMA OpenKept ==
  ASSUME Kept, NEW f \in Fids, NEW o \in Opens, Open(f, o)
  PROVE  Kept'
<1>1. BooksOK' /\ CommandsOK' /\ CountsOK'
  BY CommandsSame, CountsSame DEF Kept, BooksOK, Open, OpenField, ctlvars
<1>2. Shown(o.book, o.field) \in Text
  <2>1. book[o.book] # None /\ o.book \in BookIds /\ o.field \in Fields
    BY OpensAre DEF Open, OpenField
  <2>2. book[o.book] \in Books
    BY <2>1 DEF Kept, BooksOK
  <2> QED
    BY <2>1, <2>2, BookNotNone, ShownText
<1>3. /\ opened[f] = None
      /\ opened' = [opened EXCEPT ![f] = o]
      /\ reads' = [reads EXCEPT ![f] = Shown(o.book, o.field)]
      /\ bufs' = bufs /\ writes' = writes
  BY OpensAre DEF Open, OpenField
<1>4. /\ opened' \in [Fids -> Opens \union {None}] /\ reads' \in [Fids -> Text]
      /\ bufs' \in [Fids -> (Text \ {<<>>}) \union {None}] /\ writes' \in [Fids -> Seq(Writes)]
  BY <1>2, <1>3 DEF Kept, FidsOK
<1>5. ASSUME NEW g \in Fids PROVE FidOK(g)'
  <2>1. FidOK(g)
    BY DEF Kept, FidsOK, FidOK
  <2>2. CASE g # f
    BY <1>3, <2>1, <2>2, FidSame DEF Kept, FidsOK
  <2>3. CASE g = f
    <3>1. bufs'[g] = None /\ writes'[g] = <<>> /\ opened'[g] # None
      BY <1>3, <2>1, <2>3, OpensAre DEF Kept, FidsOK, FidOK
    <3> QED
      BY <3>1 DEF FidOK, Buffered
  <2> QED
    BY <2>2, <2>3
<1> QED
  BY <1>1, <1>4, <1>5 DEF Kept, FidsOK, FidOK

LEMMA WriteKept ==
  ASSUME Kept, NEW f \in Fids, NEW off \in Offsets, NEW data \in Chunks, Write(f, off, data)
  PROVE  Kept'
<1> DEFINE w == [at |-> off, data |-> data]
           new == Written(bufs[f], Seed(f), off, data)
<1>1. BooksOK' /\ CommandsOK' /\ CountsOK'
  BY CommandsSame, CountsSame DEF Kept, BooksOK, Write, WriteField, ctlvars
<1>2. off \in Nat /\ data \in Text \ {<<>>} /\ Fits(off, data, Cap) /\ opened[f] # None
  BY FilesAssumption DEF Write, WriteField
<1>3. w \in Writes
  BY <1>2 DEF Writes
<1>4. /\ opened' = opened /\ reads' = reads
      /\ bufs' = [bufs EXCEPT ![f] = new]
      /\ writes' = [writes EXCEPT ![f] = Append(@, w)]
  BY DEF Write, WriteField
<1>5. /\ writes[f] \in Seq(Writes) /\ bufs[f] \in Text \union {None} /\ Seed(f) \in Text
      /\ FidOK(f)
  BY SeedText DEF Kept, FidsOK, FidOK
<1>6. new \in Text \ {<<>>}
  BY <1>2, <1>5, WrittenFacts
<1>7. Buffered(Seed(f), Append(writes[f], w), new)
  <2>1. w.at = off /\ w.data = data
    OBVIOUS
  <2>2. Buffered(Seed(f), writes[f], bufs[f])
    BY <1>5 DEF FidOK
  <2> HIDE DEF w
  <2>3. CASE writes[f] = <<>>
    <3>1. bufs[f] = None
      BY <2>2, <2>3 DEF Buffered
    <3>2. Append(writes[f], w) = <<w>>
      BY <2>3
    <3> QED
      BY <1>3, <1>5, <2>1, <3>1, <3>2, WriteFirst
  <2>4. CASE writes[f] # <<>>
    BY <1>3, <1>5, <2>1, <2>2, <2>4, WriteNext
  <2> QED
    BY <2>3, <2>4
<1>8. Len(new) <= IF Len(reads[f]) < Cap THEN Cap ELSE Len(reads[f])
  <2> DEFINE old == IF bufs[f] = None THEN Seed(f) ELSE bufs[f]
             top == IF Len(reads[f]) < Cap THEN Cap ELSE Len(reads[f])
  <2>1. Len(reads[f]) \in Nat /\ Len(Seed(f)) \in Nat /\ Len(Seed(f)) <= Len(reads[f])
    BY SeedText DEF Kept
  <2>2. Cap \in Nat
    BY FieldFilesAssumption
  <2>3. top \in Nat /\ Cap <= top /\ Len(reads[f]) <= top
    BY <2>1, <2>2
  <2>4. bufs[f] # None => Len(bufs[f]) <= top
    BY <1>5 DEF FidOK
  <2> HIDE DEF top
  <2>5. old \in Text /\ Len(old) \in Nat /\ Len(old) <= top
    <3>1. bufs[f] # None => Len(bufs[f]) \in Nat
      BY <1>5 DEF Text
    <3> QED
      BY <1>5, <2>1, <2>3, <2>4, <3>1
  <2>6. End(off, data) \in Nat /\ End(off, data) <= Cap
    <3>1. Len(data) \in Nat
      BY <1>2 DEF Text
    <3> QED
      BY <1>2, <2>2, <3>1 DEF Fits, End
  <2>7. Len(new) <= IF Len(old) < End(off, data) THEN End(off, data) ELSE Len(old)
    BY <1>2, <1>5, WrittenFacts
  <2>8. Len(new) \in Nat
    BY <1>6 DEF Text
  <2> HIDE DEF old, new
  <2>9. Len(new) <= top
    BY <2>2, <2>3, <2>5, <2>6, <2>7, <2>8
  <2> QED
    BY <2>9 DEF top
<1> HIDE DEF new
<1>9. /\ opened' \in [Fids -> Opens \union {None}] /\ reads' \in [Fids -> Text]
      /\ bufs' \in [Fids -> (Text \ {<<>>}) \union {None}] /\ writes' \in [Fids -> Seq(Writes)]
  <2>1. Append(writes[f], w) \in Seq(Writes)
    BY <1>3, <1>5
  <2> QED
    BY <1>4, <1>6, <2>1 DEF Kept, FidsOK
<1>10. ASSUME NEW g \in Fids PROVE FidOK(g)'
  <2>1. FidOK(g)
    BY DEF Kept, FidsOK, FidOK
  <2>2. CASE g # f
    BY <1>4, <2>1, <2>2, FidSame DEF Kept, FidsOK
  <2>3. CASE g = f
    <3>1. /\ bufs'[g] = new /\ writes'[g] = Append(writes[f], w) /\ opened'[g] # None
          /\ reads'[g] = reads[f] /\ opened'[g] = opened[f]
      BY <1>2, <1>4, <2>3 DEF Kept, FidsOK
    <3>2. Seed(g)' = Seed(f)
      BY <1>4, <2>3 DEF Seed
    <3> QED
      BY <1>7, <1>8, <3>1, <3>2 DEF FidOK
  <2> QED
    BY <2>2, <2>3
<1> QED
  BY <1>1, <1>9, <1>10 DEF Kept, FidsOK, FidOK

LEMMA CloseKept ==
  ASSUME Kept, NEW f \in Fids, Close(f)
  PROVE  Kept'
<1>1. CommandsOK'
  BY CommandsSame DEF Kept, Close
<1>2. /\ opened[f] # None
      /\ opened' = [opened EXCEPT ![f] = None]
      /\ reads' = [reads EXCEPT ![f] = <<>>]
      /\ writes' = [writes EXCEPT ![f] = <<>>]
      /\ bufs' = [bufs EXCEPT ![f] = None]
  BY DEF Close, CloseField, Clunked
<1>3. BooksOK'
  <2>1. CASE bufs[f] = None
    BY <2>1 DEF Close, CloseField, Kept, BooksOK
  <2>2. CASE bufs[f] # None
    <3>1. Set(opened[f].book, opened[f].field, Trimmed(bufs[f]))
      BY <2>2 DEF Close, CloseField
    <3>2. opened[f] \in Opens /\ bufs[f] \in Text
      BY <1>2, <2>2 DEF Kept, FidsOK
    <3>3. opened[f].book \in BookIds /\ opened[f].field \in Fields
      BY <3>2, OpensAre
    <3> QED
      BY <3>1, <3>2, <3>3, TrimmedText, ValueSet DEF Kept
  <2> QED
    BY <2>1, <2>2
<1>4. /\ opened' \in [Fids -> Opens \union {None}] /\ reads' \in [Fids -> Text]
      /\ bufs' \in [Fids -> (Text \ {<<>>}) \union {None}] /\ writes' \in [Fids -> Seq(Writes)]
  <2>1. <<>> \in Text /\ <<>> \in Seq(Writes)
    BY DEF Text
  <2> QED
    BY <1>2, <2>1 DEF Kept, FidsOK
<1>5. ASSUME NEW g \in Fids PROVE FidOK(g)'
  <2>1. FidOK(g)
    BY DEF Kept, FidsOK, FidOK
  <2>2. CASE g # f
    BY <1>2, <2>1, <2>2, FidSame DEF Kept, FidsOK
  <2>3. CASE g = f
    <3>1. bufs'[g] = None /\ writes'[g] = <<>> /\ reads'[g] = <<>>
      BY <1>2, <2>3 DEF Kept, FidsOK
    <3> QED
      BY <3>1 DEF FidOK, Buffered
  <2> QED
    BY <2>2, <2>3
<1>6. CountsOK'
  <2>1. opened[f].field \in Fields
    <3>1. opened[f] \in Opens
      BY <1>2 DEF Kept, FidsOK
    <3> QED
      BY <3>1, OpensAre
  <2>2. CASE bufs[f] = None
    BY <2>2 DEF Close, CloseField, Kept, CountsOK
  <2>3. CASE bufs[f] # None
    <3>1. Set(opened[f].book, opened[f].field, Trimmed(bufs[f])) /\ issued' = issued
      BY <2>3 DEF Close, CloseField
    <3> QED
      BY <2>1, <3>1, FailuresCounted DEF Kept, CountsOK
  <2> QED
    BY <2>2, <2>3
<1> QED
  BY <1>1, <1>3, <1>4, <1>5, <1>6 DEF Kept, FidsOK, FidOK

LEMMA ExecuteKept ==
  ASSUME Kept, NEW f \in Fids, NEW c \in Commands, Execute(f, c)
  PROVE  Kept'
<1>1. BooksOK' /\ FidsOK' /\ CountsOK'
  BY FidsSame, CountsSame DEF Kept, BooksOK, Execute
<1>2. Matching(c) \in SUBSET BookIds /\ \A b \in Matching(c) : book[b].tags \in TagLists
  <2>1. \A b \in BookIds : book[b] # None => book[b].tags \in TagLists
    BY BookNotNone DEF Kept, BooksOK
  <2> QED
    BY <2>1 DEF Matching
<1>3. Visited(c) \in Seq(Nat)
  <2>1. CASE ByList(c)
    <3>1. c.op \in {"add-tag", "remove-tag"}
      BY <2>1, CommandOps DEF Execute, ByList
    <3>2. c.ids \in Seq(Nat)
      BY <2>1, <3>1, CommandOps DEF ByList
    <3> DEFINE P == {n \in DOMAIN c.ids : \A m \in 1 .. n - 1 : c.ids[m] # c.ids[n]}
    <3>3. P \in SUBSET DOMAIN c.ids
      OBVIOUS
    <3>4. Visited(c) = Picked(c.ids, P)
      BY <2>1 DEF Visited
    <3> HIDE DEF P
    <3> QED
      BY <3>2, <3>3, <3>4, PickedFacts
  <2>2. CASE ~ByList(c)
    BY <1>2, <2>2, Enumerated DEF Visited
  <2> QED
    BY <2>1, <2>2
<1>4. NoResult \in Results
  BY DEF NoResult, Results
<1>5. /\ running' = [running EXCEPT ![f] = c]
      /\ found' = [found EXCEPT ![f] = [b \in Matching(c) |-> book[b].tags]]
      /\ visit' = [visit EXCEPT ![f] = Visited(c)]
      /\ result' = [result EXCEPT ![f] = NoResult]
  BY DEF Execute
<1>6. CommandsOK'
  BY <1>2, <1>3, <1>4, <1>5 DEF Kept, CommandsOK
<1> QED
  BY <1>1, <1>6 DEF Kept

LEMMA EditKept ==
  ASSUME Kept, NEW f \in Fids, EditNext(f), running[f].op # "delete"
  PROVE  Kept'
<1> DEFINE b == Head(visit[f])
           list == Wanted(running[f], found[f][b])
<1>1. FidsOK'
  BY FidsSame DEF Kept, EditNext
<1>2. visit[f] # <<>> /\ visit[f] \in Seq(Nat) /\ running[f] \in Commands
  BY DEF Kept, CommandsOK, EditNext
<1>3. b \in Nat /\ Tail(visit[f]) \in Seq(Nat)
  BY <1>2
<1>4. b \in DOMAIN found[f] => b \in BookIds /\ list \in Seq(Line \ {<<>>}) \union {None}
  <2> SUFFICES ASSUME b \in DOMAIN found[f]
               PROVE  b \in BookIds /\ list \in Seq(Line \ {<<>>}) \union {None}
    OBVIOUS
  <2>1. b \in BookIds /\ found[f][b] \in TagLists
    BY DEF Kept, CommandsOK
  <2> QED
    BY <1>2, <2>1, WantedLines
<1> HIDE DEF b, list
<1>5. /\ book' = book \/ (b \in DOMAIN found[f] /\ list # None /\ SetTags(b, list))
      /\ \/ result' = [result EXCEPT ![f].errs = @ \union {b}]
         \/ result' = [result EXCEPT ![f].skipped = @ + 1]
         \/ result' = [result EXCEPT ![f].affected = @ + 1]
      /\ visit' = [visit EXCEPT ![f] = Tail(@)]
      /\ running' = running /\ found' = found
      /\ failures' = failures \/ SetTags(b, list)
      /\ issued' = issued
  BY DEF EditNext, b, list
<1>6. BooksOK'
  <2>1. CASE book' = book
    BY <2>1 DEF Kept, BooksOK
  <2>2. CASE b \in DOMAIN found[f] /\ list # None /\ SetTags(b, list)
    <3>1. b \in BookIds /\ list \in Seq(Line \ {<<>>})
      BY <1>4, <2>2
    <3> QED
      BY <2>2, <3>1, TagsSet DEF Kept
  <2> QED
    BY <1>5, <2>1, <2>2
<1>7. result' \in [Fids -> Results]
  <2>1. result \in [Fids -> Results] /\ result[f] \in Results
    BY DEF Kept, CommandsOK
  <2>2. /\ [result[f] EXCEPT !.errs = @ \union {b}] \in Results
        /\ [result[f] EXCEPT !.skipped = @ + 1] \in Results
        /\ [result[f] EXCEPT !.affected = @ + 1] \in Results
    BY <1>3, <2>1 DEF Results
  <2> QED
    BY <1>5, <2>1, <2>2
<1>8. CommandsOK'
  BY <1>3, <1>5, <1>7 DEF Kept, CommandsOK
<1>9. CountsOK'
  BY <1>5, FailuresCounted DEF Kept, CountsOK
<1> QED
  BY <1>1, <1>6, <1>8, <1>9 DEF Kept

LEMMA FinishKept ==
  ASSUME Kept, NEW f \in Fids, Finish(f)
  PROVE  Kept'
<1>1. BooksOK' /\ FidsOK' /\ CountsOK'
  BY FidsSame, CountsSame DEF Kept, BooksOK, Finish
<1>2. NoResult \in Results /\ DOMAIN <<>> = {}
  BY DEF NoResult, Results
<1>3. /\ running' = [running EXCEPT ![f] = None]
      /\ found' = [found EXCEPT ![f] = <<>>]
      /\ result' = [result EXCEPT ![f] = NoResult]
      /\ visit' = visit
  BY DEF Finish
<1>4. CommandsOK'
  BY <1>2, <1>3 DEF Kept, CommandsOK
<1> QED
  BY <1>1, <1>4 DEF Kept

LEMMA DeleteKept ==
  ASSUME Kept, NEW f \in Fids, NEW c \in Commands, DeleteBook(f, c)
  PROVE  Kept'
<1>1. FidsOK' /\ CommandsOK' /\ CountsOK'
  BY FidsSame, CommandsSame, CountsSame DEF Kept, DeleteBook
<1>2. book' = book \/ book' = [book EXCEPT ![c.id] = None]
  BY DEF DeleteBook
<1>3. BooksOK'
  BY <1>2 DEF Kept, BooksOK
<1> QED
  BY <1>1, <1>3 DEF Kept

\* A bulk command is none that deletes.
BulkOnly == \A f \in Fids : running[f] # None => running[f].op # "delete"

LEMMA StepKept ==
  ASSUME Kept, BulkOnly, [Next]_vars
  PROVE  Kept' /\ BulkOnly'
<1>1. Kept'
  <2>1. CASE UNCHANGED vars
    BY <2>1, FidsSame, CommandsSame, CountsSame DEF Kept, BooksOK, vars, ctlvars
  <2>2. ASSUME NEW f \in Fids, NEW o \in Opens, Open(f, o) PROVE Kept'
    BY <2>2, OpenKept
  <2>3. ASSUME NEW f \in Fids, NEW off \in Offsets, NEW data \in Chunks, Write(f, off, data)
        PROVE  Kept'
    BY <2>3, WriteKept
  <2>4. ASSUME NEW f \in Fids, Close(f) PROVE Kept'
    BY <2>4, CloseKept
  <2>5. ASSUME NEW f \in Fids, NEW c \in Commands, Execute(f, c) PROVE Kept'
    BY <2>5, ExecuteKept
  <2>6. ASSUME NEW f \in Fids, NEW c \in Commands, DeleteBook(f, c) PROVE Kept'
    BY <2>6, DeleteKept
  <2>7. ASSUME NEW f \in Fids, EditNext(f) PROVE Kept'
    BY <2>7, EditKept DEF BulkOnly, EditNext
  <2>8. ASSUME NEW f \in Fids, Finish(f) PROVE Kept'
    BY <2>8, FinishKept
  <2>9. CASE Upload
    BY <2>9, UploadKept
  <2> QED
    BY <2>1, <2>2, <2>3, <2>4, <2>5, <2>6, <2>7, <2>8, <2>9 DEF Next
<1>2. BulkOnly'
  <2>1. running' = running \/ \E f \in Fids : \/ running' = [running EXCEPT ![f] = None]
                                             \/ \E c \in Commands : /\ c.op # "delete"
                                                                    /\ running' = [running EXCEPT ![f] = c]
    BY DEF Next, vars, ctlvars, Upload, Open, Write, Close, Execute, DeleteBook, EditNext, Finish
  <2>2. running \in [Fids -> Commands \union {None}]
    BY DEF Kept, CommandsOK
  <2> QED
    BY <2>1, <2>2 DEF BulkOnly
<1> QED
  BY <1>1, <1>2

LEMMA StepRing ==
  ASSUME Ring, [Next]_vars
  PROVE  Ring'
<1>1. CASE UNCHANGED logvars
  BY <1>1 DEF Ring, logvars
<1>2. CASE \E e : Logged(e)
  BY <1>2, LoggedRing
<1> QED
  BY <1>1, <1>2, StepOfLog

LEMMA AlwaysKept == Spec => [](Kept /\ BulkOnly /\ Ring)
<1>1. Init => Kept /\ BulkOnly /\ Ring
  BY KeptFirst, EmptyRing DEF Init, CtlInit, BulkOnly
<1>2. (Kept /\ BulkOnly /\ Ring) /\ [Next]_vars => (Kept /\ BulkOnly /\ Ring)'
  BY StepKept, StepRing
<1> QED
  BY <1>1, <1>2, PTL DEF Spec

\* Whatever clients write, a book keeps a title and a list of tags that are names
\* and none twice, and no fid holds what its type does not allow (Library.Edit,
\* field.edits and editSelection).
THEOREM TypeCorrect == Spec => []TypeOK
<1>1. Kept /\ Ring => TypeOK
  <2> SUFFICES ASSUME Kept, Ring PROVE TypeOK
    OBVIOUS
  <2>1. ASSUME NEW b \in BookIds, book[b] # None
        PROVE  /\ book[b].title \in Text \ {<<>>}
               /\ book[b].tags \in Seq(Line \ {<<>>}) /\ ValidTags(book[b].tags)
    <3>1. book[b] \in Books
      BY <2>1 DEF Kept, BooksOK
    <3> QED
      BY <3>1 DEF Books, TagLists
  <2>2. next \in 0 .. LogSize - 1 /\ full \in BOOLEAN
    BY DEF Ring
  <2>3. opened \in [Fids -> Opens \union {None}]
    BY DEF Kept, FidsOK
  <2>4. ASSUME NEW f \in Fids
        PROVE  /\ reads[f] \in Text
               /\ bufs[f] \in (Text \ {<<>>}) \union {None}
               /\ running[f] \in Commands \union {None}
               /\ visit[f] \in Seq(Nat)
               /\ DOMAIN found[f] \subseteq BookIds
               /\ result[f] \in [affected : Nat, skipped : Nat, errs : SUBSET Nat]
    BY DEF Kept, FidsOK, CommandsOK, Results
  <2>5. failures \in 0 .. MaxFailures /\ issued \in Nat
    BY DEF Kept, CountsOK
  <2> QED
    BY <2>1, <2>2, <2>3, <2>4, <2>5 DEF TypeOK
<1> QED
  BY <1>1, AlwaysKept, PTL

\* However a client spreads its writes, at offsets up to the largest there is,
\* the server holds for a fid no more than the cap or what it read at open
\* (WriteBuffer.Write).
THEOREM BuffersWithinCap == Spec => []WithinCap
<1>1. Kept => WithinCap
  BY DEF Kept, FidsOK, WithinCap
<1> QED
  BY <1>1, AlwaysKept, PTL

LEMMA OnlyCloses ==
  ASSUME Kept, Next, NEW f \in Fids, opened[f] # None, opened'[f] = None
  PROVE  Close(f)
<1>1. opened \in [Fids -> Opens \union {None}]
  BY DEF Kept, FidsOK
<1>2. ASSUME NEW g \in Fids, NEW o \in Opens, Open(g, o) PROVE FALSE
  <2>1. opened' = [opened EXCEPT ![g] = o] /\ o # None
    BY <1>2, OpensAre DEF Open, OpenField
  <2> QED
    BY <1>1, <2>1
<1>3. ASSUME NEW g \in Fids, Close(g) PROVE Close(f)
  <2>1. opened' = [opened EXCEPT ![g] = None]
    BY <1>3 DEF Close, CloseField, Clunked
  <2>2. g = f
    BY <1>1, <2>1
  <2> QED
    BY <1>3, <2>2
<1>4. opened' = opened => FALSE
  OBVIOUS
<1> QED
  BY <1>2, <1>3, <1>4 DEF Next, Upload, AddBook, Write, WriteField, Execute, DeleteBook, EditNext,
     Finish, fidvars

\* A close sets the field to what the client meant, or leaves it.
LEMMA CloseCommits ==
  ASSUME Kept, NEW f \in Fids, opened[f] # None, Close(f), NEW b \in BookIds
  PROVE  book'[b] = IF /\ book[b] # None /\ b = opened[f].book
                       /\ writes[f] # <<>> /\ failures' = failures
                    THEN ValueAfter(f, b) ELSE book[b]
<1> DEFINE B == opened[f].book
           field == opened[f].field
<1>1. opened[f] \in Opens /\ B \in BookIds /\ field \in Fields
  <2>1. opened[f] \in Opens
    BY DEF Kept, FidsOK
  <2> QED
    BY <2>1, OpensAre
<1>2. Buffered(Seed(f), writes[f], bufs[f])
  BY DEF Kept, FidsOK
<1>3. book \in [BookIds -> Books \union {None}]
  BY DEF Kept, BooksOK
<1>4. CASE writes[f] = <<>>
  <2>1. bufs[f] = None
    BY <1>2, <1>4 DEF Buffered
  <2> QED
    BY <1>4, <2>1 DEF Close, CloseField
<1>5. CASE writes[f] # <<>>
  <2>1. bufs[f] \in Text /\ bufs[f] = Intended(Seed(f), writes[f])
    BY <1>2, <1>5 DEF Buffered
  <2>2. bufs[f] # None
    BY <2>1, WriteBufferAssumption DEF Text
  <2>3. Set(B, field, Meant(f))
    BY <2>1, <2>2 DEF Close, CloseField, Meant
  <2>4. CASE field = "tags"
    <3>1. SetTags(B, Lines(Meant(f)))
      BY <2>3, <2>4 DEF Set
    <3>0. /\ failures' # failures => book' = book
          /\ failures' = failures =>
               book' = IF Editable(B) /\ ValidTags(Lines(Meant(f)))
                       THEN [book EXCEPT ![B].tags = Lines(Meant(f))] ELSE book
      <4> DEFINE valid == Editable(B) /\ ValidTags(Lines(Meant(f)))
                 new == [book EXCEPT ![B].tags = Lines(Meant(f))]
      <4>1. valid \in BOOLEAN /\ Edited(valid, new)
        BY <3>1 DEF SetTags
      <4> HIDE DEF valid, new
      <4>2. /\ failures' # failures => book' = book
            /\ failures' = failures => book' = IF valid THEN new ELSE book
        BY <4>1, EditOutcome
      <4> QED
        BY <4>2 DEF valid, new
    <3>2. ValueAfter(f, b) = IF ValidTags(Lines(Meant(f)))
                             THEN [book[b] EXCEPT !.tags = Lines(Meant(f))] ELSE book[b]
      BY <2>4 DEF ValueAfter
    <3> HIDE DEF B, field
    <3>3. CASE failures' = failures /\ Editable(B) /\ ValidTags(Lines(Meant(f)))
      <4>1. book' = [book EXCEPT ![B].tags = Lines(Meant(f))]
        BY <3>0, <3>3
      <4>2. CASE b = B
        <5>1. book'[b] = [book[b] EXCEPT !.tags = Lines(Meant(f))]
          BY <1>1, <1>3, <4>1, <4>2
        <5> QED
          BY <1>5, <3>2, <3>3, <4>2, <5>1 DEF Editable, B
      <4>3. CASE b # B
        <5>1. book'[b] = book[b]
          BY <1>3, <4>1, <4>3
        <5> QED
          BY <4>3, <5>1 DEF B
      <4> QED
        BY <4>2, <4>3
    <3>4. CASE ~(Editable(B) /\ ValidTags(Lines(Meant(f))))
      <4>1. book' = book
        BY <3>0, <3>4
      <4> QED
        BY <3>2, <3>4, <4>1 DEF Editable, B
    <3>5. CASE failures' # failures
      BY <3>0, <3>5
    <3> QED
      BY <3>3, <3>4, <3>5
  <2>5. CASE field = "title"
    <3>1. SetTitle(B, Meant(f))
      BY <2>3, <2>5 DEF Set
    <3>0. /\ failures' # failures => book' = book
          /\ failures' = failures =>
               book' = IF Editable(B) /\ ~White(Meant(f))
                       THEN [book EXCEPT ![B].title = ReadBack(Meant(f))] ELSE book
      <4> DEFINE valid == Editable(B) /\ ~White(Meant(f))
                 new == [book EXCEPT ![B].title = ReadBack(Meant(f))]
      <4>1. valid \in BOOLEAN /\ Edited(valid, new)
        BY <3>1 DEF SetTitle
      <4> HIDE DEF valid, new
      <4>2. /\ failures' # failures => book' = book
            /\ failures' = failures => book' = IF valid THEN new ELSE book
        BY <4>1, EditOutcome
      <4> QED
        BY <4>2 DEF valid, new
    <3>2. ValueAfter(f, b) = IF White(Meant(f)) THEN book[b]
                             ELSE [book[b] EXCEPT !.title = ReadBack(Meant(f))]
      BY <2>5 DEF ValueAfter
    <3> HIDE DEF B, field
    <3>3. CASE failures' = failures /\ Editable(B) /\ ~White(Meant(f))
      <4>1. book' = [book EXCEPT ![B].title = ReadBack(Meant(f))]
        BY <3>0, <3>3
      <4>2. CASE b = B
        <5>1. book'[b] = [book[b] EXCEPT !.title = ReadBack(Meant(f))]
          BY <1>1, <1>3, <4>1, <4>2
        <5> QED
          BY <1>5, <3>2, <3>3, <4>2, <5>1 DEF Editable, B
      <4>3. CASE b # B
        <5>1. book'[b] = book[b]
          BY <1>3, <4>1, <4>3
        <5> QED
          BY <4>3, <5>1 DEF B
      <4> QED
        BY <4>2, <4>3
    <3>4. CASE ~(Editable(B) /\ ~White(Meant(f)))
      <4>1. book' = book
        BY <3>0, <3>4
      <4> QED
        BY <3>2, <3>4, <4>1 DEF Editable, B
    <3>5. CASE failures' # failures
      BY <3>0, <3>5
    <3> QED
      BY <3>3, <3>4, <3>5
  <2>6. CASE field = "pubdate"
    <3>1. book' = book
      BY <2>3, <2>6 DEF Set
    <3>2. ValueAfter(f, b) = book[b]
      BY <2>6 DEF ValueAfter
    <3> QED
      BY <3>1, <3>2
  <2> QED
    BY <1>1, <2>4, <2>5, <2>6 DEF Fields
<1> QED
  BY <1>4, <1>5

\* However the writes of clients overlap, leave holes and replace one another, a
\* close whose edit does not fail commits to its book what its own fid's writes
\* make of what it opened, a title as the epub gives it back, and to no other book
\* anything (fieldFile.Close, WriteBuffer.Write, epub.Rewrite).
THEOREM CommitsWritten == Spec => CommitsWhatWasWritten
<1> DEFINE Commits ==
             \A f \in Fids :
               opened[f] # None /\ opened'[f] = None =>
                 \A b \in BookIds :
                   book'[b] = IF /\ book[b] # None /\ b = opened[f].book
                                 /\ writes[f] # <<>> /\ failures' = failures
                              THEN ValueAfter(f, b) ELSE book[b]
<1>1. Kept /\ [Next]_vars => [Commits]_<<book, opened>>
  <2> SUFFICES ASSUME Kept, [Next]_vars, ~UNCHANGED <<book, opened>> PROVE Commits
    OBVIOUS
  <2>1. Next
    BY DEF vars, fidvars
  <2> QED
    BY <2>1, OnlyCloses, CloseCommits
<1> QED
  BY <1>1, AlwaysKept, PTL DEF Spec, CommitsWhatWasWritten

-----------------------------------------------------------------------------
(* Bulk commands. *)

\* The books a command is to visit: those it names, or those its search found.
Chosen(f) == IF ByList(running[f]) THEN Range(running[f].ids) ELSE DOMAIN found[f]

\* Every book is still to be visited or was counted once, and those the search
\* did not find are still to be visited or have failed.
Tallied(f) ==
  /\ IsInjective(visit[f])
  /\ IsFiniteSet(Chosen(f)) /\ IsFiniteSet(result[f].errs)
  /\ result[f].errs \subseteq Chosen(f) /\ Range(visit[f]) \subseteq Chosen(f)
  /\ result[f].errs \intersect Range(visit[f]) = {}
  /\ Chosen(f) \ DOMAIN found[f] \subseteq result[f].errs \union Range(visit[f])
  /\ result[f].affected + result[f].skipped + Cardinality(result[f].errs) + Len(visit[f])
       = Cardinality(Chosen(f))

Tally == \A f \in Fids : running[f] # None => Tallied(f)

\* What a command nobody interferes with has done so far: all it was to do to
\* the books it has been to, and nothing to the others nor to those that failed.
There(f) == {b \in BookIds : before[f][b] # None}
ToVisit(f) == Range(visit[f])
OldTags(f, b) == Range(before[f][b].tags)
NewTags(f, b) == IF b \in Named(running[f]) THEN Asked(running[f], OldTags(f, b)) ELSE OldTags(f, b)
\* The library refuses the list a book would get.
Refuses(f, b) ==
  NewTags(f, b) # OldTags(f, b) /\ ~ValidTags(Wanted(running[f], before[f][b].tags))

OnCourse(f) ==
  LET c == running[f]
      E == result[f].errs IN
  /\ before[f] \in [BookIds -> Books \union {None}]
  /\ IsInjective(visit[f])
  /\ DOMAIN found[f] = {b \in There(f) : /\ c.op = "rename-tag" => Has(before[f][b].tags, c.tag)
                                         /\ c.op # "rename-tag" => c.ids = None \/ b \in Range(c.ids)}
  /\ \A b \in DOMAIN found[f] : found[f][b] = before[f][b].tags
  /\ ToVisit(f) \subseteq IF ByList(c) THEN Range(c.ids) ELSE DOMAIN found[f]
  /\ \A b \in BookIds :
       IF b \in There(f)
       THEN /\ book[b] # None
            /\ IF b \in ToVisit(f) \union E THEN book[b].tags = before[f][b].tags
                                             ELSE Range(book[b].tags) = NewTags(f, b)
       ELSE book[b] = None
  /\ result[f].affected =
       Cardinality({b \in There(f) \ (ToVisit(f) \union E) : NewTags(f, b) # OldTags(f, b)})
  /\ E \ There(f) = IF ByList(c) THEN (Range(c.ids) \ There(f)) \ ToVisit(f) ELSE {}
  /\ E \intersect ToVisit(f) = {}
  /\ \A b \in There(f) \ ToVisit(f) : Refuses(f, b) => b \in E
  /\ failures = 0 => \A b \in E \intersect There(f) : Refuses(f, b)

Coursed ==
  /\ before = [f \in Fids |-> before[f]]
  /\ \A f \in Fids :
       /\ running[f] = None => before[f] = None
       /\ running[f] # None => opened[f] = None
       /\ running[f] # None /\ before[f] # None => OnCourse(f)

\* What is in the lists a bulk command makes.
LEMMA WithoutTag ==
  ASSUME NEW list \in TagLists, NEW tag
  PROVE  /\ Without(list, tag) \in Seq(Line \ {<<>>})
         /\ Range(Without(list, tag)) = Range(list) \ {tag}
<1> DEFINE S == {n \in DOMAIN list : list[n] # tag}
<1>1. list \in Seq(Line \ {<<>>}) /\ S \in SUBSET DOMAIN list
  BY DEF TagLists
<1>2. Without(list, tag) = Picked(list, S)
  BY DEF Without
<1>3. Range(list) \ {tag} = {list[n] : n \in S}
  BY DEF Range
<1> HIDE DEF S
<1> QED
  BY <1>1, <1>2, <1>3, PickedFacts

LEMMA WithTag ==
  ASSUME NEW list \in TagLists, NEW tag \in Line \ {<<>>}
  PROVE  Range(Append(list, tag)) = Range(list) \union {tag}
<1> DEFINE N == Len(list)
           new == Append(list, tag)
<1>1. list \in Seq(Line \ {<<>>})
  BY DEF TagLists
<1>2. /\ N \in Nat /\ DOMAIN list = 1 .. N /\ DOMAIN new = 1 .. N + 1
      /\ \A n \in 1 .. N : new[n] = list[n]
      /\ new[N + 1] = tag
  BY <1>1
<1> HIDE DEF N, new
<1>3. \A n \in 1 .. N + 1 : n = N + 1 \/ n \in 1 .. N
  BY <1>2
<1>4. \A x : x \in Range(new) => x \in Range(list) \union {tag}
  BY <1>2, <1>3 DEF Range
<1>5. \A n \in 1 .. N : n \in 1 .. N + 1
  BY <1>2
<1>6. \A x : x \in Range(list) => x \in Range(new)
  BY <1>2, <1>5 DEF Range
<1>7. N + 1 \in 1 .. N + 1
  BY <1>2
<1>8. tag \in Range(new)
  BY <1>2, <1>7 DEF Range
<1> QED
  BY <1>4, <1>6, <1>8 DEF new

LEMMA ReplacedTag ==
  ASSUME NEW list \in TagLists, NEW old, NEW new, Has(list, old)
  PROVE  Range(Replaced(list, old, new)) = (Range(list) \ {old}) \union {new}
<1> DEFINE r == Replaced(list, old, new)
<1>1. DOMAIN r = DOMAIN list /\ \A n \in DOMAIN list : r[n] = IF list[n] = old THEN new ELSE list[n]
  BY DEF Replaced
<1> HIDE DEF r
<1>2. \A x : x \in Range(r) => x \in (Range(list) \ {old}) \union {new}
  BY <1>1 DEF Range
<1>3. \A x : x \in Range(list) \ {old} => x \in Range(r)
  BY <1>1 DEF Range
<1>4. PICK n \in DOMAIN list : list[n] = old
  BY DEF Has, Range
<1>5. new \in Range(r)
  BY <1>1, <1>4 DEF Range
<1> QED
  BY <1>2, <1>3, <1>5 DEF r

LEMMA NotNone ==
  ASSUME NEW list \in Seq(Line \ {<<>>})
  PROVE  list # None
<1>1. list \in Seq(Text)
  BY LineText
<1> QED
  BY <1>1, FieldFilesAssumption

\* What a command does to a book is what was asked, and it is told apart from a
\* book it does nothing to.
LEMMA WantedAsked ==
  ASSUME NEW c \in Commands, c.op # "delete", NEW list \in TagLists,
         c.op = "rename-tag" => c.tag # c.new /\ Has(list, c.tag)
  PROVE  /\ Wanted(c, list) = None => Asked(c, Range(list)) = Range(list)
         /\ Wanted(c, list) # None => /\ Range(Wanted(c, list)) = Asked(c, Range(list))
                                      /\ Asked(c, Range(list)) # Range(list)
<1>0. list \in Seq(Line \ {<<>>})
  BY DEF TagLists
<1>1. CASE c.op = "add-tag"
  <2>1. c.tag \in Line \ {<<>>}
    BY <1>1, CommandOps
  <2>2. Wanted(c, list) = IF Has(list, c.tag) THEN None ELSE Append(list, c.tag)
    BY <1>1 DEF Wanted
  <2>3. Asked(c, Range(list)) = Range(list) \union {c.tag}
    BY <1>1 DEF Asked
  <2>4. Append(list, c.tag) # None
    <3>1. Append(list, c.tag) \in Seq(Line \ {<<>>})
      BY <1>0, <2>1
    <3> QED
      BY <3>1, NotNone
  <2>5. ~Has(list, c.tag) => Range(Append(list, c.tag)) = Range(list) \union {c.tag}
    BY <2>1, WithTag
  <2> QED
    BY <2>2, <2>3, <2>4, <2>5 DEF Has
<1>2. CASE c.op = "remove-tag"
  <2>1. Wanted(c, list) = IF Has(list, c.tag) THEN Without(list, c.tag) ELSE None
    BY <1>2 DEF Wanted
  <2>2. Asked(c, Range(list)) = Range(list) \ {c.tag}
    BY <1>2 DEF Asked
  <2>3. Without(list, c.tag) # None /\ Range(Without(list, c.tag)) = Range(list) \ {c.tag}
    BY WithoutTag, NotNone
  <2> QED
    BY <2>1, <2>2, <2>3 DEF Has
<1>3. CASE c.op = "rename-tag"
  <2>1. c.tag # c.new /\ Has(list, c.tag)
    BY <1>3
  <2>2. Wanted(c, list) = IF Has(list, c.new) THEN Without(list, c.tag) ELSE Replaced(list, c.tag, c.new)
    BY <1>3 DEF Wanted, Renamed
  <2>3. Asked(c, Range(list)) = (Range(list) \ {c.tag}) \union {c.new}
    BY <1>3, <2>1 DEF Asked, Has
  <2>4. Range(Wanted(c, list)) = Asked(c, Range(list))
    <3>1. CASE Has(list, c.new)
      <4>1. Range(Wanted(c, list)) = Range(list) \ {c.tag}
        BY <2>2, <3>1, WithoutTag
      <4>2. c.new \in Range(list) \ {c.tag}
        BY <2>1, <3>1 DEF Has
      <4> QED
        BY <2>3, <4>1, <4>2
    <3>2. CASE ~Has(list, c.new)
      BY <2>1, <2>2, <2>3, <3>2, ReplacedTag
    <3> QED
      BY <3>1, <3>2
  <2>5. Asked(c, Range(list)) # Range(list)
    BY <2>1, <2>3 DEF Has
  <2>6. Wanted(c, list) # None
    <3>1. Wanted(c, list) \in Seq(Line \ {<<>>})
      <4>1. Without(list, c.tag) \in Seq(Line \ {<<>>})
        BY WithoutTag
      <4>2. Replaced(list, c.tag, c.new) \in Seq(Line \ {<<>>})
        <5>1. DOMAIN list = 1 .. Len(list) /\ Len(list) \in Nat /\ \A n \in 1 .. Len(list) : list[n] \in Line \ {<<>>}
          BY <1>0
        <5>2. c.new \in Line \ {<<>>}
          BY <1>3, CommandOps
        <5>3. Replaced(list, c.tag, c.new) \in [1 .. Len(list) -> Line \ {<<>>}]
          BY <5>1, <5>2 DEF Replaced
        <5> QED
          BY <5>1, <5>3
      <4> QED
        BY <2>2, <4>1, <4>2
    <3> QED
      BY <3>1, NotNone
  <2> QED
    BY <2>4, <2>5, <2>6
<1> QED
  BY <1>1, <1>2, <1>3, CommandOps

\* A set of numbers has a first.
LEMMA First ==
  ASSUME NEW S \in SUBSET Nat, S # {}
  PROVE  \E m \in S : \A k \in S : m <= k
<1> DEFINE R == OpToRel(<, Nat)
<1>1. IsWellFoundedOn(R, Nat)
  BY NatLessThanWellFounded
<1>2. \A x, y \in Nat : x < y => <<x, y>> \in R
  BY DEF OpToRel
<1> HIDE DEF R
<1>3. PICK m \in S : \A y \in S : ~(<<y, m>> \in R)
  BY <1>1, WFMin
<1>4. \A k \in S : ~(k < m)
  BY <1>2, <1>3
<1> QED
  BY <1>4

\* A list of ids is walked whole and without its repeats.
LEMMA VisitedOnce ==
  ASSUME NEW c \in Commands, c.op # "delete"
  PROVE  /\ IsInjective(Visited(c))
         /\ Range(Visited(c)) = IF ByList(c) THEN Range(c.ids) ELSE Matching(c)
<1>1. CASE ByList(c)
  <2> DEFINE ids == c.ids
             P == {n \in DOMAIN ids : \A m \in 1 .. n - 1 : ids[m] # ids[n]}
  <2>1. ids \in Seq(Nat)
    BY <1>1, CommandOps DEF ByList
  <2>2. P \in SUBSET DOMAIN ids /\ DOMAIN ids = 1 .. Len(ids) /\ Len(ids) \in Nat
    BY <2>1
  <2>3. \A m, n \in P : ids[m] = ids[n] => m = n
    <3> SUFFICES ASSUME NEW m \in P, NEW n \in P, ids[m] = ids[n], m # n PROVE FALSE
      OBVIOUS
    <3>1. m \in Nat \ {0} /\ n \in Nat \ {0}
      BY <2>2
    <3>2. CASE m < n
      <4>1. m \in 1 .. n - 1
        BY <3>1, <3>2
      <4> QED
        BY <4>1
    <3>3. CASE n < m
      <4>1. n \in 1 .. m - 1
        BY <3>1, <3>3
      <4> QED
        BY <4>1
    <3> QED
      BY <3>1, <3>2, <3>3
  <2>4. {ids[n] : n \in P} = Range(ids)
    <3>1. {ids[n] : n \in P} \subseteq Range(ids)
      BY DEF Range
    <3>2. ASSUME NEW x \in Range(ids) PROVE x \in {ids[n] : n \in P}
      <4> DEFINE S == {n \in DOMAIN ids : ids[n] = x}
      <4>1. S \in SUBSET Nat /\ S # {}
        BY <2>2, <3>2 DEF Range
      <4>2. PICK m \in S : \A k \in S : m <= k
        <5> HIDE DEF S
        <5> QED
          BY <4>1, First
      <4>3. m \in DOMAIN ids /\ ids[m] = x /\ m \in Nat
        BY <4>1
      <4>4. ASSUME NEW k \in 1 .. m - 1 PROVE ids[k] # ids[m]
        <5>1. k \in DOMAIN ids /\ k \in Nat /\ k < m
          BY <2>2, <4>3
        <5>2. k \notin S
          <6> HIDE DEF S
          <6> QED
            BY <4>2, <4>3, <5>1
        <5> QED
          BY <4>3, <5>1, <5>2
      <4>5. m \in P
        BY <4>3, <4>4
      <4> QED
        BY <4>3, <4>5
    <3> QED
      BY <3>1, <3>2
  <2>5. Visited(c) = Picked(ids, P)
    BY <1>1 DEF Visited, ByList
  <2> HIDE DEF ids, P
  <2>6. P \in SUBSET DOMAIN ids
    BY <2>2
  <2>7. IsInjective(Picked(ids, P)) /\ Range(Picked(ids, P)) = {ids[n] : n \in P}
    BY <2>1, <2>3, <2>6, PickedFacts
  <2> QED
    BY <1>1, <2>4, <2>5, <2>7 DEF ids
<1>2. CASE ~ByList(c)
  <2>1. Visited(c) = SetToSeq(Matching(c))
    BY <1>2 DEF Visited, ByList
  <2>2. Matching(c) \in SUBSET BookIds
    BY DEF Matching
  <2> QED
    BY <1>2, <2>1, <2>2, Enumerated
<1> QED
  BY <1>1, <1>2

\* Library.Edit of the tags does what it is asked or nothing, to one book.
LEMMA TagsEdited ==
  ASSUME BooksOK, NEW b \in BookIds, NEW list \in Seq(Line \ {<<>>}), SetTags(b, list)
  PROVE  /\ \A x \in BookIds : book'[x] = None <=> book[x] = None
         /\ \A x \in BookIds : x # b => book'[x] = book[x]
         /\ Editable(b) /\ ValidTags(list) /\ failures' = failures => book'[b].tags = list
         /\ ~(Editable(b) /\ ValidTags(list) /\ failures' = failures) => book' = book
<1> DEFINE valid == Editable(b) /\ ValidTags(list)
           new == [book EXCEPT ![b].tags = list]
<1>1. /\ book' = book \/ (valid /\ book' = new)
      /\ failures' = failures => book' = IF valid THEN new ELSE book
      /\ failures' # failures => book' = book
  <2>1. valid \in BOOLEAN /\ Edited(valid, new)
    BY DEF SetTags
  <2> HIDE DEF valid, new
  <2> QED
    BY <2>1, EditOutcome
<1>2. ASSUME valid
      PROVE  /\ \A x \in BookIds : new[x] = None <=> book[x] = None
             /\ \A x \in BookIds : x # b => new[x] = book[x]
             /\ new[b].tags = list
  <2>1. list \in TagLists /\ book[b] \in Books /\ book[b] # None
    BY <1>2 DEF BooksOK, Editable, TagLists
  <2>2. new[b] = [book[b] EXCEPT !.tags = list] /\ \A x \in BookIds : x # b => new[x] = book[x]
    BY DEF BooksOK
  <2>3. new[b] \in Books /\ new[b].tags = list
    BY <2>1, <2>2 DEF Books
  <2> HIDE DEF new
  <2>4. new[b] # None
    BY <2>3, BookNotNone
  <2> QED
    BY <2>1, <2>2, <2>3, <2>4
<1> HIDE DEF new
<1> QED
  BY <1>1, <1>2

LEMMA TitleEdited ==
  ASSUME BooksOK, NEW b \in BookIds, NEW t \in Text, SetTitle(b, t)
  PROVE  \A x \in BookIds : book'[x] = None <=> book[x] = None
<1> DEFINE valid == Editable(b) /\ ~White(t)
           new == [book EXCEPT ![b].title = ReadBack(t)]
<1>1. book' = book \/ (valid /\ book' = new)
  <2>1. valid \in BOOLEAN /\ Edited(valid, new)
    BY DEF SetTitle
  <2> HIDE DEF valid, new
  <2> QED
    BY <2>1, EditOutcome
<1>2. CASE valid /\ book' = new
  <2>1. ReadBack(t) \in Text \ {<<>>}
    BY <1>2, ReadBackText
  <2>2. book[b] \in Books /\ book[b] # None
    BY <1>2 DEF BooksOK, Editable
  <2>3. book'[b] = [book[b] EXCEPT !.title = ReadBack(t)] /\ \A x \in BookIds : x # b => book'[x] = book[x]
    BY <1>2 DEF BooksOK
  <2>4. book'[b] \in Books
    BY <2>1, <2>2, <2>3 DEF Books
  <2>5. book'[b] # None
    BY <2>4, BookNotNone
  <2> QED
    BY <2>2, <2>3, <2>5
<1> QED
  BY <1>1, <1>2

\* One round of the loop of a bulk command.
LEMMA Round ==
  ASSUME Kept, BulkOnly, NEW f \in Fids, EditNext(f)
  PROVE  LET b == Head(visit[f])
             list == Wanted(running[f], found[f][b]) IN
         /\ visit[f] \in Seq(Nat) /\ visit[f] # <<>> /\ b \in Nat
         /\ running[f] \in Commands /\ running[f] # None /\ running[f].op # "delete"
         /\ visit' = [visit EXCEPT ![f] = Tail(@)]
         /\ UNCHANGED <<running, found, fidvars>>
         /\ \/ /\ b \notin DOMAIN found[f]
               /\ result' = [result EXCEPT ![f].errs = @ \union {b}]
               /\ UNCHANGED <<book, before, failures>>
            \/ /\ b \in DOMAIN found[f] /\ list = None
               /\ result' = [result EXCEPT ![f].skipped = @ + 1]
               /\ UNCHANGED <<book, before, failures>>
            \/ /\ b \in DOMAIN found[f] /\ b \in BookIds
               /\ list # None /\ list \in Seq(Line \ {<<>>})
               /\ SetTags(b, list)
               /\ result' = IF Editable(b) /\ ValidTags(list) /\ failures' = failures
                            THEN [result EXCEPT ![f].affected = @ + 1]
                            ELSE [result EXCEPT ![f].errs = @ \union {b}]
               /\ Disturb(f)
<1> DEFINE b == Head(visit[f])
           list == Wanted(running[f], found[f][b])
<1>1. visit[f] # <<>> /\ visit[f] \in Seq(Nat) /\ running[f] # None /\ running[f] \in Commands
  BY DEF Kept, CommandsOK, EditNext
<1>2. b \in Nat
  BY <1>1
<1>3. running[f].op # "delete"
  BY <1>1 DEF BulkOnly
<1>4. b \in DOMAIN found[f] => b \in BookIds /\ list \in Seq(Line \ {<<>>}) \union {None}
  <2> SUFFICES ASSUME b \in DOMAIN found[f]
               PROVE  b \in BookIds /\ list \in Seq(Line \ {<<>>}) \union {None}
    OBVIOUS
  <2>1. b \in BookIds /\ found[f][b] \in TagLists
    BY DEF Kept, CommandsOK
  <2> QED
    BY <1>1, <1>3, <2>1, WantedLines
<1>5. /\ visit' = [visit EXCEPT ![f] = Tail(@)]
      /\ UNCHANGED <<running, found, fidvars>>
  BY DEF EditNext
<1>6. \/ /\ b \notin DOMAIN found[f]
         /\ result' = [result EXCEPT ![f].errs = @ \union {b}]
         /\ UNCHANGED <<book, before, failures>>
      \/ /\ b \in DOMAIN found[f] /\ list = None
         /\ result' = [result EXCEPT ![f].skipped = @ + 1]
         /\ UNCHANGED <<book, before, failures>>
      \/ /\ b \in DOMAIN found[f]
         /\ list # None
         /\ SetTags(b, list)
         /\ result' = IF Editable(b) /\ ValidTags(list) /\ failures' = failures
                      THEN [result EXCEPT ![f].affected = @ + 1]
                      ELSE [result EXCEPT ![f].errs = @ \union {b}]
         /\ Disturb(f)
  BY DEF EditNext
<1> HIDE DEF b, list
<1>7. b \in DOMAIN found[f] /\ list # None => b \in BookIds /\ list \in Seq(Line \ {<<>>})
  BY <1>4
<1> QED
  BY <1>1, <1>2, <1>3, <1>5, <1>6, <1>7 DEF b, list

\* No step undoes a failure.
LEMMA FailuresGrow ==
  ASSUME Kept, [Next]_vars
  PROVE  failures' = 0 => failures = 0
<1>0. failures \in 0 .. MaxFailures /\ MaxFailures \in Nat
  BY FieldFilesAssumption DEF Kept, CountsOK
<1>1. ASSUME NEW f \in Fids, Close(f) PROVE failures' >= failures
  <2>1. opened[f].field \in Fields
    <3>1. opened[f] \in Opens
      BY <1>1 DEF Kept, FidsOK, Close, CloseField
    <3> QED
      BY <3>1, OpensAre
  <2>2. failures' = failures \/ Set(opened[f].book, opened[f].field, Trimmed(bufs[f]))
    BY <1>1 DEF Close, CloseField
  <2> QED
    BY <1>0, <2>1, <2>2, FailuresCounted
<1>2. ASSUME NEW f \in Fids, EditNext(f) PROVE failures' >= failures
  <2>1. failures' = failures \/ \E b, list : SetTags(b, list)
    BY <1>2 DEF EditNext
  <2> QED
    BY <1>0, <2>1, FailuresCounted
<1>3. failures' = failures \/ failures' >= failures
  BY <1>1, <1>2 DEF Next, vars, libvars, Upload, AddBook, Open, OpenField, Write, WriteField, Execute,
                    DeleteBook, Finish
<1>4. failures' = failures \/ failures' \in 0 .. MaxFailures
  <2>1. ASSUME NEW f \in Fids, Close(f) PROVE failures' \in 0 .. MaxFailures
    BY <2>1, CloseKept DEF Kept, CountsOK
  <2>2. ASSUME NEW f \in Fids, EditNext(f) PROVE failures' \in 0 .. MaxFailures
    <3>1. failures' = failures \/ \E b, list : SetTags(b, list)
      BY <2>2 DEF EditNext
    <3> QED
      BY <1>0, <3>1, FailuresCounted
  <2> QED
    BY <2>1, <2>2 DEF Next, vars, libvars, Upload, AddBook, Open, OpenField, Write, WriteField, Execute,
                      DeleteBook, Finish
<1> QED
  BY <1>0, <1>3, <1>4

\* Where a rename is to another name.
RenamesDiffer == \A c \in Commands : c.op = "rename-tag" => c.tag # c.new

\* What is left of a walk after a step.
LEMMA WalkedOn ==
  ASSUME NEW X, NEW s \in Seq(X), s # <<>>, IsInjective(s)
  PROVE  /\ IsInjective(Tail(s))
         /\ Range(s) = Range(Tail(s)) \union {Head(s)}
         /\ Head(s) \notin Range(Tail(s))
<1> DEFINE N == Len(s)
           t == Tail(s)
<1>1. /\ N \in Nat \ {0} /\ DOMAIN s = 1 .. N /\ DOMAIN t = 1 .. N - 1
      /\ \A n \in 1 .. N - 1 : t[n] = s[n + 1]
      /\ Head(s) = s[1]
  OBVIOUS
<1> HIDE DEF N, t
<1>2. \A n \in 1 .. N - 1 : n + 1 \in 1 .. N /\ n + 1 # 1
  BY <1>1
<1>3. \A n \in 1 .. N : n = 1 \/ (n - 1 \in 1 .. N - 1 /\ (n - 1) + 1 = n)
  BY <1>1
<1>4. IsInjective(t)
  <2> SUFFICES ASSUME NEW m \in 1 .. N - 1, NEW n \in 1 .. N - 1, t[m] = t[n] PROVE m = n
    BY <1>1 DEF IsInjective
  <2>1. s[m + 1] = s[n + 1] /\ m + 1 \in DOMAIN s /\ n + 1 \in DOMAIN s
    BY <1>1, <1>2
  <2>2. m + 1 = n + 1
    BY <2>1 DEF IsInjective
  <2> QED
    BY <1>1, <2>2
<1>5. Head(s) \notin Range(t)
  BY <1>1, <1>2 DEF Range, IsInjective
<1>6. Range(s) = Range(t) \union {Head(s)}
  <2>1. \A x \in Range(s) : x \in Range(t) \/ x = Head(s)
    <3> SUFFICES ASSUME NEW n \in 1 .. N PROVE s[n] \in Range(t) \/ s[n] = Head(s)
      BY <1>1 DEF Range
    <3>1. CASE n = 1
      BY <1>1, <3>1
    <3>2. CASE n - 1 \in 1 .. N - 1 /\ (n - 1) + 1 = n
      <4>1. t[n - 1] = s[n]
        BY <1>1, <3>2
      <4> QED
        BY <1>1, <3>2, <4>1 DEF Range
    <3> QED
      BY <1>3, <3>1, <3>2
  <2>2. \A x \in Range(t) : x \in Range(s)
    BY <1>1, <1>2 DEF Range
  <2>3. 1 \in 1 .. N
    BY <1>1
  <2>4. Head(s) \in Range(s)
    BY <1>1, <2>3 DEF Range
  <2> QED
    BY <2>1, <2>2, <2>4
<1> QED
  BY <1>4, <1>5, <1>6 DEF t

\* Who does nothing stays on course while no book changes.
LEMMA CourseSame ==
  ASSUME NEW f \in Fids, OnCourse(f), book' = book, before'[f] = before[f], running'[f] = running[f],
         visit'[f] = visit[f], found'[f] = found[f], result'[f] = result[f],
         failures' = 0 => failures = 0
  PROVE  OnCourse(f)'
<1>1. There(f)' = There(f) /\ ToVisit(f)' = ToVisit(f)
  BY DEF There, ToVisit
<1>2. \A b : OldTags(f, b)' = OldTags(f, b) /\ NewTags(f, b)' = NewTags(f, b)
  BY DEF OldTags, NewTags
<1>3. {b \in There(f) \ (ToVisit(f) \union result[f].errs) : NewTags(f, b) # OldTags(f, b)}'
        = {b \in There(f) \ (ToVisit(f) \union result[f].errs) : NewTags(f, b) # OldTags(f, b)}
  BY <1>1, <1>2
<1>4. (/\ before[f] \in [BookIds -> Books \union {None}]
       /\ IsInjective(visit[f])
       /\ DOMAIN found[f] = {b \in There(f) :
            /\ running[f].op = "rename-tag" => Has(before[f][b].tags, running[f].tag)
            /\ running[f].op # "rename-tag" => running[f].ids = None \/ b \in Range(running[f].ids)}
       /\ \A b \in DOMAIN found[f] : found[f][b] = before[f][b].tags
       /\ ToVisit(f) \subseteq IF ByList(running[f]) THEN Range(running[f].ids) ELSE DOMAIN found[f])'
  BY <1>1 DEF OnCourse
<1>5. (\A b \in BookIds :
         IF b \in There(f)
         THEN /\ book[b] # None
              /\ IF b \in ToVisit(f) \union result[f].errs
                 THEN book[b].tags = before[f][b].tags
                 ELSE Range(book[b].tags) = NewTags(f, b)
         ELSE book[b] = None)'
  BY <1>1, <1>2 DEF OnCourse
<1>6. \A b : Refuses(f, b)' = Refuses(f, b)
  BY <1>2 DEF Refuses
<1>7. (/\ result[f].errs \ There(f) = IF ByList(running[f]) THEN (Range(running[f].ids) \ There(f)) \ ToVisit(f)
                                                        ELSE {}
       /\ result[f].errs \intersect ToVisit(f) = {}
       /\ \A b \in There(f) \ ToVisit(f) : Refuses(f, b) => b \in result[f].errs
       /\ failures = 0 => \A b \in result[f].errs \intersect There(f) : Refuses(f, b))'
  BY <1>1, <1>6 DEF OnCourse
<1>8. (result[f].affected =
         Cardinality({b \in There(f) \ (ToVisit(f) \union result[f].errs) : NewTags(f, b) # OldTags(f, b)}))'
  BY <1>3 DEF OnCourse
<1> QED
  BY <1>4, <1>5, <1>7, <1>8 DEF OnCourse

LEMMA CourseSet ==
  ASSUME Kept, Coursed, NEW f \in Fids, NEW c \in Commands, Execute(f, c)
  PROVE  OnCourse(f)'
<1> DEFINE T == {b \in BookIds : book[b] # None}
           R == Range(Visited(c))
<1>1. /\ running'[f] = c /\ visit'[f] = Visited(c) /\ before'[f] = book /\ book' = book
      /\ found'[f] = [b \in Matching(c) |-> book[b].tags] /\ result'[f] = NoResult
      /\ c.op # "delete"
  BY DEF Execute, Kept, CommandsOK, Coursed
<1>2. There(f)' = T /\ ToVisit(f)' = R
  BY <1>1 DEF There, ToVisit
<1>3. /\ IsInjective(Visited(c))
      /\ R = IF ByList(c) THEN Range(c.ids) ELSE Matching(c)
  BY <1>1, VisitedOnce
<1>4. Matching(c) = {b \in T : /\ c.op = "rename-tag" => Has(book[b].tags, c.tag)
                               /\ c.op # "rename-tag" => c.ids = None \/ b \in Range(c.ids)}
  BY DEF Matching
<1>5. \A b : OldTags(f, b)' = Range(book[b].tags)
  BY <1>1 DEF OldTags
<1>6. \A b : NewTags(f, b)' = IF b \in Named(c) THEN Asked(c, Range(book[b].tags)) ELSE Range(book[b].tags)
  BY <1>1, <1>5 DEF NewTags
<1> HIDE DEF T, R
<1>7. ASSUME NEW b \in T \ R PROVE NewTags(f, b)' = Range(book[b].tags)
  <2>1. CASE c.op = "rename-tag"
    <3>1. ~Has(book[b].tags, c.tag)
      BY <1>3, <1>4, <2>1 DEF ByList
    <3>2. Asked(c, Range(book[b].tags)) = Range(book[b].tags)
      BY <2>1, <3>1 DEF Asked, Has
    <3> QED
      BY <1>6, <3>2
  <2>2. CASE c.op # "rename-tag"
    <3>1. b \notin Named(c)
      BY <1>3, <1>4, <2>2 DEF ByList, Named
    <3> QED
      BY <1>6, <3>1
  <2> QED
    BY <2>1, <2>2
<1>8. {b \in T \ R : NewTags(f, b)' # OldTags(f, b)'} = {}
  BY <1>5, <1>7
<1>9. NoResult.affected = 0 /\ NoResult.errs = {}
  BY DEF NoResult
<1>10. Cardinality({}) = 0
  BY FS_EmptySet
<1>11. \A b \in BookIds : b \in T <=> book[b] # None
  BY DEF T
<1>12. R \subseteq IF ByList(c) THEN Range(c.ids) ELSE Matching(c)
  BY <1>3
<1>13. ByList(c) => (Range(c.ids) \ T) \ R = {}
  BY <1>3
<1>14. book \in [BookIds -> Books \union {None}]
  BY DEF Kept, BooksOK
<1>15. T = {b \in BookIds : book[b] # None}
  BY DEF T
<1>16. ({b \in There(f) \ (ToVisit(f) \union result[f].errs) : NewTags(f, b) # OldTags(f, b)})' = {}
  BY <1>1, <1>2, <1>8, <1>9
<1>17. (/\ DOMAIN found[f] = {b \in There(f) : /\ running[f].op = "rename-tag" => Has(before[f][b].tags, running[f].tag)
                                               /\ running[f].op # "rename-tag" => running[f].ids = None \/ b \in Range(running[f].ids)}
        /\ \A b \in DOMAIN found[f] : found[f][b] = before[f][b].tags)'
  BY <1>1, <1>2, <1>4
<1>18. (\A b \in BookIds :
          IF b \in There(f)
          THEN /\ book[b] # None
               /\ IF b \in ToVisit(f) \union result[f].errs
                  THEN book[b].tags = before[f][b].tags
                  ELSE Range(book[b].tags) = NewTags(f, b)
          ELSE book[b] = None)'
  BY <1>1, <1>2, <1>7, <1>9, <1>11
<1>19. (/\ result[f].errs \ There(f) = IF ByList(running[f]) THEN (Range(running[f].ids) \ There(f)) \ ToVisit(f)
                                                         ELSE {}
        /\ result[f].errs \intersect ToVisit(f) = {}
        /\ \A b \in There(f) \ ToVisit(f) : Refuses(f, b) => b \in result[f].errs
        /\ failures = 0 => \A b \in result[f].errs \intersect There(f) : Refuses(f, b))'
  <2>1. \A b \in T \ R : ~Refuses(f, b)'
    BY <1>5, <1>7 DEF Refuses
  <2> QED
    BY <1>1, <1>2, <1>9, <1>13, <2>1
<1> QED
  BY <1>1, <1>2, <1>3, <1>9, <1>10, <1>12, <1>14, <1>16, <1>17, <1>18, <1>19 DEF OnCourse

LEMMA CourseRound ==
  ASSUME RenamesDiffer, Kept, BulkOnly, NEW f \in Fids, OnCourse(f), EditNext(f),
         before'[f] = before[f], failures' = 0 => failures = 0
  PROVE  OnCourse(f)'
<1> DEFINE c == running[f]
           b == Head(visit[f])
           list == Wanted(c, found[f][b])
           T == There(f)
           R == ToVisit(f)
           R1 == Range(Tail(visit[f]))
           E == result[f].errs
           E1 == result'[f].errs
           Done(r) == {x \in T \ r : NewTags(f, x) # OldTags(f, x)}
<1>1. /\ visit[f] \in Seq(Nat) /\ visit[f] # <<>> /\ c \in Commands /\ c.op # "delete"
      /\ visit' = [visit EXCEPT ![f] = Tail(@)] /\ running' = running /\ found' = found
  BY Round
<1>2. visit'[f] = Tail(visit[f])
  BY <1>1 DEF Kept, CommandsOK
<1>3. There(f)' = T /\ ToVisit(f)' = R1
  BY <1>2 DEF There, ToVisit
<1>4. \A x : OldTags(f, x)' = OldTags(f, x) /\ NewTags(f, x)' = NewTags(f, x)
  BY <1>1 DEF OldTags, NewTags
<1>5. IsInjective(Tail(visit[f])) /\ R = R1 \union {b} /\ b \notin R1
  BY <1>1, WalkedOn DEF OnCourse, ToVisit
<1>6. /\ before[f] \in [BookIds -> Books \union {None}]
      /\ DOMAIN found[f] = {x \in T : /\ c.op = "rename-tag" => Has(before[f][x].tags, c.tag)
                                      /\ c.op # "rename-tag" => c.ids = None \/ x \in Range(c.ids)}
      /\ \A x \in DOMAIN found[f] : found[f][x] = before[f][x].tags
      /\ R \subseteq IF ByList(c) THEN Range(c.ids) ELSE DOMAIN found[f]
  BY DEF OnCourse
<1>7. \A x \in BookIds :
        IF x \in T
        THEN /\ book[x] # None
             /\ IF x \in R \union E THEN book[x].tags = before[f][x].tags
                                     ELSE Range(book[x].tags) = NewTags(f, x)
        ELSE book[x] = None
  BY DEF OnCourse
<1>8. /\ result[f].affected = Cardinality(Done(R \union E))
      /\ E \ T = IF ByList(c) THEN (Range(c.ids) \ T) \ R ELSE {}
      /\ E \intersect R = {}
      /\ \A x \in T \ R : Refuses(f, x) => x \in E
      /\ failures = 0 => \A x \in E \intersect T : Refuses(f, x)
  BY DEF OnCourse
<1>9. (/\ before[f] \in [BookIds -> Books \union {None}]
       /\ IsInjective(visit[f])
       /\ DOMAIN found[f] = {x \in There(f) : /\ running[f].op = "rename-tag" => Has(before[f][x].tags, running[f].tag)
                                              /\ running[f].op # "rename-tag" => running[f].ids = None \/ x \in Range(running[f].ids)}
       /\ \A x \in DOMAIN found[f] : found[f][x] = before[f][x].tags)'
  BY <1>1, <1>2, <1>3, <1>5, <1>6
<1>10. R1 \subseteq IF ByList(c) THEN Range(c.ids) ELSE DOMAIN found[f]
  BY <1>5, <1>6
<1>11. ({x \in There(f) \ (ToVisit(f) \union result[f].errs) : NewTags(f, x) # OldTags(f, x)})'
         = Done(R1 \union E1)
  BY <1>3, <1>4
<1>12. result \in [Fids -> Results] /\ result[f] \in Results
  BY DEF Kept, CommandsOK
<1>13. T \subseteq BookIds
  BY DEF There
<1>14. SUFFICES /\ \A x \in BookIds :
                     IF x \in T
                     THEN /\ book'[x] # None
                          /\ IF x \in R1 \union E1 THEN book'[x].tags = before[f][x].tags
                                                   ELSE Range(book'[x].tags) = NewTags(f, x)
                     ELSE book'[x] = None
                /\ result'[f].affected = Cardinality(Done(R1 \union E1))
                /\ E1 \ T = IF ByList(c) THEN (Range(c.ids) \ T) \ R1 ELSE {}
                /\ E1 \intersect R1 = {}
                /\ \A x \in T \ R1 : Refuses(f, x) => x \in E1
                /\ failures' = 0 => \A x \in E1 \intersect T : Refuses(f, x)
  <2>0. \A x : Refuses(f, x)' = Refuses(f, x)
    BY <1>1, <1>4 DEF Refuses
  <2> HIDE DEF T, R, R1, Done, c
  <2>1. (\A x \in BookIds :
           IF x \in There(f)
           THEN /\ book[x] # None
                /\ IF x \in ToVisit(f) \union result[f].errs
                   THEN book[x].tags = before[f][x].tags
                   ELSE Range(book[x].tags) = NewTags(f, x)
           ELSE book[x] = None)'
    BY <1>3, <1>4
  <2>2. (result[f].affected =
           Cardinality({x \in There(f) \ (ToVisit(f) \union result[f].errs) : NewTags(f, x) # OldTags(f, x)}))'
    BY <1>11
  <2>3. (/\ result[f].errs \ There(f) = IF ByList(running[f]) THEN (Range(running[f].ids) \ There(f)) \ ToVisit(f)
                                                         ELSE {}
         /\ result[f].errs \intersect ToVisit(f) = {}
         /\ \A x \in There(f) \ ToVisit(f) : Refuses(f, x) => x \in result[f].errs
         /\ failures = 0 => \A x \in result[f].errs \intersect There(f) : Refuses(f, x))'
    BY <1>1, <1>3, <2>0 DEF c
  <2>4. (ToVisit(f) \subseteq IF ByList(running[f]) THEN Range(running[f].ids) ELSE DOMAIN found[f])'
    BY <1>1, <1>3, <1>10 DEF c
  <2> QED
    BY <1>9, <2>1, <2>2, <2>3, <2>4 DEF OnCourse
<1>15. b \in DOMAIN found[f] =>
         /\ b \in T /\ found[f][b] = before[f][b].tags /\ book[b].tags = before[f][b].tags
         /\ found[f][b] \in TagLists /\ b \in Named(c)
         /\ c.op = "rename-tag" => Has(found[f][b], c.tag)
  <2> SUFFICES ASSUME b \in DOMAIN found[f]
               PROVE  /\ b \in T /\ found[f][b] = before[f][b].tags /\ book[b].tags = before[f][b].tags
                      /\ found[f][b] \in TagLists /\ b \in Named(c)
                      /\ c.op = "rename-tag" => Has(found[f][b], c.tag)
    OBVIOUS
  <2> HIDE DEF T, R, R1, b, c, Done
  <2>1. b \in T /\ found[f][b] = before[f][b].tags
    BY <1>6
  <2>2. book[b].tags = before[f][b].tags
    BY <1>5, <1>7, <1>13, <2>1
  <2>3. found[f][b] \in TagLists
    BY DEF Kept, CommandsOK
  <2>4. b \in Named(c) /\ (c.op = "rename-tag" => Has(found[f][b], c.tag))
    BY <1>6, <1>13, <2>1 DEF Named
  <2> QED
    BY <2>1, <2>2, <2>3, <2>4
<1>16. CASE b \notin DOMAIN found[f]
  <2>1. book' = book /\ failures' = failures /\ result' = [result EXCEPT ![f].errs = @ \union {b}]
    BY <1>16, Round
  <2> HIDE DEF T, R, R1, b, c
  <2>2. ByList(c) /\ b \in Range(c.ids) /\ b \notin T
    BY <1>5, <1>6, <1>16 DEF ByList
  <2>3. E1 = E \union {b} /\ result'[f].affected = result[f].affected
    BY <1>12, <2>1 DEF Results
  <2> HIDE DEF E, E1
  <2>4. Done(R1 \union E1) = Done(R \union E)
    BY <1>5, <2>2, <2>3
  <2> HIDE DEF Done
  <2> QED
    BY <1>5, <1>7, <1>8, <2>1, <2>2, <2>3, <2>4
<1>17. CASE b \in DOMAIN found[f] /\ list = None
  <2>1. book' = book /\ failures' = failures /\ result' = [result EXCEPT ![f].skipped = @ + 1]
    BY <1>17, Round
  <2>2. Asked(c, OldTags(f, b)) = OldTags(f, b)
    <3>1. OldTags(f, b) = Range(found[f][b])
      BY <1>15, <1>17 DEF OldTags
    <3>2. c.op = "rename-tag" => c.tag # c.new
      BY <1>1 DEF RenamesDiffer
    <3> HIDE DEF c, b
    <3> QED
      BY <1>1, <1>15, <1>17, <3>1, <3>2, WantedAsked
  <2>3. NewTags(f, b) = OldTags(f, b)
    BY <2>2 DEF NewTags
  <2>4. OldTags(f, b) = Range(book[b].tags) /\ ~Refuses(f, b)
    BY <1>15, <1>17, <2>3 DEF OldTags, Refuses
  <2> HIDE DEF T, R, R1, b, c, list
  <2>5. E1 = E /\ result'[f].affected = result[f].affected
    BY <1>12, <2>1 DEF Results
  <2> HIDE DEF E, E1
  <2>6. Done(R1 \union E1) = Done(R \union E)
    BY <1>5, <2>3, <2>5
  <2> HIDE DEF Done
  <2>7. (Range(c.ids) \ T) \ R = (Range(c.ids) \ T) \ R1
    BY <1>5, <1>15, <1>17
  <2>8. ASSUME NEW x \in BookIds
        PROVE  IF x \in T
               THEN /\ book'[x] # None
                    /\ IF x \in R1 \union E1 THEN book'[x].tags = before[f][x].tags
                                             ELSE Range(book'[x].tags) = NewTags(f, x)
               ELSE book'[x] = None
    <3>1. CASE x = b
      BY <1>5, <1>7, <1>8, <1>15, <1>17, <2>1, <2>3, <2>4, <2>5, <3>1
    <3>2. CASE x # b
      BY <1>5, <1>7, <2>1, <2>5, <3>2
    <3> QED
      BY <3>1, <3>2
  <2>9. \A x \in T \ R1 : Refuses(f, x) => x \in E1
    BY <1>5, <1>8, <2>4, <2>5
  <2> QED
    BY <1>5, <1>8, <2>1, <2>5, <2>6, <2>7, <2>8, <2>9
<1>18. CASE b \in DOMAIN found[f] /\ list # None
  <2> DEFINE done == Editable(b) /\ ValidTags(list) /\ failures' = failures
  <2>1. /\ b \in BookIds /\ list \in Seq(Line \ {<<>>}) /\ SetTags(b, list)
        /\ result' = IF done THEN [result EXCEPT ![f].affected = @ + 1]
                             ELSE [result EXCEPT ![f].errs = @ \union {b}]
    BY <1>18, Round
  <2>2. c.op = "rename-tag" => c.tag # c.new
    BY <1>1 DEF RenamesDiffer
  <2>3. OldTags(f, b) = Range(found[f][b])
    BY <1>15, <1>18 DEF OldTags
  <2>4. Range(list) = Asked(c, OldTags(f, b)) /\ Asked(c, OldTags(f, b)) # OldTags(f, b)
    <3> HIDE DEF c, b
    <3> QED
      BY <1>1, <1>15, <1>18, <2>2, <2>3, WantedAsked
  <2>5. NewTags(f, b) = Range(list) /\ NewTags(f, b) # OldTags(f, b)
    BY <1>15, <1>18, <2>4 DEF NewTags
  <2>6. Refuses(f, b) <=> ~ValidTags(list)
    BY <1>15, <1>18, <2>5 DEF Refuses
  <2> HIDE DEF T, R, R1, b, c, list, Done
  <2>7. Editable(b)
    BY <1>7, <1>15, <1>18, <2>1 DEF Editable
  <2>8. /\ \A x \in BookIds : book'[x] = None <=> book[x] = None
        /\ \A x \in BookIds : x # b => book'[x] = book[x]
        /\ done => book'[b].tags = list
        /\ ~done => book' = book
    BY <2>1, TagsEdited DEF Kept
  <2> HIDE DEF done
  <2>9. IF done THEN E1 = E /\ result'[f].affected = result[f].affected + 1
                ELSE E1 = E \union {b} /\ result'[f].affected = result[f].affected
    BY <1>12, <2>1 DEF Results
  <2> HIDE DEF E, E1
  <2>10. b \in T /\ b \notin E
    BY <1>5, <1>8, <1>15, <1>18
  <2>11. (Range(c.ids) \ T) \ R = (Range(c.ids) \ T) \ R1
    BY <1>5, <2>10
  <2>12. CASE done
    <3>1. E1 = E /\ result'[f].affected = result[f].affected + 1 /\ book'[b].tags = list
      BY <2>8, <2>9, <2>12
    <3>2. Done(R1 \union E1) = Done(R \union E) \union {b} /\ b \notin Done(R \union E)
      BY <1>5, <2>5, <2>10, <3>1 DEF Done
    <3>3. IsFiniteSet(Done(R \union E))
      <4>1. Done(R \union E) \subseteq BookIds
        BY <1>13 DEF Done
      <4> QED
        BY <4>1, FieldFilesAssumption, FS_Subset
    <3>4. Cardinality(Done(R1 \union E1)) = Cardinality(Done(R \union E)) + 1
      BY <3>2, <3>3, FS_AddElement
    <3>5. ~Refuses(f, b) /\ failures' = failures
      BY <2>6, <2>12 DEF done
    <3>6. ASSUME NEW x \in BookIds
          PROVE  IF x \in T
                 THEN /\ book'[x] # None
                      /\ IF x \in R1 \union E1 THEN book'[x].tags = before[f][x].tags
                                               ELSE Range(book'[x].tags) = NewTags(f, x)
                 ELSE book'[x] = None
      <4>1. CASE x = b
        BY <1>5, <1>7, <2>5, <2>8, <2>10, <3>1, <4>1
      <4>2. CASE x # b
        BY <1>5, <1>7, <2>8, <3>1, <4>2
      <4> QED
        BY <4>1, <4>2
    <3>7. \A x \in T \ R1 : Refuses(f, x) => x \in E1
      BY <1>5, <1>8, <3>1, <3>5
    <3> QED
      BY <1>5, <1>8, <2>11, <3>1, <3>4, <3>5, <3>6, <3>7
  <2>13. CASE ~done
    <3>1. E1 = E \union {b} /\ result'[f].affected = result[f].affected /\ book' = book
      BY <2>8, <2>9, <2>13
    <3>2. R1 \union E1 = R \union E
      BY <1>5, <3>1
    <3>3. ASSUME failures' = 0 PROVE \A x \in E1 \intersect T : Refuses(f, x)
      <4>1. failures = 0 /\ failures' = failures
        BY <3>3
      <4>2. Refuses(f, b)
        BY <2>6, <2>7, <2>13, <4>1 DEF done
      <4> QED
        BY <1>8, <3>1, <4>1, <4>2
    <3>4. E1 \ T = E \ T
      BY <2>10, <3>1
    <3>5. \A x \in T \ R1 : Refuses(f, x) => x \in E1
      BY <1>5, <1>8, <3>1
    <3>6. E1 \intersect R1 = {}
      BY <1>5, <1>8, <3>1
    <3> QED
      BY <1>7, <1>8, <2>11, <3>1, <3>2, <3>3, <3>4, <3>5, <3>6
  <2> QED
    BY <2>12, <2>13
<1> QED
  BY <1>16, <1>17, <1>18

\* What Coursed says of one fid.
FidCoursed(f) ==
  /\ running[f] = None => before[f] = None
  /\ running[f] # None => opened[f] = None
  /\ running[f] # None /\ before[f] # None => OnCourse(f)

LEMMA CoursedFirst == Init => Coursed
  BY DEF Init, CtlInit, FieldsInit, Coursed

\* A fid that does nothing, while no book changes or it is told of the change.
LEMMA FidCoursedSame ==
  ASSUME NEW f \in Fids, FidCoursed(f), running'[f] = running[f], visit'[f] = visit[f],
         found'[f] = found[f], result'[f] = result[f], running[f] # None => opened'[f] = opened[f],
         (before'[f] = before[f] /\ book' = book) \/ before'[f] = None,
         failures' = 0 => failures = 0
  PROVE  FidCoursed(f)'
  BY CourseSame DEF FidCoursed

LEMMA CoursedNext ==
  ASSUME RenamesDiffer, Kept, BulkOnly, Coursed, [Next]_vars
  PROVE  Coursed'
<1>1. /\ before = [f \in Fids |-> before[f]]
      /\ opened \in [Fids -> Opens \union {None}]
      /\ running \in [Fids -> Commands \union {None}] /\ visit \in [Fids -> Seq(Nat)]
      /\ result \in [Fids -> Results] /\ found = [f \in Fids |-> found[f]]
  BY DEF Kept, FidsOK, CommandsOK, Coursed
<1>2. before' = [f \in Fids |-> before'[f]]
  <2>1. \A f : Disturb(f) => before' = [g \in Fids |-> before'[g]]
    BY DEF Disturb
  <2>2. before' = before => before' = [g \in Fids |-> before'[g]]
    BY <1>1
  <2>3. \A f \in Fids : \A v : before' = [before EXCEPT ![f] = v] => before' = [g \in Fids |-> before'[g]]
    BY <1>1
  <2> QED
    BY <2>1, <2>2, <2>3 DEF Next, vars, ctlvars, Upload, Open, Write, Close, Execute, DeleteBook, EditNext, Finish
<1>3. ASSUME NEW f \in Fids PROVE FidCoursed(f)'
  <2>0. FidCoursed(f)
    BY DEF Coursed, FidCoursed
  <2>00. failures' = 0 => failures = 0
    BY FailuresGrow
  <2>1. CASE UNCHANGED vars
    BY <2>0, <2>00, <2>1, FidCoursedSame DEF vars, ctlvars, fidvars
  <2>2. ASSUME NEW g \in Fids, NEW o \in Opens, Open(g, o) PROVE FidCoursed(f)'
    <3>1. /\ running[g] = None /\ opened' = [opened EXCEPT ![g] = o]
          /\ UNCHANGED ctlvars /\ book' = book
      BY <2>2, OpensAre DEF Open, OpenField
    <3>2. running[f] # None => opened'[f] = opened[f]
      BY <1>1, <3>1
    <3> QED
      BY <2>0, <2>00, <3>1, <3>2, FidCoursedSame DEF ctlvars
  <2>3. ASSUME NEW g \in Fids, NEW off \in Offsets, NEW data \in Chunks, Write(g, off, data)
        PROVE  FidCoursed(f)'
    BY <2>0, <2>00, <2>3, FidCoursedSame DEF Write, WriteField, ctlvars
  <2>4. ASSUME NEW g \in Fids, Close(g) PROVE FidCoursed(f)'
    <3>1. /\ opened[g] # None /\ opened' = [opened EXCEPT ![g] = None]
          /\ UNCHANGED <<running, visit, found, result>>
          /\ (before' = before /\ book' = book) \/ Disturb(g)
      BY <2>4 DEF Close, CloseField, Clunked
    <3>2. running[f] # None => opened'[f] = opened[f]
      BY <1>1, <2>0, <3>1 DEF FidCoursed
    <3>3. (before'[f] = before[f] /\ book' = book) \/ before'[f] = None
      <4>1. running[g] = None /\ before[g] = None
        BY <3>1 DEF Coursed
      <4> QED
        BY <3>1, <4>1 DEF Disturb
    <3> QED
      BY <2>0, <2>00, <3>1, <3>2, <3>3, FidCoursedSame
  <2>5. ASSUME NEW g \in Fids, NEW c \in Commands, Execute(g, c) PROVE FidCoursed(f)'
    <3>1. /\ opened[g] = None /\ opened' = opened /\ book' = book
          /\ running' = [running EXCEPT ![g] = c]
          /\ visit' = [visit EXCEPT ![g] = Visited(c)]
          /\ found' = [found EXCEPT ![g] = [b \in Matching(c) |-> book[b].tags]]
          /\ result' = [result EXCEPT ![g] = NoResult]
          /\ before' = [before EXCEPT ![g] = book]
      BY <2>5 DEF Execute, Begun, fidvars
    <3>2. CASE f = g
      <4>1. OnCourse(f)'
        BY <2>5, <3>2, CourseSet
      <4>2. opened'[f] = None
        BY <3>1, <3>2
      <4>3. running'[f] = c
        BY <1>1, <3>1, <3>2
      <4>4. running'[f] # None
        BY <4>3, CtlAssumption
      <4> QED
        BY <4>1, <4>2, <4>4 DEF FidCoursed
    <3>3. CASE f # g
      <4>1. /\ running'[f] = running[f] /\ visit'[f] = visit[f] /\ found'[f] = found[f]
            /\ result'[f] = result[f] /\ before'[f] = before[f]
        BY <1>1, <3>1, <3>3
      <4> QED
        BY <2>0, <2>00, <3>1, <4>1, FidCoursedSame
    <3> QED
      BY <3>2, <3>3
  <2>6. ASSUME NEW g \in Fids, NEW c \in Commands, DeleteBook(g, c) PROVE FidCoursed(f)'
    <3>1. /\ running[g] = None /\ Disturb(g)
          /\ UNCHANGED <<running, found, visit, result, opened>>
      BY <2>6 DEF DeleteBook, Begun, fidvars
    <3>2. before'[f] = None
      BY <3>1 DEF Disturb, Coursed
    <3> QED
      BY <2>0, <2>00, <3>1, <3>2, FidCoursedSame
  <2>7. ASSUME NEW g \in Fids, EditNext(g) PROVE FidCoursed(f)'
    <3>1. /\ running' = running /\ found' = found /\ opened' = opened
          /\ visit' = [visit EXCEPT ![g] = Tail(@)]
          /\ (book' = book /\ before' = before) \/ Disturb(g)
          /\ running[g] # None
      BY <2>7 DEF EditNext, fidvars
    <3>2. CASE f = g
      <4>1. before'[f] = before[f]
        BY <3>1, <3>2 DEF Disturb
      <4>2. before[f] # None => OnCourse(f)'
        BY <2>0, <2>00, <2>7, <3>1, <3>2, <4>1, CourseRound DEF FidCoursed
      <4> QED
        BY <2>0, <2>00, <3>1, <4>1, <4>2 DEF FidCoursed
    <3>3. CASE f # g
      <4>1. \/ \E b : result' = [result EXCEPT ![g].errs = @ \union {b}]
            \/ result' = [result EXCEPT ![g].skipped = @ + 1]
            \/ result' = [result EXCEPT ![g].affected = @ + 1]
        BY <2>7, Round
      <4>2. result'[f] = result[f] /\ visit'[f] = visit[f]
        BY <1>1, <3>1, <3>3, <4>1
      <4>3. (before'[f] = before[f] /\ book' = book) \/ before'[f] = None
        BY <3>1, <3>3 DEF Disturb
      <4> QED
        BY <2>0, <2>00, <3>1, <4>2, <4>3, FidCoursedSame
    <3> QED
      BY <3>2, <3>3
  <2>8. ASSUME NEW g \in Fids, Finish(g) PROVE FidCoursed(f)'
    <3>1. /\ book' = book /\ visit' = visit /\ opened' = opened
          /\ running' = [running EXCEPT ![g] = None]
          /\ found' = [found EXCEPT ![g] = <<>>]
          /\ result' = [result EXCEPT ![g] = NoResult]
          /\ before' = [before EXCEPT ![g] = None]
      BY <2>8 DEF Finish, fidvars
    <3>2. CASE f = g
      <4>1. running'[f] = None /\ before'[f] = None
        BY <1>1, <3>1, <3>2
      <4> QED
        BY <4>1 DEF FidCoursed
    <3>3. CASE f # g
      <4>1. /\ running'[f] = running[f] /\ found'[f] = found[f]
            /\ result'[f] = result[f] /\ before'[f] = before[f]
        BY <1>1, <3>1, <3>3
      <4> QED
        BY <2>0, <2>00, <3>1, <4>1, FidCoursedSame
    <3> QED
      BY <3>2, <3>3
  <2>9. ASSUME Upload PROVE FidCoursed(f)'
    <3>1. before'[f] = None /\ UNCHANGED <<running, visit, found, result, opened>>
      BY <2>9 DEF Upload, AddBook, fidvars
    <3> QED
      BY <2>0, <2>00, <3>1, FidCoursedSame
  <2> QED
    BY <2>1, <2>2, <2>3, <2>4, <2>5, <2>6, <2>7, <2>8, <2>9 DEF Next
<1> QED
  BY <1>2, <1>3 DEF Coursed, FidCoursed

\* A bulk command during which nobody else changes a book has done, when its walk
\* ends, what help says to every book it names but those it reports, which are as
\* they were, and its counts say so; it reports what is not there, what the library
\* refuses and, of an edit that failed, the book.  It must not rename a tag to
\* itself: Renamed then takes the tag away (exec.go:editSelection, renameTag).
THEOREM DoesAsSaid ==
  ASSUME RenamesDiffer
  PROVE  Spec => []DoneAsSaid
<1>1. Init => Coursed
  BY CoursedFirst
<1>2. Coursed /\ Kept /\ BulkOnly /\ [Next]_vars => Coursed'
  BY CoursedNext
<1>3. Coursed => DoneAsSaid
  <2> SUFFICES ASSUME Coursed, NEW f \in Fids, running[f] # None, visit[f] = <<>>, before[f] # None
               PROVE  LET c == running[f]
                          errs == result[f].errs
                          old(b) == Range(before[f][b].tags)
                          new(b) == IF b \in Named(c) THEN Asked(c, old(b)) ELSE old(b)
                          there == {b \in BookIds : before[f][b] # None}
                          refused == {b \in there : new(b) # old(b)
                                                     /\ ~ValidTags(Wanted(c, before[f][b].tags))} IN
                      /\ \A b \in BookIds : IF b \in there
                                            THEN Range(book[b].tags) = IF b \in errs THEN old(b) ELSE new(b)
                                            ELSE book[b] = None
                      /\ result[f].affected = Cardinality({b \in there \ errs : new(b) # old(b)})
                      /\ errs \ there = IF ByList(c) THEN Range(c.ids) \ there ELSE {}
                      /\ refused \subseteq errs
                      /\ failures = 0 => errs \intersect there = refused
    BY DEF DoneAsSaid
  <2> DEFINE E == result[f].errs
             refused == {b \in There(f) : Refuses(f, b)}
  <2>1. OnCourse(f)
    BY DEF Coursed
  <2>2. ToVisit(f) = {}
    BY DEF ToVisit, Range
  <2>3. {b \in There(f) \ (ToVisit(f) \union E) : NewTags(f, b) # OldTags(f, b)}
          = {b \in There(f) \ E : NewTags(f, b) # OldTags(f, b)}
    BY <2>2
  <2>4. \A b \in BookIds : IF b \in There(f)
                           THEN Range(book[b].tags) = IF b \in E THEN OldTags(f, b) ELSE NewTags(f, b)
                           ELSE book[b] = None
    BY <2>1, <2>2 DEF OnCourse, OldTags
  <2>5. /\ result[f].affected = Cardinality({b \in There(f) \ E : NewTags(f, b) # OldTags(f, b)})
        /\ E \ There(f) = IF ByList(running[f]) THEN Range(running[f].ids) \ There(f) ELSE {}
    BY <2>1, <2>2, <2>3 DEF OnCourse
  <2>6. refused \subseteq E /\ (failures = 0 => E \intersect There(f) = refused)
    BY <2>1, <2>2 DEF OnCourse
  <2> QED
    BY <2>4, <2>5, <2>6 DEF There, NewTags, OldTags, Refuses
<1> QED
  BY <1>1, <1>2, <1>3, AlwaysKept, PTL DEF Spec

-----------------------------------------------------------------------------
(* The counts of bulk commands, whatever others do. *)

\* A list without repeats is as long as the set it holds.
LEMMA LengthIsSize ==
  ASSUME NEW X, NEW s \in Seq(X), IsInjective(s)
  PROVE  IsFiniteSet(Range(s)) /\ Cardinality(Range(s)) = Len(s)
<1>1. DOMAIN s = 1 .. Len(s) /\ Len(s) \in Nat
  OBVIOUS
<1>2. s \in Bijection(1 .. Len(s), Range(s))
  BY <1>1 DEF Range, IsInjective, Bijection, Injection, Surjection
<1>3. IsFiniteSet(1 .. Len(s)) /\ Cardinality(1 .. Len(s)) = Len(s)
  <2>1. 1 \in Int /\ Len(s) \in Int
    BY <1>1
  <2>2. IsFiniteSet(1 .. Len(s)) /\ Cardinality(1 .. Len(s)) = IF 1 > Len(s) THEN 0 ELSE Len(s) - 1 + 1
    BY <2>1, FS_Interval
  <2> QED
    BY <1>1, <2>2
<1>4. ExistsBijection(1 .. Len(s), Range(s))
  BY <1>2 DEF ExistsBijection
<1> QED
  BY <1>3, <1>4, FS_Bijection

LEMMA TallySame ==
  ASSUME NEW f \in Fids, Tallied(f), running'[f] = running[f], visit'[f] = visit[f],
         found'[f] = found[f], result'[f] = result[f]
  PROVE  Tallied(f)'
<1>1. Chosen(f)' = Chosen(f)
  BY DEF Chosen
<1> QED
  BY <1>1 DEF Tallied

LEMMA TallySet ==
  ASSUME Kept, NEW f \in Fids, NEW c \in Commands, Execute(f, c)
  PROVE  Tallied(f)'
<1> DEFINE C == IF ByList(c) THEN Range(c.ids) ELSE Matching(c)
<1>1. /\ running'[f] = c /\ visit'[f] = Visited(c) /\ result'[f] = NoResult
      /\ DOMAIN found'[f] = Matching(c) /\ c.op # "delete"
  BY DEF Execute, Kept, CommandsOK
<1>2. IsInjective(Visited(c)) /\ Range(Visited(c)) = C
  BY <1>1, VisitedOnce
<1>3. Visited(c) \in Seq(Nat)
  <2>1. visit' \in [Fids -> Seq(Nat)]
    BY ExecuteKept DEF Kept, CommandsOK
  <2> QED
    BY <1>1, <2>1
<1>4. Chosen(f)' = C
  BY <1>1 DEF Chosen
<1> HIDE DEF C
<1>5. IsFiniteSet(C) /\ Cardinality(C) = Len(Visited(c)) /\ Len(Visited(c)) \in Nat
  BY <1>2, <1>3, LengthIsSize
<1>6. /\ NoResult.errs = {} /\ NoResult.affected = 0 /\ NoResult.skipped = 0
      /\ IsFiniteSet({}) /\ Cardinality({}) = 0
  BY FS_EmptySet DEF NoResult
<1> QED
  BY <1>1, <1>2, <1>4, <1>5, <1>6 DEF Tallied

\* A round counts the book it takes from the walk.
LEMMA TallyRound ==
  ASSUME Kept, BulkOnly, NEW f \in Fids, Tallied(f), EditNext(f)
  PROVE  Tallied(f)'
<1> DEFINE b == Head(visit[f])
           t == Tail(visit[f])
           r == result[f]
           new == result'[f]
<1>1. /\ visit[f] \in Seq(Nat) /\ visit[f] # <<>> /\ running' = running /\ found' = found
      /\ visit' = [visit EXCEPT ![f] = Tail(@)]
      /\ \/ result' = [result EXCEPT ![f].errs = @ \union {b}]
         \/ b \in DOMAIN found[f] /\ result' = [result EXCEPT ![f].skipped = @ + 1]
         \/ b \in DOMAIN found[f] /\ result' = [result EXCEPT ![f].affected = @ + 1]
  BY Round
<1>2. visit'[f] = t /\ Chosen(f)' = Chosen(f)
  BY <1>1 DEF Kept, CommandsOK, Chosen
<1>3. /\ IsInjective(t) /\ Range(visit[f]) = Range(t) \union {b} /\ b \notin Range(t)
      /\ Len(visit[f]) = Len(t) + 1 /\ Len(t) \in Nat
  <2>1. Len(visit[f]) = Len(t) + 1 /\ Len(t) \in Nat
    BY <1>1
  <2> QED
    BY <1>1, <2>1, WalkedOn DEF Tallied
<1>4. r.affected \in Nat /\ r.skipped \in Nat /\ r \in Results /\ result \in [Fids -> Results]
  BY DEF Kept, CommandsOK, Results
<1>5. \/ new.errs = r.errs \union {b} /\ new.skipped = r.skipped /\ new.affected = r.affected
      \/ b \in DOMAIN found[f] /\ new.errs = r.errs /\ new.skipped = r.skipped + 1 /\ new.affected = r.affected
      \/ b \in DOMAIN found[f] /\ new.errs = r.errs /\ new.skipped = r.skipped /\ new.affected = r.affected + 1
  BY <1>1, <1>4 DEF Results
<1>6. /\ IsFiniteSet(Chosen(f)) /\ IsFiniteSet(r.errs)
      /\ r.errs \subseteq Chosen(f) /\ Range(visit[f]) \subseteq Chosen(f)
      /\ r.errs \intersect Range(visit[f]) = {}
      /\ Chosen(f) \ DOMAIN found[f] \subseteq r.errs \union Range(visit[f])
      /\ r.affected + r.skipped + Cardinality(r.errs) + Len(visit[f]) = Cardinality(Chosen(f))
  BY DEF Tallied
<1> HIDE DEF b, t, r, new
<1>7. b \notin r.errs /\ b \in Chosen(f)
  BY <1>3, <1>6
<1>8. /\ Cardinality(r.errs) \in Nat /\ IsFiniteSet(r.errs \union {b})
      /\ Cardinality(r.errs \union {b}) = Cardinality(r.errs) + 1
  BY <1>6, <1>7, FS_AddElement, FS_CardinalityType
<1>9. IsFiniteSet(new.errs) /\ new.errs \subseteq Chosen(f) /\ new.errs \intersect Range(t) = {}
  BY <1>3, <1>5, <1>6, <1>7, <1>8
<1>10. new.affected + new.skipped + Cardinality(new.errs) + Len(t) = Cardinality(Chosen(f))
  <2> DEFINE k == Cardinality(r.errs)
             n == Len(t)
             all == Cardinality(Chosen(f))
  <2>1. /\ r.affected \in Nat /\ r.skipped \in Nat /\ k \in Nat /\ n \in Nat
        /\ r.affected + r.skipped + k + (n + 1) = all
    BY <1>3, <1>4, <1>6, <1>8
  <2>2. \/ Cardinality(new.errs) = k + 1 /\ new.skipped = r.skipped /\ new.affected = r.affected
        \/ Cardinality(new.errs) = k /\ new.skipped = r.skipped + 1 /\ new.affected = r.affected
        \/ Cardinality(new.errs) = k /\ new.skipped = r.skipped /\ new.affected = r.affected + 1
    BY <1>5, <1>8, Zenon
  <2> HIDE DEF k, n, all
  <2>3. new.affected + new.skipped + Cardinality(new.errs) + n = all
    BY <2>1, <2>2
  <2> QED
    BY <2>3 DEF n, all
<1>11. Chosen(f) \ DOMAIN found[f] \subseteq new.errs \union Range(t)
  BY <1>3, <1>5, <1>6
<1>12. Range(t) \subseteq Chosen(f)
  BY <1>3, <1>6
<1> QED
  BY <1>1, <1>2, <1>3, <1>6, <1>9, <1>10, <1>11, <1>12 DEF Tallied, new, t

LEMMA TallyNext ==
  ASSUME Kept, BulkOnly, Tally, [Next]_vars
  PROVE  Tally'
<1> SUFFICES ASSUME NEW f \in Fids, running'[f] # None PROVE Tallied(f)'
  BY DEF Tally
<1>0. running \in [Fids -> Commands \union {None}]
  BY DEF Kept, CommandsOK
<1>1. CASE UNCHANGED <<running, visit, found, result>>
  BY <1>1, TallySame DEF Tally
<1>2. ASSUME NEW g \in Fids, NEW c \in Commands, Execute(g, c) PROVE Tallied(f)'
  <2>1. CASE g = f
    BY <1>2, <2>1, TallySet
  <2>2. CASE g # f
    <3>1. /\ running'[f] = running[f] /\ visit'[f] = visit[f] /\ found'[f] = found[f]
          /\ result'[f] = result[f]
      BY <1>0, <1>2, <2>2 DEF Execute, Kept, CommandsOK
    <3> QED
      BY <3>1, TallySame DEF Tally
  <2> QED
    BY <2>1, <2>2
<1>3. ASSUME NEW g \in Fids, EditNext(g) PROVE Tallied(f)'
  <2>1. CASE g = f
    BY <1>3, <2>1, TallyRound DEF Tally, EditNext
  <2>2. CASE g # f
    <3>1. /\ running' = running /\ found' = found /\ visit' = [visit EXCEPT ![g] = Tail(@)]
          /\ \/ \E b : result' = [result EXCEPT ![g].errs = @ \union {b}]
             \/ result' = [result EXCEPT ![g].skipped = @ + 1]
             \/ result' = [result EXCEPT ![g].affected = @ + 1]
      BY <1>3, Round
    <3>2. visit'[f] = visit[f] /\ result'[f] = result[f]
      BY <2>2, <3>1 DEF Kept, CommandsOK
    <3> QED
      BY <3>1, <3>2, TallySame DEF Tally
  <2> QED
    BY <2>1, <2>2
<1>4. ASSUME NEW g \in Fids, Finish(g) PROVE Tallied(f)'
  <2>1. g # f
    BY <1>0, <1>4 DEF Finish
  <2>2. /\ running'[f] = running[f] /\ visit'[f] = visit[f] /\ found'[f] = found[f]
        /\ result'[f] = result[f]
    BY <1>0, <1>4, <2>1 DEF Finish, Kept, CommandsOK
  <2> QED
    BY <2>2, TallySame DEF Tally
<1> QED
  BY <1>1, <1>2, <1>3, <1>4 DEF Next, vars, ctlvars, Upload, Open, Write, Close, DeleteBook

\* Whatever others upload, edit and delete between the rounds of a bulk command,
\* it counts every book it was to visit once, and as failed every one its search
\* did not find (exec.go:editSelection).
THEOREM CountsAll == Spec => []CountsEveryBookOnce
<1>1. Init => Tally
  BY DEF Init, CtlInit, Tally
<1>2. Tally /\ Kept /\ BulkOnly /\ [Next]_vars => Tally'
  BY TallyNext
<1>3. Tally /\ Kept => CountsEveryBookOnce
  <2> SUFFICES ASSUME NEW f \in Fids, Kept, Tallied(f), visit[f] = <<>>
               PROVE  /\ result[f].affected + result[f].skipped + Cardinality(result[f].errs)
                           = Cardinality(Chosen(f))
                      /\ Chosen(f) \ DOMAIN found[f] \subseteq result[f].errs
                      /\ result[f].errs \subseteq Chosen(f)
    BY DEF Tally, CountsEveryBookOnce, Chosen
  <2>1. Len(visit[f]) = 0 /\ Range(visit[f]) = {}
    BY DEF Range
  <2>2. /\ result[f].affected \in Nat /\ result[f].skipped \in Nat
        /\ Cardinality(result[f].errs) \in Nat
    BY FS_CardinalityType DEF Tallied, Kept, CommandsOK, Results
  <2> DEFINE k == Cardinality(result[f].errs)
             sum == result[f].affected + result[f].skipped + k
  <2>3. sum \in Nat
    BY <2>2
  <2>4. sum + Len(visit[f]) = Cardinality(Chosen(f))
    BY DEF Tallied
  <2>5. sum = Cardinality(Chosen(f))
    <3> HIDE DEF sum
    <3> QED
      BY <2>1, <2>3, <2>4
  <2> QED
    BY <2>1, <2>5 DEF Tallied
<1> QED
  BY <1>1, <1>2, <1>3, AlwaysKept, PTL DEF Spec
=============================================================================
