---------------------------- MODULE SearchProofs ----------------------------
(* What holds of search handles for any number of clients, queries, books and *)
(* handles, whatever the cap.                                                 *)
EXTENDS SearchHandles, FiniteSetTheorems, SequenceTheorems, TLAPS

Stages == {"idle", "lock", "expire", "evict", "store", "resync"}

SearchTypes ==
  /\ nextID \in 1 .. MaxIssued + 1
  /\ stage \in [Workers -> Stages]
  /\ DOMAIN target = Workers
  /\ DOMAIN shelf = Shelved
  /\ DOMAIN cloneFids = CloneFids
  /\ predicate \in [HandleIds -> Queries \union {Nobody}]
  /\ results \in [HandleIds -> SUBSET Shelved]

\* Whatever is asked of a handle is one of the queries.
Asked == \A r \in Readers : stage[r] = "resync" => target[r].query \in Queries

\* A list of handles, each given out and there once.
Roll(s, n) ==
  /\ s \in Seq(HandleIds)
  /\ \A i, j \in 1 .. Len(s) : s[i] = s[j] => i = j
  /\ \A i \in 1 .. Len(s) : s[i] < n

\* Results are those of the predicate, of a handle not listed none.
Current ==
  /\ \A h \in HandleIds : results[h] = Found(predicate[h])
  /\ \A h \in HandleIds : ~Listed(h) => predicate[h] = Nobody

\* Only who has the lock reclaims, and what it reclaims is listed.
Exclusive ==
  /\ victims \in [Workers -> SUBSET HandleIds]
  /\ \A w \in Workers : stage[w] \in {"expire", "evict"} => lock = w
  /\ \A w \in Workers : victims[w] # {} => stage[w] \in {"expire", "evict"}
  /\ \A w \in Workers : victims[w] \subseteq ToSet(handles)

\* Once its victims are gone there is room for the handle of a request.
Room ==
  MaxHandles > 0 =>
    /\ Len(handles) <= MaxHandles
    /\ \A r \in Readers :
         stage[r] = "evict" => Len(handles) < MaxHandles + Cardinality(victims[r])

\* A handle no fid has read yet is for one request alone, and what clone keeps
\* for a fid is a handle that fid has read.
Fresh ==
  /\ \A f \in CloneFids :
       cloneFids[f] \in {Nobody, 0} \/ [fid |-> f, handle |-> cloneFids[f]] \in got
  /\ \A g \in got : g.handle \in 1 .. nextID - 1
  /\ \A r \in Readers :
       stage[r] = "store" =>
         /\ target[r].handle \in 1 .. nextID - 1
         /\ \A g \in got : g.handle # target[r].handle
         /\ \A p \in Readers \ {r} : stage[p] = "store" => target[p].handle # target[r].handle

Handed ==
  /\ SearchTypes /\ Asked /\ Roll(handles, nextID)
  /\ Current /\ Exclusive /\ Room /\ Fresh /\ HandlesAreOfOneFid

-----------------------------------------------------------------------------
(* Lists of handles. *)

LEMMA RemovedAt ==
  ASSUME NEW s \in Seq(HandleIds), NEW k \in 1 .. Len(s)
  PROVE  /\ RemoveAt(s, k) \in Seq(HandleIds)
         /\ Len(RemoveAt(s, k)) = Len(s) - 1
         /\ \A i \in 1 .. Len(s) - 1 : RemoveAt(s, k)[i] = IF i < k THEN s[i] ELSE s[i + 1]
<1> DEFINE a == SubSeq(s, 1, k - 1)
           b == SubSeq(s, k + 1, Len(s))
<1>1. /\ a \in Seq(HandleIds) /\ Len(a) = k - 1
      /\ \A i \in 1 .. k - 1 : a[i] = s[i]
  OBVIOUS
<1>2. /\ b \in Seq(HandleIds) /\ Len(b) = Len(s) - k
      /\ \A i \in 1 .. Len(s) - k : b[i] = s[i + k]
  OBVIOUS
<1>3. RemoveAt(s, k) = a \o b
  BY DEF RemoveAt
<1> HIDE DEF a, b
<1>4. /\ a \o b \in Seq(HandleIds) /\ Len(a \o b) = Len(s) - 1
      /\ \A i \in 1 .. Len(s) - 1 : (a \o b)[i] = IF i < k THEN a[i] ELSE b[i - k + 1]
  <2>1. /\ a \o b \in Seq(HandleIds) /\ Len(a \o b) = Len(a) + Len(b)
        /\ \A i \in 1 .. Len(a) + Len(b) :
             (a \o b)[i] = IF i <= Len(a) THEN a[i] ELSE b[i - Len(a)]
    BY <1>1, <1>2, ConcatProperties
  <2>2. Len(a) + Len(b) = Len(s) - 1
    BY <1>1, <1>2
  <2>3. ASSUME NEW i \in 1 .. Len(s) - 1
        PROVE  (i <= Len(a) <=> i < k) /\ i - Len(a) = i - k + 1
    BY <1>1
  <2> QED
    BY <2>1, <2>2, <2>3
<1>5. ASSUME NEW i \in 1 .. Len(s) - 1
      PROVE  (a \o b)[i] = IF i < k THEN s[i] ELSE s[i + 1]
  <2>1. CASE i < k
    BY <2>1, <1>1, <1>4
  <2>2. CASE ~(i < k)
    <3>1. i - k + 1 \in 1 .. Len(s) - k /\ (i - k + 1) + k = i + 1
      BY <2>2
    <3> QED
      BY <2>2, <3>1, <1>2, <1>4
  <2> QED
    BY <2>1, <2>2
<1> QED
  BY <1>3, <1>4, <1>5

\* A list without one of its handles.
LEMMA WithoutFacts ==
  ASSUME NEW n \in Nat, Roll(handles, n), NEW h, Listed(h)
  PROVE  /\ Roll(HandlesBut(h), n)
         /\ Len(HandlesBut(h)) = Len(handles) - 1
         /\ ToSet(HandlesBut(h)) = ToSet(handles) \ {h}
         /\ h \in HandleIds /\ h < n
<1> DEFINE k == CHOOSE k \in DOMAIN handles : handles[k] = h
           s == RemoveAt(handles, k)
<1>1. handles \in Seq(HandleIds) /\ DOMAIN handles = 1 .. Len(handles) /\ Len(handles) \in Nat
  BY DEF Roll
<1>2. k \in 1 .. Len(handles) /\ handles[k] = h
  BY <1>1 DEF Listed, ToSet
<1>3. HandlesBut(h) = s
  BY DEF HandlesBut
<1> HIDE DEF k
<1>4. /\ s \in Seq(HandleIds) /\ Len(s) = Len(handles) - 1
      /\ \A i \in 1 .. Len(handles) - 1 : s[i] = IF i < k THEN handles[i] ELSE handles[i + 1]
  BY <1>1, <1>2, RemovedAt
<1> HIDE DEF s
<1>5. DOMAIN s = 1 .. Len(handles) - 1
  BY <1>4
<1>6. \A i, j \in 1 .. Len(s) : s[i] = s[j] => i = j
  BY <1>1, <1>2, <1>4 DEF Roll
<1>7. \A i \in 1 .. Len(s) : s[i] < n
  BY <1>1, <1>2, <1>4 DEF Roll
<1>8. ToSet(s) \subseteq ToSet(handles) \ {h}
  <2> SUFFICES ASSUME NEW i \in 1 .. Len(handles) - 1
               PROVE  s[i] \in ToSet(handles) /\ s[i] # h
    BY <1>5 DEF ToSet
  <2> DEFINE j == IF i < k THEN i ELSE i + 1
  <2>1. j \in 1 .. Len(handles) /\ j # k /\ s[i] = handles[j]
    BY <1>1, <1>2, <1>4
  <2> QED
    BY <2>1, <1>1, <1>2 DEF Roll, ToSet
<1>9. ToSet(handles) \ {h} \subseteq ToSet(s)
  <2> SUFFICES ASSUME NEW j \in 1 .. Len(handles), handles[j] # h
               PROVE  \E i \in 1 .. Len(handles) - 1 : s[i] = handles[j]
    BY <1>1, <1>5 DEF ToSet
  <2>1. CASE j < k
    <3>1. j \in 1 .. Len(handles) - 1
      BY <1>1, <1>2, <2>1
    <3> QED
      BY <3>1, <2>1, <1>4
  <2>2. CASE ~(j < k)
    <3>1. j - 1 \in 1 .. Len(handles) - 1 /\ ~(j - 1 < k) /\ (j - 1) + 1 = j
      BY <1>1, <1>2, <2>2
    <3> QED
      BY <3>1, <1>4
  <2> QED
    BY <2>1, <2>2
<1>10. h \in HandleIds /\ h < n
  BY <1>1, <1>2 DEF Roll
<1> QED
  BY <1>3, <1>4, <1>6, <1>7, <1>8, <1>9, <1>10 DEF Roll

\* A list with one more handle.
LEMMA AppendFacts ==
  ASSUME NEW n \in Nat, NEW s, Roll(s, n), NEW h \in HandleIds, h < n, h \notin ToSet(s)
  PROVE  /\ Roll(Append(s, h), n)
         /\ Len(Append(s, h)) = Len(s) + 1
         /\ ToSet(Append(s, h)) = ToSet(s) \union {h}
<1> DEFINE t == Append(s, h)
<1>1. s \in Seq(HandleIds) /\ DOMAIN s = 1 .. Len(s) /\ Len(s) \in Nat
  BY DEF Roll
<1>2. /\ t \in Seq(HandleIds) /\ Len(t) = Len(s) + 1 /\ DOMAIN t = 1 .. Len(s) + 1
      /\ \A i \in 1 .. Len(s) : t[i] = s[i]
      /\ t[Len(s) + 1] = h
  BY <1>1
<1> HIDE DEF t
<1>3. \A i \in 1 .. Len(s) : s[i] # h
  BY <1>1 DEF ToSet
<1>4. \A i, j \in 1 .. Len(t) : t[i] = t[j] => i = j
  BY <1>1, <1>2, <1>3 DEF Roll
<1>5. \A i \in 1 .. Len(t) : t[i] < n
  BY <1>1, <1>2 DEF Roll
<1>6. ToSet(t) = ToSet(s) \union {h}
  <2>1. ToSet(t) \subseteq ToSet(s) \union {h}
    BY <1>1, <1>2 DEF ToSet
  <2>2. ToSet(s) \subseteq ToSet(t)
    BY <1>1, <1>2 DEF ToSet
  <2>3. h \in ToSet(t)
    BY <1>1, <1>2 DEF ToSet
  <2> QED
    BY <2>1, <2>2, <2>3
<1> QED
  BY <1>2, <1>4, <1>5, <1>6 DEF Roll, t

\* The n oldest are n handles, all of them listed.
LEMMA OldestFacts ==
  ASSUME Roll(handles, nextID), NEW n \in 0 .. Len(handles)
  PROVE  /\ Oldest(n) \in SUBSET HandleIds
         /\ Oldest(n) \subseteq ToSet(handles)
         /\ Cardinality(Oldest(n)) = n
<1>1. handles \in Seq(HandleIds) /\ DOMAIN handles = 1 .. Len(handles) /\ Len(handles) \in Nat
  BY DEF Roll
<1>2. \A i \in 1 .. n : handles[i] \in HandleIds /\ i \in DOMAIN handles
  BY <1>1
<1>3. Oldest(n) \subseteq HandleIds /\ Oldest(n) \subseteq ToSet(handles)
  BY <1>2 DEF Oldest, ToSet
<1>4. Cardinality(Oldest(n)) = n
  <2> DEFINE b == [k \in 1 .. n |-> handles[k]]
  <2>1. b \in Bijection(1 .. n, Oldest(n))
    BY <1>1, <1>2 DEF Oldest, Roll, Bijection, Injection, Surjection, IsInjective
  <2>2. ExistsBijection(1 .. n, Oldest(n))
    BY <2>1 DEF ExistsBijection
  <2>3. IsFiniteSet(1 .. n) /\ Cardinality(1 .. n) = n
    BY FS_Interval
  <2> QED
    BY <2>2, <2>3, FS_Bijection
<1> QED
  BY <1>3, <1>4

-----------------------------------------------------------------------------
(* The initial state and each step. *)

LEMMA InitHanded == SearchInit => Handed
<1> SUFFICES ASSUME SearchInit PROVE Handed
  OBVIOUS
<1>1. SearchTypes /\ Asked
  BY SearchAssumption DEF SearchInit, SearchTypes, Asked, Stages, HandleIds, Workers
<1>2. Roll(handles, nextID) /\ ToSet(handles) = {}
  BY DEF SearchInit, Roll, ToSet
<1>3. Current
  BY SearchAssumption DEF SearchInit, Current, Found, Lists
<1>4. Exclusive
  BY <1>2 DEF SearchInit, Exclusive
<1>5. Room
  BY SearchAssumption DEF SearchInit, Room, Workers
<1>6. Fresh /\ HandlesAreOfOneFid
  BY DEF SearchInit, Fresh, HandlesAreOfOneFid, Workers
<1> QED
  BY <1>1, <1>2, <1>3, <1>4, <1>5, <1>6 DEF Handed

\* A book's event files it anew under every handle that is listed.
LEMMA EventHanded ==
  ASSUME Handed, NEW i \in Shelved, NEW s \in Snaps \union {Nobody}, Event(i, s)
  PROVE  Handed'
<1>1. /\ shelf' = [shelf EXCEPT ![i] = s]
      /\ results' = [h \in HandleIds |-> IF Listed(h) THEN Refiled(h, i, s) ELSE results[h]]
      /\ UNCHANGED <<handles, nextID, lock, stage, victims, target, predicate, cloneFids, got>>
  BY DEF Event
<1>2. ASSUME NEW h \in HandleIds PROVE results'[h] = Found(predicate[h])'
  <2>1. results[h] = Found(predicate[h])
    BY DEF Handed, Current
  <2>2. Found(predicate[h])' = {j \in Shelved : Lists(predicate[h], shelf'[j])}
    BY <1>1 DEF Found
  <2>3. shelf'[i] = s /\ \A j \in Shelved \ {i} : shelf'[j] = shelf[j]
    BY <1>1 DEF Handed, SearchTypes
  <2>4. CASE Listed(h)
    <3>1. results'[h] = Refiled(h, i, s)
      BY <1>1, <2>4
    <3>2. \A j \in Shelved : j \in results'[h] <=> Lists(predicate[h], shelf'[j])
      <4> HIDE DEF Lists
      <4> QED
        BY <3>1, <2>1, <2>3 DEF Refiled, Found
    <3>3. results'[h] \subseteq Shelved
      BY <3>1, <2>1 DEF Refiled, Found
    <3> QED
      BY <3>2, <3>3, <2>2
  <2>5. CASE ~Listed(h)
    <3>1. predicate[h] = Nobody /\ results'[h] = results[h]
      BY <1>1, <2>5 DEF Handed, Current
    <3>2. results[h] = {}
      BY <3>1, <2>1 DEF Found, Lists
    <3> QED
      BY <3>1, <3>2, <2>2 DEF Lists
  <2> QED
    BY <2>4, <2>5
<1>3. results' \in [HandleIds -> SUBSET Shelved]
  <2>1. \A h \in HandleIds : results'[h] \in SUBSET Shelved
    BY <1>2 DEF Found
  <2> QED
    BY <2>1, <1>1
<1>4. Current'
  BY <1>1, <1>2 DEF Handed, Current, Listed
<1>5. SearchTypes' /\ Asked' /\ Roll(handles, nextID)'
  BY <1>1, <1>3 DEF Handed, SearchTypes, Asked, Roll
<1>6. Exclusive' /\ Room'
  BY <1>1 DEF Handed, Exclusive, Room
<1>7. Fresh' /\ HandlesAreOfOneFid'
  BY <1>1 DEF Handed, Fresh, HandlesAreOfOneFid
<1> QED
  BY <1>4, <1>5, <1>6, <1>7 DEF Handed

LEMMA TakeLockHanded ==
  ASSUME Handed, NEW w \in Workers, TakeLock(w)
  PROVE  Handed'
<1>1. /\ lock = Nobody /\ lock' = w /\ stage' = [stage EXCEPT ![w] = "expire"]
      /\ UNCHANGED <<shelf, handles, nextID, target, predicate, results, cloneFids, got>>
  BY DEF TakeLock
<1>2. PICK n \in 0 .. Len(handles) : victims' = [victims EXCEPT ![w] = Oldest(n)]
  <2>1. Len(handles) \in Nat
    BY DEF Handed, Roll
  <2>2. PICK n \in IF Expires THEN 0 .. Len(handles) ELSE {0} :
          victims' = [victims EXCEPT ![w] = Oldest(n)]
    BY Zenon DEF TakeLock
  <2>3. n \in 0 .. Len(handles)
    BY <2>1, <2>2
  <2> QED
    BY <2>2, <2>3, Zenon
<1>3. Oldest(n) \in SUBSET HandleIds /\ Oldest(n) \subseteq ToSet(handles)
  BY OldestFacts DEF Handed
<1>4. \A v \in Workers : stage[v] \notin {"expire", "evict"} /\ victims[v] = {}
  BY <1>1, SearchAssumption DEF Handed, Exclusive
<1>5. SearchTypes' /\ Roll(handles, nextID)' /\ Current'
  BY <1>1 DEF Handed, SearchTypes, Roll, Current, Listed, Found, Stages
<1>6. /\ stage'[w] = "expire" /\ \A v \in Workers \ {w} : stage'[v] = stage[v]
      /\ victims'[w] = Oldest(n) /\ \A v \in Workers \ {w} : victims'[v] = victims[v]
      /\ victims' \in [Workers -> SUBSET HandleIds]
  BY <1>1, <1>2, <1>3 DEF Handed, Exclusive, SearchTypes
<1>7. Exclusive'
  BY <1>1, <1>3, <1>4, <1>6 DEF Exclusive
<1>8. Room'
  BY <1>1, <1>4, <1>6 DEF Handed, Room, Workers
<1>9. Asked' /\ Fresh' /\ HandlesAreOfOneFid'
  BY <1>1, <1>6 DEF Handed, Asked, Fresh, HandlesAreOfOneFid, Workers
<1> QED
  BY <1>5, <1>7, <1>8, <1>9 DEF Handed

\* A handle that is unlisted is filtered by nothing and lists nothing.
LEMMA UnlistFacts ==
  ASSUME Handed, NEW h, Listed(h), Unlist(h), UNCHANGED <<shelf, nextID>>
  PROVE  /\ Roll(handles, nextID)' /\ Current'
         /\ predicate' \in [HandleIds -> Queries \union {Nobody}]
         /\ results' \in [HandleIds -> SUBSET Shelved]
         /\ Len(handles') = Len(handles) - 1 /\ Len(handles) \in Nat
         /\ ToSet(handles') = ToSet(handles) \ {h}
<1>1. nextID \in Nat /\ Roll(handles, nextID)
  BY SearchAssumption DEF Handed, SearchTypes
<1>2. /\ Roll(handles', nextID)
      /\ Len(handles') = Len(handles) - 1
      /\ ToSet(handles') = ToSet(handles) \ {h}
      /\ h \in HandleIds
  BY <1>1, WithoutFacts DEF Unlist
<1>3. /\ predicate' = [predicate EXCEPT ![h] = Nobody]
      /\ results' = [results EXCEPT ![h] = {}]
      /\ predicate \in [HandleIds -> Queries \union {Nobody}]
      /\ results \in [HandleIds -> SUBSET Shelved]
  BY DEF Unlist, Handed, SearchTypes
<1>4. /\ predicate'[h] = Nobody /\ results'[h] = {}
      /\ \A k \in HandleIds \ {h} : predicate'[k] = predicate[k] /\ results'[k] = results[k]
      /\ predicate' \in [HandleIds -> Queries \union {Nobody}]
      /\ results' \in [HandleIds -> SUBSET Shelved]
  BY <1>2, <1>3
<1>5. Found(Nobody) = {}
  BY DEF Found, Lists
<1>6. \A k \in HandleIds : results'[k] = Found(predicate'[k])
  BY <1>4, <1>5 DEF Handed, Current
<1>7. \A k \in HandleIds : Found(predicate'[k]) = Found(predicate[k])'
  BY DEF Found
<1>8. \A k \in HandleIds : ~Listed(k)' => predicate'[k] = Nobody
  BY <1>2, <1>4 DEF Handed, Current, Listed
<1> QED
  BY <1>1, <1>2, <1>4, <1>6, <1>7, <1>8 DEF Roll, Current

LEMMA ReclaimHanded ==
  ASSUME Handed, NEW w \in Workers, Reclaim(w)
  PROVE  Handed'
<1>1. PICK h \in victims[w] :
        /\ Unlist(h)
        /\ victims' = [victims EXCEPT ![w] = @ \ {h}]
        /\ UNCHANGED <<shelf, nextID, lock, stage, target, cloneFids, got>>
  BY DEF Reclaim
<1>2. /\ Listed(h) /\ victims[w] \in SUBSET HandleIds /\ lock = w
      /\ stage[w] \in {"expire", "evict"}
  BY DEF Handed, Exclusive, Listed
<1>3. /\ Roll(handles, nextID)' /\ Current'
      /\ predicate' \in [HandleIds -> Queries \union {Nobody}]
      /\ results' \in [HandleIds -> SUBSET Shelved]
      /\ Len(handles') = Len(handles) - 1 /\ Len(handles) \in Nat
      /\ ToSet(handles') = ToSet(handles) \ {h}
  BY <1>1, <1>2, UnlistFacts
<1>4. SearchTypes' /\ Asked' /\ Fresh' /\ HandlesAreOfOneFid'
  BY <1>1, <1>3 DEF Handed, SearchTypes, Asked, Fresh, HandlesAreOfOneFid
<1>5. /\ victims'[w] = victims[w] \ {h} /\ \A v \in Workers \ {w} : victims'[v] = victims[v]
      /\ victims' \in [Workers -> SUBSET HandleIds]
  BY <1>1, <1>2 DEF Handed, Exclusive
<1>6. \A v \in Workers \ {w} : victims[v] = {} /\ stage[v] \notin {"expire", "evict"}
  BY <1>2 DEF Handed, Exclusive
<1>7. Exclusive'
  BY <1>1, <1>2, <1>3, <1>5, <1>6 DEF Handed, Exclusive
<1>8. Room'
  <2>1. IsFiniteSet(HandleIds)
    BY SearchAssumption, FS_Interval DEF HandleIds
  <2>2. IsFiniteSet(victims[w])
    BY <1>2, <2>1, FS_Subset
  <2>3. Cardinality(victims[w]) \in Nat /\ Cardinality(victims'[w]) = Cardinality(victims[w]) - 1
    BY <1>1, <1>5, <2>2, FS_CardinalityType, FS_RemoveElement
  <2>4. \A r \in Readers : r # w => stage'[r] # "evict"
    BY <1>1, <1>6 DEF Workers
  <2>5. MaxHandles > 0 => Len(handles') <= MaxHandles
    BY <1>3, SearchAssumption DEF Handed, Room
  <2>6. MaxHandles > 0 /\ w \in Readers /\ stage'[w] = "evict"
          => Len(handles') < MaxHandles + Cardinality(victims'[w])
    BY <1>1, <1>3, <2>3, SearchAssumption DEF Handed, Room
  <2> QED
    BY <2>4, <2>5, <2>6 DEF Room
<1> QED
  BY <1>3, <1>4, <1>7, <1>8 DEF Handed

LEMMA SortHanded ==
  ASSUME Handed, NEW w \in Workers, Sort(w)
  PROVE  Handed'
<1>1. /\ stage[w] = "expire" /\ stage' = [stage EXCEPT ![w] = "evict"]
      /\ victims' = [victims EXCEPT ![w] = Oldest(Excess(w))]
      /\ UNCHANGED <<shelf, handles, nextID, lock, target, predicate, results, cloneFids, got>>
  BY DEF Sort
<1>2. /\ Len(handles) \in Nat /\ MaxHandles \in Nat
      /\ MaxHandles > 0 => Len(handles) <= MaxHandles
  BY SearchAssumption DEF Handed, Roll, Room
<1>3. /\ Excess(w) \in 0 .. Len(handles)
      /\ MaxHandles > 0 /\ w \in Readers => Len(handles) < MaxHandles + Excess(w)
  BY <1>2, SearchAssumption DEF Excess, Headroom
<1>4. /\ Oldest(Excess(w)) \in SUBSET HandleIds /\ Oldest(Excess(w)) \subseteq ToSet(handles)
      /\ Cardinality(Oldest(Excess(w))) = Excess(w)
  BY <1>3, OldestFacts DEF Handed
<1>5. /\ stage'[w] = "evict" /\ \A v \in Workers \ {w} : stage'[v] = stage[v]
      /\ victims'[w] = Oldest(Excess(w)) /\ \A v \in Workers \ {w} : victims'[v] = victims[v]
      /\ victims' \in [Workers -> SUBSET HandleIds]
  BY <1>1, <1>4 DEF Handed, Exclusive, SearchTypes
<1>6. lock = w /\ \A v \in Workers \ {w} : stage[v] \notin {"expire", "evict"}
  BY <1>1 DEF Handed, Exclusive
<1>7. SearchTypes' /\ Roll(handles, nextID)' /\ Current'
  BY <1>1 DEF Handed, SearchTypes, Roll, Current, Listed, Found, Stages
<1>8. Exclusive'
  BY <1>1, <1>4, <1>5, <1>6 DEF Handed, Exclusive
<1>9. Room'
  <2>1. \A r \in Readers : r # w => stage'[r] # "evict"
    BY <1>5, <1>6 DEF Workers
  <2> QED
    BY <1>1, <1>2, <1>3, <1>4, <1>5, <2>1 DEF Room
<1>10. Asked' /\ Fresh' /\ HandlesAreOfOneFid'
  BY <1>1, <1>5 DEF Handed, Asked, Fresh, HandlesAreOfOneFid, Workers
<1> QED
  BY <1>7, <1>8, <1>9, <1>10 DEF Handed

\* The sweeper's unlock; what clone's fids are told is not concerned.
LEMMA SweptHanded ==
  ASSUME Handed, Swept
  PROVE  Handed'
<1>1. /\ stage[Sweeper] = "evict" /\ victims[Sweeper] = {}
      /\ stage' = [stage EXCEPT ![Sweeper] = "idle"]
      /\ UNCHANGED <<shelf, handles, nextID, victims, target, predicate, results, cloneFids, got>>
  BY DEF Swept
<1>2. Sweeper \in Workers /\ Sweeper \notin Readers
  BY SearchAssumption DEF Workers
<1>3. stage'[Sweeper] = "idle" /\ \A v \in Workers \ {Sweeper} : stage'[v] = stage[v]
  BY <1>1, <1>2 DEF Handed, SearchTypes
<1>4. \A v \in Workers \ {Sweeper} : stage[v] \notin {"expire", "evict"}
  BY <1>1, <1>2 DEF Handed, Exclusive
<1>5. SearchTypes' /\ Roll(handles, nextID)' /\ Current'
  BY <1>1 DEF Handed, SearchTypes, Roll, Current, Listed, Found, Stages
<1>6. Exclusive'
  BY <1>1, <1>2, <1>3, <1>4 DEF Handed, Exclusive
<1>7. Room' /\ Asked' /\ Fresh' /\ HandlesAreOfOneFid'
  BY <1>1, <1>2, <1>3 DEF Handed, Room, Asked, Fresh, HandlesAreOfOneFid, Workers
<1> QED
  BY <1>5, <1>6, <1>7 DEF Handed

LEMMA ReadCloneHanded ==
  ASSUME Handed, NEW r \in Readers, NEW f \in CloneFids, ReadClone(r, f)
  PROVE  Handed'
<1>1. /\ stage[r] = "idle" /\ stage' = [stage EXCEPT ![r] = "lock"]
      /\ target' = [target EXCEPT ![r] = [fid |-> f]]
      /\ UNCHANGED <<shelf, handles, nextID, lock, victims, predicate, results, cloneFids, got>>
  BY DEF ReadClone
<1>2. r \in Workers
  BY DEF Workers
<1>3. /\ stage'[r] = "lock" /\ \A v \in Workers \ {r} : stage'[v] = stage[v]
      /\ \A v \in Workers \ {r} : target'[v] = target[v]
      /\ DOMAIN target' = Workers /\ stage' \in [Workers -> Stages]
  BY <1>1, <1>2 DEF Handed, SearchTypes, Stages
<1>4. SearchTypes' /\ Roll(handles, nextID)' /\ Current'
  BY <1>1, <1>3 DEF Handed, SearchTypes, Roll, Current, Listed, Found
<1>5. Exclusive'
  BY <1>1, <1>2, <1>3 DEF Handed, Exclusive
<1>6. Room'
  BY <1>1, <1>3 DEF Handed, Room, Workers
<1>7. Asked' /\ Fresh' /\ HandlesAreOfOneFid'
  BY <1>1, <1>3 DEF Handed, Asked, Fresh, HandlesAreOfOneFid, Workers
<1> QED
  BY <1>4, <1>5, <1>6, <1>7 DEF Handed

\* The next number is of no handle yet, listed or not.
LEMMA AllocateHanded ==
  ASSUME Handed, NEW r \in Readers, Allocate(r)
  PROVE  Handed'
<1> DEFINE d == [fid |-> target[r].fid, handle |-> nextID]
<1>1. /\ stage[r] = "evict" /\ victims[r] = {} /\ nextID <= MaxIssued
      /\ handles' = Append(handles, nextID) /\ nextID' = nextID + 1
      /\ target' = [target EXCEPT ![r] = d]
      /\ stage' = [stage EXCEPT ![r] = "store"] /\ lock' = Nobody
      /\ UNCHANGED <<shelf, victims, predicate, results, cloneFids, got>>
  BY DEF Allocate, NextId
<1>2. d.handle = nextID
  OBVIOUS
<1> HIDE DEF d
<1>3. r \in Workers /\ nextID \in HandleIds /\ nextID \in Nat /\ nextID' \in 1 .. MaxIssued + 1
  BY <1>1, SearchAssumption DEF Workers, Handed, SearchTypes, HandleIds
<1>4. /\ stage'[r] = "store" /\ \A v \in Workers \ {r} : stage'[v] = stage[v]
      /\ target'[r] = d /\ \A v \in Workers \ {r} : target'[v] = target[v]
      /\ DOMAIN target' = Workers /\ stage' \in [Workers -> Stages]
  BY <1>1, <1>3 DEF Handed, SearchTypes, Stages
<1>5. nextID \notin ToSet(handles) /\ Roll(handles, nextID + 1) /\ Len(handles) \in Nat
  <2>1. /\ handles \in Seq(HandleIds) /\ DOMAIN handles = 1 .. Len(handles)
        /\ Len(handles) \in Nat
        /\ \A i \in 1 .. Len(handles) : handles[i] \in HandleIds /\ handles[i] < nextID
    BY DEF Handed, Roll
  <2>2. \A i \in 1 .. Len(handles) : handles[i] # nextID /\ handles[i] < nextID + 1
    BY <1>3, <2>1 DEF HandleIds
  <2>3. nextID \notin ToSet(handles)
    BY <2>1, <2>2 DEF ToSet
  <2> QED
    BY <2>1, <2>2, <2>3 DEF Handed, Roll
<1>6. /\ Roll(handles', nextID')
      /\ Len(handles') = Len(handles) + 1 /\ Len(handles) \in Nat
      /\ ToSet(handles') = ToSet(handles) \union {nextID}
  <2>1. nextID + 1 \in Nat /\ nextID < nextID + 1
    BY <1>3
  <2> QED
    BY <1>1, <1>3, <1>5, <2>1, AppendFacts
<1>7. \A v \in Workers \ {r} : stage[v] \notin {"expire", "evict"} /\ victims[v] = {}
  BY <1>1, <1>3 DEF Handed, Exclusive
<1>8. SearchTypes'
  BY <1>1, <1>3, <1>4 DEF Handed, SearchTypes
<1>9. Current'
  BY <1>1, <1>6 DEF Handed, Current, Listed, Found
<1>10. Exclusive'
  BY <1>1, <1>4, <1>6, <1>7 DEF Handed, Exclusive
<1>11. Room'
  <2>1. Cardinality(victims[r]) = 0
    BY <1>1, FS_EmptySet
  <2>2. MaxHandles > 0 => Len(handles') <= MaxHandles
    <3>1. MaxHandles > 0 => Len(handles) < MaxHandles + Cardinality(victims[r])
      BY <1>1 DEF Handed, Room
    <3> QED
      BY <1>6, <2>1, <3>1, SearchAssumption
  <2>3. \A p \in Readers : stage'[p] # "evict"
    BY <1>4, <1>7 DEF Workers
  <2> QED
    BY <2>2, <2>3 DEF Room
<1>12. Fresh'
  <2>1. \A g \in got : g.handle \in 1 .. nextID' - 1 /\ g.handle # nextID
    BY <1>1, <1>3 DEF Handed, Fresh
  <2>2. \A p \in Readers \ {r} :
          stage'[p] = "store" => /\ target'[p].handle \in 1 .. nextID' - 1
                                 /\ target'[p].handle # nextID
                                 /\ target'[p] = target[p] /\ stage[p] = "store"
    BY <1>1, <1>3, <1>4 DEF Handed, Fresh, Workers
  <2>3. target'[r].handle = nextID /\ nextID \in 1 .. nextID' - 1
    BY <1>1, <1>2, <1>3, <1>4 DEF Handed, SearchTypes
  <2> QED
    BY <1>1, <2>1, <2>2, <2>3 DEF Handed, Fresh
<1>13. Asked' /\ HandlesAreOfOneFid'
  BY <1>1, <1>4 DEF Handed, Asked, HandlesAreOfOneFid, Workers
<1> QED
  BY <1>6, <1>8, <1>9, <1>10, <1>11, <1>12, <1>13 DEF Handed

LEMMA StoreHanded ==
  ASSUME Handed, NEW r \in Readers, Store(r)
  PROVE  Handed'
<1> DEFINE g == [fid |-> target[r].fid, handle |-> target[r].handle]
<1>1. /\ stage[r] = "store" /\ got' = got \union {g}
      /\ stage' = [stage EXCEPT ![r] = "idle"]
      /\ target' = [target EXCEPT ![r] = Nobody]
      /\ cloneFids' = [cloneFids EXCEPT ![target[r].fid] = target[r].handle]
      /\ UNCHANGED <<shelf, handles, nextID, lock, victims, predicate, results>>
  BY DEF Store
<1>2. g.handle = target[r].handle
  OBVIOUS
<1> HIDE DEF g
<1>3. r \in Workers
  BY DEF Workers
<1>4. /\ stage'[r] = "idle" /\ \A v \in Workers \ {r} : stage'[v] = stage[v]
      /\ \A v \in Workers \ {r} : target'[v] = target[v]
      /\ DOMAIN target' = Workers /\ stage' \in [Workers -> Stages]
  BY <1>1, <1>3 DEF Handed, SearchTypes, Stages
<1>5. SearchTypes' /\ Roll(handles, nextID)' /\ Current'
  BY <1>1, <1>4 DEF Handed, SearchTypes, Roll, Current, Listed, Found
<1>6. Exclusive'
  BY <1>1, <1>3, <1>4 DEF Handed, Exclusive
<1>7. Room'
  BY <1>1, <1>4 DEF Handed, Room, Workers
<1>8. Asked'
  BY <1>4 DEF Handed, Asked, Workers
<1>9. Fresh'
  <2>1. ASSUME NEW f \in CloneFids
        PROVE  cloneFids'[f] \in {Nobody, 0} \/ [fid |-> f, handle |-> cloneFids'[f]] \in got'
    <3>1. CASE f = target[r].fid
      <4>1. cloneFids'[f] = target[r].handle
        BY <1>1, <3>1 DEF Handed, SearchTypes
      <4> QED
        BY <1>1, <3>1, <4>1 DEF g
    <3>2. CASE f # target[r].fid
      <4>1. cloneFids'[f] = cloneFids[f]
        BY <1>1, <3>2 DEF Handed, SearchTypes
      <4> QED
        BY <1>1, <4>1 DEF Handed, Fresh
    <3> QED
      BY <3>1, <3>2
  <2>2. \A k \in got' : k.handle \in 1 .. nextID' - 1
    BY <1>1, <1>2 DEF Handed, Fresh
  <2>3. ASSUME NEW p \in Readers, stage'[p] = "store"
        PROVE  /\ target'[p].handle \in 1 .. nextID' - 1
               /\ \A k \in got' : k.handle # target'[p].handle
               /\ \A o \in Readers \ {p} :
                    stage'[o] = "store" => target'[o].handle # target'[p].handle
    BY <1>1, <1>2, <1>4, <2>3 DEF Handed, Fresh, Workers
  <2> QED
    BY <2>1, <2>2, <2>3 DEF Fresh
<1>10. HandlesAreOfOneFid'
  BY <1>1, <1>2 DEF Handed, Fresh, HandlesAreOfOneFid
<1> QED
  BY <1>5, <1>6, <1>7, <1>8, <1>9, <1>10 DEF Handed

\* A query moves its handle to the end of the list.
LEMMA QueryHanded ==
  ASSUME Handed, NEW r \in Readers, NEW h \in HandleIds, NEW q \in Queries, Query(r, h, q)
  PROVE  Handed'
<1> DEFINE t == [handle |-> h, query |-> q]
<1>1. /\ stage[r] = "idle" /\ stage' = [stage EXCEPT ![r] = "resync"]
      /\ handles' = IF Listed(h) THEN Append(HandlesBut(h), h) ELSE handles
      /\ target' = [target EXCEPT ![r] = t]
      /\ UNCHANGED <<shelf, nextID, lock, victims, predicate, results, cloneFids, got>>
  BY DEF Query
<1>2. t.query = q
  OBVIOUS
<1> HIDE DEF t
<1>3. r \in Workers
  BY DEF Workers
<1>4. /\ stage'[r] = "resync" /\ \A v \in Workers \ {r} : stage'[v] = stage[v]
      /\ target'[r] = t /\ \A v \in Workers \ {r} : target'[v] = target[v]
      /\ DOMAIN target' = Workers /\ stage' \in [Workers -> Stages]
  BY <1>1, <1>3 DEF Handed, SearchTypes, Stages
<1>5. /\ Roll(handles', nextID)
      /\ Len(handles') = Len(handles)
      /\ ToSet(handles') = ToSet(handles)
  <2>1. nextID \in Nat /\ Roll(handles, nextID) /\ Len(handles) \in Nat
    BY SearchAssumption DEF Handed, SearchTypes, Roll
  <2>2. CASE Listed(h)
    <3>1. /\ Roll(HandlesBut(h), nextID) /\ Len(HandlesBut(h)) = Len(handles) - 1
          /\ ToSet(HandlesBut(h)) = ToSet(handles) \ {h}
          /\ h < nextID /\ h \in ToSet(handles)
      BY <2>1, <2>2, WithoutFacts DEF Listed
    <3>2. handles' = Append(HandlesBut(h), h)
      BY <1>1, <2>2
    <3>3. /\ Roll(handles', nextID) /\ Len(handles') = Len(HandlesBut(h)) + 1
          /\ ToSet(handles') = ToSet(HandlesBut(h)) \union {h}
      BY <2>1, <3>1, <3>2, AppendFacts
    <3> QED
      BY <2>1, <3>1, <3>3
  <2>3. CASE ~Listed(h)
    BY <1>1, <2>1, <2>3
  <2> QED
    BY <2>2, <2>3
<1>6. SearchTypes' /\ Current' /\ Roll(handles, nextID)'
  BY <1>1, <1>4, <1>5 DEF Handed, SearchTypes, Current, Listed, Found, Roll
<1>7. Exclusive'
  BY <1>1, <1>3, <1>4, <1>5 DEF Handed, Exclusive
<1>8. Room'
  BY <1>1, <1>4, <1>5 DEF Handed, Room, Workers
<1>9. Asked'
  BY <1>2, <1>4 DEF Handed, Asked, Workers
<1>10. Fresh' /\ HandlesAreOfOneFid'
  BY <1>1, <1>4 DEF Handed, Fresh, HandlesAreOfOneFid, Workers
<1> QED
  BY <1>6, <1>7, <1>8, <1>9, <1>10 DEF Handed

\* The registry's lock covers the predicate and the results.
LEMMA ResyncHanded ==
  ASSUME Handed, NEW r \in Readers, Resync(r)
  PROVE  Handed'
<1> DEFINE h == target[r].handle
           q == target[r].query
<1>1. /\ stage[r] = "resync" /\ stage' = [stage EXCEPT ![r] = "idle"]
      /\ target' = [target EXCEPT ![r] = Nobody]
      /\ UNCHANGED <<shelf, handles, nextID, lock, victims, cloneFids, got>>
      /\ IF Listed(h) THEN /\ predicate' = [predicate EXCEPT ![h] = q]
                           /\ results' = [results EXCEPT ![h] = Found(q)]
                      ELSE UNCHANGED <<predicate, results>>
  BY DEF Resync
<1>2. q \in Queries
  BY <1>1 DEF Handed, Asked
<1> HIDE DEF h, q
<1>3. r \in Workers
  BY DEF Workers
<1>4. /\ stage'[r] = "idle" /\ \A v \in Workers \ {r} : stage'[v] = stage[v]
      /\ \A v \in Workers \ {r} : target'[v] = target[v]
      /\ DOMAIN target' = Workers /\ stage' \in [Workers -> Stages]
  BY <1>1, <1>3 DEF Handed, SearchTypes, Stages
<1>5. Found(q) \in SUBSET Shelved
  BY DEF Found
<1>6. /\ predicate' \in [HandleIds -> Queries \union {Nobody}]
      /\ results' \in [HandleIds -> SUBSET Shelved]
  BY <1>1, <1>2, <1>5 DEF Handed, SearchTypes
<1>7. \A k \in HandleIds :
        IF k = h /\ Listed(h)
          THEN predicate'[k] = q /\ results'[k] = Found(q)
          ELSE predicate'[k] = predicate[k] /\ results'[k] = results[k]
  BY <1>1 DEF Handed, SearchTypes
<1>8. Current'
  <2>1. \A k \in HandleIds : results'[k] = Found(predicate'[k])
    BY <1>7 DEF Handed, Current
  <2>2. \A k \in HandleIds : Found(predicate'[k]) = Found(predicate[k])'
    BY <1>1 DEF Found
  <2>3. \A k \in HandleIds : ~Listed(k)' => predicate'[k] = Nobody
    BY <1>1, <1>7 DEF Handed, Current, Listed
  <2> QED
    BY <2>1, <2>2, <2>3 DEF Current
<1>9. SearchTypes' /\ Roll(handles, nextID)'
  BY <1>1, <1>4, <1>6 DEF Handed, SearchTypes, Roll
<1>10. Exclusive'
  BY <1>1, <1>3, <1>4 DEF Handed, Exclusive
<1>11. Room'
  BY <1>1, <1>4 DEF Handed, Room, Workers
<1>12. Asked' /\ Fresh' /\ HandlesAreOfOneFid'
  BY <1>1, <1>4 DEF Handed, Asked, Fresh, HandlesAreOfOneFid, Workers
<1> QED
  BY <1>8, <1>9, <1>10, <1>11, <1>12 DEF Handed

LEMMA CloseHandleHanded ==
  ASSUME Handed, NEW h \in HandleIds, CloseHandle(h)
  PROVE  Handed'
<1>1. /\ lock = Nobody /\ Listed(h) /\ Unlist(h)
      /\ UNCHANGED <<shelf, nextID, lock, stage, victims, target, cloneFids, got>>
  BY DEF CloseHandle
<1>2. /\ Roll(handles, nextID)' /\ Current'
      /\ predicate' \in [HandleIds -> Queries \union {Nobody}]
      /\ results' \in [HandleIds -> SUBSET Shelved]
      /\ Len(handles') = Len(handles) - 1 /\ Len(handles) \in Nat
  BY <1>1, UnlistFacts
<1>3. \A v \in Workers : stage[v] \notin {"expire", "evict"} /\ victims[v] = {}
  BY <1>1, SearchAssumption DEF Handed, Exclusive
<1>4. SearchTypes' /\ Asked' /\ Fresh' /\ HandlesAreOfOneFid'
  BY <1>1, <1>2 DEF Handed, SearchTypes, Asked, Fresh, HandlesAreOfOneFid
<1>5. Exclusive'
  BY <1>1, <1>3 DEF Handed, Exclusive
<1>6. Room'
  BY <1>1, <1>2, <1>3, SearchAssumption DEF Handed, Room, Workers
<1> QED
  BY <1>2, <1>4, <1>5, <1>6 DEF Handed

LEMMA CloneHanded ==
  ASSUME Handed, NEW f \in CloneFids, OpenClone(f) \/ CloseClone(f)
  PROVE  Handed'
<1>1. /\ UNCHANGED <<shelf, handles, nextID, lock, stage, victims, target, predicate, results, got>>
      /\ DOMAIN cloneFids' = DOMAIN cloneFids
      /\ \A g \in CloneFids : cloneFids'[g] \in {cloneFids[g], Nobody, 0}
  BY DEF OpenClone, CloseClone, Handed, SearchTypes
<1>2. SearchTypes' /\ Asked' /\ Roll(handles, nextID)' /\ Current'
  BY <1>1 DEF Handed, SearchTypes, Asked, Roll, Current, Listed, Found
<1>3. Exclusive' /\ Room'
  BY <1>1 DEF Handed, Exclusive, Room
<1>4. Fresh' /\ HandlesAreOfOneFid'
  BY <1>1 DEF Handed, Fresh, HandlesAreOfOneFid
<1> QED
  BY <1>2, <1>3, <1>4 DEF Handed

\* What clone keeps for the fid is a handle the fid has read before.
LEMMA ReadAgainHanded ==
  ASSUME Handed, NEW f \in CloneFids, ReadAgain(f)
  PROVE  Handed'
<1>1. [fid |-> f, handle |-> cloneFids[f]] \in got
  BY DEF ReadAgain, Handed, Fresh
<1>2. UNCHANGED <<shelf, handles, nextID, lock, stage, victims, target, predicate, results,
                  cloneFids, got>>
  BY <1>1 DEF ReadAgain
<1>3. SearchTypes' /\ Asked' /\ Roll(handles, nextID)' /\ Current'
  BY <1>2 DEF Handed, SearchTypes, Asked, Roll, Current, Listed, Found
<1>4. Exclusive' /\ Room' /\ Fresh' /\ HandlesAreOfOneFid'
  BY <1>2 DEF Handed, Exclusive, Room, Fresh, HandlesAreOfOneFid
<1> QED
  BY <1>3, <1>4 DEF Handed

LEMMA NextHanded == Handed /\ [SearchNext]_searchvars => Handed'
<1> SUFFICES ASSUME Handed, [SearchNext]_searchvars PROVE Handed'
  OBVIOUS
<1>1. CASE UNCHANGED searchvars
  <2>1. SearchTypes' /\ Asked' /\ Roll(handles, nextID)' /\ Current'
    BY <1>1 DEF searchvars, Handed, SearchTypes, Asked, Roll, Current, Listed, Found
  <2>2. Exclusive' /\ Room' /\ Fresh' /\ HandlesAreOfOneFid'
    BY <1>1 DEF searchvars, Handed, Exclusive, Room, Fresh, HandlesAreOfOneFid
  <2> QED
    BY <2>1, <2>2 DEF Handed
<1>2. CASE SearchNext
  BY <1>2, EventHanded, TakeLockHanded, ReclaimHanded, SortHanded, SweptHanded, CloneHanded,
     ReadAgainHanded, ReadCloneHanded, AllocateHanded, StoreHanded, ResyncHanded, CloseHandleHanded, QueryHanded
     DEF SearchNext
<1> QED
  BY <1>1, <1>2

-----------------------------------------------------------------------------
\* The cap holds whatever clients clone, query and close at once (cleanupLocked,
\* allocateHandle).
THEOREM Capped == SearchSpec => []CapHolds
<1>1. Handed => CapHolds
  BY DEF Handed, Room, CapHolds
<1> QED
  BY InitHanded, NextHanded, <1>1, PTL DEF SearchSpec

\* A listed handle shows what its last query is for (executeSearch, ResyncView).
THEOREM ShowsWhatThereIs == SearchSpec => []ResultsAreCurrent
<1>1. Handed => ResultsAreCurrent
  BY DEF Handed, Current, ResultsAreCurrent
<1> QED
  BY InitHanded, NextHanded, <1>1, PTL DEF SearchSpec

\* No two fids are ever given one handle, whether their reads are at once, after
\* a close or after the handle is reclaimed (allocateHandle, cloneFile.Read).
THEOREM HandlesOfOneFid == SearchSpec => []HandlesAreOfOneFid
<1>1. Handed => HandlesAreOfOneFid
  BY DEF Handed
<1> QED
  BY InitHanded, NextHanded, <1>1, PTL DEF SearchSpec
=============================================================================
