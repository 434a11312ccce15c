--------------------------- MODULE RegistryProofs ---------------------------
(* What holds of the served tree for any number of clients, books and views: *)
(* that it follows the index by Inv, that its lists show it by Showing.      *)
EXTENDS Registry, FiniteSetTheorems, TLAPS

USE EventsAssumption, RegistryAssumption DEF Ids

-----------------------------------------------------------------------------
(* Types, as far as the argument needs them. *)

Typed ==
  /\ EventsTypeOK
  /\ dirs \in [Ids -> Books \union {None}]
  /\ loading \in SUBSET Ids
  /\ \A p \in Procs : pc[p] # "idle" => book[p] \in Ids /\ news[p] \in Books
  /\ \A i \in loading : row[i] # None
  /\ loading = {} \/ \A p \in Procs : pc[p] = "idle"

\* Every initial state is well typed.
LEMMA InitTyped == Init => Typed
  BY SMT DEF Init, EventsInit, NoCalls, Typed, EventsTypeOK

\* Ending a call keeps the types of what it resets.
LEMMA EndCallTyped ==
  ASSUME Typed, NEW p \in Procs, EndCall(p)
  PROVE  /\ pc' \in [Procs -> {"idle", "ingested", "edited", "deleting", "removing", "deleted"}]
         /\ book' \in [Procs -> 0 .. MaxId]
         /\ news' \in [Procs -> Books \union {None}]
         /\ bookMu' \in [Ids -> Procs \union {None}]
         /\ \A q \in Procs : pc'[q] # "idle" => book'[q] \in Ids /\ news'[q] \in Books
  BY SMT DEF Typed, EventsTypeOK, EndCall, Due

\* The registry's handlers store books and nothing else.
LEMMA HandlersTyped ==
  ASSUME Typed, NEW i \in Ids, NEW b \in Books,
         AddBook(i, b) \/ CommitKnown(i, b) \/ RemoveBook(i)
  PROVE  dirs' \in [Ids -> Books \union {None}]
  BY SMT DEF Typed, AddBook, CommitKnown, Commit, RemoveBook

\* Every step keeps the types.
LEMMA StepTyped == Typed /\ [Next]_vars => Typed'
<1> SUFFICES ASSUME Typed, [Next]_vars PROVE Typed'
  OBVIOUS
<1>1. ASSUME NEW p \in Procs, NEW b \in Uploads, Ingest(p, b) PROVE Typed'
  <2>1. b \in Books /\ seq + 1 \in Ids /\ seq + 1 \in 0 .. MaxId
    BY <1>1, SMT DEF Ingest, CommitIngest, Typed, EventsTypeOK
  <2> QED
    BY <1>1, <2>1, SMT DEF Ingest, Ready, CommitIngest, Due, Typed, EventsTypeOK
<1>2. ASSUME NEW p \in Procs, NEW i \in Ids, NEW f \in Changes, Edit(p, i, f) PROVE Typed'
  <2>1. f[row[i]] \in Books
    BY <1>2, SMT DEF Edit, CommitEdit, Typed, EventsTypeOK
  <2> DEFINE b == f[row[i]]
  <2>2. /\ row' = [row EXCEPT ![i] = b] /\ Due(p, "edited", i, b)
        /\ bookMu' = [bookMu EXCEPT ![i] = p] /\ UNCHANGED <<seq, dirs, loading>>
        /\ loading = {}
    BY <1>2 DEF Edit, Ready, CommitEdit
  <2> HIDE DEF b
  <2>3. b \in Books
    BY <2>1 DEF b
  <2> QED
    BY <2>2, <2>3, SMT DEF Due, Typed, EventsTypeOK
<1>3. ASSUME NEW p \in Procs, NEW i \in Ids, Delete(p, i) PROVE Typed'
  BY <1>3, SMT DEF Delete, Ready, BeginDelete, Due, Typed, EventsTypeOK
<1>4. ASSUME NEW p \in Procs, DeleteGoesOn(p) PROVE Typed'
  <2> loading = {} /\ UNCHANGED <<dirs, loading>>
    BY <1>4, SMT DEF DeleteGoesOn, Deleting, CommitDelete, FailDelete, Typed
  <2>1. CASE Deleting(p)
    BY <2>1, SMT DEF Deleting, Typed, EventsTypeOK
  <2>2. CASE CommitDelete(p)
    BY <2>2, SMT DEF CommitDelete, Typed, EventsTypeOK
  <2>3. CASE FailDelete(p)
    <3>1. EndCall(p) /\ UNCHANGED <<row, seq>>
      BY <2>3 DEF FailDelete
    <3>2. dirs' \in [Ids -> Books \union {None}] /\ EventsTypeOK'
      BY <3>1, EndCallTyped DEF Typed, EventsTypeOK
    <3> QED
      BY <3>1, <3>2, EndCallTyped DEF Typed
  <2> QED
    BY <1>4, <2>1, <2>2, <2>3 DEF DeleteGoesOn
<1>5. ASSUME NEW p \in Procs, Announce(p) PROVE Typed'
  <2>1. EndCall(p) /\ UNCHANGED <<row, seq, loading>> /\ book[p] \in Ids /\ news[p] \in Books
    BY <1>5, SMT DEF Announce, OnIngested, OnEdited, OnDeleted, MayAnnounce, Typed
  <2> loading = {}
    BY <1>5, SMT DEF Announce, OnIngested, OnEdited, OnDeleted, MayAnnounce, Typed
  <2>2. dirs' \in [Ids -> Books \union {None}]
    <3>1. CASE UNCHANGED dirs
      BY <3>1 DEF Typed
    <3>2. CASE AddBook(book[p], news[p]) \/ CommitKnown(book[p], news[p]) \/ RemoveBook(book[p])
      BY <2>1, <3>2, HandlersTyped
    <3> QED
      BY <1>5, <3>1, <3>2 DEF Announce, OnIngested, OnEdited, OnDeleted
  <2> QED
    BY <2>1, <2>2, EndCallTyped DEF Typed, EventsTypeOK
<1>6. CASE Restart
  BY <1>6, SMT DEF Restart, CallsDie, Typed, EventsTypeOK
<1>7. ASSUME NEW i \in Ids, Load(i) PROVE Typed'
  <2>1. row[i] \in Books
    BY <1>7, SMT DEF Load, Typed, EventsTypeOK
  <2> QED
    BY <1>7, <2>1, HandlersTyped, SMT DEF Load, eventVars, Typed, EventsTypeOK
<1>8. CASE UNCHANGED vars
  BY <1>8, SMT DEF vars, eventVars, Typed, EventsTypeOK
<1> QED
  BY <1>1, <1>2, <1>3, <1>4, <1>5, <1>6, <1>7, <1>8 DEF Next
-----------------------------------------------------------------------------
(* The tree follows the index. *)

\* Ids beyond the last one issued are nowhere.
Fresh == \A i \in Ids : i > seq => /\ row[i] = None /\ dirs[i] = None
                                   /\ \A p \in Procs : book[p] # i

\* Every call but an ingest holds its book's lock, and ingests take turns.
Locked ==
  /\ \A p \in Procs : pc[p] = "idle" => book[p] = 0
  /\ \A p \in Procs : pc[p] \in {"edited", "deleting", "removing", "deleted"} =>
       bookMu[book[p]] = p
  /\ \A p, q \in Procs : pc[p] = "ingested" /\ pc[q] = "ingested" => p = q

\* What a call found in the index, or wrote to it, is still there when it announces it.
Pending ==
  \A p \in Procs :
    /\ pc[p] = "ingested" => dirs[book[p]] = None /\ row[book[p]] \in {None, news[p]}
    /\ pc[p] = "edited" => dirs[book[p]] # None /\ row[book[p]] = news[p]
    /\ pc[p] = "deleted" => row[book[p]] = None

\* The tree and the index differ only over a book some call has yet to announce.
Announced ==
  \A i \in Ids : \/ i \in loading /\ dirs[i] = None
                 \/ i \notin loading /\ dirs[i] = row[i]
                 \/ i \notin loading /\ \E p \in Procs :
                      book[p] = i /\ pc[p] \in {"ingested", "edited", "deleted"}

Inv == Typed /\ Fresh /\ Locked /\ Pending /\ Announced

\* The invariant says of a settled book what the property says.
LEMMA InvFollows == Inv => TreeFollowsIndex
  BY SMT DEF Inv, Announced, TreeFollowsIndex, Settled

\* It holds at the start.
LEMMA InitInv == Init => Inv
<1> SUFFICES ASSUME Init PROVE Inv
  OBVIOUS
<1> Typed
  BY InitTyped
<1> QED
  BY SMT DEF Init, EventsInit, NoCalls, Inv, Fresh, Locked, Pending, Announced

\* What the end of p's call leaves of the others'.
LEMMA Ended ==
  ASSUME Inv, NEW p \in Procs, pc[p] # "idle", EndCall(p)
  PROVE  /\ pc'[p] = "idle" /\ book'[p] = 0
         /\ \A q \in Procs \ {p} : pc'[q] = pc[q] /\ book'[q] = book[q] /\ news'[q] = news[q]
         /\ \A i \in Ids : bookMu[i] # p => bookMu'[i] = bookMu[i]
         /\ Locked'
<1>1. /\ pc'[p] = "idle" /\ book'[p] = 0
      /\ \A q \in Procs \ {p} : pc'[q] = pc[q] /\ book'[q] = book[q] /\ news'[q] = news[q]
      /\ \A i \in Ids : bookMu[i] # p => bookMu'[i] = bookMu[i]
  BY SMT DEF EndCall, Due, Inv, Typed, EventsTypeOK
<1>2. \A q \in Procs : pc'[q] = "idle" => book'[q] = 0
  BY <1>1, SMT DEF Locked, Inv
<1>3. ASSUME NEW q \in Procs, pc'[q] \in {"edited", "deleting", "removing", "deleted"}
      PROVE  bookMu'[book'[q]] = q
  <2>1. q # p /\ book[q] \in Ids /\ bookMu[book[q]] = q /\ book'[q] = book[q]
    BY <1>1, <1>3, SMT DEF Locked, Inv, Typed
  <2> QED
    BY <1>1, <2>1
<1>4. \A q, r \in Procs : pc'[q] = "ingested" /\ pc'[r] = "ingested" => q = r
  BY <1>1, SMT DEF Locked, Inv
<1> QED
  BY <1>1, <1>2, <1>3, <1>4 DEF Locked

\* The registry's handlers touch the directory of one book.
LEMMA HandlersEffect ==
  ASSUME Typed, NEW i \in Ids, NEW b \in Books
  PROVE  /\ AddBook(i, b) =>
              dirs' = IF dirs[i] = None THEN [dirs EXCEPT ![i] = b] ELSE dirs
         /\ CommitKnown(i, b) =>
              dirs' = IF dirs[i] = None THEN dirs ELSE [dirs EXCEPT ![i] = b]
         /\ RemoveBook(i) => dirs' = [dirs EXCEPT ![i] = None]
  BY SMT DEF Typed, AddBook, CommitKnown, Commit, RemoveBook

\* A new book's id is new everywhere.
LEMMA IngestKeeps ==
  ASSUME Inv, Typed', NEW p \in Procs, NEW b \in Uploads, Ingest(p, b)
  PROVE  Inv'
<1>1. /\ seq' = seq + 1 /\ seq' \in Ids /\ b \in Books /\ loading = {}
      /\ row' = [row EXCEPT ![seq'] = b] /\ UNCHANGED <<dirs, loading, bookMu>>
      /\ pc[p] = "idle" /\ pc' = [pc EXCEPT ![p] = "ingested"]
      /\ book' = [book EXCEPT ![p] = seq'] /\ news' = [news EXCEPT ![p] = b]
      /\ \A q \in Procs : pc[q] # "ingested"
  BY SMT DEF Ingest, Ready, CommitIngest, Due, Inv, Typed, EventsTypeOK
<1>2. Fresh'
  BY <1>1, SMT DEF Fresh, Inv, Typed, EventsTypeOK
<1>3. Locked'
  BY <1>1, SMT DEF Locked, Inv, Typed, EventsTypeOK
<1>4. Pending'
  <2> SUFFICES ASSUME NEW q \in Procs
               PROVE  /\ pc'[q] = "ingested" =>
                           dirs'[book'[q]] = None /\ row'[book'[q]] \in {None, news'[q]}
                      /\ pc'[q] = "edited" =>
                           dirs'[book'[q]] # None /\ row'[book'[q]] = news'[q]
                      /\ pc'[q] = "deleted" => row'[book'[q]] = None
    BY DEF Pending
  <2>1. CASE q = p
    BY <1>1, <2>1, SMT DEF Fresh, Inv, Typed, EventsTypeOK
  <2>2. CASE q # p
    BY <1>1, <2>2, SMT DEF Pending, Fresh, Inv, Typed, EventsTypeOK
  <2> QED
    BY <2>1, <2>2
<1>5. Announced'
  <2> SUFFICES ASSUME NEW i \in Ids
               PROVE  \/ dirs'[i] = row'[i]
                      \/ \E q \in Procs :
                           book'[q] = i /\ pc'[q] \in {"ingested", "edited", "deleted"}
    BY <1>1, SMT DEF Announced
  <2>1. CASE i = seq'
    BY <1>1, <2>1, SMT DEF Inv, Typed, EventsTypeOK
  <2>2. ASSUME i # seq', dirs[i] = row[i] PROVE dirs'[i] = row'[i]
    BY <1>1, <2>2, SMT DEF Inv, Typed, EventsTypeOK
  <2>3. ASSUME NEW q \in Procs, book[q] = i, pc[q] \in {"ingested", "edited", "deleted"}
        PROVE  book'[q] = i /\ pc'[q] \in {"ingested", "edited", "deleted"}
    BY <1>1, <2>3, SMT DEF Inv, Typed, EventsTypeOK
  <2> QED
    BY <1>1, <2>1, <2>2, <2>3 DEF Announced, Inv
<1> QED
  BY <1>2, <1>3, <1>4, <1>5 DEF Inv

\* An edit through the tree is of a book whose ingest has been announced.
LEMMA EditKeeps ==
  ASSUME Inv, Typed', "edit" \notin Outsiders,
         NEW p \in Procs, NEW i \in Ids, NEW f \in Changes, Edit(p, i, f)
  PROVE  Inv'
<1> DEFINE b == f[row[i]]
<1>1. /\ row' = [row EXCEPT ![i] = b] /\ UNCHANGED <<seq, dirs, loading>> /\ loading = {}
      /\ bookMu[i] = None /\ bookMu' = [bookMu EXCEPT ![i] = p]
      /\ pc[p] = "idle" /\ pc' = [pc EXCEPT ![p] = "edited"]
      /\ book' = [book EXCEPT ![p] = i] /\ news' = [news EXCEPT ![p] = b]
      /\ row[i] # None /\ dirs[i] # None
  BY DEF Edit, Ready, Addressable, CommitEdit, BookLockFree, Due
<1> HIDE DEF b
<1>2. \A q \in Procs \ {p} : pc[q] # "idle" => book[q] # i
  BY <1>1, SMT DEF Locked, Pending, Inv, Typed, EventsTypeOK
<1>3. i <= seq
  BY <1>1, SMT DEF Fresh, Inv, Typed, EventsTypeOK
<1>4. Fresh'
  BY <1>1, <1>3, SMT DEF Fresh, Inv, Typed, EventsTypeOK
<1>5. Locked'
  BY <1>1, <1>2, SMT DEF Locked, Inv, Typed, EventsTypeOK
<1>6. Pending'
  BY <1>1, <1>2, SMT DEF Pending, Inv, Typed, EventsTypeOK
<1>7. Announced'
  <2> SUFFICES ASSUME NEW j \in Ids
               PROVE  \/ dirs'[j] = row'[j]
                      \/ \E q \in Procs :
                           book'[q] = j /\ pc'[q] \in {"ingested", "edited", "deleted"}
    BY <1>1, SMT DEF Announced
  <2>1. CASE j = i
    BY <1>1, <2>1, SMT DEF Inv, Typed, EventsTypeOK
  <2>2. ASSUME j # i, dirs[j] = row[j] PROVE dirs'[j] = row'[j]
    BY <1>1, <2>2, SMT DEF Inv, Typed, EventsTypeOK
  <2>3. ASSUME NEW q \in Procs, book[q] = j, pc[q] \in {"ingested", "edited", "deleted"}
        PROVE  book'[q] = j /\ pc'[q] \in {"ingested", "edited", "deleted"}
    BY <1>1, <2>3, SMT DEF Inv, Typed, EventsTypeOK
  <2> QED
    BY <1>1, <2>1, <2>2, <2>3 DEF Announced, Inv
<1> QED
  BY <1>4, <1>5, <1>6, <1>7 DEF Inv
\* A delete begins by taking the book's lock.
LEMMA DeleteKeeps ==
  ASSUME Inv, Typed', NEW p \in Procs, NEW i \in Ids, Delete(p, i)
  PROVE  Inv'
<1>1. /\ UNCHANGED <<row, seq, dirs, loading>>
      /\ bookMu[i] = None /\ bookMu' = [bookMu EXCEPT ![i] = p]
      /\ pc[p] = "idle" /\ pc' = [pc EXCEPT ![p] = "deleting"]
      /\ book' = [book EXCEPT ![p] = i] /\ news' = [news EXCEPT ![p] = row[i]]
      /\ row[i] # None
  BY DEF Delete, BeginDelete, BookLockFree, Due
<1>2. i <= seq
  BY <1>1, SMT DEF Fresh, Inv, Typed, EventsTypeOK
<1>3. Fresh'
  BY <1>1, <1>2, SMT DEF Fresh, Inv, Typed, EventsTypeOK
<1>4. Locked'
  BY <1>1, SMT DEF Locked, Inv, Typed, EventsTypeOK
<1>5. Pending'
  BY <1>1, SMT DEF Pending, Inv, Typed, EventsTypeOK
<1>6. Announced'
  <2>1. ASSUME NEW q \in Procs, pc[q] \in {"ingested", "edited", "deleted"}
        PROVE  book'[q] = book[q] /\ pc'[q] = pc[q]
    BY <1>1, <2>1, SMT DEF Inv, Typed, EventsTypeOK
  <2> QED
    BY <1>1, <2>1 DEF Announced, Inv
<1> QED
  BY <1>3, <1>4, <1>5, <1>6 DEF Inv

\* A delete goes on while it holds the book's lock.
LEMMA DeleteGoesOnKeeps ==
  ASSUME Inv, Typed', NEW p \in Procs, DeleteGoesOn(p)
  PROVE  Inv'
<1>1. UNCHANGED <<seq, dirs, loading>> /\ pc[p] \in {"deleting", "removing"}
  BY DEF DeleteGoesOn, Deleting, CommitDelete, FailDelete
<1>2. CASE Deleting(p)
  <2>1. UNCHANGED <<row, book, news, bookMu>> /\ pc' = [pc EXCEPT ![p] = "removing"]
    BY <1>2 DEF Deleting
  <2>2. Fresh' /\ Locked' /\ Pending'
    BY <1>1, <2>1, SMT DEF Fresh, Locked, Pending, Inv, Typed, EventsTypeOK
  <2>3. ASSUME NEW q \in Procs, pc[q] \in {"ingested", "edited", "deleted"}
        PROVE  pc'[q] = pc[q]
    BY <1>1, <2>1, <2>3, SMT DEF Inv, Typed, EventsTypeOK
  <2> QED
    BY <1>1, <2>1, <2>2, <2>3 DEF Announced, Inv
<1>3. CASE CommitDelete(p)
  <2>1. /\ UNCHANGED <<book, news, bookMu>> /\ pc' = [pc EXCEPT ![p] = "deleted"]
        /\ row' = [row EXCEPT ![book[p]] = None]
    BY <1>3 DEF CommitDelete
  <2>2. book[p] \in Ids /\ loading = {} /\ bookMu[book[p]] = p
    BY <1>1, SMT DEF Locked, Inv, Typed, EventsTypeOK
  <2>3. Fresh' /\ Locked'
    BY <1>1, <2>1, <2>2, SMT DEF Fresh, Locked, Inv, Typed, EventsTypeOK
  <2>4. \A q \in Procs : pc[q] = "edited" => book[q] # book[p]
    BY <1>1, <2>2, SMT DEF Locked, Inv
  <2>5. Pending'
    BY <1>1, <2>1, <2>2, <2>4, SMT DEF Pending, Inv, Typed, EventsTypeOK
  <2>6. ASSUME NEW i \in Ids, i # book[p] PROVE row'[i] = row[i]
    BY <2>1, <2>6, SMT DEF Inv, Typed, EventsTypeOK
  <2>7. ASSUME NEW q \in Procs, pc[q] \in {"ingested", "edited", "deleted"}
        PROVE  pc'[q] = pc[q]
    BY <1>1, <2>1, <2>7, SMT DEF Inv, Typed, EventsTypeOK
  <2>8. pc'[p] = "deleted" /\ book'[p] = book[p]
    BY <2>1, SMT DEF Inv, Typed, EventsTypeOK
  <2>9. Announced'
    BY <1>1, <2>1, <2>2, <2>6, <2>7, <2>8 DEF Announced, Inv
  <2> QED
    BY <2>3, <2>5, <2>9 DEF Inv
<1>4. CASE FailDelete(p)
  <2>1. EndCall(p) /\ UNCHANGED row /\ pc[p] # "idle"
    BY <1>1, <1>4 DEF FailDelete
  <2> USE Ended
  <2>2. Fresh'
    BY <1>1, <2>1, SMT DEF Fresh, Inv
  <2>3. Pending'
    BY <1>1, <2>1, SMT DEF Pending, Inv
  <2>4. ASSUME NEW q \in Procs, pc[q] \in {"ingested", "edited", "deleted"}
        PROVE  pc'[q] = pc[q] /\ book'[q] = book[q]
    BY <1>1, <2>1, <2>4
  <2>5. Announced'
    BY <1>1, <2>1, <2>4 DEF Announced, Inv
  <2> QED
    BY <2>1, <2>2, <2>3, <2>5 DEF Inv
<1> QED
  BY <1>2, <1>3, <1>4 DEF DeleteGoesOn

\* Once p's handlers have run, the tree and the index agree about its book.
LEMMA AnnounceAgrees ==
  ASSUME Inv, NEW p \in Procs, Announce(p)
  PROVE  /\ EndCall(p) /\ UNCHANGED <<row, seq, loading>> /\ pc[p] # "idle"
         /\ book[p] \in Ids /\ loading = {}
         /\ dirs' = [dirs EXCEPT ![book[p]] = row[book[p]]]
<1>1. /\ EndCall(p) /\ UNCHANGED <<row, seq, loading>>
      /\ pc[p] \in {"ingested", "edited", "deleted"}
  BY DEF Announce, OnIngested, OnEdited, OnDeleted, MayAnnounce
<1>2. book[p] \in Ids /\ news[p] \in Books /\ news[p] # None /\ loading = {}
  BY <1>1, SMT DEF Inv, Typed
<1> SUFFICES dirs' = [dirs EXCEPT ![book[p]] = row[book[p]]]
  BY <1>1, <1>2
<1>3. dirs = [dirs EXCEPT ![book[p]] = dirs[book[p]]]
  BY <1>2, SMT DEF Inv, Typed
<1>4. CASE OnIngested(p)
  <2>1. dirs[book[p]] = None /\ row[book[p]] \in {None, news[p]}
    BY <1>4 DEF OnIngested, MayAnnounce, Pending, Inv
  <2>2. CASE row[book[p]] = None
    <3>1. UNCHANGED dirs
      BY <1>4, <2>2 DEF OnIngested, SidecarsOpen
    <3> QED
      BY <1>3, <2>1, <2>2, <3>1
  <2>3. CASE row[book[p]] = news[p]
    <3>1. AddBook(book[p], news[p])
      BY <1>2, <1>4, <2>3 DEF OnIngested, SidecarsOpen
    <3>2. Typed
      BY DEF Inv
    <3>3. dirs' = IF dirs[book[p]] = None THEN [dirs EXCEPT ![book[p]] = news[p]] ELSE dirs
      BY ONLY <1>2, <3>1, <3>2, HandlersEffect
    <3> QED
      BY <2>1, <2>3, <3>3
  <2> QED
    BY <2>1, <2>2, <2>3
<1>5. CASE OnEdited(p)
  <2>1. dirs[book[p]] # None /\ row[book[p]] = news[p]
    BY <1>5 DEF OnEdited, MayAnnounce, Pending, Inv
  <2>2. CommitKnown(book[p], news[p])
    BY <1>2, <1>5, <2>1 DEF OnEdited, SidecarsOpen
  <2>3. Typed
    BY DEF Inv
  <2>4. dirs' = IF dirs[book[p]] = None THEN dirs ELSE [dirs EXCEPT ![book[p]] = news[p]]
    BY ONLY <1>2, <2>2, <2>3, HandlersEffect
  <2> QED
    BY <2>1, <2>4
<1>6. CASE OnDeleted(p)
  <2>1. row[book[p]] = None
    BY <1>6 DEF OnDeleted, MayAnnounce, Pending, Inv
  <2> QED
    BY <1>2, <1>6, <2>1, HandlersEffect DEF OnDeleted, Inv
<1> QED
  BY <1>4, <1>5, <1>6 DEF Announce

\* Nobody else is between the index and the tree with the book p announces, but for
\* an ingest whose book p has deleted.
LEMMA AnnounceKeeps ==
  ASSUME Inv, Typed', NEW p \in Procs, Announce(p)
  PROVE  Inv'
<1>1. /\ EndCall(p) /\ UNCHANGED <<row, seq, loading>> /\ pc[p] # "idle"
      /\ book[p] \in Ids /\ loading = {}
      /\ dirs' = [dirs EXCEPT ![book[p]] = row[book[p]]]
  BY AnnounceAgrees
<1>2. /\ dirs'[book[p]] = row[book[p]]
      /\ \A i \in Ids \ {book[p]} : dirs'[i] = dirs[i]
  BY <1>1, SMT DEF Inv, Typed
<1> USE Ended
<1>3. Fresh'
  BY <1>1, <1>2, SMT DEF Fresh, Inv
<1>4. Pending'
  <2> SUFFICES ASSUME NEW q \in Procs
               PROVE  /\ pc'[q] = "ingested" =>
                           dirs'[book'[q]] = None /\ row'[book'[q]] \in {None, news'[q]}
                      /\ pc'[q] = "edited" =>
                           dirs'[book'[q]] # None /\ row'[book'[q]] = news'[q]
                      /\ pc'[q] = "deleted" => row'[book'[q]] = None
    BY DEF Pending
  <2>1. CASE q = p \/ pc[q] = "idle"
    BY <1>1, <2>1
  <2>2. CASE q # p /\ pc[q] # "idle" /\ book[q] # book[p]
    <3>1. book[q] \in Ids
      BY <2>2 DEF Inv, Typed
    <3> QED
      BY <1>1, <1>2, <2>2, <3>1 DEF Pending, Inv
  <2>3. CASE q # p /\ pc[q] # "idle" /\ book[q] = book[p]
    <3>1. CASE OnDeleted(p)
      <4>1. row[book[p]] = None /\ pc[p] = "deleted"
        BY <3>1 DEF OnDeleted, MayAnnounce, Pending, Inv
      <4>2. pc[q] # "edited"
        BY <2>3, <4>1 DEF Locked, Inv
      <4> QED
        BY <1>1, <1>2, <2>3, <4>1, <4>2
    <3>2. CASE OnIngested(p)
      <4>1. bookMu[book[p]] = None /\ pc[p] = "ingested" /\ p # None /\ q # None
        BY <3>2 DEF OnIngested, MayAnnounce, BookLockFree
      <4>2. pc[q] \notin {"ingested", "edited", "deleted"}
        BY <2>3, <4>1 DEF Locked, Inv
      <4> QED
        BY <1>1, <2>3, <4>2
    <3>3. CASE OnEdited(p)
      <4>1. pc[p] = "edited" /\ dirs[book[p]] # None
        BY <3>3 DEF OnEdited, MayAnnounce, Pending, Inv
      <4>2. pc[q] \notin {"ingested", "edited", "deleted"}
        BY <2>3, <4>1 DEF Locked, Pending, Inv
      <4> QED
        BY <1>1, <2>3, <4>2
    <3> QED
      BY <3>1, <3>2, <3>3 DEF Announce
  <2> QED
    BY <2>1, <2>2, <2>3
<1>5. Announced'
  <2> SUFFICES ASSUME NEW i \in Ids, dirs'[i] # row'[i]
               PROVE  \E q \in Procs :
                        book'[q] = i /\ pc'[q] \in {"ingested", "edited", "deleted"}
    BY <1>1 DEF Announced
  <2>1. i # book[p] /\ dirs[i] # row[i]
    BY <1>1, <1>2
  <2>2. PICK q \in Procs : book[q] = i /\ pc[q] \in {"ingested", "edited", "deleted"}
    BY <1>1, <2>1 DEF Announced, Inv
  <2> QED
    BY <1>1, <2>1, <2>2
<1> QED
  BY <1>1, <1>3, <1>4, <1>5 DEF Inv

\* A server that starts has nothing to announce and every book to load.
LEMMA RestartKeeps ==
  ASSUME Inv, Typed', Restart
  PROVE  Inv'
<1>1. /\ UNCHANGED <<row, seq>> /\ \A p \in Procs : pc'[p] = "idle" /\ book'[p] = 0
      /\ \A i \in Ids : dirs'[i] = None
      /\ loading' = {i \in Ids : row[i] # None}
  BY DEF Restart, CallsDie
<1>2. Fresh'
  BY <1>1, SMT DEF Fresh, Inv
<1>3. Locked' /\ Pending'
  BY <1>1, SMT DEF Locked, Pending
<1>4. Announced'
  BY <1>1, SMT DEF Announced
<1> QED
  BY <1>2, <1>3, <1>4 DEF Inv

\* A book is loaded as the index has it.
LEMMA LoadKeeps ==
  ASSUME Inv, Typed', NEW i \in Ids, Load(i)
  PROVE  Inv'
<1>1. /\ UNCHANGED eventVars /\ i \in loading /\ loading' = loading \ {i}
      /\ row[i] # None /\ dirs[i] = None /\ \A p \in Procs : pc[p] = "idle"
  BY DEF Load, Announced, Inv, Typed
<1>2. dirs' = [dirs EXCEPT ![i] = row[i]]
  <2>1. row[i] \in Books /\ AddBook(i, row[i])
    BY <1>1 DEF Load, Inv, Typed, EventsTypeOK
  <2> QED
    BY <1>1, <2>1, HandlersEffect DEF Inv
<1>3. dirs'[i] = row[i] /\ \A j \in Ids \ {i} : dirs'[j] = dirs[j]
  BY <1>2, SMT DEF Inv, Typed
<1>4. Fresh'
  BY <1>1, <1>3, SMT DEF eventVars, Fresh, Inv
<1>5. Locked' /\ Pending'
  BY <1>1, SMT DEF eventVars, Locked, Pending, Inv
<1>6. Announced'
  BY <1>1, <1>3, SMT DEF eventVars, Announced, Inv
<1> QED
  BY <1>4, <1>5, <1>6 DEF Inv

\* However many clients ingest, edit through the tree and delete, and whenever the
\* server restarts, the tree follows the index.  Edits by id are excluded: one that
\* overtakes the event of the book's ingest is lost (RegistryRace.cfg).
THEOREM TreeFollows ==
  ASSUME "edit" \notin Outsiders
  PROVE  Spec => []TreeFollowsIndex
<1>1. Inv /\ [Next]_vars => Inv'
  <2> SUFFICES ASSUME Inv, [Next]_vars PROVE Inv'
    OBVIOUS
  <2> Typed'
    BY StepTyped DEF Inv
  <2>1. CASE UNCHANGED vars
    BY <2>1 DEF vars, eventVars, Inv, Fresh, Locked, Pending, Announced
  <2> QED
    BY <2>1, IngestKeeps, EditKeeps, DeleteKeeps, DeleteGoesOnKeeps, AnnounceKeeps,
       RestartKeeps, LoadKeeps DEF Next
<1> QED
  BY <1>1, InitInv, InvFollows, PTL DEF Spec

-----------------------------------------------------------------------------
(* One list: what adding and removing a book does to it. *)

\* list holds one node for each book of S, under the name it recorded for it, and the
\* names differ.
Listing(list, S, snaps) ==
  /\ list \in Lists
  /\ \A n \in list.nodes : n.id \in S /\ list.entries[n.id] = NameOf(n, snaps)
  /\ \A i \in S : \E n \in list.nodes : n.id = i
  /\ \A m, n \in list.nodes : m.id = n.id \/ NameOf(m, snaps) = NameOf(n, snaps) => m = n
  /\ \A i \in Ids \ S : list.entries[i] = None

Snapshots == [Ids -> Books \union {None}]

\* A minted name is nobody's but its book's.
LEMMA Naming ==
  ASSUME NEW snaps \in Snapshots, NEW m \in Nodes, NEW n \in Nodes,
         snaps[m.id] # None, snaps[n.id] # None
  PROVE  /\ NameOf(m, snaps) \in Names /\ NameOf(m, snaps) # None
         /\ m.minted /\ NameOf(m, snaps) = NameOf(n, snaps) => m.id = n.id
         /\ ~m.minted => NameOf(m, snaps) = TitleOf[snaps[m.id]]
<1> DEFINE t == TitleOf[snaps[m.id]]
           u == TitleOf[snaps[n.id]]
<1>1. /\ m.id \in Ids /\ n.id \in Ids /\ m.minted \in BOOLEAN /\ n.minted \in BOOLEAN
      /\ t \in Titles /\ u \in Titles
  BY DEF Nodes, Snapshots, Titles
<1>2. /\ NameOf(m, snaps) = IF m.minted THEN MintedName[<<t, m.id>>] ELSE t
      /\ NameOf(n, snaps) = IF n.minted THEN MintedName[<<u, n.id>>] ELSE u
  BY DEF NameOf
<1> HIDE DEF t, u
<1>3. /\ MintedName[<<t, m.id>>] \notin Titles \union {None}
      /\ MintedName[<<t, m.id>>] = MintedName[<<u, n.id>>] => m.id = n.id
  BY <1>1, ViewsAssumption
<1>4. None \notin Titles
  BY ViewsAssumption
<1>5. NameOf(m, snaps) \in Names /\ NameOf(m, snaps) # None
  BY <1>1, <1>2, <1>3, <1>4 DEF Names
<1>6. m.minted /\ NameOf(m, snaps) = NameOf(n, snaps) => m.id = n.id
  BY <1>1, <1>2, <1>3
<1> QED
  BY <1>2, <1>5, <1>6 DEF t

\* AddChild takes a new book: whoever has its title already, it gets a name.
LEMMA ListingAdds ==
  ASSUME NEW snaps \in Snapshots, NEW S \in SUBSET Ids, NEW list, Listing(list, S, snaps),
         \A j \in S : snaps[j] # None,
         NEW i \in Ids \ S, snaps[i] # None
  PROVE  Listing(Added(list, i, snaps), S \union {i}, snaps)
<1> DEFINE bare  == [id |-> i, minted |-> FALSE]
           clash == \E n \in list.nodes \ {bare} : NameOf(n, snaps) = TitleOf[snaps[i]]
           node  == [id |-> i, minted |-> clash]
           name  == NameOf(node, snaps)
           new   == Added(list, i, snaps)
<1>1. /\ list.nodes \in SUBSET Nodes /\ list.entries \in [Ids -> Names \union {None}]
      /\ \A n \in list.nodes : n \in Nodes /\ n.id \in S /\ n.id # i /\ snaps[n.id] # None
  <2>1. /\ list.nodes \in SUBSET Nodes /\ list.entries \in [Ids -> Names \union {None}]
        /\ \A n \in list.nodes : n.id \in S
    BY DEF Listing, Lists
  <2> QED
    BY <2>1
<1>2. node \in Nodes /\ node.id = i /\ node.minted = clash
  BY DEF Nodes
<1>3. name \in Names
  BY <1>2, Naming
<1>4. ASSUME NEW n \in list.nodes PROVE NameOf(n, snaps) # name
  <2>1. CASE clash
    BY <1>1, <1>2, <2>1, Naming
  <2>2. CASE ~clash
    <3>1. n # bare
      BY <1>1
    <3>2. name = TitleOf[snaps[i]]
      BY <1>2, <2>2, Naming
    <3> QED
      BY <2>2, <3>1, <3>2
  <2> QED
    BY <2>1, <2>2
<1>5. new = [nodes |-> list.nodes \union {node}, entries |-> [list.entries EXCEPT ![i] = name]]
  BY <1>4 DEF Added, Taken
<1> HIDE DEF bare, clash, new
<1> DEFINE k == name
<1>6. /\ new.nodes = list.nodes \union {node}
      /\ new.entries = [list.entries EXCEPT ![i] = name]
  BY <1>5
<1> HIDE DEF node, name
<1>7. new \in Lists
  BY <1>1, <1>2, <1>3, <1>5 DEF Lists
<1>8. \A n \in new.nodes : n.id \in S \union {i} /\ new.entries[n.id] = NameOf(n, snaps)
  <2>1. new.entries[i] = NameOf(node, snaps)
    BY <1>1, <1>6 DEF name
  <2>2. ASSUME NEW n \in list.nodes PROVE new.entries[n.id] = NameOf(n, snaps)
    BY <1>1, <1>6 DEF Listing
  <2> QED
    BY <1>1, <1>2, <1>6, <2>1, <2>2
<1>9. \A j \in S \union {i} : \E n \in new.nodes : n.id = j
  BY <1>2, <1>6 DEF Listing
<1>10. \A m, n \in new.nodes : m.id = n.id \/ NameOf(m, snaps) = NameOf(n, snaps) => m = n
  BY <1>1, <1>2, <1>4, <1>6 DEF Listing, name
<1>11. \A j \in Ids \ (S \union {i}) : new.entries[j] = None
  BY <1>1, <1>6 DEF Listing
<1> QED
  BY <1>7, <1>8, <1>9, <1>10, <1>11 DEF Listing, new

\* What is removed by its name is that book and no other.
LEMMA ListingDrops ==
  ASSUME NEW snaps \in Snapshots, NEW S \in SUBSET Ids, NEW list, Listing(list, S, snaps),
         \A j \in S : snaps[j] # None,
         NEW i \in S
  PROVE  Listing(Removed(list, i, snaps), S \ {i}, snaps)
<1> DEFINE new == Removed(list, i, snaps)
<1>1. /\ list.nodes \in SUBSET Nodes /\ list.entries \in [Ids -> Names \union {None}]
      /\ \A n \in list.nodes : n \in Nodes /\ n.id \in S /\ snaps[n.id] # None
  BY DEF Listing, Lists
<1>2. PICK node \in list.nodes : node.id = i
  BY DEF Listing
<1>3. list.entries[i] = NameOf(node, snaps) /\ list.entries[i] # None
  BY <1>1, <1>2, Naming DEF Listing
<1>4. \A n \in list.nodes : NameOf(n, snaps) # list.entries[i] <=> n # node
  BY <1>2, <1>3 DEF Listing
<1>5. new = [nodes |-> list.nodes \ {node}, entries |-> [list.entries EXCEPT ![i] = None]]
  <2>1. {n \in list.nodes : NameOf(n, snaps) # list.entries[i]} = list.nodes \ {node}
    BY <1>4
  <2> QED
    BY <1>3, <2>1 DEF Removed
<1> HIDE DEF new
<1>6. /\ new.nodes = list.nodes \ {node}
      /\ new.entries = [list.entries EXCEPT ![i] = None]
  BY <1>5
<1>7. new \in Lists
  BY <1>1, <1>5 DEF Lists
<1>8. \A n \in new.nodes : n \in list.nodes /\ n.id \in S \ {i}
  BY <1>1, <1>2, <1>6 DEF Listing
<1>9. \A n \in new.nodes : new.entries[n.id] = NameOf(n, snaps)
  <2> SUFFICES ASSUME NEW n \in new.nodes PROVE new.entries[n.id] = NameOf(n, snaps)
    OBVIOUS
  <2>1. n \in list.nodes /\ n.id \in Ids /\ n.id # i
    BY <1>8
  <2>2. new.entries[n.id] = list.entries[n.id]
    BY <1>1, <1>6, <2>1
  <2> QED
    BY <2>1, <2>2 DEF Listing
<1>10. \A j \in S \ {i} : \E n \in new.nodes : n.id = j
  BY <1>2, <1>6 DEF Listing
<1>11. \A j \in Ids \ (S \ {i}) : new.entries[j] = None
  BY <1>1, <1>6 DEF Listing
<1>12. \A m, n \in new.nodes : m.id = n.id \/ NameOf(m, snaps) = NameOf(n, snaps) => m = n
  BY <1>8 DEF Listing
<1> QED
  BY <1>7, <1>8, <1>9, <1>10, <1>11, <1>12 DEF Listing, new

\* A list goes by the snapshots of its own books.
LEMMA ListingSame ==
  ASSUME NEW snaps, NEW now, NEW S \in SUBSET Ids, NEW list, Listing(list, S, snaps),
         \A j \in S : now[j] = snaps[j]
  PROVE  Listing(list, S, now)
<1>1. \A n \in list.nodes : NameOf(n, now) = NameOf(n, snaps)
  BY DEF NameOf, Listing
<1> QED
  BY <1>1 DEF Listing

\* An empty list lists nothing, and Pruned changes none that lists something.
LEMMA ListingEmpty ==
  ASSUME NEW snaps
  PROVE  Listing(EmptyList, {}, snaps)
  BY DEF Listing, EmptyList, Lists

LEMMA ListingPruned ==
  ASSUME NEW snaps, NEW S, NEW list, NEW g, Listing(list, S, snaps)
  PROVE  Listing(Pruned(g, list), S, snaps)
<1>1. list.nodes = {} => S = {}
  BY DEF Listing
<1> QED
  BY <1>1, ListingEmpty DEF Pruned

\* A listing shows its books: as many nodes and as many names as there are books.
LEMMA FiniteIds == ASSUME NEW S \in SUBSET Ids PROVE IsFiniteSet(S)
<1>1. IsFiniteSet(Ids)
  BY FS_Interval
<1> QED
  BY <1>1, FS_Subset

LEMMA ListingShows ==
  ASSUME NEW S \in SUBSET Ids, NEW list, Listing(list, S, dirs)
  PROVE  Shows(list, S)
<1>1. IsFiniteSet(S)
  BY FiniteIds
<1>2. PICK nodeOf \in [S -> list.nodes] : \A i \in S : nodeOf[i].id = i
  <2>1. \A i \in S : \E n \in list.nodes : n.id = i
    BY DEF Listing
  <2> DEFINE f == [i \in S |-> CHOOSE n \in list.nodes : n.id = i]
  <2>2. f \in [S -> list.nodes] /\ \A i \in S : f[i].id = i
    BY <2>1
  <2> QED
    BY <2>2
<1>3. /\ \A n \in list.nodes : n.id \in S /\ nodeOf[n.id] = n
      /\ nodeOf \in Bijection(S, list.nodes)
  <2>1. ASSUME NEW n \in list.nodes PROVE n.id \in S /\ nodeOf[n.id] = n
    <3>1. n.id \in S
      BY DEF Listing
    <3>2. nodeOf[n.id] \in list.nodes /\ nodeOf[n.id].id = n.id
      BY <1>2, <3>1
    <3> QED
      BY <3>1, <3>2 DEF Listing
  <2>2. \A i, j \in S : nodeOf[i] = nodeOf[j] => i = j
    BY <1>2
  <2>3. \A n \in list.nodes : \E i \in S : nodeOf[i] = n
    BY <2>1
  <2> DEFINE N == list.nodes
  <2>4. nodeOf \in [S -> N] /\ \A n \in N : \E i \in S : nodeOf[i] = n
    BY <1>2, <2>3
  <2> HIDE DEF N
  <2>5. nodeOf \in Bijection(S, N)
    BY ONLY <2>2, <2>4 DEF Bijection, Injection, Surjection, IsInjective
  <2> QED
    BY <2>1, <2>5 DEF N
<1>4. Cardinality(list.nodes) = Cardinality(S)
  BY <1>1, <1>3, FS_Bijection DEF ExistsBijection
<1> DEFINE names == {NameOf(n, dirs) : n \in list.nodes}
<1>5. PICK nameOf \in [S -> names] : \A i \in S : nameOf[i] = NameOf(nodeOf[i], dirs)
  <2> DEFINE f == [i \in S |-> NameOf(nodeOf[i], dirs)]
  <2>1. f \in [S -> names] /\ \A i \in S : f[i] = NameOf(nodeOf[i], dirs)
    BY <1>2
  <2> QED
    BY <2>1
<1>6. nameOf \in Bijection(S, names)
  <2>1. \A i, j \in S : nameOf[i] = nameOf[j] => i = j
    BY <1>2, <1>5 DEF Listing
  <2>2. \A x \in names : \E i \in S : nameOf[i] = x
    <3> SUFFICES ASSUME NEW n \in list.nodes
                 PROVE  \E i \in S : nameOf[i] = NameOf(n, dirs)
      OBVIOUS
    <3> QED
      BY <1>3, <1>5
  <2> HIDE DEF names
  <2> QED
    BY ONLY <1>5, <2>1, <2>2 DEF Bijection, Injection, Surjection, IsInjective
<1>7. Cardinality(names) = Cardinality(S)
  BY <1>1, <1>6, FS_Bijection DEF ExistsBijection
<1>8. {n.id : n \in list.nodes} = S
  <2>1. \A n \in list.nodes : n.id \in S
    BY DEF Listing
  <2>2. \A i \in S : \E n \in list.nodes : n.id = i
    BY DEF Listing
  <2> QED
    BY ONLY <2>1, <2>2
<1> QED
  BY <1>4, <1>7, <1>8 DEF Shows, Listing

-----------------------------------------------------------------------------
(* recent. *)

Newer(S, j) == {k \in S : k > j}

LEMMA NewerFinite ==
  ASSUME NEW S \in SUBSET Ids, NEW j
  PROVE  IsFiniteSet(Newer(S, j)) /\ Cardinality(Newer(S, j)) \in Nat
<1>1. IsFiniteSet(Newer(S, j))
  <2>1. Newer(S, j) \in SUBSET Ids
    BY DEF Newer
  <2> QED
    BY <2>1, FiniteIds
<1> QED
  BY <1>1, FS_CardinalityType

\* A book more takes the place of one at most.
LEMMA NewestAdds ==
  ASSUME NEW S \in SUBSET Ids, NEW i \in Ids \ S
  PROVE  /\ Newest(S \union {i}) \subseteq Newest(S) \union {i}
         /\ \A j, k \in Newest(S) \ Newest(S \union {i}) : j = k
<1> DEFINE T == S \union {i}
<1>0. /\ \A R : Newest(R) = {j \in R : Cardinality(Newer(R, j)) < RecentLimit}
      /\ RecentLimit \in Nat
  BY ViewsAssumption DEF Newest, Newer
<1> T \in SUBSET Ids /\ S \in SUBSET T
  OBVIOUS
<1>1. ASSUME NEW j \in Newest(T), j # i PROVE j \in Newest(S)
  <2>1. Newer(S, j) \in SUBSET Newer(T, j) /\ j \in S /\ Cardinality(Newer(T, j)) < RecentLimit
    BY <1>0, <1>1 DEF Newer
  <2>2. Cardinality(Newer(S, j)) <= Cardinality(Newer(T, j))
    <3>1. IsFiniteSet(Newer(T, j))
      BY NewerFinite
    <3> QED
      BY ONLY <2>1, <3>1, FS_Subset
  <2>3. Cardinality(Newer(S, j)) \in Nat /\ Cardinality(Newer(T, j)) \in Nat
    BY NewerFinite
  <2>4. Cardinality(Newer(S, j)) < RecentLimit
    BY <1>0, <2>1, <2>2, <2>3
  <2> QED
    BY <1>0, <2>1, <2>4
<1>2. ASSUME NEW j \in Newest(S) \ Newest(T)
      PROVE  j \in S /\ Cardinality(Newer(S, j)) + 1 = RecentLimit
  <2>1. /\ j \in S /\ Cardinality(Newer(S, j)) < RecentLimit
        /\ ~(Cardinality(Newer(T, j)) < RecentLimit)
    BY <1>0, <1>2
  <2>2. Newer(T, j) = Newer(S, j) \/ Newer(T, j) = Newer(S, j) \union {i}
    BY DEF Newer
  <2>3. Newer(T, j) = Newer(S, j) \union {i}
    BY <2>1, <2>2
  <2>4. Cardinality(Newer(T, j)) <= Cardinality(Newer(S, j)) + 1
    <3>1. Cardinality(Newer(S, j)) \in Nat /\ IsFiniteSet(Newer(S, j))
      BY NewerFinite
    <3>2. Cardinality(Newer(S, j) \union {i}) =
            IF i \in Newer(S, j) THEN Cardinality(Newer(S, j)) ELSE Cardinality(Newer(S, j)) + 1
      BY <3>1, FS_AddElement
    <3>3. PICK c : c = Cardinality(Newer(S, j))
      OBVIOUS
    <3>4. c \in Nat /\ (Cardinality(Newer(T, j)) = c \/ Cardinality(Newer(T, j)) = c + 1)
      BY ONLY <2>3, <3>1, <3>2, <3>3
    <3> QED
      BY ONLY <3>3, <3>4
  <2>5. Cardinality(Newer(S, j)) \in Nat /\ Cardinality(Newer(T, j)) \in Nat
    BY NewerFinite
  <2> QED
    BY <1>0, <2>1, <2>4, <2>5
<1>3. ASSUME NEW j \in Newest(S) \ Newest(T), NEW k \in Newest(S) \ Newest(T), j < k
      PROVE  FALSE
  <2>1. /\ j \in S /\ k \in S
        /\ Cardinality(Newer(S, j)) = Cardinality(Newer(S, k))
    <3>1. Cardinality(Newer(S, j)) \in Nat /\ Cardinality(Newer(S, k)) \in Nat
      BY <1>2, NewerFinite
    <3>2. /\ j \in S /\ Cardinality(Newer(S, j)) + 1 = RecentLimit
          /\ k \in S /\ Cardinality(Newer(S, k)) + 1 = RecentLimit
      BY <1>2
    <3> QED
      BY <3>1, <3>2
  <2>2. Newer(S, k) \in SUBSET Newer(S, j) /\ k \in Newer(S, j) /\ k \notin Newer(S, k)
    <3>1. j \in Nat /\ k \in Nat /\ \A m \in S : m \in Nat
      BY <2>1
    <3>2. \A m \in S : m > k => m > j
      BY <1>3, <3>1
    <3>3. k > j /\ ~(k > k)
      BY <1>3, <3>1
    <3> QED
      BY ONLY <2>1, <3>2, <3>3 DEF Newer
  <2>3. Newer(S, j) = Newer(S, k)
    <3>1. IsFiniteSet(Newer(S, j))
      BY NewerFinite
    <3> QED
      BY ONLY <2>1, <2>2, <3>1, FS_Subset
  <2> QED
    BY <2>2, <2>3
<1>4. ASSUME NEW j \in Newest(S) \ Newest(T), NEW k \in Newest(S) \ Newest(T) PROVE j = k
  <2>1. j \in S /\ k \in S
    BY <1>2
  <2>2. ~(j < k) /\ ~(k < j)
    BY <1>3
  <2> QED
    BY <2>1, <2>2
<1> QED
  BY <1>1, <1>4

\* refresh leaves the newest, when one at most has entered and one at most has left.
LEMMA RefreshedLists ==
  ASSUME NEW snaps \in Snapshots, NEW was \in SUBSET Ids, NEW now \in SUBSET Ids,
         NEW list, Listing(list, Newest(was), snaps),
         \A j \in was \union now : snaps[j] # None,
         \A j, k \in Newest(now) \ Newest(was) : j = k,
         \A j, k \in Newest(was) \ Newest(now) : j = k
  PROVE  Listing(Refreshed(list, was, now, snaps), Newest(now), snaps)
<1> DEFINE entered == Newest(now) \ Newest(was)
           left    == Newest(was) \ Newest(now)
           all     == Newest(was) \union Newest(now)
           more    == AddedOneOf(list, entered, snaps)
<1>1. Newest(was) \subseteq was /\ Newest(now) \subseteq now
  BY DEF Newest
<1>2. Listing(more, all, snaps)
  <2>1. CASE entered = {}
    <3>1. all = Newest(was) /\ more = list
      BY <2>1 DEF AddedOneOf
    <3> QED
      BY <3>1
  <2>2. CASE entered # {}
    <3>1. PICK i : i = CHOOSE j \in entered : TRUE
      OBVIOUS
    <3>2. i \in entered /\ all = Newest(was) \union {i}
      BY <2>2, <3>1
    <3>3. more = Added(list, i, snaps)
      BY <2>2, <3>1 DEF AddedOneOf
    <3>4. /\ Newest(was) \in SUBSET Ids /\ \A j \in Newest(was) : snaps[j] # None
          /\ i \in Ids \ Newest(was) /\ snaps[i] # None
      BY <1>1, <3>2
    <3> QED
      BY <3>2, <3>3, <3>4, ListingAdds
  <2> QED
    BY <2>1, <2>2
<1>3. Refreshed(list, was, now, snaps) = RemovedOneOf(more, left, snaps)
  BY DEF Refreshed
<1> HIDE DEF more
<1>4. CASE left = {}
  <2>1. all = Newest(now) /\ RemovedOneOf(more, left, snaps) = more
    BY <1>4 DEF RemovedOneOf
  <2> QED
    BY <1>2, <1>3, <2>1
<1>5. CASE left # {}
  <2>1. PICK i : i = CHOOSE j \in left : TRUE
    OBVIOUS
  <2>2. i \in left /\ all \ {i} = Newest(now) /\ i \in all
    BY <1>5, <2>1
  <2>3. RemovedOneOf(more, left, snaps) = Removed(more, i, snaps)
    BY <1>5, <2>1 DEF RemovedOneOf
  <2>4. all \in SUBSET Ids /\ \A j \in all : snaps[j] # None
    BY <1>1
  <2>5. Listing(Removed(more, i, snaps), all \ {i}, snaps)
    BY <1>2, <2>2, <2>4, ListingDrops
  <2> QED
    BY <1>3, <2>2, <2>3, <2>5
<1> QED
  BY <1>4, <1>5

\* So it does whenever one book comes or goes.
LEMMA RefreshedOnAdding ==
  ASSUME NEW snaps \in Snapshots, NEW was \in SUBSET Ids, NEW i \in Ids \ was,
         NEW list, Listing(list, Newest(was), snaps),
         \A j \in was \union {i} : snaps[j] # None
  PROVE  Listing(Refreshed(list, was, was \union {i}, snaps), Newest(was \union {i}), snaps)
<1>1. was \union {i} \in SUBSET Ids
  OBVIOUS
<1>2. /\ \A j, k \in Newest(was \union {i}) \ Newest(was) : j = k
      /\ \A j, k \in Newest(was) \ Newest(was \union {i}) : j = k
  BY NewestAdds
<1> QED
  BY <1>1, <1>2, RefreshedLists

LEMMA RefreshedOnRemoving ==
  ASSUME NEW snaps \in Snapshots, NEW was \in SUBSET Ids, NEW i \in was,
         NEW list, Listing(list, Newest(was), snaps),
         \A j \in was : snaps[j] # None
  PROVE  Listing(Refreshed(list, was, was \ {i}, snaps), Newest(was \ {i}), snaps)
<1> DEFINE now == was \ {i}
<1>1. now \in SUBSET Ids /\ i \in Ids \ now /\ was = now \union {i}
  OBVIOUS
<1> HIDE DEF now
<1>2. /\ \A j, k \in Newest(now) \ Newest(was) : j = k
      /\ \A j, k \in Newest(was) \ Newest(now) : j = k
  BY <1>1, NewestAdds
<1>3. \A j \in was \union now : snaps[j] # None
  BY <1>1
<1>4. Listing(Refreshed(list, was, now, snaps), Newest(now), snaps)
  BY <1>1, <1>2, <1>3, RefreshedLists
<1> QED
  BY <1>4 DEF now

-----------------------------------------------------------------------------
(* Every group and recent list what they should. *)

Filed(g, snaps) == {i \in Ids : snaps[i] # None /\ g \in GroupsOf[snaps[i]]}

Listed ==
  /\ known = {i \in Ids : dirs[i] # None}
  /\ lists \in [Groups -> Lists]
  /\ \A g \in Groups : Listing(lists[g], Filed(g, dirs), dirs)
  /\ Listing(recent, Newest(known), dirs)

\* The directory of a book is made once.
Unlisted ==
  /\ \A p \in Procs : pc[p] = "ingested" => dirs[book[p]] = None
  /\ \A i \in loading : dirs[i] = None

\* Ingests take turns.
Turns == \A p, q \in Procs : pc[p] = "ingested" /\ pc[q] = "ingested" => p = q

LEMMA FiledBooks ==
  ASSUME NEW snaps, NEW g
  PROVE  Filed(g, snaps) \in SUBSET Ids /\ \A j \in Filed(g, snaps) : snaps[j] # None
  BY DEF Filed

LEMMA NewestBooks ==
  ASSUME NEW S
  PROVE  Newest(S) \subseteq S
  BY DEF Newest

\* The three handlers.
LEMMA AddListed ==
  ASSUME Typed, Listed, NEW i \in Ids, NEW b \in Books, dirs[i] = None, AddBook(i, b)
  PROVE  Listed'
<1>1. PICK snaps \in Snapshots : snaps = [dirs EXCEPT ![i] = b]
  BY DEF Typed, Snapshots
<1>2. /\ dirs \in Snapshots /\ dirs' = snaps /\ snaps[i] = b /\ b # None
      /\ \A j \in Ids \ {i} : snaps[j] = dirs[j]
  BY <1>1 DEF AddBook, Typed, Snapshots
<1>3. /\ lists' = [g \in Groups |-> IF g \in GroupsOf[b] THEN Added(lists[g], i, snaps)
                                                         ELSE lists[g]]
      /\ known' = known \union {i}
      /\ recent' = Refreshed(recent, known, known \union {i}, snaps)
  BY <1>1, <1>2 DEF AddBook
<1>4. known' = {j \in Ids : snaps[j] # None} /\ known \in SUBSET Ids /\ i \notin known
  BY <1>2, <1>3 DEF Listed
<1>5. ASSUME NEW g \in Groups PROVE Listing(lists'[g], Filed(g, snaps), snaps)
  <2>1. Listing(lists[g], Filed(g, dirs), snaps)
    <3>1. \A j \in Filed(g, dirs) : j \in Ids \ {i}
      BY <1>2 DEF Filed
    <3>2. \A j \in Filed(g, dirs) : snaps[j] = dirs[j]
      BY <1>2, <3>1
    <3> QED
      BY <3>2, FiledBooks, ListingSame DEF Listed
  <2>2. Filed(g, snaps) = IF g \in GroupsOf[b] THEN Filed(g, dirs) \union {i} ELSE Filed(g, dirs)
    BY <1>2 DEF Filed
  <2>3. i \notin Filed(g, dirs)
    BY DEF Filed
  <2>4. Filed(g, dirs) \in SUBSET Ids /\ \A j \in Filed(g, dirs) : snaps[j] # None
    BY <1>2, FiledBooks
  <2>5. CASE g \in GroupsOf[b]
    <3>1. Listing(Added(lists[g], i, snaps), Filed(g, dirs) \union {i}, snaps)
      BY <1>2, <2>1, <2>3, <2>4, ListingAdds
    <3> QED
      BY <1>3, <2>2, <2>5, <3>1
  <2> QED
    BY <1>3, <2>1, <2>2, <2>5
<1>6. Listing(recent', Newest(known'), snaps)
  <2>1. Newest(known) \in SUBSET Ids /\ \A j \in Newest(known) : snaps[j] = dirs[j]
    BY <1>2, <1>4, NewestBooks
  <2>2. Listing(recent, Newest(known), snaps)
    BY <2>1, ListingSame DEF Listed
  <2>3. \A j \in known \union {i} : snaps[j] # None
    BY <1>3, <1>4
  <2> QED
    BY <1>3, <1>4, <2>2, <2>3, RefreshedOnAdding
<1>7. lists' \in [Groups -> Lists]
  <2>1. \A g \in Groups : lists'[g] \in Lists
    BY <1>5 DEF Listing
  <2> QED
    BY <1>3, <2>1
<1> QED
  BY <1>2, <1>4, <1>5, <1>6, <1>7 DEF Listed

\* What the groups hold without book i, whose snapshot is still there.
LEMMA WithoutListed ==
  ASSUME Typed, Listed, NEW i \in Ids, dirs[i] # None, NEW g \in Groups
  PROVE  Listing(WithoutBook(i)[g], Filed(g, dirs) \ {i}, dirs)
<1>1. dirs \in Snapshots /\ Filed(g, dirs) \in SUBSET Ids
      /\ \A j \in Filed(g, dirs) : dirs[j] # None
  BY FiledBooks DEF Typed, Snapshots
<1>2. i \in Filed(g, dirs) <=> g \in GroupsOf[dirs[i]]
  BY DEF Filed
<1>3. CASE g \in GroupsOf[dirs[i]]
  <2>1. Listing(Removed(lists[g], i, dirs), Filed(g, dirs) \ {i}, dirs)
    BY <1>1, <1>2, <1>3, ListingDrops DEF Listed
  <2> QED
    BY <1>3, <2>1, ListingPruned DEF WithoutBook
<1>4. CASE g \notin GroupsOf[dirs[i]]
  <2>1. Filed(g, dirs) \ {i} = Filed(g, dirs) /\ WithoutBook(i)[g] = lists[g]
    BY <1>2, <1>4 DEF WithoutBook
  <2> QED
    BY <2>1 DEF Listed
<1> QED
  BY <1>3, <1>4

LEMMA RemoveListed ==
  ASSUME Typed, Listed, NEW i \in Ids, RemoveBook(i)
  PROVE  Listed'
<1>1. CASE dirs[i] = None
  BY <1>1 DEF RemoveBook, viewVars, Listed
<1>2. CASE dirs[i] # None
  <2>1. PICK snaps \in Snapshots : snaps = [dirs EXCEPT ![i] = None]
    BY DEF Typed, Snapshots
  <2>2. /\ dirs \in Snapshots /\ dirs' = snaps /\ snaps[i] = None
        /\ \A j \in Ids \ {i} : snaps[j] = dirs[j]
    BY <1>2, <2>1 DEF RemoveBook, Typed, Snapshots
  <2>3. /\ lists' = WithoutBook(i) /\ known' = known \ {i}
        /\ recent' = Refreshed(recent, known, known \ {i}, dirs)
    BY <1>2 DEF RemoveBook
  <2>4. known' = {j \in Ids : snaps[j] # None} /\ known \in SUBSET Ids /\ i \in known
    BY <1>2, <2>2, <2>3 DEF Listed
  <2>5. ASSUME NEW g \in Groups PROVE Listing(lists'[g], Filed(g, snaps), snaps)
    <3>1. Filed(g, snaps) = Filed(g, dirs) \ {i}
      BY <2>2 DEF Filed
    <3>2. Listing(lists'[g], Filed(g, snaps), dirs)
      BY <1>2, <2>3, <3>1, WithoutListed
    <3>3. Filed(g, snaps) \in SUBSET Ids /\ \A j \in Filed(g, snaps) : snaps[j] = dirs[j]
      BY <2>2, <3>1 DEF Filed
    <3> QED
      BY <3>2, <3>3, ListingSame
  <2>6. Listing(recent', Newest(known'), snaps)
    <3>1. \A j \in known : dirs[j] # None
      BY DEF Listed
    <3>2. Listing(recent', Newest(known'), dirs)
      BY <2>2, <2>3, <2>4, <3>1, RefreshedOnRemoving DEF Listed
    <3>3. Newest(known') \in SUBSET Ids /\ \A j \in Newest(known') : snaps[j] = dirs[j]
      BY <2>2, <2>3, <2>4, NewestBooks
    <3> QED
      BY <3>2, <3>3, ListingSame
  <2>7. lists' \in [Groups -> Lists]
    <3>1. \A g \in Groups : lists'[g] \in Lists
      BY <2>5 DEF Listing
    <3> QED
      BY <2>3, <3>1 DEF WithoutBook
  <2> QED
    BY <2>2, <2>4, <2>5, <2>6, <2>7 DEF Listed
<1> QED
  BY <1>1, <1>2

LEMMA CommitListed ==
  ASSUME Typed, Listed, NEW i \in Ids, NEW b \in Books, CommitKnown(i, b)
  PROVE  Listed'
<1>1. CASE dirs[i] = None
  BY <1>1 DEF CommitKnown, viewVars, Listed
<1>2. CASE dirs[i] # None
  <2>1. PICK snaps \in Snapshots : snaps = [dirs EXCEPT ![i] = b]
    BY DEF Typed, Snapshots
  <2>2. PICK left : left = Refreshed(recent, known, known \ {i}, dirs)
    OBVIOUS
  <2>3. /\ dirs \in Snapshots /\ dirs' = snaps /\ snaps[i] = b /\ b # None
        /\ \A j \in Ids \ {i} : snaps[j] = dirs[j]
    BY <1>2, <2>1 DEF CommitKnown, Commit, Typed, Snapshots
  <2>4. /\ lists' = [g \in Groups |-> IF g \in GroupsOf[b] THEN Added(WithoutBook(i)[g], i, snaps)
                                                           ELSE WithoutBook(i)[g]]
        /\ recent' = Refreshed(left, known \ {i}, known \union {i}, snaps)
        /\ known' = known
    BY <1>2, <2>1, <2>2 DEF CommitKnown, Commit
  <2>5. /\ known' = {j \in Ids : snaps[j] # None} /\ known \in SUBSET Ids /\ i \in known
        /\ known \union {i} = known /\ (known \ {i}) \union {i} = known
    BY <1>2, <2>3, <2>4 DEF Listed
  <2>6. ASSUME NEW g \in Groups PROVE Listing(lists'[g], Filed(g, snaps), snaps)
    <3> DEFINE others == Filed(g, dirs) \ {i}
    <3>1. /\ others \in SUBSET Ids /\ i \in Ids \ others
          /\ \A j \in others : snaps[j] = dirs[j] /\ snaps[j] # None
      BY <2>3 DEF Filed
    <3>2. Listing(WithoutBook(i)[g], others, snaps)
      BY <1>2, <3>1, WithoutListed, ListingSame
    <3>3. Filed(g, snaps) = IF g \in GroupsOf[b] THEN others \union {i} ELSE others
      BY <2>3 DEF Filed
    <3> HIDE DEF others
    <3>4. CASE g \in GroupsOf[b]
      <4>1. Listing(Added(WithoutBook(i)[g], i, snaps), others \union {i}, snaps)
        BY <2>3, <3>1, <3>2, ListingAdds
      <4> QED
        BY <2>4, <3>3, <3>4, <4>1
    <3> QED
      BY <2>4, <3>2, <3>3, <3>4
  <2>7. Listing(recent', Newest(known'), snaps)
    <3> DEFINE others == known \ {i}
    <3>1. \A j \in known : dirs[j] # None
      BY DEF Listed
    <3>2. Listing(left, Newest(others), dirs)
      BY <2>2, <2>3, <2>5, <3>1, RefreshedOnRemoving DEF Listed
    <3>3. Newest(others) \in SUBSET Ids /\ \A j \in Newest(others) : snaps[j] = dirs[j]
      BY <2>3, <2>5, NewestBooks
    <3>4. Listing(left, Newest(others), snaps)
      BY <3>2, <3>3, ListingSame
    <3>5. /\ others \in SUBSET Ids /\ i \in Ids \ others /\ others \union {i} = known
          /\ \A j \in others \union {i} : snaps[j] # None
      BY <2>4, <2>5
    <3> HIDE DEF others
    <3>6. Listing(Refreshed(left, others, others \union {i}, snaps), Newest(others \union {i}), snaps)
      BY <3>4, <3>5, RefreshedOnAdding
    <3>7. recent' = Refreshed(left, others, others \union {i}, snaps)
      BY <2>4, <2>5, <3>5 DEF others
    <3> QED
      BY <2>4, <3>5, <3>6, <3>7
  <2>8. lists' \in [Groups -> Lists]
    <3>1. \A g \in Groups : lists'[g] \in Lists
      BY <2>6 DEF Listing
    <3> QED
      BY <2>4, <3>1
  <2> QED
    BY <2>3, <2>5, <2>6, <2>7, <2>8 DEF Listed
<1> QED
  BY <1>1, <1>2

Showing == Typed /\ Fresh /\ Turns /\ Unlisted /\ Listed

LEMMA InitShowing == Init => Showing
<1> SUFFICES ASSUME Init PROVE Showing
  OBVIOUS
<1>1. Typed
  BY InitTyped
<1>2. Fresh /\ Turns /\ Unlisted
  BY DEF Init, EventsInit, NoCalls, Fresh, Turns, Unlisted
<1>3. \A g \in Groups : Filed(g, dirs) = {}
  BY DEF Init, Filed
<1>4. known = {} /\ Newest({}) = {} /\ {i \in Ids : dirs[i] # None} = {}
  BY DEF Init, ViewsInit, Newest
<1>5. EmptyList \in Lists
  BY DEF EmptyList, Lists
<1>6. Listed
  <2>1. lists = [g \in Groups |-> EmptyList] /\ recent = EmptyList
    BY DEF Init, ViewsInit
  <2>2. Listing(EmptyList, {}, dirs)
    BY ListingEmpty
  <2> QED
    BY <1>3, <1>4, <1>5, <2>1, <2>2 DEF Listed
<1> QED
  BY <1>1, <1>2, <1>6 DEF Showing

\* A step that leaves the tree alone leaves what it shows.
LEMMA ListedSame == Listed /\ UNCHANGED <<dirs, viewVars>> => Listed'
  BY DEF Listed, viewVars

LEMMA ShowingIngest ==
  ASSUME Showing, Typed', NEW p \in Procs, NEW b \in Uploads, Ingest(p, b)
  PROVE  Showing'
<1>1. /\ seq' = seq + 1 /\ seq' \in Ids /\ loading = {}
      /\ row' = [row EXCEPT ![seq'] = b] /\ UNCHANGED <<dirs, viewVars, loading>>
      /\ pc[p] = "idle" /\ pc' = [pc EXCEPT ![p] = "ingested"]
      /\ book' = [book EXCEPT ![p] = seq']
      /\ \A q \in Procs : pc[q] # "ingested"
  BY SMT DEF Ingest, Ready, CommitIngest, Due, Showing, Typed, EventsTypeOK
<1>2. Fresh'
  BY <1>1, SMT DEF Fresh, Showing, Typed, EventsTypeOK
<1>3. Turns'
  BY <1>1, SMT DEF Turns, Showing, Typed, EventsTypeOK
<1>4. dirs[seq'] = None
  BY <1>1, SMT DEF Fresh, Showing, Typed, EventsTypeOK
<1>5. Unlisted'
  BY <1>1, <1>4, SMT DEF Unlisted, Showing, Typed, EventsTypeOK
<1> QED
  BY <1>1, <1>2, <1>3, <1>5, ListedSame DEF Showing

LEMMA ShowingEdit ==
  ASSUME Showing, Typed', NEW p \in Procs, NEW i \in Ids, NEW f \in Changes, Edit(p, i, f)
  PROVE  Showing'
<1> DEFINE b == f[row[i]]
<1>1. /\ row' = [row EXCEPT ![i] = b] /\ UNCHANGED <<seq, dirs, viewVars, loading>>
      /\ pc[p] = "idle" /\ pc' = [pc EXCEPT ![p] = "edited"]
      /\ book' = [book EXCEPT ![p] = i] /\ row[i] # None
  BY DEF Edit, CommitEdit, Due
<1> HIDE DEF b
<1>2. i <= seq
  BY <1>1, SMT DEF Fresh, Showing, Typed, EventsTypeOK
<1>3. Fresh'
  BY <1>1, <1>2, SMT DEF Fresh, Showing, Typed, EventsTypeOK
<1>4. Turns' /\ Unlisted'
  BY <1>1, SMT DEF Turns, Unlisted, Showing, Typed, EventsTypeOK
<1> QED
  BY <1>1, <1>3, <1>4, ListedSame DEF Showing

LEMMA ShowingDelete ==
  ASSUME Showing, Typed', NEW p \in Procs, NEW i \in Ids, Delete(p, i)
  PROVE  Showing'
<1>1. /\ UNCHANGED <<row, seq, dirs, viewVars, loading>>
      /\ pc[p] = "idle" /\ pc' = [pc EXCEPT ![p] = "deleting"]
      /\ book' = [book EXCEPT ![p] = i] /\ row[i] # None
  BY DEF Delete, BeginDelete, Due
<1>2. i <= seq
  BY <1>1, SMT DEF Fresh, Showing, Typed, EventsTypeOK
<1>3. Fresh'
  BY <1>1, <1>2, SMT DEF Fresh, Showing, Typed, EventsTypeOK
<1>4. Turns' /\ Unlisted'
  BY <1>1, SMT DEF Turns, Unlisted, Showing, Typed, EventsTypeOK
<1> QED
  BY <1>1, <1>3, <1>4, ListedSame DEF Showing

\* The end of a call leaves the others' as they are.
LEMMA EndedOthers ==
  ASSUME Typed, NEW p \in Procs, EndCall(p)
  PROVE  /\ pc'[p] = "idle" /\ book'[p] = 0
         /\ \A q \in Procs \ {p} : pc'[q] = pc[q] /\ book'[q] = book[q]
  BY SMT DEF EndCall, Due, Typed, EventsTypeOK

LEMMA ShowingDeleteGoesOn ==
  ASSUME Showing, Typed', NEW p \in Procs, DeleteGoesOn(p)
  PROVE  Showing'
<1>1. UNCHANGED <<seq, dirs, viewVars, loading>>
  BY DEF DeleteGoesOn, Deleting, CommitDelete, FailDelete
<1>2. \A q \in Procs : /\ book'[q] \in {book[q], 0}
                       /\ pc'[q] = "ingested" => pc[q] = "ingested" /\ book'[q] = book[q]
  <2>1. CASE Deleting(p) \/ CommitDelete(p)
    BY <2>1, SMT DEF Deleting, CommitDelete, Showing, Typed, EventsTypeOK
  <2>2. CASE FailDelete(p)
    BY <2>2, EndedOthers DEF FailDelete, Showing
  <2> QED
    BY <2>1, <2>2 DEF DeleteGoesOn
<1>3. \A i \in Ids : row'[i] \in {row[i], None}
  BY SMT DEF DeleteGoesOn, Deleting, CommitDelete, FailDelete, Showing, Typed, EventsTypeOK
<1>4. Fresh'
  BY <1>1, <1>2, <1>3, SMT DEF Fresh, Showing
<1>5. Turns' /\ Unlisted'
  BY <1>1, <1>2, SMT DEF Turns, Unlisted, Showing
<1> QED
  BY <1>1, <1>4, <1>5, ListedSame DEF Showing

LEMMA ShowingAnnounce ==
  ASSUME Showing, Typed', NEW p \in Procs, Announce(p)
  PROVE  Showing'
<1>1. /\ EndCall(p) /\ UNCHANGED <<row, seq, loading>>
      /\ pc[p] \in {"ingested", "edited", "deleted"}
  BY DEF Announce, OnIngested, OnEdited, OnDeleted, MayAnnounce
<1>2. Typed /\ book[p] \in Ids /\ news[p] \in Books /\ loading = {}
  BY <1>1, SMT DEF Showing, Typed
<1>3. /\ Listed'
      /\ \A i \in Ids \ {book[p]} : dirs'[i] = dirs[i]
      /\ pc[p] # "ingested" /\ dirs[book[p]] = None => dirs'[book[p]] = None
  <2>1. CASE UNCHANGED <<dirs, viewVars>>
    BY <2>1, ListedSame DEF Showing
  <2>2. CASE pc[p] = "ingested" /\ AddBook(book[p], news[p])
    <3>1. dirs[book[p]] = None
      BY <2>2 DEF Showing, Unlisted
    <3>2. dirs' = [dirs EXCEPT ![book[p]] = news[p]]
      BY <1>2, <2>2, <3>1, HandlersEffect
    <3> QED
      BY <1>2, <2>2, <3>1, <3>2, AddListed DEF Showing
  <2>3. CASE CommitKnown(book[p], news[p])
    <3>1. Listed'
      BY <1>2, <2>3, CommitListed DEF Showing
    <3>2. dirs' = IF dirs[book[p]] = None THEN dirs ELSE [dirs EXCEPT ![book[p]] = news[p]]
      BY <1>2, <2>3, HandlersEffect
    <3> QED
      BY <3>1, <3>2
  <2>4. CASE RemoveBook(book[p])
    <3>1. Listed'
      BY <1>2, <2>4, RemoveListed DEF Showing
    <3>2. dirs' = [dirs EXCEPT ![book[p]] = None]
      BY <1>2, <2>4, HandlersEffect
    <3>3. dirs'[book[p]] = None
      BY <1>2, <3>2 DEF Typed
    <3> QED
      BY <3>1, <3>2, <3>3
  <2> QED
    BY <2>1, <2>2, <2>3, <2>4 DEF Announce, OnIngested, OnEdited, OnDeleted, MayAnnounce
<1>4. /\ pc'[p] = "idle" /\ book'[p] = 0
      /\ \A q \in Procs \ {p} : pc'[q] = pc[q] /\ book'[q] = book[q]
  BY <1>1, <1>2, EndedOthers
<1>5. Fresh'
  <2>1. book[p] <= seq
    BY <1>2, SMT DEF Fresh, Showing, Typed, EventsTypeOK
  <2> QED
    BY <1>1, <1>2, <1>3, <1>4, <2>1, SMT DEF Fresh, Showing, Typed, EventsTypeOK
<1>6. Turns'
  BY <1>4, SMT DEF Turns, Showing
<1>7. Unlisted'
  <2> SUFFICES ASSUME NEW q \in Procs, pc'[q] = "ingested" PROVE dirs'[book'[q]] = None
    BY <1>1, <1>2 DEF Unlisted
  <2>1. q # p /\ pc[q] = "ingested" /\ book'[q] = book[q] /\ book[q] \in Ids
    BY <1>2, <1>4 DEF Typed
  <2>2. dirs[book[q]] = None /\ pc[p] # "ingested"
    BY <2>1 DEF Unlisted, Turns, Showing
  <2> QED
    BY <1>3, <2>1, <2>2
<1> QED
  BY <1>3, <1>5, <1>6, <1>7 DEF Showing

LEMMA ShowingRestart ==
  ASSUME Showing, Typed', Restart
  PROVE  Showing'
<1>1. /\ UNCHANGED <<row, seq>> /\ \A p \in Procs : pc'[p] = "idle" /\ book'[p] = 0
      /\ \A i \in Ids : dirs'[i] = None
      /\ known' = {} /\ recent' = EmptyList /\ lists' = [g \in Groups |-> EmptyList]
      /\ loading' \in SUBSET Ids
  BY DEF Restart, CallsDie
<1>2. Fresh' /\ Turns' /\ Unlisted'
  BY <1>1, SMT DEF Fresh, Turns, Unlisted, Showing
<1>3. \A g \in Groups : Filed(g, dirs') = {}
  BY <1>1 DEF Filed
<1>4. Newest({}) = {} /\ {i \in Ids : dirs'[i] # None} = {}
  BY <1>1 DEF Newest
<1>5. EmptyList \in Lists
  BY DEF EmptyList, Lists
<1>6. Listed'
  BY <1>1, <1>3, <1>4, <1>5, ListingEmpty DEF Listed
<1> QED
  BY <1>2, <1>6 DEF Showing

LEMMA ShowingLoad ==
  ASSUME Showing, Typed', NEW i \in Ids, Load(i)
  PROVE  Showing'
<1>1. /\ Typed /\ UNCHANGED eventVars /\ i \in loading /\ loading' = loading \ {i}
      /\ row[i] \in Books /\ dirs[i] = None /\ \A p \in Procs : pc[p] = "idle"
      /\ AddBook(i, row[i])
  BY DEF Load, Showing, Unlisted, Typed, EventsTypeOK
<1>2. Listed'
  BY <1>1, AddListed DEF Showing
<1>3. dirs' = [dirs EXCEPT ![i] = row[i]]
  BY <1>1, HandlersEffect
<1>4. Fresh'
  BY <1>1, <1>3, SMT DEF eventVars, Fresh, Showing, Typed, EventsTypeOK
<1>5. Turns' /\ Unlisted'
  BY <1>1, <1>3, SMT DEF eventVars, Turns, Unlisted, Showing, Typed
<1> QED
  BY <1>2, <1>4, <1>5 DEF Showing

LEMMA AlwaysShowing == Spec => []Showing
<1>1. Showing /\ [Next]_vars => Showing'
  <2> SUFFICES ASSUME Showing, [Next]_vars PROVE Showing'
    OBVIOUS
  <2> Typed'
    BY StepTyped DEF Showing
  <2>1. CASE UNCHANGED vars
    BY <2>1, ListedSame DEF vars, eventVars, Showing, Fresh, Turns, Unlisted
  <2> QED
    BY <2>1, ShowingIngest, ShowingEdit, ShowingDelete, ShowingDeleteGoesOn, ShowingAnnounce,
       ShowingRestart, ShowingLoad DEF Next
<1> QED
  BY <1>1, InitShowing, PTL DEF Spec

\* However many clients retitle, refile, delete and add books, through the tree or by id,
\* and whenever the server restarts, each group lists its books and no others, once each,
\* under names of their own (bookListDir.Add and Remove, keyedDir).
THEOREM GroupsShow == Spec => []GroupsShowTheirBooks
<1>1. Showing => GroupsShowTheirBooks
  <2> SUFFICES ASSUME Showing, NEW g \in Groups
               PROVE  Shows(lists[g], {i \in Ids : dirs[i] # None /\ g \in GroupsOf[dirs[i]]})
    BY DEF GroupsShowTheirBooks
  <2>1. Listing(lists[g], Filed(g, dirs), dirs)
    BY DEF Showing, Listed
  <2>2. Shows(lists[g], Filed(g, dirs))
    BY <2>1, FiledBooks, ListingShows
  <2> QED
    BY <2>2 DEF Filed
<1> QED
  BY <1>1, AlwaysShowing, PTL

\* recent shows the newest books, each under a name of its own, and never one more or one
\* less than it should: one at most enters and one at most leaves with each event
\* (recentDir.refresh).
THEOREM RecentShows == Spec => []RecentShowsNewest
<1>1. Showing => RecentShowsNewest
  <2> SUFFICES ASSUME Showing PROVE RecentShowsNewest
    OBVIOUS
  <2>1. Listing(recent, Newest(known), dirs) /\ known = {i \in Ids : dirs[i] # None}
    BY DEF Showing, Listed
  <2>2. Newest(known) \in SUBSET Ids
    BY <2>1, NewestBooks
  <2>3. Shows(recent, Newest(known))
    BY <2>1, <2>2, ListingShows
  <2> QED
    BY <2>1, <2>3 DEF RecentShowsNewest
<1> QED
  BY <1>1, AlwaysShowing, PTL

\* The state stays in its declared domain: a list never holds a name or a node that is
\* nobody's (the registry's handlers, restarts and loads).
THEOREM TypeCorrect == Spec => []TypeOK
<1>1. Showing => TypeOK
  BY NewestBooks DEF Showing, Typed, Listed, Listing, TypeOK, ViewsTypeOK
<1> QED
  BY <1>1, AlwaysShowing, PTL
=============================================================================
