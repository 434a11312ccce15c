---------------------------- MODULE KosyncProofs ----------------------------
(* What holds of reading progress for any number of clients, books and documents. *)
EXTENDS Kosync, TLAPS

-----------------------------------------------------------------------------
(* The inductive invariant. *)

\* A call is about a book.
Busy == \A p \in Procs : pc[p] # "idle" => book[p] \in Ids /\ news[p] \in Books

\* Ids beyond the last one issued are nowhere.
Fresh ==
  \A i \in Ids : i > seq =>
    /\ row[i] = None /\ sidecar[i] = None
    /\ \A d \in Docs : mapping[d] # i
    /\ \A p \in Procs : book[p] # i /\ (put[p] # None => put[p].id # i)

\* Who writes a sidecar, maps or unmaps holds the book's lock.
Locked ==
  /\ \A p \in Procs : pc[p] \in {"edited", "deleting", "removing", "deleted"} =>
       bookMu[book[p]] = p
  /\ \A p \in Procs : pc[p] = "ingested" /\ due[p] # {} => bookMu[book[p]] = p
  /\ \A p \in Procs : At(p, "write") => bookMu[put[p].id] = p

\* A client is in one call, ingests take turns, and ids are due while a handler runs.
Turns ==
  /\ \A p, q \in Procs : pc[p] = "ingested" /\ pc[q] = "ingested" => p = q
  /\ \A p \in Procs : put[p] # None => pc[p] = "idle"
  /\ \A p \in Procs : pc[p] \in {"idle", "removing", "deleted"} => due[p] = {}

\* An id is mapped after the sidecar has it, and unmapped before the sidecar goes, if
\* the sidecar could be read.
Mapped ==
  \A p \in Procs :
    /\ pc[p] \in {"ingested", "edited"} => \A d \in due[p] : book[p] \in Holders(d)
    /\ pc[p] = "deleting" => \A d \in Docs \ astray : mapping[d] = book[p] => d \in due[p]
    /\ pc[p] \in {"removing", "deleted"} => \A d \in Docs \ astray : mapping[d] # book[p]

\* Nobody syncs or edits a book whose ingest is to be announced.
Apart ==
  \A p \in Procs : pc[p] = "ingested" =>
    /\ \A d \in Docs : mapping[d] # book[p]
    /\ \A q \in Procs : /\ put[q] # None => put[q].id # book[p]
                        /\ pc[q] = "edited" => book[q] # book[p]

\* The sidecar a PUT has read is as it was.
Found ==
  \A p \in Procs : At(p, "write") => put[p].found.ids = ReadSidecar(put[p].id).ids

Inv == /\ TypeOK /\ Busy /\ Fresh /\ Locked /\ Turns
       /\ MappedBookHasIt /\ Mapped /\ Apart /\ Found
Typed == TypeOK /\ Busy

USE EventsAssumption DEF Ids

\* The assumptions about ids and records, without those about books.
LEMMA Apartness ==
  /\ Percentages \subseteq {"below", "some", "all"}
  /\ DocOf \in [Books -> Docs]
  /\ None \notin Docs /\ None \notin Ids /\ None \notin Sidecars
  BY KosyncAssumption

USE Apartness

-----------------------------------------------------------------------------
(* Types. *)

\* Sidecars are records, never None.
LEMMA SidecarTypes ==
  /\ EmptySidecar \in Sidecars
  /\ \A d \in Docs : FreshSidecar(d) \in Sidecars
  /\ \A s \in Sidecars, d \in Docs : Relabelled(s, d) \in Sidecars
  /\ \A s \in Sidecars, x \in Percentages : [s EXCEPT !.progress = x] \in Sidecars
<1>1. /\ EmptySidecar \in Sidecars
      /\ \A d \in Docs : FreshSidecar(d) \in Sidecars
  BY SMT DEF EmptySidecar, Sidecars, FreshSidecar
<1>2. ASSUME NEW s \in Sidecars, NEW d \in Docs PROVE Relabelled(s, d) \in Sidecars
  BY SMT DEF Sidecars, Relabelled
<1>3. ASSUME NEW s \in Sidecars, NEW x \in Percentages
      PROVE  [s EXCEPT !.progress = x] \in Sidecars
  BY SMT DEF Sidecars
<1> QED
  BY <1>1, <1>2, <1>3

\* What is read of a sidecar is one.
LEMMA ReadTypes ==
  ASSUME TypeOK, NEW i \in Ids
  PROVE  ReadSidecar(i) \in Sidecars
  BY SidecarTypes DEF TypeOK, ReadSidecar

\* Ending a call keeps the types of what it resets.
LEMMA EndTyped ==
  ASSUME Typed, NEW p \in Procs, EndCall(p), UNCHANGED <<row, seq>>
  PROVE  EventsTypeOK' /\ Busy'
  BY SMT DEF Typed, TypeOK, EventsTypeOK, Busy, EndCall, Due

\* An edit that makes books of books keeps the types.
LEMMA CommitEditTyped ==
  ASSUME Typed, NEW p \in Procs, NEW i \in Ids, NEW f \in [Books -> Books], CommitEdit(p, i, f)
  PROVE  EventsTypeOK' /\ Busy'
<1> DEFINE b == f[row[i]]
<1>1. b \in Books
  BY SMT DEF CommitEdit, Typed, TypeOK, EventsTypeOK
<1>2. /\ row' = [row EXCEPT ![i] = b] /\ Due(p, "edited", i, b)
      /\ bookMu' = [bookMu EXCEPT ![i] = p] /\ UNCHANGED seq
  BY DEF CommitEdit
<1> HIDE DEF b
<1> QED
  BY <1>1, <1>2, SMT DEF Typed, TypeOK, EventsTypeOK, Busy, Due

\* A PUT that goes on is still one.
LEMMA GotoTyped ==
  ASSUME TypeOK, NEW p \in Procs, put[p] # None,
         NEW step \in {"open", "write", "decide", "edit"}, NEW s \in Sidecars, Goto(p, step, s)
  PROVE  put' \in [Procs -> Puts \union {None}]
<1> DEFINE r == [step |-> step, id |-> put[p].id, percentage |-> put[p].percentage,
                 found |-> s]
<1>1. put[p] \in Puts
  BY DEF TypeOK
<1>2. r \in Puts
  BY <1>1, SMT DEF Puts
<1>3. put' = [put EXCEPT ![p] = r]
  BY DEF Goto
<1> HIDE DEF r
<1> QED
  BY <1>2, <1>3, SMT DEF TypeOK

\* A sync keeps the types.
LEMMA SyncTyped == ASSUME Typed, NEW p \in Procs, Sync(p) PROVE Typed'
<1> USE DEF Typed, TypeOK
<1>1. ASSUME NEW d \in Docs, NEW x \in Percentages, Put(p, d, x) PROVE Typed'
  <2>1. [step |-> "open", id |-> mapping[d], percentage |-> x, found |-> EmptySidecar]
           \in Puts
    BY <1>1, SidecarTypes, SMT DEF Put, Puts
  <2> QED
    BY <1>1, <2>1, SMT DEF Put, eventVars, EventsTypeOK, Busy
<1>2. CASE OpenForProgress(p)
  <2>1. put[p] # None /\ put[p].id \in Ids
    BY <1>2, SMT DEF OpenForProgress, At, Puts
  <2>2. put' \in [Procs -> Puts \union {None}]
    BY <1>2, <2>1, GotoTyped, ReadTypes DEF OpenForProgress
  <2>3. bookMu' \in [Ids -> Procs \union {None}]
    BY <1>2, <2>1, SMT DEF OpenForProgress, EventsTypeOK
  <2>4. UNCHANGED <<row, seq, pc, book, news, mapping, sidecar, due, astray>>
    BY <1>2 DEF OpenForProgress
  <2> QED
    BY <2>2, <2>3, <2>4, SMT DEF EventsTypeOK, Busy
<1>3. CASE WriteProgress(p)
  <2>1. /\ put[p] # None /\ put[p].id \in Ids /\ put[p].found \in Sidecars
        /\ put[p].percentage \in Percentages
    BY <1>3, SMT DEF WriteProgress, At, Puts
  <2>2. put' \in [Procs -> Puts \union {None}]
    BY <1>3, <2>1, GotoTyped, SidecarTypes DEF WriteProgress
  <2>3. sidecar' \in [Ids -> Sidecars \union {None}]
    <3> DEFINE s == [put[p].found EXCEPT !.progress = put[p].percentage]
    <3>1. s \in Sidecars
      BY <2>1, SidecarTypes
    <3>2. sidecar' = [sidecar EXCEPT ![put[p].id] = s]
      BY <1>3 DEF WriteProgress
    <3> HIDE DEF s
    <3> QED
      BY <2>1, <3>1, <3>2, SMT
  <2>4. bookMu' \in [Ids -> Procs \union {None}]
    BY <1>3, <2>1, SMT DEF WriteProgress, EventsTypeOK
  <2>5. UNCHANGED <<row, seq, pc, book, news, mapping, due, astray>>
    BY <1>3 DEF WriteProgress
  <2> QED
    BY <2>2, <2>3, <2>4, <2>5, SMT DEF EventsTypeOK, Busy
<1>4. CASE DecideStatus(p)
  <2>1. put' \in [Procs -> Puts \union {None}]
    <3>1. put[p] # None
      BY <1>4 DEF DecideStatus, At
    <3>2. CASE Goto(p, "edit", EmptySidecar)
      BY <3>1, <3>2, GotoTyped, SidecarTypes
    <3>3. CASE put' = [put EXCEPT ![p] = None]
      BY <3>3, SMT
    <3> QED
      BY <1>4, <3>2, <3>3 DEF DecideStatus
  <2> QED
    BY <1>4, <2>1, SMT DEF DecideStatus, eventVars, EventsTypeOK, Busy
<1>5. CASE EditStatus(p)
  <2> DEFINE f == [b \in Books |-> [b EXCEPT !.status = TargetStatus(put[p].percentage)]]
  <2>1. put[p].id \in Ids /\ put[p].percentage \in Percentages
    BY <1>5, SMT DEF EditStatus, At, Puts
  <2>2. TargetStatus(put[p].percentage) \in Statuses
    BY <2>1, SMT DEF TargetStatus, Statuses
  <2>3. f \in [Books -> Books]
    BY <2>2, KosyncAssumption
  <2>4. CommitEdit(p, put[p].id, f)
    BY <1>5 DEF EditStatus
  <2> HIDE DEF f
  <2>5. EventsTypeOK' /\ Busy'
    BY <2>1, <2>3, <2>4, CommitEditTyped
  <2> QED
    BY <1>5, <2>5, SMT DEF EditStatus
<1>6. CASE PutFails(p)
  BY <1>6, SMT DEF PutFails, EventsTypeOK, Busy
<1> QED
  BY <1>1, <1>2, <1>3, <1>4, <1>5, <1>6 DEF Sync

\* A handler keeps the types.
LEMMA HookTyped == ASSUME Typed, NEW p \in Procs, Hook(p) PROVE Typed'
<1> USE DEF Typed, TypeOK
<1>1. ASSUME pc[p] # "idle", Unrecorded(p) PROVE Typed'
  BY <1>1, EndTyped, SMT DEF Unrecorded, kosyncVars
<1>2. ASSUME pc[p] # "idle", NEW s \in Sidecars, s.head \in Docs, Recorded(p, s) PROVE Typed'
  BY <1>2, SMT DEF Recorded, EventsTypeOK, Busy
<1>3. CASE OnIngested(p)
  <2>1. pc[p] # "idle" /\ book[p] \in Ids /\ news[p] \in Books
    BY <1>3 DEF OnIngested, MayAnnounce, Busy
  <2>2. ASSUME SidecarsOpen(book[p], news[p]), Recorded(p, FreshSidecar(CurrentDoc(p)))
        PROVE  Typed'
    <3>1. CurrentDoc(p) \in Docs
      BY <2>1, <2>2, SMT DEF SidecarsOpen, CurrentDoc, EventsTypeOK
    <3>2. FreshSidecar(CurrentDoc(p)) \in Sidecars /\ FreshSidecar(CurrentDoc(p)).head \in Docs
      BY <3>1, SidecarTypes DEF FreshSidecar
    <3> QED
      BY <1>2, <2>1, <2>2, <3>2
  <2> QED
    BY <1>1, <1>3, <2>1, <2>2 DEF OnIngested
<1>4. CASE OnEdited(p)
  <2>1. pc[p] # "idle" /\ book[p] \in Ids /\ news[p] \in Books
    BY <1>4 DEF OnEdited, MayAnnounce, Busy
  <2> DEFINE s == Relabelled(ReadSidecar(book[p]), CurrentDoc(p))
  <2>2. ASSUME SidecarsOpen(book[p], news[p]), Recorded(p, s) PROVE Typed'
    <3>1. CurrentDoc(p) \in Docs
      BY <2>1, <2>2, SMT DEF SidecarsOpen, CurrentDoc, EventsTypeOK
    <3>2. ReadSidecar(book[p]) \in Sidecars
      BY <2>1, ReadTypes
    <3>3. s \in Sidecars
      BY <3>1, <3>2, SidecarTypes
    <3>4. s.head = CurrentDoc(p)
      BY <3>2, SMT DEF Relabelled, Sidecars
    <3> QED
      BY <1>2, <2>1, <2>2, <3>1, <3>3, <3>4
  <2> QED
    BY <1>1, <1>4, <2>1, <2>2 DEF OnEdited
<1>5. CASE OnDeleted(p)
  BY <1>1, <1>5 DEF OnDeleted, MayAnnounce
<1>6. ASSUME NEW d \in Docs, Map(p, d) PROVE Typed'
  <2>1. EventsTypeOK' /\ Busy'
    BY <1>6, EndTyped DEF Map
  <2>2. book[p] \in Ids
    BY <1>6, SMT DEF Map, Busy
  <2> QED
    BY <1>6, <2>1, <2>2, SMT DEF Map
<1>7. ASSUME NEW d \in Docs, Unmap(p, d) PROVE Typed'
  BY <1>7, SMT DEF Unmap, eventVars, EventsTypeOK, Busy
<1> QED
  BY <1>3, <1>4, <1>5, <1>6, <1>7 DEF Hook

\* Every step keeps the types.
LEMMA StepTyped == Typed /\ [Next]_vars => Typed'
<1> SUFFICES ASSUME Typed, [Next]_vars PROVE Typed'
  OBVIOUS
<1> USE DEF Typed, TypeOK
<1>1. ASSUME NEW p \in Procs, NEW b \in Uploads, Ingest(p, b) PROVE Typed'
  <2>1. b \in Books /\ seq + 1 \in Ids /\ seq + 1 \in 0 .. MaxId
    BY <1>1, SMT DEF Ingest, CommitIngest, EventsTypeOK
  <2> QED
    BY <1>1, <2>1, SMT DEF Ingest, CommitIngest, Due, kosyncVars, EventsTypeOK, Busy
<1>2. ASSUME NEW p \in Procs, NEW i \in Ids, NEW f \in Changes, Edit(p, i, f) PROVE Typed'
  <2>1. f \in [Books -> Books] /\ CommitEdit(p, i, f)
    BY <1>2 DEF Edit
  <2> QED
    BY <1>2, <2>1, CommitEditTyped, SMT DEF Edit, kosyncVars
<1>3. ASSUME NEW p \in Procs, NEW i \in Ids, Delete(p, i) PROVE Typed'
  <2>1. IdsToUnmap(i) \in SUBSET Docs
    BY ReadTypes, SMT DEF IdsToUnmap, Sidecars
  <2>2. due' \in [Procs -> SUBSET Docs] /\ astray' \subseteq Docs
    BY <1>3, <2>1, SMT DEF Delete
  <2>3. BeginDelete(p, i) /\ UNCHANGED <<mapping, sidecar, put>>
    BY <1>3 DEF Delete
  <2>4. EventsTypeOK' /\ Busy'
    BY <2>3, SMT DEF BeginDelete, Due, EventsTypeOK, Busy
  <2> QED
    BY <2>2, <2>3, <2>4
<1>4. ASSUME NEW p \in Procs, DeleteGoesOn(p) PROVE Typed'
  BY <1>4, SMT DEF DeleteGoesOn, Deleting, kosyncVars, EventsTypeOK, Busy
<1>5. ASSUME NEW p \in Procs, DeleteEnds(p) PROVE Typed'
  <2>1. EventsTypeOK' /\ Busy'
    <3>1. CASE CommitDelete(p)
      BY <3>1, SMT DEF CommitDelete, EventsTypeOK, Busy
    <3>2. CASE FailDelete(p)
      BY <3>2, EndTyped DEF FailDelete
    <3> QED
      BY <1>5, <3>1, <3>2 DEF DeleteEnds
  <2>2. sidecar' \in [Ids -> Sidecars \union {None}]
    <3>1. sidecar' \in {sidecar, [sidecar EXCEPT ![book[p]] = None]}
      BY <1>5 DEF DeleteEnds
    <3>2. sidecar \in [Ids -> Sidecars \union {None}]
      OBVIOUS
    <3> QED
      BY <3>1, <3>2, SMT
  <2> QED
    BY <1>5, <2>1, <2>2, SMT DEF DeleteEnds
<1>6. ASSUME NEW p \in Procs, Hook(p) \/ Sync(p) PROVE Typed'
  BY <1>6, HookTyped, SyncTyped
<1>7. ASSUME NEW lost \in BOOLEAN, Restart(lost) PROVE Typed'
  <2>1. EventsTypeOK' /\ Busy' /\ due' \in [Procs -> SUBSET Docs]
        /\ put' \in [Procs -> Puts \union {None}]
    BY <1>7, SMT DEF Restart, CallsDie, EventsTypeOK, Busy
  <2>2. CASE UNCHANGED <<mapping, sidecar, astray>>
    BY <2>1, <2>2
  <2>3. CASE Rebuild
    <3>1. \A i \in Ids : row[i] # None => FreshSidecar(DocOf[row[i]]) \in Sidecars
      BY SidecarTypes, SMT DEF EventsTypeOK
    <3>2. PICK made \in SUBSET {i \in Ids : row[i] # None /\ sidecar[i] = None} :
            sidecar' = [i \in Ids |-> IF i \in made THEN FreshSidecar(DocOf[row[i]])
                                                    ELSE sidecar[i]]
      BY <2>3 DEF Rebuild
    <3>3. sidecar' \in [Ids -> Sidecars \union {None}]
      BY <3>1, <3>2
    <3>4. mapping' \in [Docs -> Ids \union {None}] /\ astray' \subseteq Docs
      BY <2>3 DEF Rebuild
    <3> QED
      BY <2>1, <3>3, <3>4
  <2> QED
    BY <1>7, <2>2, <2>3 DEF Restart
<1>8. CASE UNCHANGED vars
  BY <1>8, SMT DEF vars, eventVars, kosyncVars, EventsTypeOK, Busy
<1> QED
  BY <1>1, <1>2, <1>3, <1>4, <1>5, <1>6, <1>7, <1>8 DEF Next
-----------------------------------------------------------------------------
(* The invariant. *)

\* It holds at the start.
LEMMA InitInv == Init => Inv
<1> SUFFICES ASSUME Init PROVE Inv
  OBVIOUS
<1>1. TypeOK
  BY SMT DEF Init, EventsInit, NoCalls, TypeOK, EventsTypeOK
<1>2. Busy /\ Locked /\ Turns /\ Apart /\ Found
  BY SMT DEF Init, EventsInit, NoCalls, Busy, Locked, Turns, Apart, Found, At
<1>3. Fresh
  BY SMT DEF Init, EventsInit, NoCalls, Fresh
<1>4. MappedBookHasIt /\ Mapped
  BY SMT DEF Init, EventsInit, NoCalls, MappedBookHasIt, Mapped
<1> QED
  BY <1>1, <1>2, <1>3, <1>4 DEF Inv

\* Whoever has the mapping and the sidecars as they were has the books of an id.
LEMMA SameHolders ==
  ASSUME UNCHANGED sidecar
  PROVE  /\ \A d \in Docs : Holders(d)' = Holders(d)
         /\ \A i \in Ids : ReadSidecar(i)' = ReadSidecar(i)
  BY DEF Holders, ReadSidecar

\* Whatever has a row, is worked on, is synced or mapped has been issued.
LEMMA Issued ==
  ASSUME Inv
  PROVE  /\ \A i \in Ids : row[i] # None => i <= seq
         /\ \A p \in Procs : pc[p] # "idle" => book[p] \in Ids /\ book[p] <= seq
         /\ \A p \in Procs : put[p] # None => put[p].id \in Ids /\ put[p].id <= seq
         /\ \A d \in Docs : mapping[d] # None => mapping[d] \in Ids /\ mapping[d] <= seq
<1>1. \A i \in Ids : i <= seq \/ i > seq
  BY SMT DEF Inv, TypeOK, EventsTypeOK
<1>2. \A p \in Procs : put[p] # None => put[p].id \in Ids
  BY SMT DEF Inv, TypeOK, Puts
<1>3. \A d \in Docs : mapping[d] # None => mapping[d] \in Ids
  BY DEF Inv, TypeOK
<1>4. \A p \in Procs : pc[p] # "idle" => book[p] \in Ids
  BY DEF Inv, Busy
<1> QED
  BY <1>1, <1>2, <1>3, <1>4, Zenon DEF Fresh, Inv

\* What only reads the two leaves them right for each other.
LEMMA SameMapping ==
  ASSUME Inv, UNCHANGED <<mapping, sidecar>>, astray \subseteq astray'
  PROVE  MappedBookHasIt'
  BY SameHolders DEF MappedBookHasIt, Inv

\* A PUT that goes on or ends while sidecars stay has found what is there.
LEMMA SameFound ==
  ASSUME Inv, UNCHANGED sidecar, \A q \in Procs : put'[q] = put[q] \/ ~ At(q, "write")'
  PROVE  Found'
<1> SUFFICES ASSUME NEW q \in Procs, At(q, "write")'
             PROVE  (put[q].found.ids = ReadSidecar(put[q].id).ids)'
  BY DEF Found
<1>1. put'[q] = put[q] /\ At(q, "write")
  BY DEF At
<1>2. put[q].found.ids = ReadSidecar(put[q].id).ids /\ put[q].id \in Ids
  BY <1>1, SMT DEF Found, Inv, TypeOK, At, Puts
<1> QED
  BY <1>1, <1>2 DEF ReadSidecar

\* A new book's id is new everywhere.
LEMMA IngestKeeps ==
  ASSUME Inv, Typed', NEW p \in Procs, NEW b \in Uploads, Ingest(p, b)
  PROVE  Inv'
<1>1. /\ seq' = seq + 1 /\ seq' \in Ids /\ b \in Books
      /\ row' = [row EXCEPT ![seq'] = b] /\ UNCHANGED <<mapping, sidecar, due, put, bookMu, astray>>
      /\ put[p] = None /\ pc[p] = "idle" /\ pc' = [pc EXCEPT ![p] = "ingested"]
      /\ book' = [book EXCEPT ![p] = seq'] /\ news' = [news EXCEPT ![p] = b]
      /\ \A q \in Procs : pc[q] # "ingested"
  BY SMT DEF Ingest, Free, CommitIngest, Due, kosyncVars, Inv, TypeOK, EventsTypeOK
<1>2. due[p] = {}
  BY <1>1 DEF Inv, Turns
<1>3. /\ \A d \in Docs : mapping[d] # seq'
      /\ \A q \in Procs : book[q] # seq' /\ (put[q] # None => put[q].id # seq')
  BY <1>1, SMT DEF Fresh, Inv, TypeOK, EventsTypeOK
<1>4. Fresh'
  BY <1>1, SMT DEF Fresh, Inv, TypeOK, EventsTypeOK
<1>5. Locked'
  BY <1>1, <1>2, SMT DEF Locked, At, Inv, TypeOK, EventsTypeOK
<1>6. Turns'
  BY <1>1, SMT DEF Turns, Inv, TypeOK, EventsTypeOK
<1>7. MappedBookHasIt' /\ Found'
  BY <1>1, SameMapping, SameFound
<1>8. Mapped'
  BY <1>1, <1>2, SameHolders, SMT DEF Mapped, Inv, TypeOK, EventsTypeOK
<1>9. Apart'
  BY <1>1, <1>3, SMT DEF Apart, Inv, TypeOK, EventsTypeOK
<1> QED
  BY <1>4, <1>5, <1>6, <1>7, <1>8, <1>9 DEF Inv, Typed

\* An edit takes its book's lock, of a book whose ingest has been announced.
LEMMA CommitEditKeeps ==
  ASSUME Inv, Typed', NEW p \in Procs, NEW i \in Ids, NEW f \in [Books -> Books],
         CommitEdit(p, i, f), put' = [put EXCEPT ![p] = None],
         UNCHANGED <<mapping, sidecar, due, astray>>,
         \A q \in Procs : pc[q] = "ingested" => book[q] # i
  PROVE  Inv'
<1> DEFINE b == f[row[i]]
<1>1. /\ row' = [row EXCEPT ![i] = b] /\ UNCHANGED seq
      /\ bookMu[i] = None /\ bookMu' = [bookMu EXCEPT ![i] = p]
      /\ pc[p] = "idle" /\ pc' = [pc EXCEPT ![p] = "edited"]
      /\ book' = [book EXCEPT ![p] = i] /\ news' = [news EXCEPT ![p] = b]
      /\ row[i] # None
  BY DEF CommitEdit, BookLockFree, Due
<1> HIDE DEF b
<1>2. due[p] = {} /\ i <= seq
  BY <1>1, Issued DEF Turns, Inv
<1>3. \A q \in Procs : put'[q] # None => q # p /\ put'[q] = put[q]
  BY SMT DEF Inv, TypeOK
<1>4. Fresh'
  BY <1>1, <1>2, <1>3, SMT DEF Fresh, Inv, TypeOK, EventsTypeOK
<1>5. Locked'
  BY <1>1, <1>2, <1>3, SMT DEF Locked, At, Inv, TypeOK, EventsTypeOK
<1>6. Turns'
  BY <1>1, <1>3, SMT DEF Turns, Inv, TypeOK, EventsTypeOK
<1>7. MappedBookHasIt' /\ Found'
  BY <1>1, <1>3, SameMapping, SameFound DEF At
<1>8. Mapped'
  BY <1>1, <1>2, SameHolders, SMT DEF Mapped, Inv, TypeOK, EventsTypeOK
<1>9. Apart'
  BY <1>1, <1>3, SMT DEF Apart, Inv, TypeOK, EventsTypeOK
<1> QED
  BY <1>4, <1>5, <1>6, <1>7, <1>8, <1>9 DEF Inv, Typed

\* A delete takes its book's lock, and has every id due that leads to the book.
LEMMA DeleteKeeps ==
  ASSUME Inv, Typed', NEW p \in Procs, NEW i \in Ids, Delete(p, i)
  PROVE  Inv'
<1>1. /\ UNCHANGED <<row, seq, mapping, sidecar, put>>
      /\ bookMu[i] = None /\ bookMu' = [bookMu EXCEPT ![i] = p]
      /\ pc[p] = "idle" /\ pc' = [pc EXCEPT ![p] = "deleting"]
      /\ book' = [book EXCEPT ![p] = i] /\ news' = [news EXCEPT ![p] = row[i]]
      /\ row[i] # None /\ put[p] = None
      /\ \/ due' = [due EXCEPT ![p] = IdsToUnmap(i)] /\ UNCHANGED astray
         \/ astray' = astray \union {d \in Docs : mapping[d] = i} /\ UNCHANGED due
  BY DEF Delete, Free, BeginDelete, BookLockFree, Due
<1>2. i <= seq
  BY <1>1, Issued
<1>3. \A d \in Docs \ astray : mapping[d] = i => d \in IdsToUnmap(i)
  BY SMT DEF MappedBookHasIt, Holders, IdsToUnmap, ReadSidecar, Inv
<1>4. /\ pc'[p] = "deleting" /\ book'[p] = i
      /\ \A q \in Procs \ {p} : due'[q] = due[q] /\ pc'[q] = pc[q] /\ book'[q] = book[q]
      /\ \A d \in Docs \ astray' : mapping[d] = i => d \in due'[p]
      /\ astray \subseteq astray'
  BY <1>1, <1>3, SMT DEF Inv, TypeOK, EventsTypeOK
<1>5. Fresh'
  BY <1>1, <1>2, SMT DEF Fresh, Inv, TypeOK, EventsTypeOK
<1>6. Locked'
  BY <1>1, <1>4, SMT DEF Locked, At, Inv, TypeOK, EventsTypeOK
<1>7. Turns'
  BY <1>1, <1>4, SMT DEF Turns, Inv
<1>8. MappedBookHasIt' /\ Found'
  BY <1>1, <1>4, SameMapping, SameFound
<1>9. Mapped'
  <2>1. ASSUME NEW q \in Procs \ {p}
        PROVE  /\ pc'[q] \in {"ingested", "edited"} =>
                    \A d \in due'[q] : book'[q] \in Holders(d)'
               /\ pc'[q] = "deleting" =>
                    \A d \in Docs \ astray' : mapping'[d] = book'[q] => d \in due'[q]
               /\ pc'[q] \in {"removing", "deleted"} =>
                    \A d \in Docs \ astray' : mapping'[d] # book'[q]
    BY <1>1, <1>4, SameHolders, SMT DEF Mapped, Inv, TypeOK
  <2> QED
    BY <1>1, <1>4, <2>1 DEF Mapped
<1>10. Apart'
  BY <1>1, <1>4, SMT DEF Apart, Inv
<1> QED
  BY <1>5, <1>6, <1>7, <1>8, <1>9, <1>10 DEF Inv, Typed
\* What the end of p's call leaves of the others'.
LEMMA Ended ==
  ASSUME Inv, NEW p \in Procs, pc[p] # "idle", EndCall(p),
         UNCHANGED put, \A q \in Procs \ {p} : due'[q] = due[q]
  PROVE  /\ pc'[p] = "idle" /\ book'[p] = 0
         /\ \A q \in Procs \ {p} : pc'[q] = pc[q] /\ book'[q] = book[q] /\ news'[q] = news[q]
         /\ \A i \in Ids : bookMu[i] # p => bookMu'[i] = bookMu[i]
         /\ Locked'
<1>1. /\ pc'[p] = "idle" /\ book'[p] = 0
      /\ \A q \in Procs \ {p} : pc'[q] = pc[q] /\ book'[q] = book[q] /\ news'[q] = news[q]
      /\ \A i \in Ids : bookMu[i] # p => bookMu'[i] = bookMu[i]
  BY SMT DEF EndCall, Due, Inv, TypeOK, EventsTypeOK
<1>2. ASSUME NEW q \in Procs,
             \/ pc'[q] \in {"edited", "deleting", "removing", "deleted"}
             \/ pc'[q] = "ingested" /\ due'[q] # {}
      PROVE  bookMu'[book'[q]] = q
  <2>1. q # p /\ book[q] \in Ids /\ bookMu[book[q]] = q /\ book'[q] = book[q]
    BY <1>1, <1>2, SMT DEF Locked, Busy, Inv
  <2> QED
    BY <1>1, <2>1
<1>3. ASSUME NEW q \in Procs, At(q, "write")' PROVE bookMu'[put'[q].id] = q
  <2>1. q # p /\ At(q, "write") /\ put[q].id \in Ids
    BY <1>3, SMT DEF At, Turns, Inv, TypeOK, Puts
  <2>2. bookMu[put[q].id] = q
    BY <2>1 DEF Locked, Inv
  <2> QED
    BY <1>1, <2>1, <2>2
<1> QED
  BY <1>1, <1>2, <1>3 DEF Locked

\* A handler that records nothing.
LEMMA UnrecordedKeeps ==
  ASSUME Inv, Typed', NEW p \in Procs, pc[p] # "idle", due[p] = {}, Unrecorded(p)
  PROVE  Inv'
<1>1. EndCall(p) /\ UNCHANGED <<row, seq, mapping, sidecar, due, put, astray>>
  BY DEF Unrecorded, kosyncVars
<1>2. MappedBookHasIt' /\ Found'
  BY <1>1, SameMapping, SameFound
<1>3. Fresh' /\ Locked'
  BY <1>1, Ended, SMT DEF Fresh, Inv
<1>4. Turns' /\ Apart'
  BY <1>1, Ended, SMT DEF Turns, Apart, Inv
<1>5. Mapped'
  <2>1. pc'[p] = "idle"
    BY <1>1, Ended
  <2>2. ASSUME NEW q \in Procs \ {p}
        PROVE  /\ pc'[q] \in {"ingested", "edited"} =>
                    \A d \in due'[q] : book'[q] \in Holders(d)'
               /\ pc'[q] = "deleting" =>
                    \A d \in Docs \ astray' : mapping'[d] = book'[q] => d \in due'[q]
               /\ pc'[q] \in {"removing", "deleted"} =>
                    \A d \in Docs \ astray' : mapping'[d] # book'[q]
    <3>1. pc'[q] = pc[q] /\ book'[q] = book[q]
      BY <1>1, Ended
    <3> QED
      BY <1>1, <3>1, SameHolders, SMT DEF Mapped, Inv, TypeOK
  <2> QED
    BY <2>1, <2>2 DEF Mapped
<1> QED
  BY <1>2, <1>3, <1>4, <1>5 DEF Inv, Typed

\* A book's delete goes on, or ends, when no id leads to the book.
LEMMA DeleteGoesOnKeeps ==
  ASSUME Inv, Typed', NEW p \in Procs, DeleteGoesOn(p)
  PROVE  Inv'
<1>1. /\ UNCHANGED <<row, seq, book, news, bookMu, mapping, sidecar, due, put, astray>>
      /\ due[p] = {} /\ pc[p] = "deleting" /\ pc' = [pc EXCEPT ![p] = "removing"]
  BY DEF DeleteGoesOn, Deleting, kosyncVars
<1>2. MappedBookHasIt' /\ Found'
  BY <1>1, SameMapping, SameFound
<1>3. /\ pc'[p] = "removing" /\ \A q \in Procs : q # p => pc'[q] = pc[q]
      /\ bookMu[book[p]] = p
  BY <1>1, SMT DEF Locked, Inv, TypeOK, EventsTypeOK
<1>4. Fresh'
  BY <1>1 DEF Fresh, Inv
<1>5. Locked'
  BY <1>1, <1>3, SMT DEF Locked, At, Inv
<1>6. Turns' /\ Apart'
  BY <1>1, <1>3, SMT DEF Turns, Apart, Inv
<1>7. Mapped'
  BY <1>1, SameHolders, SMT DEF Mapped, Inv, TypeOK, EventsTypeOK
<1> QED
  BY <1>2, <1>4, <1>5, <1>6, <1>7 DEF Inv, Typed

\* Whom a client that holds the lock of its book shares the book with: nobody who
\* writes its sidecar, maps it or unmaps it.
LEMMA Alone ==
  ASSUME Inv, NEW p \in Procs, pc[p] # "idle", bookMu[book[p]] = p
  PROVE  /\ \A q \in Procs \ {p} :
              \/ pc[q] \in {"edited", "deleting", "removing", "deleted"}
              \/ pc[q] = "ingested" /\ due[q] # {}
              => book[q] # book[p]
         /\ \A q \in Procs : At(q, "write") => q # p /\ put[q].id # book[p]
  BY SMT DEF Locked, Turns, At, Inv

\* The sidecar goes when no id leads to the book.
LEMMA DeleteEndsKeeps ==
  ASSUME Inv, Typed', NEW p \in Procs, DeleteEnds(p)
  PROVE  Inv'
<1>1. /\ pc[p] = "removing" /\ UNCHANGED <<seq, mapping, due, put, astray>>
      /\ sidecar' \in {sidecar, [sidecar EXCEPT ![book[p]] = None]}
      /\ CommitDelete(p) \/ FailDelete(p)
  BY DEF DeleteEnds, CommitDelete, FailDelete
<1>2. /\ book[p] \in Ids /\ bookMu[book[p]] = p /\ due[p] = {} /\ put[p] = None
      /\ \A d \in Docs \ astray : mapping[d] # book[p]
  BY <1>1, SMT DEF Busy, Locked, Turns, Mapped, Inv
<1>3. \A i \in Ids : i # book[p] => sidecar'[i] = sidecar[i]
  BY <1>1, <1>2, SMT DEF Inv, TypeOK
<1>4. \A d \in Docs, i \in Ids : i # book[p] /\ i \in Holders(d) => i \in Holders(d)'
  BY <1>3, Zenon DEF Holders
<1>5. /\ \A q \in Procs \ {p} : pc'[q] = pc[q] /\ book'[q] = book[q]
      /\ pc'[p] \in {"deleted", "idle"}
  <2>1. CASE CommitDelete(p)
    BY <2>1, SMT DEF CommitDelete, Inv, TypeOK, EventsTypeOK
  <2>2. CASE FailDelete(p)
    BY <1>1, <1>2, <2>2, Ended DEF FailDelete
  <2> QED
    BY <1>1, <2>1, <2>2
<1>6. MappedBookHasIt'
  BY <1>1, <1>2, <1>4, SMT DEF MappedBookHasIt, Holders, Inv
<1>7. Mapped'
  <2>1. ASSUME NEW q \in Procs, NEW d \in due'[q], pc'[q] \in {"ingested", "edited"}
        PROVE  book'[q] \in Holders(d)'
    <3>1. q # p /\ pc[q] = pc'[q] /\ book'[q] = book[q] /\ d \in due[q] /\ d \in Docs
      BY <1>1, <1>5, <2>1, SMT DEF Inv, TypeOK
    <3>2. book[q] \in Holders(d) /\ book[q] \in Ids
      BY <2>1, <3>1, SMT DEF Mapped, Busy, Inv
    <3>3. book[q] # book[p]
      BY <1>1, <1>2, <2>1, <3>1, Alone, SMT
    <3> QED
      BY <1>4, <3>1, <3>2, <3>3
  <2>2. ASSUME NEW q \in Procs, NEW d \in Docs \ astray
        PROVE  /\ pc'[q] = "deleting" => (mapping'[d] = book'[q] => d \in due'[q])
               /\ pc'[q] \in {"removing", "deleted"} => mapping'[d] # book'[q]
    <3>1. CASE q = p
      <4>1. CASE CommitDelete(p)
        BY <1>1, <1>2, <3>1, <4>1, <1>5, SMT DEF CommitDelete
      <4>2. CASE FailDelete(p)
        BY <1>1, <1>2, <3>1, <4>2, Ended, SMT DEF FailDelete
      <4> QED
        BY <1>1, <4>1, <4>2
    <3>2. CASE q # p
      BY <1>1, <1>5, <3>2, SMT DEF Mapped, Inv
    <3> QED
      BY <3>1, <3>2
  <2> QED
    BY <1>1, <2>1, <2>2 DEF Mapped
<1>8. Found'
  <2> SUFFICES ASSUME NEW q \in Procs, At(q, "write")
               PROVE  put[q].found.ids = ReadSidecar(put[q].id)'.ids
    BY <1>1 DEF Found, At
  <2>1. put[q].id \in Ids /\ put[q].id # book[p]
    BY <1>1, <1>2, Alone, Issued DEF At
  <2>2. put[q].found.ids = ReadSidecar(put[q].id).ids
    BY DEF Found, Inv
  <2> QED
    BY <1>1, <1>3, <2>1, <2>2 DEF ReadSidecar
<1>9. CASE CommitDelete(p)
  <2>1. /\ UNCHANGED <<seq, book, news, bookMu>> /\ row' = [row EXCEPT ![book[p]] = None]
        /\ pc' = [pc EXCEPT ![p] = "deleted"]
    BY <1>9 DEF CommitDelete
  <2>2. Fresh'
    BY <1>1, <1>2, <1>3, <2>1, SMT DEF Fresh, Inv, TypeOK, EventsTypeOK
  <2>3. Locked'
    BY <1>1, <2>1, SMT DEF Locked, At, Inv, TypeOK, EventsTypeOK
  <2>4. Turns' /\ Apart'
    BY <1>1, <1>2, <2>1, SMT DEF Turns, Apart, Inv, TypeOK, EventsTypeOK
  <2> QED
    BY <1>6, <1>7, <1>8, <2>2, <2>3, <2>4 DEF Inv, Typed
<1>10. CASE FailDelete(p)
  <2>1. EndCall(p) /\ UNCHANGED row
    BY <1>10 DEF FailDelete
  <2>2. Fresh'
    <3>1. \A q \in Procs : book'[q] \in {0, book[q]}
      BY <1>1, <2>1, Ended
    <3>2. \A i \in Ids : sidecar[i] = None => sidecar'[i] = None
      BY <1>1, <1>2, SMT DEF Inv, TypeOK
    <3> QED
      BY <1>1, <2>1, <3>1, <3>2, SMT DEF Fresh, Inv
  <2>3. Locked'
    BY <1>1, <2>1, Ended
  <2>4. Turns' /\ Apart'
    BY <1>1, <1>2, <2>1, Ended, SMT DEF Turns, Apart, Inv
  <2> QED
    BY <1>6, <1>7, <1>8, <2>2, <2>3, <2>4 DEF Inv, Typed
<1> QED
  BY <1>1, <1>9, <1>10
\* A handler that has the lock writes the sidecar, with the id it will map and all the
\* ids that lead to the book.
LEMMA RecordedKeeps ==
  ASSUME Inv, Typed', NEW p \in Procs, NEW s \in Sidecars,
         s.head \in Docs, s.head \in s.ids, Recorded(p, s),
         \/ pc[p] = "ingested" /\ bookMu[book[p]] = None
         \/ pc[p] = "edited" /\ ReadSidecar(book[p]).ids \subseteq s.ids
  PROVE  Inv'
<1>1. /\ sidecar' = [sidecar EXCEPT ![book[p]] = s] /\ due' = [due EXCEPT ![p] = {s.head}]
      /\ bookMu' = [bookMu EXCEPT ![book[p]] = p]
      /\ UNCHANGED <<row, seq, pc, book, news, mapping, put, astray>>
  BY DEF Recorded
<1>2. /\ book[p] \in Ids /\ pc[p] # "idle" /\ put[p] = None
      /\ pc[p] = "edited" => bookMu[book[p]] = p
  BY SMT DEF Busy, Turns, Locked, Inv
<1>3. book[p] <= seq
  BY <1>2, Issued
<1>4. /\ sidecar'[book[p]] = s /\ \A i \in Ids : i # book[p] => sidecar'[i] = sidecar[i]
      /\ due'[p] = {s.head} /\ \A q \in Procs : q # p => due'[q] = due[q]
      /\ bookMu'[book[p]] = p /\ \A i \in Ids : i # book[p] => bookMu'[i] = bookMu[i]
  BY <1>1, <1>2, SMT DEF Inv, TypeOK, EventsTypeOK
<1>5. \A d \in Docs, i \in Ids : i # book[p] /\ i \in Holders(d) => i \in Holders(d)'
  BY <1>4, Zenon DEF Holders
<1>6. \A d \in Docs : d \in s.ids => book[p] \in Holders(d)'
  BY <1>2, <1>4, SMT DEF Holders
<1>7. \A d \in Docs \ astray : mapping[d] = book[p] => d \in s.ids
  <2>1. CASE pc[p] = "ingested"
    BY <2>1 DEF Apart, Inv
  <2>2. ASSUME ReadSidecar(book[p]).ids \subseteq s.ids, NEW d \in Docs \ astray, mapping[d] = book[p]
        PROVE  d \in s.ids
    <3>1. book[p] \in Holders(d)
      BY <1>2, <2>2 DEF MappedBookHasIt, Inv
    <3>2. d \in ReadSidecar(book[p]).ids
      BY <3>1 DEF Holders, ReadSidecar
    <3> QED
      BY <2>2, <3>2
  <2> QED
    BY <2>1, <2>2
<1>8. Fresh'
  BY <1>1, <1>3, <1>4, SMT DEF Fresh, Inv, TypeOK, EventsTypeOK
<1>9. \A q \in Procs : At(q, "write") => put[q].id \in Ids /\ put[q].id # book[p]
  BY <1>2, SMT DEF Locked, At, Turns, Inv, TypeOK, Puts
<1>10. Locked'
  <2>1. ASSUME NEW q \in Procs, pc[q] \in {"edited", "deleting", "removing", "deleted"}
        PROVE  bookMu'[book[q]] = q
    BY <1>1, <1>2, <1>4, <2>1, SMT DEF Locked, Busy, Inv
  <2>2. ASSUME NEW q \in Procs, pc[q] = "ingested", due'[q] # {} PROVE bookMu'[book[q]] = q
    BY <1>1, <1>2, <1>4, <2>2, SMT DEF Locked, Busy, Inv
  <2>3. ASSUME NEW q \in Procs, At(q, "write") PROVE bookMu'[put[q].id] = q
    BY <1>4, <1>9, <2>3 DEF Locked, Inv
  <2> QED
    BY <1>1, <2>1, <2>2, <2>3 DEF Locked, At
<1>11. Turns' /\ Apart'
  BY <1>1, <1>2, <1>4, SMT DEF Turns, Apart, Inv
<1>12. MappedBookHasIt'
  <2> SUFFICES ASSUME NEW d \in Docs \ astray, mapping[d] # None PROVE mapping[d] \in Holders(d)'
    BY <1>1 DEF MappedBookHasIt
  <2>1. mapping[d] \in Holders(d) /\ mapping[d] \in Ids
    BY SMT DEF MappedBookHasIt, Inv, TypeOK
  <2> QED
    BY <1>5, <1>6, <1>7, <2>1
<1>13. Mapped'
  <2>1. ASSUME NEW q \in Procs, NEW d \in due'[q], pc[q] \in {"ingested", "edited"}
        PROVE  book[q] \in Holders(d)'
    <3>1. CASE q = p
      BY <1>4, <1>6, <2>1, <3>1
    <3>2. CASE q # p
      <4>1. d \in due[q] /\ d \in Docs
        BY <1>4, <3>2, SMT DEF Inv, TypeOK
      <4>2. book[q] \in Holders(d) /\ book[q] \in Ids
        BY <2>1, <4>1, SMT DEF Mapped, Busy, Inv
      <4>3. book[q] # book[p]
        BY <1>2, <2>1, <3>2, <4>1, SMT DEF Locked, Apart, Turns, Inv
      <4> QED
        BY <1>5, <4>1, <4>2, <4>3
    <3> QED
      BY <3>1, <3>2
  <2>2. ASSUME NEW q \in Procs, NEW d \in Docs \ astray
        PROVE  /\ pc[q] = "deleting" => (mapping[d] = book[q] => d \in due'[q])
               /\ pc[q] \in {"removing", "deleted"} => mapping[d] # book[q]
    BY <1>4, SMT DEF Mapped, Inv
  <2> QED
    BY <1>1, <2>1, <2>2 DEF Mapped
<1>14. Found'
  <2> SUFFICES ASSUME NEW q \in Procs, At(q, "write")
               PROVE  put[q].found.ids = ReadSidecar(put[q].id)'.ids
    BY <1>1 DEF Found, At
  <2> QED
    BY <1>1, <1>4, <1>9 DEF Found, Inv, ReadSidecar
<1> QED
  BY <1>8, <1>10, <1>11, <1>12, <1>13, <1>14 DEF Inv, Typed

\* An id is mapped to the book whose sidecar has it, under the book's lock.
LEMMA MapKeeps ==
  ASSUME Inv, Typed', NEW p \in Procs, NEW d \in Docs, Map(p, d)
  PROVE  Inv'
<1>1. /\ pc[p] \in {"ingested", "edited"} /\ d \in due[p] /\ EndCall(p)
      /\ mapping' = [mapping EXCEPT ![d] = book[p]] /\ due' = [due EXCEPT ![p] = {}]
      /\ UNCHANGED <<row, seq, sidecar, put>> /\ astray' = astray \ {d}
  BY DEF Map
<1>2. /\ book[p] \in Ids /\ book[p] \in Holders(d) /\ bookMu[book[p]] = p
  BY <1>1, SMT DEF Busy, Mapped, Locked, Inv
<1>3. book[p] <= seq
  BY <1>1, Issued
<1>4. /\ due'[p] = {} /\ \A q \in Procs \ {p} : due'[q] = due[q]
      /\ mapping'[d] = book[p] /\ \A x \in Docs : x # d => mapping'[x] = mapping[x]
  BY <1>1, SMT DEF Inv, TypeOK
<1>5. /\ pc'[p] = "idle" /\ book'[p] = 0 /\ Locked'
      /\ \A q \in Procs \ {p} : pc'[q] = pc[q] /\ book'[q] = book[q]
  BY <1>1, <1>4, Ended
<1>6. ASSUME NEW q \in Procs \ {p}, pc[q] \in {"ingested", "deleting", "removing", "deleted"}
      PROVE  book[q] # book[p]
  BY <1>1, <1>2, <1>6, SMT DEF Locked, Apart, Turns, Inv
<1>7. Fresh'
  BY <1>1, <1>3, <1>4, <1>5, SMT DEF Fresh, Inv, TypeOK, EventsTypeOK
<1>8. Turns'
  BY <1>1, <1>4, <1>5, SMT DEF Turns, Inv
<1>9. MappedBookHasIt'
  BY <1>1, <1>2, <1>4, SameHolders DEF MappedBookHasIt, Inv
<1>10. Mapped'
  <2> SUFFICES ASSUME NEW q \in Procs, q # p
               PROVE  /\ pc[q] \in {"ingested", "edited"} =>
                           \A x \in due[q] : book[q] \in Holders(x)'
                      /\ pc[q] = "deleting" =>
                           \A x \in Docs \ astray' : mapping'[x] = book[q] => x \in due[q]
                      /\ pc[q] \in {"removing", "deleted"} =>
                           \A x \in Docs \ astray' : mapping'[x] # book[q]
    BY <1>4, <1>5 DEF Mapped
  <2>1. due[q] \subseteq Docs
    BY DEF Inv, TypeOK
  <2> QED
    BY <1>1, <1>4, <1>6, <2>1, SameHolders, SMT DEF Mapped, Inv
<1>11. Apart'
  <2> SUFFICES ASSUME NEW q \in Procs, q # p, pc[q] = "ingested"
               PROVE  /\ \A x \in Docs : mapping'[x] # book[q]
                      /\ \A r \in Procs : /\ put[r] # None => put[r].id # book[q]
                                          /\ pc'[r] = "edited" => book'[r] # book[q]
    BY <1>1, <1>5 DEF Apart
  <2> QED
    BY <1>4, <1>5, <1>6, SMT DEF Apart, Inv
<1>12. Found'
  BY <1>1, SameFound
<1> QED
  BY <1>5, <1>7, <1>8, <1>9, <1>10, <1>11, <1>12 DEF Inv, Typed

\* An unmapped id leads nowhere.
LEMMA UnmapKeeps ==
  ASSUME Inv, Typed', NEW p \in Procs, NEW d \in Docs, Unmap(p, d)
  PROVE  Inv'
<1>1. /\ pc[p] = "deleting" /\ mapping' = [mapping EXCEPT ![d] = None]
      /\ due' = [due EXCEPT ![p] = due[p] \ {d}]
      /\ UNCHANGED <<row, seq, pc, book, news, bookMu, sidecar, put>>
      /\ astray' = astray \ {d}
  BY DEF Unmap, eventVars
<1>2. /\ due'[p] = due[p] \ {d} /\ \A q \in Procs \ {p} : due'[q] = due[q]
      /\ mapping'[d] = None /\ \A x \in Docs : x # d => mapping'[x] = mapping[x]
  BY <1>1, SMT DEF Inv, TypeOK
<1>3. Fresh' /\ Found'
  BY <1>1, <1>2, SameFound, SMT DEF Fresh, Inv
<1>4. Locked' /\ Turns'
  BY <1>1, <1>2, SMT DEF Locked, At, Turns, Inv
<1>5. MappedBookHasIt'
  BY <1>1, <1>2, SameHolders DEF MappedBookHasIt, Inv
<1>6. \A q \in Procs : pc[q] # "idle" => book[q] \in Ids /\ book[q] # None
  BY DEF Busy, Inv
<1>7. Apart'
  BY <1>1, <1>2, <1>6, SMT DEF Apart, Inv
<1>8. Mapped'
  <2> SUFFICES ASSUME NEW q \in Procs
               PROVE  /\ pc[q] \in {"ingested", "edited"} =>
                           \A x \in due'[q] : book[q] \in Holders(x)'
                      /\ pc[q] = "deleting" =>
                           \A x \in Docs \ astray' : mapping'[x] = book[q] => x \in due'[q]
                      /\ pc[q] \in {"removing", "deleted"} =>
                           \A x \in Docs \ astray' : mapping'[x] # book[q]
    BY <1>1 DEF Mapped
  <2>1. due[q] \subseteq Docs
    BY DEF Inv, TypeOK
  <2> QED
    BY <1>1, <1>2, <1>6, <2>1, SameHolders, SMT DEF Mapped, Inv
<1> QED
  BY <1>3, <1>4, <1>5, <1>7, <1>8 DEF Inv, Typed
\* A PUT begins with a book whose ingest has been announced.
LEMMA PutKeeps ==
  ASSUME Inv, Typed', NEW p \in Procs, NEW d \in Docs, NEW x \in Percentages, Put(p, d, x)
  PROVE  Inv'
<1> DEFINE r == [step |-> "open", id |-> mapping[d], percentage |-> x, found |-> EmptySidecar]
<1>1. /\ put' = [put EXCEPT ![p] = r] /\ pc[p] = "idle" /\ mapping[d] # None
      /\ UNCHANGED <<row, seq, pc, book, news, bookMu, mapping, sidecar, due, astray>>
  BY DEF Put, eventVars
<1>2. r.id = mapping[d] /\ r.step = "open"
  OBVIOUS
<1> HIDE DEF r
<1>3. put'[p] = r /\ \A q \in Procs : q # p => put'[q] = put[q]
  BY <1>1, SMT DEF Inv, TypeOK
<1>4. mapping[d] \in Ids /\ mapping[d] <= seq
  BY <1>1, Issued
<1>5. ASSUME NEW q \in Procs, At(q, "write")' PROVE q # p /\ put'[q] = put[q]
  <2>1. put'[q].step = "write"
    BY <1>5 DEF At
  <2>2. q # p
    BY <1>2, <1>3, <2>1
  <2> QED
    BY <1>3, <2>2
<1>6. Fresh'
  BY <1>1, <1>2, <1>3, <1>4, SMT DEF Fresh, Inv, TypeOK, EventsTypeOK
<1>7. Locked'
  BY <1>1, <1>5 DEF Locked, At, Inv
<1>8. Turns' /\ Apart'
  BY <1>1, <1>2, <1>3, <1>4, SMT DEF Turns, Apart, Inv
<1>9. MappedBookHasIt' /\ Found'
  BY <1>1, <1>5, SameMapping, SameFound
<1>10. Mapped'
  BY <1>1, SameHolders DEF Mapped, Inv, TypeOK
<1> QED
  BY <1>6, <1>7, <1>8, <1>9, <1>10 DEF Inv, Typed

\* What a PUT's steps have in common: its client is in no call, and its book is known.
LEMMA Syncing ==
  ASSUME Inv, NEW p \in Procs, put[p] # None
  PROVE  /\ pc[p] = "idle" /\ put[p].id \in Ids /\ put[p].id <= seq
         /\ \A q \in Procs : pc[q] = "ingested" => book[q] # put[p].id
<1>1. pc[p] = "idle"
  BY DEF Turns, Inv
<1>2. put[p].id \in Ids /\ put[p].id <= seq
  BY Issued
<1>3. \A q \in Procs : pc[q] = "ingested" => book[q] # put[p].id
  BY SMT DEF Apart, Inv
<1> QED
  BY <1>1, <1>2, <1>3

\* A PUT's next step leaves its book what it was.
LEMMA Went ==
  ASSUME Inv, NEW p \in Procs, put[p] # None, NEW step, NEW s,
         Goto(p, step, s) \/ put' = [put EXCEPT ![p] = None]
  PROVE  /\ \A q \in Procs : q # p => put'[q] = put[q]
         /\ put'[p] # None => /\ put'[p].id = put[p].id /\ put'[p].step = step
                              /\ put'[p].found = s
<1> DEFINE r == [step |-> step, id |-> put[p].id, percentage |-> put[p].percentage,
                 found |-> s]
<1>1. r.id = put[p].id /\ r.step = step /\ r.found = s
  OBVIOUS
<1>2. put' = [put EXCEPT ![p] = r] \/ put' = [put EXCEPT ![p] = None]
  BY DEF Goto
<1> HIDE DEF r
<1> QED
  BY <1>1, <1>2, SMT DEF Inv, TypeOK

\* The PUT takes the lock and reads the sidecar.
LEMMA OpenKeeps ==
  ASSUME Inv, Typed', NEW p \in Procs, OpenForProgress(p)
  PROVE  Inv'
<1> DEFINE i == put[p].id
<1>1. /\ put[p] # None /\ bookMu[i] = None /\ bookMu' = [bookMu EXCEPT ![i] = p]
      /\ Goto(p, "write", ReadSidecar(i))
      /\ UNCHANGED <<row, seq, pc, book, news, mapping, sidecar, due, astray>>
  BY DEF OpenForProgress, At, BookLockFree
<1>2. /\ pc[p] = "idle" /\ i \in Ids /\ i <= seq
      /\ \A q \in Procs : pc[q] = "ingested" => book[q] # i
  BY <1>1, Syncing
<1>3. /\ \A q \in Procs : q # p => put'[q] = put[q]
      /\ put'[p] # None => put'[p].id = i /\ put'[p].found = ReadSidecar(i)
  BY <1>1, Went
<1> HIDE DEF i
<1>4. bookMu'[i] = p /\ \A j \in Ids : j # i => bookMu'[j] = bookMu[j]
  BY <1>1, <1>2, SMT DEF Inv, TypeOK, EventsTypeOK
<1>5. \A q \in Procs : put[q] # None => put[q].id \in Ids
  BY Syncing
<1>6. Fresh'
  <2> SUFFICES ASSUME NEW j \in Ids, j > seq
               PROVE  /\ row[j] = None /\ sidecar'[j] = None
                      /\ \A d \in Docs : mapping[d] # j
                      /\ \A q \in Procs : book[q] # j /\ (put'[q] # None => put'[q].id # j)
    BY <1>1 DEF Fresh
  <2>1. j # i
    BY <1>2, SMT DEF Inv, TypeOK, EventsTypeOK
  <2> QED
    BY <1>1, <1>3, <2>1 DEF Fresh, Inv
<1>7. Locked'
  <2>1. ASSUME NEW q \in Procs,
               \/ pc[q] \in {"edited", "deleting", "removing", "deleted"}
               \/ pc[q] = "ingested" /\ due[q] # {}
        PROVE  bookMu'[book[q]] = q
    BY <1>1, <1>4, <2>1, SMT DEF Locked, Busy, Inv
  <2>2. ASSUME NEW q \in Procs, At(q, "write")' PROVE bookMu'[put'[q].id] = q
    BY <1>1, <1>3, <1>4, <1>5, <2>2, SMT DEF Locked, At, Inv
  <2> QED
    BY <1>1, <2>1, <2>2 DEF Locked
<1>8. Turns' /\ Apart'
  BY <1>1, <1>2, <1>3, SMT DEF Turns, Apart, Inv
<1>9. MappedBookHasIt'
  BY <1>1, SameMapping
<1>10. Mapped'
  BY <1>1, SameHolders DEF Mapped, Inv, TypeOK
<1>11. Found'
  <2> SUFFICES ASSUME NEW q \in Procs, At(q, "write")'
               PROVE  put'[q].found.ids = (ReadSidecar(put[q].id).ids)'
    BY DEF Found
  <2>1. CASE q = p
    BY <1>1, <1>3, <2>1 DEF At, ReadSidecar
  <2>2. CASE q # p
    <3>1. At(q, "write") /\ put'[q] = put[q]
      BY <1>3, <2>2 DEF At
    <3>2. put[q].found.ids = ReadSidecar(put[q].id).ids
      BY <3>1 DEF Found, Inv
    <3> QED
      BY <1>1, <3>1, <3>2 DEF ReadSidecar
  <2> QED
    BY <2>1, <2>2
<1> QED
  BY <1>6, <1>7, <1>8, <1>9, <1>10, <1>11 DEF Inv, Typed

\* The PUT writes the ids it read, which are still the sidecar's.
LEMMA WriteKeeps ==
  ASSUME Inv, Typed', NEW p \in Procs, WriteProgress(p)
  PROVE  Inv'
<1> DEFINE i == put[p].id
           s == [put[p].found EXCEPT !.progress = put[p].percentage]
<1>1. /\ put[p] # None /\ bookMu' = [bookMu EXCEPT ![i] = None]
      /\ Goto(p, "decide", EmptySidecar) /\ sidecar' = [sidecar EXCEPT ![i] = s]
      /\ UNCHANGED <<row, seq, pc, book, news, mapping, due, astray>>
  BY DEF WriteProgress, At
<1>2. /\ pc[p] = "idle" /\ i \in Ids /\ i <= seq
      /\ \A q \in Procs : pc[q] = "ingested" => book[q] # i
  BY <1>1, Syncing
<1>3. bookMu[i] = p /\ put[p].found.ids = ReadSidecar(i).ids /\ put[p].found \in Sidecars
  BY SMT DEF WriteProgress, At, Locked, Found, Inv, TypeOK, Puts
<1>4. /\ \A q \in Procs : q # p => put'[q] = put[q]
      /\ put'[p] # None => put'[p].id = i /\ put'[p].step = "decide"
  BY <1>1, Went
<1>5. s.ids = ReadSidecar(i).ids /\ s \in Sidecars
  <2>1. put[p].percentage \in Percentages
    BY <1>1, SMT DEF Inv, TypeOK, Puts
  <2>2. s \in Sidecars
    BY <1>3, <2>1, SidecarTypes
  <2>3. s.ids = put[p].found.ids
    BY <1>3 DEF Sidecars
  <2> QED
    BY <1>3, <2>2, <2>3
<1> HIDE DEF i, s
<1>6. /\ sidecar'[i] = s /\ \A j \in Ids : j # i => sidecar'[j] = sidecar[j]
      /\ \A j \in Ids : j # i => bookMu'[j] = bookMu[j]
  BY <1>1, <1>2, SMT DEF Inv, TypeOK, EventsTypeOK
<1>7. \A q \in Procs : put[q] # None => put[q].id \in Ids
  BY Syncing
<1>8. Fresh'
  <2> SUFFICES ASSUME NEW j \in Ids, j > seq
               PROVE  /\ row[j] = None /\ sidecar'[j] = None
                      /\ \A d \in Docs : mapping[d] # j
                      /\ \A q \in Procs : book[q] # j /\ (put'[q] # None => put'[q].id # j)
    BY <1>1 DEF Fresh
  <2>1. j # i
    BY <1>2, SMT DEF Inv, TypeOK, EventsTypeOK
  <2> QED
    BY <1>4, <1>6, <2>1 DEF Fresh, Inv
<1>9. \A q \in Procs : At(q, "write")' =>
        /\ At(q, "write") /\ put'[q] = put[q] /\ put[q].id \in Ids /\ put[q].id # i
  <2> SUFFICES ASSUME NEW q \in Procs, At(q, "write")'
               PROVE  /\ At(q, "write") /\ put'[q] = put[q]
                      /\ put[q].id \in Ids /\ put[q].id # i
    OBVIOUS
  <2>1. q # p /\ put'[q] = put[q] /\ At(q, "write") /\ put[q].id \in Ids
    BY <1>4, <1>7, SMT DEF At
  <2>2. bookMu[put[q].id] = q
    BY <2>1 DEF Locked, Inv
  <2> QED
    BY <1>3, <2>1, <2>2
<1>10. Locked'
  <2>1. ASSUME NEW q \in Procs,
               \/ pc[q] \in {"edited", "deleting", "removing", "deleted"}
               \/ pc[q] = "ingested" /\ due[q] # {}
        PROVE  bookMu'[book[q]] = q
    BY <1>2, <1>3, <1>6, <2>1, SMT DEF Locked, Busy, Inv
  <2>2. ASSUME NEW q \in Procs, At(q, "write")' PROVE bookMu'[put'[q].id] = q
    BY <1>6, <1>9, <2>2 DEF Locked, Inv
  <2> QED
    BY <1>1, <2>1, <2>2 DEF Locked
<1>11. Turns' /\ Apart'
  BY <1>1, <1>2, <1>4, SMT DEF Turns, Apart, Inv
<1>12. \A d \in Docs, j \in Ids : j \in Holders(d) => j \in Holders(d)'
  <2> SUFFICES ASSUME NEW d \in Docs, NEW j \in Ids, j \in Holders(d)
               PROVE  sidecar'[j] # None /\ d \in sidecar'[j].ids
    BY DEF Holders
  <2>1. CASE j = i
    BY <1>5, <1>6, <2>1 DEF Holders, ReadSidecar
  <2>2. CASE j # i
    BY <1>6, <2>2 DEF Holders
  <2> QED
    BY <2>1, <2>2
<1>13. MappedBookHasIt'
  BY <1>1, <1>12, SMT DEF MappedBookHasIt, Inv, TypeOK
<1>14. Mapped'
  <2>1. ASSUME NEW q \in Procs, NEW d \in due[q], pc[q] \in {"ingested", "edited"}
        PROVE  book[q] \in Holders(d)'
    <3>1. d \in Docs /\ book[q] \in Ids /\ book[q] \in Holders(d)
      BY <2>1, SMT DEF Mapped, Busy, Inv, TypeOK
    <3> QED
      BY <1>12, <3>1
  <2> QED
    BY <1>1, <2>1 DEF Mapped, Inv
<1>15. Found'
  <2> SUFFICES ASSUME NEW q \in Procs, At(q, "write")'
               PROVE  put'[q].found.ids = (ReadSidecar(put[q].id).ids)'
    BY DEF Found
  <2>1. put[q].found.ids = ReadSidecar(put[q].id).ids
    BY <1>9 DEF Found, Inv
  <2> QED
    BY <1>6, <1>9, <2>1 DEF ReadSidecar
<1> QED
  BY <1>8, <1>10, <1>11, <1>13, <1>14, <1>15 DEF Inv, Typed
\* A PUT that goes on to the edit, or that ends, reads and writes no sidecar any more.
LEMMA LeaveKeeps ==
  ASSUME Inv, Typed', NEW p \in Procs, DecideStatus(p) \/ PutFails(p)
  PROVE  Inv'
<1>1. /\ put[p] # None
      /\ Goto(p, "edit", EmptySidecar) \/ put' = [put EXCEPT ![p] = None]
      /\ UNCHANGED <<row, seq, pc, book, news, mapping, sidecar, due, astray>>
  BY DEF DecideStatus, PutFails, At, Free, eventVars
<1>2. /\ pc[p] = "idle" /\ put[p].id \in Ids
      /\ \A q \in Procs : q # p => put'[q] = put[q]
      /\ put'[p] # None => put'[p].id = put[p].id /\ put'[p].step = "edit"
  BY <1>1, Syncing, Went
<1>3. \A i \in Ids : bookMu'[i] = bookMu[i] \/ bookMu[i] = p
  BY SMT DEF DecideStatus, PutFails, eventVars
<1>4. ASSUME NEW q \in Procs, At(q, "write")'
      PROVE  q # p /\ put'[q] = put[q] /\ At(q, "write") /\ put[q].id \in Ids
  <2>1. q # p /\ put'[q] = put[q]
    BY <1>2, <1>4, SMT DEF At
  <2> QED
    BY <1>4, <2>1, Syncing DEF At
<1>5. Fresh'
  BY <1>1, <1>2 DEF Fresh, Inv
<1>6. Locked'
  <2>1. ASSUME NEW q \in Procs,
               \/ pc[q] \in {"edited", "deleting", "removing", "deleted"}
               \/ pc[q] = "ingested" /\ due[q] # {}
        PROVE  bookMu'[book[q]] = q
    BY <1>2, <1>3, <2>1, SMT DEF Locked, Busy, Inv
  <2>2. ASSUME NEW q \in Procs, At(q, "write")' PROVE bookMu'[put'[q].id] = q
    BY <1>3, <1>4, <2>2 DEF Locked, Inv
  <2> QED
    BY <1>1, <2>1, <2>2 DEF Locked
<1>7. Turns' /\ Apart'
  BY <1>1, <1>2, SMT DEF Turns, Apart, Inv
<1>8. MappedBookHasIt' /\ Found'
  BY <1>1, <1>4, SameMapping, SameFound
<1>9. Mapped'
  BY <1>1, SameHolders DEF Mapped, Inv, TypeOK
<1> QED
  BY <1>5, <1>6, <1>7, <1>8, <1>9 DEF Inv, Typed

\* A start finds the mapping right, or builds it from the sidecars.
LEMMA RestartKeeps ==
  ASSUME Inv, Typed', NEW lost \in BOOLEAN, Restart(lost)
  PROVE  Inv'
<1>1. /\ pc' = [p \in Procs |-> "idle"] /\ book' = [p \in Procs |-> 0]
      /\ due' = [p \in Procs |-> {}] /\ put' = [p \in Procs |-> None]
      /\ UNCHANGED <<row, seq>>
      /\ Rebuild \/ UNCHANGED <<mapping, sidecar, astray>>
  BY DEF Restart, CallsDie
<1>2. Locked' /\ Turns' /\ Mapped' /\ Apart' /\ Found'
  BY <1>1, SMT DEF Locked, Turns, Mapped, Apart, Found, At
<1>3. MappedBookHasIt'
  BY <1>1, SameMapping, SMT DEF Rebuild, MappedBookHasIt
<1>4. \A i \in Ids : i > seq => sidecar'[i] = None
  <2>1. CASE Rebuild
    <3>1. PICK made \in SUBSET {i \in Ids : row[i] # None /\ sidecar[i] = None} :
            sidecar' = [i \in Ids |-> IF i \in made THEN FreshSidecar(DocOf[row[i]])
                                                    ELSE sidecar[i]]
      BY <2>1 DEF Rebuild
    <3>2. ASSUME NEW i \in Ids, i > seq PROVE sidecar'[i] = None
      <4>1. row[i] = None /\ sidecar[i] = None
        BY <3>2 DEF Fresh, Inv
      <4> QED
        BY <3>1, <4>1
    <3> QED
      BY <3>2
  <2>2. CASE UNCHANGED <<mapping, sidecar, astray>>
    BY <2>2 DEF Fresh, Inv
  <2> QED
    BY <1>1, <2>1, <2>2
<1>5. Rebuild => \A d \in Docs : mapping'[d] # None => sidecar'[mapping'[d]] # None
  BY Zenon DEF Rebuild, Holders
<1>6. Fresh'
  <2> SUFFICES ASSUME NEW i \in Ids, i > seq
               PROVE  /\ row[i] = None /\ sidecar'[i] = None
                      /\ \A d \in Docs : mapping'[d] # i
                      /\ \A p \in Procs : book'[p] # i /\ put'[p] = None
    BY <1>1 DEF Fresh
  <2>1. i # None /\ i # 0
    BY SMT
  <2> QED
    BY <1>1, <1>4, <1>5, <2>1 DEF Fresh, Inv
<1> QED
  BY <1>2, <1>3, <1>6 DEF Inv, Typed

\* Every step keeps the invariant.
LEMMA StepInv == Inv /\ [Next]_vars => Inv'
<1> SUFFICES ASSUME Inv, [Next]_vars PROVE Inv'
  OBVIOUS
<1> Typed'
  BY StepTyped DEF Inv, Typed
<1>1. ASSUME NEW p \in Procs, NEW b \in Uploads, Ingest(p, b) PROVE Inv'
  BY <1>1, IngestKeeps
<1>2. ASSUME NEW p \in Procs, NEW i \in Ids, NEW f \in Changes, Edit(p, i, f) PROVE Inv'
  <2>1. /\ CommitEdit(p, i, f) /\ UNCHANGED <<mapping, sidecar, due, astray>>
        /\ \A q \in Procs : pc[q] = "ingested" => book[q] # i
        /\ f \in [Books -> Books]
    BY <1>2 DEF Edit, kosyncVars
  <2>2. put' = [put EXCEPT ![p] = None]
    BY <1>2, SMT DEF Edit, Free, kosyncVars, Inv, TypeOK
  <2> QED
    BY <2>1, <2>2, CommitEditKeeps
<1>3. ASSUME NEW p \in Procs, NEW i \in Ids, Delete(p, i) PROVE Inv'
  BY <1>3, DeleteKeeps
<1>4. ASSUME NEW p \in Procs, DeleteGoesOn(p) \/ DeleteEnds(p) PROVE Inv'
  BY <1>4, DeleteGoesOnKeeps, DeleteEndsKeeps
<1>5. ASSUME NEW p \in Procs, OnIngested(p) PROVE Inv'
  <2>1. pc[p] = "ingested" /\ bookMu[book[p]] = None
    BY <1>5 DEF OnIngested, MayAnnounce, BookLockFree
  <2>2. due[p] = {} /\ book[p] \in Ids
    BY <2>1 DEF Locked, Busy, Inv, TypeOK, EventsTypeOK
  <2>3. ASSUME SidecarsOpen(book[p], news[p]), Recorded(p, FreshSidecar(CurrentDoc(p)))
        PROVE  Inv'
    <3>1. CurrentDoc(p) \in Docs
      BY <2>2, <2>3, SMT DEF SidecarsOpen, CurrentDoc, Inv, TypeOK, EventsTypeOK
    <3> DEFINE s == FreshSidecar(CurrentDoc(p))
    <3>2. s \in Sidecars /\ s.head \in Docs /\ s.head \in s.ids
      BY <3>1, SidecarTypes DEF FreshSidecar
    <3> HIDE DEF s
    <3> QED
      BY <2>1, <2>3, <3>2, RecordedKeeps DEF s
  <2> QED
    BY <1>5, <2>1, <2>2, <2>3, UnrecordedKeeps DEF OnIngested
<1>6. ASSUME NEW p \in Procs, OnEdited(p) PROVE Inv'
  <2>1. pc[p] = "edited" /\ due[p] = {} /\ book[p] \in Ids
    BY <1>6 DEF OnEdited, MayAnnounce, Busy, Inv
  <2> DEFINE s == Relabelled(ReadSidecar(book[p]), CurrentDoc(p))
  <2>2. ASSUME SidecarsOpen(book[p], news[p]), Recorded(p, s) PROVE Inv'
    <3>1. CurrentDoc(p) \in Docs
      BY <2>1, <2>2, SMT DEF SidecarsOpen, CurrentDoc, Inv, TypeOK, EventsTypeOK
    <3>2. ReadSidecar(book[p]) \in Sidecars
      BY <2>1, ReadTypes DEF Inv
    <3>3. s \in Sidecars
      BY <3>1, <3>2, SidecarTypes
    <3>4. s.head \in Docs /\ s.head \in s.ids /\ ReadSidecar(book[p]).ids \subseteq s.ids
      BY <3>1 DEF Relabelled
    <3> HIDE DEF s
    <3> QED
      BY <2>1, <2>2, <3>3, <3>4, RecordedKeeps
  <2> QED
    BY <1>6, <2>1, <2>2, UnrecordedKeeps DEF OnEdited
<1>7. ASSUME NEW p \in Procs, OnDeleted(p) PROVE Inv'
  <2>1. pc[p] = "deleted" /\ Unrecorded(p)
    BY <1>7 DEF OnDeleted, MayAnnounce
  <2>2. due[p] = {}
    BY <2>1 DEF Turns, Inv
  <2> QED
    BY <2>1, <2>2, UnrecordedKeeps
<1>8. ASSUME NEW p \in Procs, NEW d \in Docs, Map(p, d) \/ Unmap(p, d) PROVE Inv'
  BY <1>8, MapKeeps, UnmapKeeps
<1>9. ASSUME NEW p \in Procs, EditStatus(p) PROVE Inv'
  <2> DEFINE f == [b \in Books |-> [b EXCEPT !.status = TargetStatus(put[p].percentage)]]
  <2>1. /\ put[p] # None /\ CommitEdit(p, put[p].id, f) /\ put' = [put EXCEPT ![p] = None]
        /\ UNCHANGED <<mapping, sidecar, due, astray>>
    BY <1>9 DEF EditStatus, At
  <2>2. f \in [Books -> Books]
    <3>1. put[p].percentage \in Percentages
      BY <2>1, SMT DEF Inv, TypeOK, Puts
    <3>2. TargetStatus(put[p].percentage) \in Statuses
      BY <3>1, SMT DEF TargetStatus, Statuses
    <3> QED
      BY <3>2, KosyncAssumption
  <2> HIDE DEF f
  <2>3. /\ put[p].id \in Ids
        /\ \A q \in Procs : pc[q] = "ingested" => book[q] # put[p].id
    BY <2>1, Syncing
  <2> QED
    BY <2>1, <2>2, <2>3, CommitEditKeeps
<1>10. ASSUME NEW p \in Procs, Sync(p) PROVE Inv'
  BY <1>9, <1>10, PutKeeps, OpenKeeps, WriteKeeps, LeaveKeeps DEF Sync
<1>11. ASSUME NEW lost \in BOOLEAN, Restart(lost) PROVE Inv'
  BY <1>11, RestartKeeps
<1>12. CASE UNCHANGED vars
  <2>1. /\ UNCHANGED <<row, seq, pc, book, news, bookMu, mapping, sidecar, due, put, astray>>
    BY <1>12 DEF vars, eventVars, kosyncVars
  <2>2. MappedBookHasIt' /\ Found'
    BY <2>1, SameMapping, SameFound
  <2>3. Mapped'
    BY <2>1, SameHolders DEF Mapped, Inv, TypeOK
  <2> QED
    BY <2>1, <2>2, <2>3 DEF Inv, Typed, Fresh, Locked, At, Turns, Apart
<1> QED
  BY <1>1, <1>2, <1>3, <1>4, <1>5, <1>6, <1>7, <1>8, <1>10, <1>11, <1>12 DEF Next, Hook

-----------------------------------------------------------------------------
(* Theorems. *)

\* Whatever clients, devices and crashes do, the state stays well formed.
THEOREM TypeCorrect == Spec => []TypeOK
<1>1. Inv => TypeOK
  BY DEF Inv
<1> QED
  BY InitInv, StepInv, <1>1, PTL DEF Spec

\* A document id leads to a book whose sidecar has it, for any number of clients, books
\* and documents: the handlers' order of sidecar and mapping, and the book's lock.  Only a
\* delete that cannot read the sidecar leaves its ids behind.
THEOREM MappedHasIt == Spec => []MappedBookHasIt
<1>1. Inv => MappedBookHasIt
  BY DEF Inv
<1> QED
  BY InitInv, StepInv, <1>1, PTL DEF Spec

-----------------------------------------------------------------------------
(* What a step may do to progress and to a status. *)

\* A book whose ingest has not been announced has no sidecar yet.
Unwritten == \A p \in Procs : pc[p] = "ingested" /\ due[p] = {} => sidecar[book[p]] = None

\* No PUT has decided to set a book back to unread.
Decided == \A p \in Procs : At(p, "edit") => TargetStatus(put[p].percentage) # "unread"

LEMMA NextId == TypeOK /\ seq < MaxId => seq + 1 \in Ids /\ seq + 1 > seq
<1> SUFFICES ASSUME seq \in 0 .. MaxId, seq < MaxId PROVE seq + 1 \in Ids /\ seq + 1 > seq
  BY DEF TypeOK, EventsTypeOK
<1> QED
  BY EventsAssumption DEF Ids

LEMMA StepUnwritten == Inv /\ Unwritten /\ [Next]_vars => Unwritten'
<1> SUFFICES ASSUME Inv, Unwritten, [Next]_vars PROVE Unwritten'
  OBVIOUS
<1> USE DEF Inv, TypeOK, EventsTypeOK
<1>1. ASSUME NEW p \in Procs, NEW b \in Uploads, Ingest(p, b) PROVE Unwritten'
  <2>1. /\ pc[p] = "idle" /\ seq < MaxId /\ sidecar' = sidecar /\ due' = due
        /\ Due(p, "ingested", seq + 1, b)
    BY <1>1 DEF Ingest, CommitIngest, kosyncVars
  <2>2. seq + 1 \in Ids /\ seq + 1 > seq
    BY <2>1, NextId
  <2>3. sidecar[seq + 1] = None
    BY <2>2 DEF Fresh
  <2> QED
    BY <2>1, <2>3 DEF Unwritten, Due
<1>2. ASSUME NEW p \in Procs, NEW l, l # "ingested", pc' = [pc EXCEPT ![p] = l],
             \A q \in Procs \ {p} : book'[q] = book[q] /\ due'[q] = due[q],
             \A i \in Ids : sidecar'[i] \in {sidecar[i], None}
      PROVE  Unwritten'
  <2> SUFFICES ASSUME NEW q \in Procs, pc'[q] = "ingested", due'[q] = {}
               PROVE  sidecar'[book'[q]] = None
    BY DEF Unwritten
  <2>1. q # p /\ pc[q] = "ingested" /\ due[q] = {} /\ book'[q] = book[q] /\ book[q] \in Ids
    BY <1>2 DEF Busy
  <2> QED
    BY <1>2, <2>1 DEF Unwritten
<1>3. ASSUME NEW p \in Procs, NEW i \in Ids, NEW f \in Changes, Edit(p, i, f) PROVE Unwritten'
  BY <1>2, <1>3 DEF Edit, CommitEdit, Due, kosyncVars
<1>4. ASSUME NEW p \in Procs, NEW i \in Ids, Delete(p, i) PROVE Unwritten'
  BY <1>2, <1>4 DEF Delete, BeginDelete, Due
<1>5. ASSUME NEW p \in Procs, DeleteGoesOn(p) PROVE Unwritten'
  BY <1>2, <1>5 DEF DeleteGoesOn, Deleting, kosyncVars
<1>6. ASSUME NEW p \in Procs, DeleteEnds(p) PROVE Unwritten'
  BY <1>2, <1>6 DEF DeleteEnds, CommitDelete, FailDelete, EndCall, Due
<1>7. ASSUME NEW p \in Procs, Unrecorded(p) PROVE Unwritten'
  BY <1>2, <1>7 DEF Unrecorded, EndCall, Due, kosyncVars
<1>8. ASSUME NEW p \in Procs, NEW s, pc[p] \in {"ingested", "edited"}, Recorded(p, s)
      PROVE  Unwritten'
  <2> SUFFICES ASSUME NEW q \in Procs, pc'[q] = "ingested", due'[q] = {}
               PROVE  sidecar'[book'[q]] = None
    BY DEF Unwritten
  <2>1. q # p /\ pc[q] = "ingested" /\ due[q] = {} /\ book'[q] = book[q]
    BY <1>8 DEF Recorded
  <2>2. book[q] \in Ids /\ book[p] # book[q]
    BY <1>8, <2>1 DEF Apart, Turns, Busy
  <2> QED
    BY <1>8, <2>1, <2>2 DEF Recorded, Unwritten
<1>9. ASSUME NEW p \in Procs, Hook(p) PROVE Unwritten'
  <2>1. ASSUME NEW d \in Docs, Map(p, d) PROVE Unwritten'
    BY <1>2, <2>1 DEF Map, EndCall, Due
  <2>2. ASSUME NEW d \in Docs, Unmap(p, d) PROVE Unwritten'
    BY <2>2 DEF Unmap, Unwritten, eventVars
  <2> QED
    BY <1>7, <1>8, <1>9, <2>1, <2>2 DEF Hook, OnIngested, OnEdited, OnDeleted, MayAnnounce
<1>10. ASSUME NEW p \in Procs, Sync(p) PROVE Unwritten'
  <2>1. CASE WriteProgress(p)
    BY <2>1 DEF WriteProgress, At, Unwritten, Apart, Busy
  <2>2. CASE EditStatus(p)
    BY <1>2, <2>2 DEF EditStatus, CommitEdit, Due
  <2>3. CASE ~WriteProgress(p) /\ ~EditStatus(p)
    BY <1>10, <2>3
    DEF Sync, Put, OpenForProgress, DecideStatus, PutFails, Unwritten, eventVars
  <2> QED
    BY <2>1, <2>2, <2>3
<1>11. ASSUME NEW lost \in BOOLEAN, Restart(lost) PROVE Unwritten'
  BY <1>11 DEF Restart, CallsDie, Unwritten
<1>12. CASE UNCHANGED vars
  BY <1>12 DEF vars, eventVars, kosyncVars, Unwritten
<1> QED
  BY <1>1, <1>3, <1>4, <1>5, <1>6, <1>9, <1>10, <1>11, <1>12 DEF Next

LEMMA StepDecided == Inv /\ Decided /\ [Next]_vars => Decided'
<1> SUFFICES ASSUME Inv, Decided, [Next]_vars PROVE Decided'
  OBVIOUS
<1> USE DEF Inv, TypeOK
<1>1. CASE put' = put
  BY <1>1 DEF Decided, At
<1>2. ASSUME NEW p \in Procs, Sync(p) PROVE Decided'
  <2>1. \A q \in Procs \ {p} : put'[q] = put[q]
    BY <1>2
    DEF Sync, Put, OpenForProgress, WriteProgress, DecideStatus, EditStatus, PutFails, Goto
  <2>2. At(p, "edit")' => /\ put'[p].percentage = put[p].percentage
                          /\ TargetStatus(put[p].percentage) # "unread"
    BY <1>2
    DEF Sync, Put, OpenForProgress, WriteProgress, DecideStatus, EditStatus, PutFails, Goto, At,
        Wanted
  <2> QED
    BY <2>1, <2>2 DEF Decided, At, TargetStatus
<1>3. ASSUME NEW lost \in BOOLEAN, Restart(lost) PROVE Decided'
  BY <1>3 DEF Restart, Decided, At
<1>4. \/ put' = put
      \/ \E p \in Procs : Sync(p)
      \/ \E lost \in BOOLEAN : Restart(lost)
  BY DEF Next, Ingest, Edit, Delete, DeleteGoesOn, DeleteEnds, Hook, OnIngested, OnEdited,
         OnDeleted, Recorded, Unrecorded, Map, Unmap, vars, kosyncVars
<1> QED
  BY <1>1, <1>2, <1>3, <1>4

LEMMA AlwaysInv == Spec => [](Inv /\ Unwritten /\ Decided)
<1>1. Init => Unwritten /\ Decided
  BY DEF Init, EventsInit, NoCalls, Unwritten, Decided, At
<1> QED
  BY <1>1, InitInv, StepInv, StepUnwritten, StepDecided, PTL DEF Spec

\* Whatever hooks rewrite sidecars meanwhile, and however calls fail, die and race, the
\* progress of a book is what the last PUT for it stored (WithSidecars, OnIngested,
\* OnEdited, rebuildMapping).
THEOREM OnlySyncs == Spec => OnlySyncsMoveProgress
<1> DEFINE Moves == \A i \in Ids :
                      /\ sidecar[i] # None /\ sidecar'[i] # None
                      /\ sidecar'[i].progress # sidecar[i].progress
                      => \E p \in Procs : /\ put[p] # None /\ put[p].id = i
                                          /\ put[p].percentage = sidecar'[i].progress
<1>1. Inv /\ Unwritten /\ [Next]_vars => Moves
  <2> SUFFICES ASSUME Inv, Unwritten, [Next]_vars, NEW i \in Ids,
                      sidecar[i] # None, sidecar'[i] # None,
                      sidecar'[i].progress # sidecar[i].progress
               PROVE  \E p \in Procs : /\ put[p] # None /\ put[p].id = i
                                       /\ put[p].percentage = sidecar'[i].progress
    OBVIOUS
  <2> USE DEF Inv, TypeOK, EventsTypeOK
  <2>1. ASSUME NEW p \in Procs, OnIngested(p) PROVE FALSE
    <3>1. pc[p] = "ingested" /\ bookMu[book[p]] # p
      BY <2>1, EventsAssumption DEF OnIngested, MayAnnounce, BookLockFree
    <3>2. due[p] = {}
      BY <3>1 DEF Locked
    <3> QED
      BY <2>1, <3>1, <3>2
      DEF OnIngested, Recorded, Unrecorded, Unwritten, kosyncVars
  <2>2. ASSUME NEW p \in Procs, OnEdited(p) PROVE FALSE
    <3>1. CASE Unrecorded(p)
      BY <3>1 DEF Unrecorded, kosyncVars
    <3>2. ASSUME NEW d, Recorded(p, Relabelled(ReadSidecar(book[p]), d)) PROVE FALSE
      <4>1. sidecar' = [sidecar EXCEPT ![book[p]] = Relabelled(ReadSidecar(book[p]), d)]
        BY <3>2 DEF Recorded
      <4>2. book[p] = i /\ sidecar'[i] = Relabelled(sidecar[i], d)
        BY <4>1 DEF ReadSidecar
      <4> QED
        BY <4>2 DEF Relabelled
    <3> QED
      BY <2>2, <3>1, <3>2 DEF OnEdited
  <2>3. ASSUME NEW p \in Procs, Hook(p) PROVE FALSE
    BY <2>1, <2>2, <2>3 DEF Hook, OnDeleted, Unrecorded, Map, Unmap, kosyncVars
  <2>4. ASSUME NEW p \in Procs, WriteProgress(p)
        PROVE  put[p] # None /\ put[p].id = i /\ put[p].percentage = sidecar'[i].progress
    <3>1. put[p] \in Puts
      BY <2>4 DEF WriteProgress, At
    <3> QED
      BY <2>4, <3>1 DEF WriteProgress, At, Puts, Sidecars
  <2>5. ASSUME NEW p \in Procs, Sync(p), ~WriteProgress(p) PROVE FALSE
    BY <2>5 DEF Sync, Put, OpenForProgress, DecideStatus, EditStatus, PutFails
  <2>6. ASSUME NEW p \in Procs, DeleteEnds(p) PROVE FALSE
    BY <2>6 DEF DeleteEnds
  <2>7. ASSUME NEW lost \in BOOLEAN, Restart(lost) PROVE FALSE
    BY <2>7 DEF Restart, Rebuild
  <2>8. \/ sidecar' = sidecar
        \/ \E p \in Procs : Hook(p) \/ Sync(p) \/ DeleteEnds(p)
        \/ \E lost \in BOOLEAN : Restart(lost)
    BY DEF Next, Ingest, Edit, Delete, DeleteGoesOn, vars, kosyncVars
  <2> QED
    BY <2>3, <2>4, <2>5, <2>6, <2>7, <2>8
<1>2. Inv /\ Unwritten /\ [Next]_vars => [Moves]_vars
  BY <1>1
<1> QED
  BY <1>2, AlwaysInv, PTL DEF Spec, OnlySyncsMoveProgress

\* "Once a book has left 'unread', it never returns to it", for any number of devices
\* whose decisions and edits interleave, if no user sets it back (updateBookStatus).
THEOREM UnreadIsLeft ==
  ASSUME \A f \in Changes, b \in Books : b.status # "unread" => f[b].status # "unread"
  PROVE  Spec => UnreadIsLeftForGood
<1> DEFINE Leaves == \A i \in Ids : row[i] # None /\ row'[i] # None /\ row[i].status # "unread"
                                    => row'[i].status # "unread"
<1>1. Inv /\ Decided /\ [Next]_vars => Leaves
  <2> SUFFICES ASSUME Inv, Decided, [Next]_vars, NEW i \in Ids,
                      row[i] # None, row'[i] # None, row[i].status # "unread"
               PROVE  row'[i].status # "unread"
    OBVIOUS
  <2> USE DEF Inv, TypeOK, EventsTypeOK
  <2>1. ASSUME NEW p \in Procs, NEW b \in Uploads, Ingest(p, b) PROVE row'[i] = row[i]
    <3>1. /\ row' = [row EXCEPT ![seq + 1] = b] /\ seq < MaxId
      BY <2>1 DEF Ingest, CommitIngest
    <3>2. seq + 1 \in Ids /\ seq + 1 > seq
      BY <3>1, NextId
    <3>3. row[seq + 1] = None
      BY <3>2 DEF Fresh
    <3> QED
      BY <3>1, <3>3
  <2>2. ASSUME NEW p \in Procs, NEW j \in Ids, NEW f \in Changes, Edit(p, j, f)
        PROVE  row'[i].status # "unread"
    BY <2>2 DEF Edit, CommitEdit
  <2>3. ASSUME NEW p \in Procs, EditStatus(p) PROVE row'[i].status # "unread"
    <3> DEFINE s == TargetStatus(put[p].percentage)
               f == [b \in Books |-> [b EXCEPT !.status = s]]
    <3>1. s # "unread" /\ CommitEdit(p, put[p].id, f)
      BY <2>3 DEF EditStatus, Decided
    <3>2. \A b \in Books : f[b] = [b EXCEPT !.status = s] /\ "status" \in DOMAIN b
      BY KosyncAssumption
    <3>3. \A b \in Books : f[b].status = s
      BY <3>2
    <3> HIDE DEF f, s
    <3>4. row' = [row EXCEPT ![put[p].id] = f[row[put[p].id]]]
      BY <3>1 DEF CommitEdit
    <3> QED
      BY <3>1, <3>3, <3>4
  <2>4. ASSUME NEW p \in Procs, DeleteEnds(p) PROVE row'[i] = row[i]
    BY <2>4 DEF DeleteEnds, CommitDelete, FailDelete
  <2>5. \/ row' = row
        \/ \E p \in Procs : DeleteEnds(p) \/ EditStatus(p)
        \/ \E p \in Procs, b \in Uploads : Ingest(p, b)
        \/ \E p \in Procs, j \in Ids, f \in Changes : Edit(p, j, f)
    BY DEF Next, Delete, BeginDelete, DeleteGoesOn, Deleting, Hook, OnIngested, OnEdited, OnDeleted,
           Recorded, Unrecorded, EndCall, Map, Unmap, Sync, Put, OpenForProgress, WriteProgress,
           DecideStatus, PutFails, Restart, CallsDie, vars, eventVars
  <2> QED
    BY <2>1, <2>2, <2>3, <2>4, <2>5
<1>2. Inv /\ Decided /\ [Next]_vars => [Leaves]_vars
  BY <1>1
<1> QED
  BY <1>2, AlwaysInv, PTL DEF Spec, UnreadIsLeftForGood
=============================================================================
