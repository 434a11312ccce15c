--------------------------- MODULE LibraryProofs ---------------------------
(***************************************************************************)
(* What TLAPS proves of Library, for every number of clients, books, keys  *)
(* and ids, and for every combination of faults.                           *)
(*                                                                         *)
(*   TypeCorrect       Typed is inductive and contains TypeOK              *)
(*   WritersExclude    Guarded is inductive given Typed, and implies       *)
(*                     OneWriterPerBook                                    *)
(*   BooksAreKept      Placed, and what a step may take off the disk       *)
(*   NoDuplicateIds    Single, where the one directory of an id may be     *)
(*   SelfHealing       Truthful, that settled rows are as the files are    *)
(*   ServesTheTruth    the same, at the step that opens the library        *)
(*   PromisesKept      Shelved, and each step as a step of Shelf           *)
(*   NeverTwice        Named, that an author and title have one id         *)
(*                                                                         *)
(* Each invariant is proved from those before it.                          *)
(***************************************************************************)
EXTENDS Library, TLAPS

USE DEF schemaVars

EditLabels   == {"rewrite", "dir", "file", "meta", "put"}
DeleteLabels == {"remove", "erase"}
HeldLabels   == EditLabels \union DeleteLabels
FilingLabels == {"place", "sidecar", "record", "undo"}

\* What a client holds in its request, its id and its row at each label.
ClientOK ==
  \A p \in Procs :
    /\ pc[p] # "idle" => call[p] \in Calls
    /\ pc[p] = "book" => call[p].kind # "ingest"
    /\ pc[p] = "ingest" => book[p] = 0
    /\ pc[p] \in EditLabels => call[p].kind = "edit"
    /\ pc[p] \in FilingLabels \union {"ingest", "announce"} => call[p].kind = "ingest"
    /\ pc[p] \notin {"idle", "ingest"} => book[p] \in Ids
    /\ pc[p] \in HeldLabels => was[p] \in Rows

\* A pending row belongs to a call between its MarkPending and its end.
OwnOK == \A p \in own : pc[p] \in HeldLabels \union FilingLabels

\* Reindex moves only books it has found.
TodoOK ==
  /\ \A i \in todo : found[i] # None
  /\ rpc = "file" => mv \in todo

Typed == TypeOK /\ ClientOK /\ OwnOK /\ TodoOK

-----------------------------------------------------------------------------
(* The operators the actions are built from. *)

LEMMA LayoutType ==
  ASSUME NEW k \in Keys, NEW i \in Ids
  PROVE  Layout(k, i) \in Locations
BY DEF Layout, Locations, Dirs

LEMMA StatType ==
  ASSUME StoreTypeOK, NEW d \in Dirs, epub[d] # None, meta[d] # None
  PROVE  Stat(d) \in PathInfos
BY DEF StoreTypeOK, Stat, PathInfos, EpubFiles

LEMMA RowType ==
  ASSUME StoreTypeOK, NEW loc \in Locations, NEW k \in Keys, NEW v \in Vals, CanStat(loc)
  PROVE  RowFor(loc, k, v) \in Rows
<1>1. loc.dir \in Dirs
  BY DEF Locations
<1>2. Stat(loc.dir) \in PathInfos
  BY <1>1, StatType DEF CanStat, FileAt
<1> QED
  BY <1>2 DEF RowFor, Rows

LEMMA WalkType ==
  ASSUME StoreTypeOK, NEW d \in Walk
  PROVE  /\ d \in Dirs
         /\ epub[d] \in EpubFiles
         /\ meta[d] \in MetaFiles \union {Unreadable}
         /\ LocationOf(d) \in Locations
         /\ Stat(d) \in PathInfos
<1>1. d \in Dirs /\ epub[d] # None /\ meta[d] # None
  BY DEF Walk
<1>2. Stat(d) \in PathInfos
  BY <1>1, StatType
<1> QED
  BY <1>1, <1>2 DEF StoreTypeOK, LocationOf, Locations, EpubFiles

LEMMA WriteEpubType ==
  ASSUME StoreTypeOK, NEW loc \in Locations, NEW k \in Keys \union {Unreadable},
         WriteEpub(loc, k)
  PROVE  StoreTypeOK'
BY DEF StoreTypeOK, WriteEpub, Locations, EpubFiles

LEMMA WriteMetaType ==
  ASSUME StoreTypeOK, NEW loc \in Locations, NEW m \in MetaFiles \union {Unreadable},
         WriteMeta(loc, m)
  PROVE  StoreTypeOK'
BY DEF StoreTypeOK, WriteMeta, Locations

LEMMA RenameDirType ==
  ASSUME StoreTypeOK, NEW from \in Dirs, NEW to \in Dirs, RenameDir(from, to)
  PROVE  StoreTypeOK'
BY DEF StoreTypeOK, RenameDir, MoveTo

LEMMA RenameFileType ==
  ASSUME StoreTypeOK, NEW d \in Dirs, NEW k \in Keys, epub[d] # None, RenameFile(d, k)
  PROVE  StoreTypeOK'
BY DEF StoreTypeOK, RenameFile, EpubFiles

LEMMA RemoveOneType ==
  ASSUME StoreTypeOK, NEW d \in Dirs, RemoveOne(d)
  PROVE  StoreTypeOK'
BY DEF StoreTypeOK, RemoveOne

LEMMA CallShape ==
  ASSUME NEW c \in Calls
  PROVE  /\ c.kind \in {"edit", "delete", "ingest"}
         /\ c.kind # "ingest" => c.id \in Ids
         /\ c.kind = "edit" => c.bib \in Keys \union {None} /\ c.val \in Vals \union {None}
         /\ c.kind = "ingest" => c.bib \in Keys
BY DEF Calls

LEMMA PutType ==
  ASSUME IndexTypeOK, NEW p \in Procs, NEW i \in Ids, NEW row \in Rows \union {None},
         Put(p, i, row)
  PROVE  IndexTypeOK'
BY DEF IndexTypeOK, Put

LEMMA EraseType ==
  ASSUME IndexTypeOK, NEW p \in Procs, NEW i \in Ids, Erase(p, i)
  PROVE  IndexTypeOK'
BY DEF IndexTypeOK, Erase, Put

LEMMA CancelType ==
  ASSUME IndexTypeOK, NEW p \in Procs, Cancel(p)
  PROVE  IndexTypeOK'
BY DEF IndexTypeOK, Cancel

LEMMA LeavePendingType ==
  ASSUME IndexTypeOK, NEW p \in Procs, NEW i \in Ids, LeavePending(p, i)
  PROVE  IndexTypeOK'
BY DEF IndexTypeOK, LeavePending

LEMMA MarkPendingType ==
  ASSUME IndexTypeOK, NEW p \in Procs, MarkPending(p), seq' \in 0 .. MaxId
  PROVE  IndexTypeOK'
BY DEF IndexTypeOK, MarkPending

LEMMA EmptiedType ==
  ASSUME Emptied, version' \in {"unset", "old", "current"}, {created, unfinished}' \subseteq BOOLEAN
  PROVE  IndexTypeOK'
BY StoreAssumption DEF IndexTypeOK, Emptied

LEMMA PrepareRebuildType ==
  ASSUME IndexTypeOK, PrepareRebuild
  PROVE  IndexTypeOK'
<1>1. CASE Current
  BY <1>1 DEF IndexTypeOK, PrepareRebuild
<1>2. CASE ~Current
  BY <1>2, EmptiedType DEF IndexTypeOK, PrepareRebuild
<1> QED
  BY <1>1, <1>2

LEMMA DropTablesType ==
  ASSUME IndexTypeOK, DropTables
  PROVE  IndexTypeOK'
BY EmptiedType DEF IndexTypeOK, DropTables

LEMMA RebuildType ==
  ASSUME IndexTypeOK, ReindexTypeOK, Rebuild(found, passed, top)
  PROVE  IndexTypeOK'
BY DEF IndexTypeOK, ReindexTypeOK, Rebuild

-----------------------------------------------------------------------------
(* How a client moves on. *)

LEMMA ReturnTyped ==
  ASSUME ClientTypeOK, ClientOK, NEW p \in Procs, Return(p)
  PROVE  ClientTypeOK' /\ ClientOK'
<1>1. ClientTypeOK'
  BY StoreAssumption DEF ClientTypeOK, Return, Goto, Labels
<1>2. ClientOK'
  BY DEF ClientTypeOK, ClientOK, Return, Goto, EditLabels, FilingLabels, HeldLabels, DeleteLabels
<1> QED
  BY <1>1, <1>2

\* A step to a label of the same kind.
LEMMA StepTyped ==
  ASSUME ClientTypeOK, ClientOK, NEW p \in Procs, NEW l, Step(p, l),
         \/ pc[p] \in EditLabels /\ l \in EditLabels
         \/ pc[p] \in DeleteLabels /\ l \in DeleteLabels
         \/ pc[p] \in FilingLabels /\ l \in FilingLabels \union {"announce"}
  PROVE  ClientTypeOK' /\ ClientOK'
<1>1. ClientTypeOK'
  BY DEF ClientTypeOK, Step, Goto, Labels, EditLabels, DeleteLabels, FilingLabels
<1>2. ClientOK'
  BY DEF ClientTypeOK, ClientOK, Step, Goto, EditLabels, FilingLabels, HeldLabels, DeleteLabels
<1> QED
  BY <1>1, <1>2

\* Leaving a call: its pending row is gone from own.
LEMMA OwnLeaves ==
  ASSUME ClientTypeOK, OwnOK, NEW p \in Procs, NEW l, Goto(p, l), own' \subseteq own \ {p}
  PROVE  OwnOK'
BY DEF ClientTypeOK, OwnOK, Goto

LEMMA OwnStays ==
  ASSUME ClientTypeOK, OwnOK, NEW p \in Procs, NEW l \in HeldLabels \union FilingLabels,
         Goto(p, l), own' \subseteq own \union {p}
  PROVE  OwnOK'
BY DEF ClientTypeOK, OwnOK, Goto

LEMMA ClientFrame ==
  ASSUME Typed, UNCHANGED <<phase, reindexVars, touched>>,
         StoreTypeOK', IndexTypeOK', ClientTypeOK', ClientOK', OwnOK'
  PROVE  Typed'
BY DEF Typed, TypeOK, ReindexTypeOK, TodoOK, reindexVars

\* Unchanged files and rows stay well typed.
LEMMA StoreKept ==
  ASSUME StoreTypeOK, UNCHANGED storeVars
  PROVE  StoreTypeOK'
BY DEF StoreTypeOK, storeVars

LEMMA IndexKept ==
  ASSUME IndexTypeOK, UNCHANGED indexVars
  PROVE  IndexTypeOK' /\ own' = own
BY DEF IndexTypeOK, indexVars

LEMMA GiveUpTyped ==
  ASSUME Typed, NEW p \in Procs, pc[p] \in HeldLabels \union FilingLabels,
         GiveUp(p), StoreTypeOK', UNCHANGED <<phase, reindexVars, touched>>
  PROVE  Typed'
<1> USE DEF Typed, TypeOK
<1>1. book[p] \in Ids
  BY DEF ClientOK, HeldLabels, FilingLabels, EditLabels, DeleteLabels
<1>2. IndexTypeOK' /\ own' = own \ {p}
  BY <1>1, LeavePendingType DEF GiveUp, LeavePending
<1>3. ClientTypeOK' /\ ClientOK'
  BY ReturnTyped DEF GiveUp
<1>4. OwnOK'
  BY <1>2, OwnLeaves DEF GiveUp, Return
<1> QED
  BY <1>2, <1>3, <1>4, ClientFrame

LEMMA CancelTyped ==
  ASSUME Typed, NEW p \in Procs, Cancel(p), Return(p), StoreTypeOK',
         UNCHANGED <<phase, reindexVars, touched>>
  PROVE  Typed'
<1> USE DEF Typed, TypeOK
<1>1. IndexTypeOK' /\ own' = own \ {p}
  BY CancelType DEF Cancel
<1>2. ClientTypeOK' /\ ClientOK'
  BY ReturnTyped
<1>3. OwnOK'
  BY <1>1, OwnLeaves DEF Return
<1> QED
  BY <1>1, <1>2, <1>3, ClientFrame

\* A step between labels at which the pending row is kept, on a changed tree.
LEMMA WorkTyped ==
  ASSUME Typed, NEW p \in Procs, NEW l, Step(p, l),
         \/ pc[p] \in EditLabels /\ l \in EditLabels
         \/ pc[p] \in DeleteLabels /\ l \in DeleteLabels
         \/ pc[p] \in FilingLabels /\ l \in FilingLabels,
         StoreTypeOK', UNCHANGED <<indexVars, phase, reindexVars, touched>>
  PROVE  Typed'
<1> USE DEF Typed, TypeOK
<1>1. ClientTypeOK' /\ ClientOK'
  BY StepTyped
<1>2. IndexTypeOK' /\ own' = own
  BY IndexKept
<1>3. OwnOK'
  BY <1>2, OwnStays DEF Step, HeldLabels
<1> QED
  BY <1>1, <1>2, <1>3, ClientFrame

-----------------------------------------------------------------------------
(* One lemma for each action of a client. *)

LEMMA CallTyped ==
  ASSUME Typed, NEW p \in Procs, NEW c \in Requests, Call(p, c)
  PROVE  Typed'
<1> USE DEF Typed, TypeOK
<1>1. c \in Calls
  BY LibraryAssumption
<1>2. ClientTypeOK'
  BY <1>1, CallShape, StoreAssumption DEF Call, ClientTypeOK, Goto, Labels, Ids
<1>3. ClientOK'
  BY <1>1, CallShape
  DEF Call, ClientTypeOK, ClientOK, Goto, EditLabels, DeleteLabels, HeldLabels, FilingLabels
<1>4. StoreTypeOK' /\ IndexTypeOK' /\ own' = own
  BY StoreKept, IndexKept DEF Call
<1>5. OwnOK'
  BY <1>4 DEF Call, ClientTypeOK, OwnOK, Goto, EditLabels, DeleteLabels, HeldLabels,
              FilingLabels
<1> QED
  BY <1>2, <1>3, <1>4, <1>5, ClientFrame DEF Call

LEMMA BeginOnBookTyped ==
  ASSUME Typed, NEW p \in Procs, BeginOnBook(p)
  PROVE  Typed'
<1> USE DEF Typed, TypeOK
<1>1. pc[p] = "book" /\ call[p] \in Calls /\ call[p].kind # "ingest" /\ book[p] \in Ids
  BY DEF BeginOnBook, ClientOK
<1>2. StoreTypeOK' /\ UNCHANGED <<phase, reindexVars, touched>>
  BY StoreKept DEF BeginOnBook
<1>3. CASE Return(p) /\ UNCHANGED indexVars
  <2>1. ClientTypeOK' /\ ClientOK'
    BY <1>3, ReturnTyped
  <2>2. IndexTypeOK' /\ own' = own
    BY <1>3, IndexKept
  <2>3. OwnOK'
    BY <1>1, <1>3, <2>2, OwnLeaves
    DEF OwnOK, Return, HeldLabels, FilingLabels, EditLabels, DeleteLabels
  <2> QED
    BY <1>2, <2>1, <2>2, <2>3, ClientFrame
<1>4. CASE /\ index[book[p]] # None
           /\ bookMu' = [bookMu EXCEPT ![book[p]] = p]
           /\ was' = [was EXCEPT ![p] = index[book[p]]]
           /\ Goto(p, FirstStep(call[p]))
           /\ MarkPending(p)
           /\ UNCHANGED <<call, book, ingestMu, seq>>
  <2> DEFINE l == FirstStep(call[p])
  <2>1. /\ l \in HeldLabels
        /\ l \in EditLabels => call[p].kind = "edit"
    BY <1>1, CallShape DEF FirstStep, HeldLabels, EditLabels, DeleteLabels
  <2>2. index[book[p]] \in Rows
    BY <1>1, <1>4 DEF IndexTypeOK
  <2> HIDE DEF l
  <2>3. ClientTypeOK'
    BY <1>1, <1>4, <2>1, <2>2
    DEF ClientTypeOK, Goto, Labels, HeldLabels, EditLabels, DeleteLabels, l
  <2>4. ClientOK'
    BY <1>1, <1>4, <2>1, <2>2
    DEF ClientTypeOK, ClientOK, Goto, HeldLabels, EditLabels, DeleteLabels, FilingLabels, l
  <2>5. IndexTypeOK' /\ own' = own \union {p}
    BY <1>4, MarkPendingType DEF IndexTypeOK, MarkPending
  <2>6. OwnOK'
    BY <1>4, <2>1, <2>5, OwnStays DEF l
  <2> QED
    BY <1>2, <2>3, <2>4, <2>5, <2>6, ClientFrame
<1> QED
  BY <1>3, <1>4 DEF BeginOnBook

\* Where an edit takes its book from and to.
LEMMA EditPlaces ==
  ASSUME Typed, NEW p \in Procs, pc[p] \in EditLabels
  PROVE  /\ book[p] \in Ids
         /\ From(p) \in Locations /\ From(p).dir \in Dirs /\ From(p).name \in Keys
         /\ NewBib(p) \in Keys /\ NewVal(p) \in Vals
         /\ To(p) \in Locations /\ To(p).dir \in Dirs /\ To(p).name \in Keys
<1> USE DEF Typed, TypeOK
<1>1. call[p] \in Calls /\ call[p].kind = "edit" /\ book[p] \in Ids /\ was[p] \in Rows
  BY DEF ClientOK, EditLabels, HeldLabels
<1>2. NewBib(p) \in Keys /\ NewVal(p) \in Vals
  BY <1>1, CallShape DEF NewBib, NewVal, Rows
<1>3. From(p) \in Locations
  BY <1>1 DEF From, Rows
<1>4. To(p) \in Locations
  BY <1>1, <1>2, LayoutType DEF To
<1> QED
  BY <1>1, <1>2, <1>3, <1>4 DEF Locations

LEMMA RewriteEpubTyped ==
  ASSUME Typed, NEW p \in Procs, RewriteEpub(p)
  PROVE  Typed'
<1> USE DEF Typed, TypeOK
<1>1. pc[p] \in EditLabels
  BY DEF RewriteEpub, EditLabels
<1>2. UNCHANGED <<phase, reindexVars, touched>>
  BY DEF RewriteEpub
<1>3. CASE WriteEpub(From(p), NewBib(p)) /\ Step(p, "dir") /\ UNCHANGED indexVars
  BY <1>1, <1>2, <1>3, EditPlaces, WriteEpubType, WorkTyped DEF EditLabels
<1>4. CASE Cancel(p) /\ Return(p) /\ UNCHANGED storeVars
  BY <1>2, <1>4, StoreKept, CancelTyped
<1>5. CASE GiveUp(p) /\ UNCHANGED storeVars
  BY <1>1, <1>2, <1>5, StoreKept, GiveUpTyped DEF HeldLabels
<1> QED
  BY <1>3, <1>4, <1>5 DEF RewriteEpub

LEMMA RenameBookDirTyped ==
  ASSUME Typed, NEW p \in Procs, RenameBookDir(p)
  PROVE  Typed'
<1> USE DEF Typed, TypeOK
<1>1. pc[p] \in EditLabels
  BY DEF RenameBookDir, EditLabels
<1>2. UNCHANGED <<phase, reindexVars, touched>>
  BY DEF RenameBookDir
<1>3. CASE UNCHANGED storeVars /\ Step(p, "file") /\ UNCHANGED indexVars
  BY <1>1, <1>2, <1>3, StoreKept, WorkTyped DEF EditLabels
<1>4. CASE RenameDir(From(p).dir, To(p).dir) /\ Step(p, "file") /\ UNCHANGED indexVars
  BY <1>1, <1>2, <1>4, EditPlaces, RenameDirType, WorkTyped DEF EditLabels
<1>5. CASE GiveUp(p) /\ UNCHANGED storeVars
  BY <1>1, <1>2, <1>5, StoreKept, GiveUpTyped DEF HeldLabels
<1> QED
  BY <1>3, <1>4, <1>5 DEF RenameBookDir

LEMMA RenameBookFileTyped ==
  ASSUME Typed, NEW p \in Procs, RenameBookFile(p)
  PROVE  Typed'
<1> USE DEF Typed, TypeOK
<1> DEFINE here == [dir |-> To(p).dir, name |-> From(p).name]
<1>1. pc[p] \in EditLabels
  BY DEF RenameBookFile, EditLabels
<1>2. UNCHANGED <<phase, reindexVars, touched>>
  BY DEF RenameBookFile
<1>3. CASE UNCHANGED storeVars /\ Step(p, "meta") /\ UNCHANGED indexVars
  BY <1>1, <1>2, <1>3, StoreKept, WorkTyped DEF EditLabels
<1>4. CASE FileAt(here) /\ RenameFile(here.dir, To(p).name) /\ Step(p, "meta")
           /\ UNCHANGED indexVars
  BY <1>1, <1>2, <1>4, EditPlaces, RenameFileType, WorkTyped DEF EditLabels, FileAt
<1>5. CASE RenamedBack(From(p).dir, here.dir) /\ GiveUp(p)
  <2>1. StoreTypeOK'
    BY <1>1, <1>5, EditPlaces, StoreKept, RenameDirType DEF RenamedBack
  <2> QED
    BY <1>1, <1>2, <1>5, <2>1, GiveUpTyped DEF HeldLabels
<1> QED
  BY <1>3, <1>4, <1>5 DEF RenameBookFile

LEMMA UpdateMetaTyped ==
  ASSUME Typed, NEW p \in Procs, UpdateMeta(p)
  PROVE  Typed'
<1> USE DEF Typed, TypeOK
<1>1. pc[p] \in EditLabels
  BY DEF UpdateMeta, EditLabels
<1>2. UNCHANGED <<phase, reindexVars, touched>>
  BY DEF UpdateMeta
<1>3. CASE WriteMeta(To(p), [id |-> book[p], val |-> NewVal(p)]) /\ Step(p, "put")
           /\ UNCHANGED indexVars
  BY <1>1, <1>2, <1>3, EditPlaces, WriteMetaType, WorkTyped DEF EditLabels, MetaFiles
<1>4. CASE GiveUp(p) /\ UNCHANGED storeVars
  BY <1>1, <1>2, <1>4, StoreKept, GiveUpTyped DEF HeldLabels
<1> QED
  BY <1>3, <1>4 DEF UpdateMeta

LEMMA CommitEditTyped ==
  ASSUME Typed, NEW p \in Procs, CommitEdit(p)
  PROVE  Typed'
<1> USE DEF Typed, TypeOK
<1>1. pc[p] \in EditLabels
  BY DEF CommitEdit, EditLabels
<1>2. StoreTypeOK' /\ UNCHANGED <<phase, reindexVars, touched>>
  BY StoreKept DEF CommitEdit
<1>3. CASE CanStat(To(p)) /\ Put(p, book[p], RowFor(To(p), NewBib(p), NewVal(p)))
           /\ Return(p)
  <2>1. IndexTypeOK' /\ own' = own \ {p}
    BY <1>1, <1>3, EditPlaces, RowType, PutType DEF Put
  <2>2. ClientTypeOK' /\ ClientOK'
    BY <1>3, ReturnTyped
  <2>3. OwnOK'
    BY <1>3, <2>1, OwnLeaves DEF Return
  <2> QED
    BY <1>2, <2>1, <2>2, <2>3, ClientFrame
<1>4. CASE GiveUp(p)
  BY <1>1, <1>2, <1>4, GiveUpTyped DEF HeldLabels
<1> QED
  BY <1>3, <1>4 DEF CommitEdit

LEMMA RemoveBookTyped ==
  ASSUME Typed, NEW p \in Procs, RemoveBook(p)
  PROVE  Typed'
<1> USE DEF Typed, TypeOK
<1>1. pc[p] \in DeleteLabels
  BY DEF RemoveBook, DeleteLabels
<1>2. UNCHANGED <<phase, reindexVars, touched>>
  BY DEF RemoveBook
<1>3. From(p).dir \in Dirs
  BY <1>1 DEF ClientOK, HeldLabels, From, Rows, Locations
<1>4. CASE RemoveOne(From(p).dir) /\ Step(p, "remove") /\ UNCHANGED indexVars
  BY <1>1, <1>2, <1>3, <1>4, RemoveOneType, WorkTyped DEF DeleteLabels
<1>5. CASE Step(p, "erase") /\ UNCHANGED <<storeVars, indexVars>>
  BY <1>1, <1>2, <1>5, StoreKept, WorkTyped DEF DeleteLabels
<1>6. CASE GiveUp(p) /\ UNCHANGED storeVars
  BY <1>1, <1>2, <1>6, StoreKept, GiveUpTyped DEF HeldLabels
<1> QED
  BY <1>4, <1>5, <1>6 DEF RemoveBook

LEMMA CommitDeleteTyped ==
  ASSUME Typed, NEW p \in Procs, CommitDelete(p)
  PROVE  Typed'
<1> USE DEF Typed, TypeOK
<1>1. pc[p] \in DeleteLabels /\ book[p] \in Ids
  BY DEF CommitDelete, DeleteLabels, ClientOK
<1>2. StoreTypeOK' /\ UNCHANGED <<phase, reindexVars, touched>>
  BY StoreKept DEF CommitDelete
<1>3. CASE Erase(p, book[p]) /\ Return(p)
  <2>1. IndexTypeOK' /\ own' = own \ {p}
    BY <1>1, <1>3, EraseType DEF Erase, Put
  <2>2. ClientTypeOK' /\ ClientOK'
    BY <1>3, ReturnTyped
  <2>3. OwnOK'
    BY <1>3, <2>1, OwnLeaves DEF Return
  <2> QED
    BY <1>2, <2>1, <2>2, <2>3, ClientFrame
<1>4. CASE GiveUp(p)
  BY <1>1, <1>2, <1>4, GiveUpTyped DEF HeldLabels
<1> QED
  BY <1>3, <1>4 DEF CommitDelete

LEMMA BeginIngestTyped ==
  ASSUME Typed, NEW p \in Procs, BeginIngest(p)
  PROVE  Typed'
<1> USE DEF Typed, TypeOK
<1>1. pc[p] = "ingest" /\ call[p] \in Calls /\ call[p].kind = "ingest"
  BY DEF BeginIngest, ClientOK
<1>2. StoreTypeOK' /\ UNCHANGED <<phase, reindexVars, touched>>
  BY StoreKept DEF BeginIngest
<1>3. p \notin own
  BY <1>1 DEF OwnOK, HeldLabels, FilingLabels, EditLabels, DeleteLabels
<1>4. CASE Return(p) /\ UNCHANGED indexVars
  <2>1. ClientTypeOK' /\ ClientOK'
    BY <1>4, ReturnTyped
  <2>2. IndexTypeOK' /\ own' = own
    BY <1>4, IndexKept
  <2> QED
    BY <1>2, <1>3, <1>4, <2>1, <2>2, OwnLeaves, ClientFrame DEF Return
<1>5. CASE /\ seq < MaxId /\ seq' = seq + 1
           /\ ingestMu' = p
           /\ book' = [book EXCEPT ![p] = seq + 1]
           /\ Goto(p, "place")
           /\ MarkPending(p)
           /\ UNCHANGED <<call, was, bookMu>>
  <2>1. seq + 1 \in Ids /\ seq' \in 0 .. MaxId
    BY <1>5, StoreAssumption DEF IndexTypeOK, Ids
  <2>2. ClientTypeOK'
    BY <1>5, <2>1, StoreAssumption DEF ClientTypeOK, Goto, Labels, Ids
  <2>3. ClientOK'
    BY <1>1, <1>5, <2>1
    DEF ClientTypeOK, ClientOK, Goto, HeldLabels, EditLabels, DeleteLabels, FilingLabels
  <2>4. IndexTypeOK' /\ own' = own \union {p}
    BY <1>5, <2>1, MarkPendingType DEF MarkPending
  <2>5. OwnOK'
    BY <1>5, <2>4, OwnStays DEF FilingLabels
  <2> QED
    BY <1>2, <2>2, <2>3, <2>4, <2>5, ClientFrame
<1>6. CASE /\ seq < MaxId /\ seq' = seq + 1
           /\ Return(p)
           /\ UNCHANGED <<index, skipped, schemaVars, own, leftover, unfinished>>
  <2>1. IndexTypeOK'
    BY <1>6, StoreAssumption DEF IndexTypeOK
  <2>2. ClientTypeOK' /\ ClientOK'
    BY <1>6, ReturnTyped
  <2> QED
    BY <1>2, <1>3, <1>6, <2>1, <2>2, OwnLeaves, ClientFrame DEF Return
<1> QED
  BY <1>4, <1>5, <1>6 DEF BeginIngest

\* Where an ingest puts its book.
LEMMA IngestPlace ==
  ASSUME Typed, NEW p \in Procs, pc[p] \in FilingLabels
  PROVE  /\ book[p] \in Ids /\ call[p].bib \in Keys
         /\ NewPlace(p) \in Locations /\ NewPlace(p).dir \in Dirs
<1>1. book[p] \in Ids /\ call[p] \in Calls /\ call[p].kind = "ingest"
  BY DEF Typed, ClientOK, FilingLabels
<1>2. call[p].bib \in Keys
  BY <1>1, CallShape
<1> QED
  BY <1>1, <1>2, LayoutType DEF NewPlace, Locations

LEMMA PlaceEpubTyped ==
  ASSUME Typed, NEW p \in Procs, PlaceEpub(p)
  PROVE  Typed'
<1> USE DEF Typed, TypeOK
<1>1. pc[p] \in FilingLabels
  BY DEF PlaceEpub, FilingLabels
<1>2. UNCHANGED <<indexVars, phase, reindexVars, touched>>
  BY DEF PlaceEpub
<1>3. CASE WriteEpub(NewPlace(p), call[p].bib) /\ Step(p, "sidecar")
  BY <1>1, <1>2, <1>3, IngestPlace, WriteEpubType, WorkTyped DEF FilingLabels
<1>4. CASE Step(p, "undo") /\ UNCHANGED storeVars
  BY <1>1, <1>2, <1>4, StoreKept, WorkTyped DEF FilingLabels
<1> QED
  BY <1>3, <1>4 DEF PlaceEpub

LEMMA PlaceMetaTyped ==
  ASSUME Typed, NEW p \in Procs, PlaceMeta(p)
  PROVE  Typed'
<1> USE DEF Typed, TypeOK
<1>1. pc[p] \in FilingLabels
  BY DEF PlaceMeta, FilingLabels
<1>2. UNCHANGED <<indexVars, phase, reindexVars, touched>>
  BY DEF PlaceMeta
<1>3. CASE WriteMeta(NewPlace(p), [id |-> book[p], val |-> DefaultVal]) /\ Step(p, "record")
  <2>1. [id |-> book[p], val |-> DefaultVal] \in MetaFiles
    BY <1>1, IngestPlace, LibraryAssumption DEF MetaFiles
  <2> QED
    BY <1>1, <1>2, <1>3, <2>1, IngestPlace, WriteMetaType, WorkTyped DEF FilingLabels
<1>4. CASE Step(p, "undo") /\ UNCHANGED storeVars
  BY <1>1, <1>2, <1>4, StoreKept, WorkTyped DEF FilingLabels
<1> QED
  BY <1>3, <1>4 DEF PlaceMeta

LEMMA RecordIngestTyped ==
  ASSUME Typed, NEW p \in Procs, RecordIngest(p)
  PROVE  Typed'
<1> USE DEF Typed, TypeOK
<1>1. pc[p] \in FilingLabels
  BY DEF RecordIngest, FilingLabels
<1>2. StoreTypeOK' /\ UNCHANGED <<phase, reindexVars, touched>>
  BY StoreKept DEF RecordIngest
<1>3. CASE CanStat(NewPlace(p)) /\ Step(p, "announce")
           /\ Put(p, book[p], RowFor(NewPlace(p), call[p].bib, DefaultVal))
  <2>1. IndexTypeOK' /\ own' = own \ {p}
    BY <1>1, <1>3, IngestPlace, LibraryAssumption, RowType, PutType DEF Put
  <2>2. ClientTypeOK' /\ ClientOK'
    BY <1>1, <1>3, StepTyped
  <2>3. OwnOK'
    BY <1>3, <2>1, OwnLeaves DEF Step
  <2> QED
    BY <1>2, <2>1, <2>2, <2>3, ClientFrame
<1>4. CASE Step(p, "undo") /\ UNCHANGED indexVars
  BY <1>1, <1>2, <1>4, WorkTyped DEF FilingLabels
<1> QED
  BY <1>3, <1>4 DEF RecordIngest

LEMMA AnnounceIngestTyped ==
  ASSUME Typed, NEW p \in Procs, AnnounceIngest(p)
  PROVE  Typed'
<1> USE DEF Typed, TypeOK
<1>1. p \notin own
  BY DEF AnnounceIngest, OwnOK, HeldLabels, FilingLabels, EditLabels, DeleteLabels
<1>2. ClientTypeOK' /\ ClientOK'
  BY ReturnTyped DEF AnnounceIngest
<1>3. StoreTypeOK' /\ IndexTypeOK' /\ own' = own
  BY StoreKept, IndexKept DEF AnnounceIngest
<1> QED
  BY <1>1, <1>2, <1>3, OwnLeaves, ClientFrame DEF AnnounceIngest, Return

LEMMA UndoIngestTyped ==
  ASSUME Typed, NEW p \in Procs, UndoIngest(p)
  PROVE  Typed'
<1> USE DEF Typed, TypeOK
<1> DEFINE d == NewPlace(p).dir
<1>1. pc[p] \in FilingLabels
  BY DEF UndoIngest, FilingLabels
<1>2. UNCHANGED <<phase, reindexVars, touched>>
  BY DEF UndoIngest
<1>3. CASE RemoveOne(d) /\ Step(p, "undo") /\ UNCHANGED indexVars
  BY <1>1, <1>2, <1>3, IngestPlace, RemoveOneType, WorkTyped DEF FilingLabels
<1>4. CASE Cancel(p) /\ Return(p) /\ UNCHANGED storeVars
  BY <1>2, <1>4, StoreKept, CancelTyped
<1>5. CASE GiveUp(p) /\ UNCHANGED storeVars
  BY <1>1, <1>2, <1>5, StoreKept, GiveUpTyped
<1> QED
  BY <1>3, <1>4, <1>5 DEF UndoIngest

-----------------------------------------------------------------------------
(* One lemma for each action of a rebuild. *)

Phases == {"down", "opening", "serving"}

LEMMA ReindexFrame ==
  ASSUME Typed, UNCHANGED <<clientVars, touched>>, own' \subseteq own,
         StoreTypeOK', IndexTypeOK', phase' \in Phases, ReindexTypeOK', TodoOK'
  PROVE  Typed'
BY DEF Typed, TypeOK, ClientTypeOK, ClientOK, OwnOK, clientVars, Phases

LEMMA ReindexEndsTyped ==
  ASSUME Typed, ReindexEnds
  PROVE  ReindexTypeOK' /\ TodoOK'
BY StoreAssumption DEF ReindexEnds, ReindexTypeOK, TodoOK, NoBooks, Skipped

LEMMA ReindexFailsTyped ==
  ASSUME Typed, ReindexFails
  PROVE  ReindexTypeOK' /\ TodoOK' /\ phase' \in Phases
BY ReindexEndsTyped DEF ReindexFails, Phases, Typed, TypeOK

LEMMA RequestReindexTyped ==
  ASSUME Typed, RequestReindex
  PROVE  Typed'
<1>1. ReindexTypeOK' /\ TodoOK' /\ phase' \in Phases
  BY DEF Typed, TypeOK, RequestReindex, ReindexTypeOK, TodoOK, Phases
<1> QED
  BY <1>1, StoreKept, IndexKept, ReindexFrame DEF RequestReindex, Typed, TypeOK

LEMMA AcquireReindexTyped ==
  ASSUME Typed, AcquireReindex
  PROVE  Typed'
<1>1. ReindexTypeOK' /\ TodoOK' /\ phase' \in Phases
  BY DEF Typed, TypeOK, AcquireReindex, ReindexTypeOK, TodoOK, Phases
<1> QED
  BY <1>1, StoreKept, IndexKept, ReindexFrame DEF AcquireReindex, Typed, TypeOK

LEMMA ScannedRowType ==
  ASSUME StoreTypeOK, NEW d \in Walk, Sound(d)
  PROVE  ScannedRow(d) \in Rows /\ meta[d].id \in Ids
<1>1. epub[d].bib \in Keys /\ meta[d] \in MetaFiles
  BY WalkType DEF Sound, EpubFiles
<1>2. LocationOf(d) \in Locations /\ LocationOf(d).dir = d /\ Stat(d) \in PathInfos
  BY WalkType DEF LocationOf
<1> QED
  BY <1>1, <1>2 DEF ScannedRow, RowFor, Rows, MetaFiles

LEMMA ScanOfType ==
  ASSUME StoreTypeOK, NEW readable \in SUBSET Walk, \A d \in readable : Sound(d)
  PROVE  /\ ScanOf(readable) \in [Ids -> Rows \union {None}]
         /\ \A i \in Ids : ScanOf(readable)[i] # None => \E d \in readable : meta[d].id = i
<1>1. ASSUME NEW i \in Ids, OwnersOf(i, readable) # {}
      PROVE  ScannedRow(CHOOSE d \in OwnersOf(i, readable) : TRUE) \in Rows
  <2>1. (CHOOSE d \in OwnersOf(i, readable) : TRUE) \in OwnersOf(i, readable)
    BY <1>1
  <2> QED
    BY <2>1, ScannedRowType DEF OwnersOf
<1> QED
  BY <1>1 DEF ScanOf, OwnersOf

LEMMA ScanStoreTyped ==
  ASSUME Typed, ScanStore
  PROVE  Typed'
<1> USE DEF Typed, TypeOK
<1>1. StoreTypeOK' /\ IndexTypeOK' /\ own' = own /\ UNCHANGED <<clientVars, touched>>
  BY StoreKept, IndexKept DEF ScanStore
<1>2. CASE ReindexFails
  BY <1>1, <1>2, ReindexFailsTyped, ReindexFrame
<1>3. ASSUME NEW missed \in IF ScanErrors THEN SUBSET Walk ELSE {{}},
             NEW readable, readable = {d \in Walk \ missed : Sound(d)},
             found' = ScanOf(readable),
             passed' = {[loc |-> LocationOf(d), info |-> Stat(d)] : d \in Walk \ readable},
             top' \in Reserved \union {0},
             todo' = {i \in Ids : ScanOf(readable)[i] # None
                                     /\ ~Canonical(ScanOf(readable)[i], i)},
             rpc' = "move", UNCHANGED <<phase, mv>>
      PROVE  Typed'
  <2>1. found' \in [Ids -> Rows \union {None}]
    BY <1>3, ScanOfType
  <2>2. passed' \in SUBSET Skipped
    BY <1>3, WalkType DEF Skipped
  <2>3. Reserved \subseteq Ids
    BY WalkType DEF Reserved, ClaimedId, MetaFiles, Dirs
  <2>4. top' \in 0 .. MaxId
    BY <1>3, <2>3, StoreAssumption DEF Ids
  <2>5. ReindexTypeOK'
    BY <1>3, <2>1, <2>2, <2>4 DEF ReindexTypeOK
  <2>6. TodoOK' /\ phase' \in Phases
    BY <1>3 DEF TodoOK, Phases
  <2> QED
    BY <1>1, <2>5, <2>6, ReindexFrame
<1> QED
  BY <1>2, <1>3 DEF ScanStore

\* What is still to be moved, and where to.
LEMMA MovePlaces ==
  ASSUME Typed, NEW i \in todo
  PROVE  /\ i \in Ids /\ found[i] \in Rows
         /\ found[i].loc \in Locations
         /\ found[i].loc.dir \in Dirs /\ found[i].loc.name \in Keys
         /\ Home(i) \in Locations /\ Home(i).dir \in Dirs /\ Home(i).name \in Keys
<1>1. i \in Ids /\ found[i] \in Rows
  BY DEF Typed, TypeOK, TodoOK, ReindexTypeOK
<1> QED
  BY <1>1, LayoutType DEF Home, Rows, Locations

LEMMA StaysTyped ==
  ASSUME Typed, NEW i \in Ids, Stays(i)
  PROVE  ReindexTypeOK' /\ TodoOK' /\ phase' \in Phases
BY StoreAssumption DEF Typed, TypeOK, Stays, ReindexTypeOK, TodoOK, Phases

LEMMA MoveBookDirTyped ==
  ASSUME Typed, NEW i \in Ids, MoveBookDir(i)
  PROVE  Typed'
<1> USE DEF Typed, TypeOK
<1>1. i \in todo /\ IndexTypeOK' /\ own' = own /\ UNCHANGED <<clientVars, touched>>
  BY IndexKept DEF MoveBookDir
<1>2. StoreTypeOK'
  BY <1>1, MovePlaces, StoreKept, RenameDirType DEF MoveBookDir
<1>3. CASE mv' = i /\ rpc' = "file" /\ UNCHANGED <<phase, found, passed, top, todo>>
  <2>1. ReindexTypeOK' /\ TodoOK' /\ phase' \in Phases
    BY <1>1, <1>3, StoreAssumption DEF ReindexTypeOK, TodoOK, Phases, Ids
  <2> QED
    BY <1>1, <1>2, <2>1, ReindexFrame
<1>4. CASE Stays(i)
  BY <1>1, <1>2, <1>4, StaysTyped, ReindexFrame
<1> QED
  BY <1>3, <1>4 DEF MoveBookDir

LEMMA MoveBookFileTyped ==
  ASSUME Typed, MoveBookFile
  PROVE  Typed'
<1> USE DEF Typed, TypeOK
<1> DEFINE from == found[mv].loc
           to   == Home(mv)
           here == [dir |-> to.dir, name |-> from.name]
<1>1. mv \in todo /\ mv \in Ids
  BY DEF MoveBookFile, TodoOK, ReindexTypeOK
<1>2. IndexTypeOK' /\ own' = own /\ UNCHANGED <<clientVars, touched>>
  BY IndexKept DEF MoveBookFile
<1>3. StoreTypeOK'
  <2>1. CASE UNCHANGED storeVars
    BY <2>1, StoreKept
  <2>2. CASE FileAt(here) /\ RenameFile(here.dir, to.name)
    BY <1>1, <2>2, MovePlaces, RenameFileType DEF FileAt
  <2>3. CASE RenamedBack(from.dir, here.dir)
    BY <1>1, <2>3, MovePlaces, StoreKept, RenameDirType DEF RenamedBack
  <2> QED
    BY <2>1, <2>2, <2>3 DEF MoveBookFile
<1>4. CASE /\ found' = [found EXCEPT ![mv].loc = to]
           /\ todo' = todo \ {mv} /\ mv' = 0 /\ rpc' = "move"
           /\ UNCHANGED <<phase, passed, top>>
  <2>1. [found[mv] EXCEPT !.loc = to] \in Rows
    BY <1>1, MovePlaces DEF Rows
  <2>2. found' \in [Ids -> Rows \union {None}] /\ \A i \in todo' : found'[i] # None
    BY <1>1, <1>4, <2>1 DEF ReindexTypeOK, TodoOK
  <2>3. ReindexTypeOK' /\ TodoOK' /\ phase' \in Phases
    BY <1>4, <2>2, StoreAssumption DEF ReindexTypeOK, TodoOK, Phases
  <2> QED
    BY <1>2, <1>3, <2>3, ReindexFrame
<1>5. CASE Stays(mv)
  BY <1>1, <1>2, <1>3, <1>5, StaysTyped, ReindexFrame
<1> QED
  BY <1>4, <1>5 DEF MoveBookFile

LEMMA BeginRebuildTyped ==
  ASSUME Typed, BeginRebuild
  PROVE  Typed'
<1> USE DEF Typed, TypeOK
<1>1. StoreTypeOK' /\ UNCHANGED <<clientVars, touched>>
  BY StoreKept DEF BeginRebuild
<1>2. CASE PrepareRebuild /\ rpc' = "rebuild"
           /\ UNCHANGED <<phase, found, passed, top, todo, mv>>
  <2>1. IndexTypeOK' /\ own' \subseteq own
    BY <1>2, PrepareRebuildType DEF PrepareRebuild, Emptied
  <2>2. ReindexTypeOK' /\ TodoOK' /\ phase' \in Phases
    BY <1>2 DEF ReindexTypeOK, TodoOK, Phases
  <2> QED
    BY <1>1, <2>1, <2>2, ReindexFrame
<1>3. CASE ReindexFails /\ UNCHANGED indexVars
  BY <1>1, <1>3, IndexKept, ReindexFailsTyped, ReindexFrame
<1>4. CASE ReindexFails /\ DropTables
  <2>1. IndexTypeOK' /\ own' \subseteq own
    BY <1>4, DropTablesType DEF DropTables, Emptied
  <2> QED
    BY <1>1, <1>4, <2>1, ReindexFailsTyped, ReindexFrame
<1> QED
  BY <1>2, <1>3, <1>4 DEF BeginRebuild

LEMMA RebuildIndexTyped ==
  ASSUME Typed, RebuildIndex
  PROVE  Typed'
<1> USE DEF Typed, TypeOK
<1>1. StoreTypeOK' /\ UNCHANGED <<clientVars, touched>>
  BY StoreKept DEF RebuildIndex
<1>2. CASE Rebuild(found, passed, top) /\ rpc' = "stamp"
           /\ UNCHANGED <<phase, found, passed, top, todo, mv>>
  <2>1. IndexTypeOK' /\ own' \subseteq own
    BY <1>2, RebuildType DEF Rebuild
  <2>2. ReindexTypeOK' /\ TodoOK' /\ phase' \in Phases
    BY <1>2 DEF ReindexTypeOK, TodoOK, Phases
  <2> QED
    BY <1>1, <2>1, <2>2, ReindexFrame
<1>3. CASE ReindexFails /\ UNCHANGED indexVars
  BY <1>1, <1>3, IndexKept, ReindexFailsTyped, ReindexFrame
<1> QED
  BY <1>2, <1>3 DEF RebuildIndex

LEMMA FinishReindexTyped ==
  ASSUME Typed, FinishReindex
  PROVE  Typed'
<1> USE DEF Typed, TypeOK
<1>1. StoreTypeOK' /\ UNCHANGED <<clientVars, touched>>
  BY StoreKept DEF FinishReindex
<1>2. CASE StampVersion /\ ReindexEnds /\ phase' = "serving"
  <2>1. IndexTypeOK' /\ own' = own
    BY <1>2 DEF StampVersion, IndexTypeOK
  <2> QED
    BY <1>1, <1>2, <2>1, ReindexEndsTyped, ReindexFrame DEF Phases
<1>3. CASE ReindexFails /\ (UNCHANGED indexVars \/ StampVersion)
  <2>1. IndexTypeOK' /\ own' = own
    BY <1>3, IndexKept DEF StampVersion, IndexTypeOK
  <2> QED
    BY <1>1, <1>3, <2>1, ReindexFailsTyped, ReindexFrame
<1> QED
  BY <1>2, <1>3 DEF FinishReindex

-----------------------------------------------------------------------------
(* Start, death and what happens behind the library. *)

LEMMA OpenLibraryTyped ==
  ASSUME Typed, OpenLibrary
  PROVE  Typed'
<1> USE DEF Typed, TypeOK
<1>1. ReindexTypeOK' /\ TodoOK' /\ phase' \in Phases
  BY DEF OpenLibrary, ReindexTypeOK, TodoOK, Phases, reindexVars
<1>2. IndexTypeOK' /\ own' = own
  <2>1. CASE ApplySchema
    BY <2>1 DEF ApplySchema, IndexTypeOK
  <2>2. CASE UNCHANGED indexVars
    BY <2>2, IndexKept
  <2> QED
    BY <2>1, <2>2 DEF OpenLibrary
<1> QED
  BY <1>1, <1>2, StoreKept, ReindexFrame DEF OpenLibrary

LEMMA CrashTyped ==
  ASSUME Typed, Crash
  PROVE  Typed'
<1> USE DEF Typed, TypeOK
<1>1. StoreTypeOK'
  BY StoreKept DEF Crash
<1>2. {book[p] : p \in own} \subseteq Ids
  BY DEF OwnOK, ClientOK, IndexTypeOK, HeldLabels, FilingLabels, EditLabels, DeleteLabels
<1>3. IndexTypeOK' /\ own' = {}
  BY <1>2 DEF Crash, IndexTypeOK
<1>4. ClientTypeOK' /\ ClientOK' /\ OwnOK'
  BY <1>3, StoreAssumption
  DEF Crash, ClientTypeOK, ClientOK, OwnOK, Labels, HeldLabels, FilingLabels, EditLabels,
      DeleteLabels
<1>5. ReindexTypeOK' /\ TodoOK'
  BY ReindexEndsTyped DEF Crash
<1>6. phase' \in {"down", "opening", "serving"} /\ touched' \in SUBSET HandEdits
  BY DEF Crash
<1> QED
  BY <1>1, <1>3, <1>4, <1>5, <1>6

LEMMA UpgradeTyped ==
  ASSUME Typed, Upgrade
  PROVE  Typed'
<1> USE DEF Typed, TypeOK
<1>1. IndexTypeOK' /\ own' = own
  BY DEF Upgrade, IndexTypeOK
<1>2. ReindexTypeOK' /\ TodoOK' /\ phase' \in Phases
  BY DEF Upgrade, ReindexTypeOK, TodoOK, Phases, reindexVars
<1> QED
  BY <1>1, <1>2, StoreKept, ReindexFrame DEF Upgrade

LEMMA DiscardIndexTyped ==
  ASSUME Typed, DiscardIndex
  PROVE  Typed'
<1> USE DEF Typed, TypeOK
<1>1. IndexTypeOK' /\ own' \subseteq own
  BY EmptiedType DEF DiscardIndex, Emptied
<1>2. ReindexTypeOK' /\ TodoOK' /\ phase' \in Phases
  BY DEF DiscardIndex, ReindexTypeOK, TodoOK, Phases, reindexVars
<1> QED
  BY <1>1, <1>2, StoreKept, ReindexFrame DEF DiscardIndex

LEMMA PutDirType ==
  ASSUME StoreTypeOK, NEW d \in Dirs, NEW e \in EpubFiles, NEW m \in MetaFiles \union {Unreadable},
         PutDir(d, e, m)
  PROVE  StoreTypeOK'
BY DEF StoreTypeOK, PutDir

LEMMA HandEditTyped ==
  ASSUME Typed, NEW kind \in HandEdits, HandEdit(kind)
  PROVE  Typed'
<1> USE DEF Typed, TypeOK
<1>1. \/ \E d \in Walk, k \in Keys \union {Unreadable} : WriteEpub(LocationOf(d), k)
      \/ \E d \in Walk : WriteMeta(LocationOf(d), Unreadable)
      \/ \E d \in Walk : RemoveOne(d)
      \/ \E d \in Walk, e \in Dirs : PutDir(e, epub[d], meta[d])
      \/ \E k \in Keys, i \in Ids :
           PutDir(Layout(k, i).dir, [name |-> k, bib |-> k], [id |-> i, val |-> DefaultVal])
  BY DEF HandEdit
<1>2. StoreTypeOK'
  <2>1. ASSUME NEW d \in Walk, NEW k \in Keys \union {Unreadable}, WriteEpub(LocationOf(d), k)
        PROVE  StoreTypeOK'
    BY <2>1, WalkType, WriteEpubType
  <2>2. ASSUME NEW d \in Walk, WriteMeta(LocationOf(d), Unreadable)
        PROVE  StoreTypeOK'
    BY <2>2, WalkType, WriteMetaType
  <2>3. ASSUME NEW d \in Walk, RemoveOne(d)
        PROVE  StoreTypeOK'
    BY <2>3, WalkType, RemoveOneType
  <2>4. ASSUME NEW d \in Walk, NEW e \in Dirs, PutDir(e, epub[d], meta[d])
        PROVE  StoreTypeOK'
    BY <2>4, WalkType, PutDirType
  <2>5. ASSUME NEW k \in Keys, NEW i \in Ids,
               PutDir(Layout(k, i).dir, [name |-> k, bib |-> k], [id |-> i, val |-> DefaultVal])
        PROVE  StoreTypeOK'
    <3>1. Layout(k, i).dir \in Dirs
      BY DEF Layout, Dirs
    <3>2. /\ [name |-> k, bib |-> k] \in EpubFiles
          /\ [id |-> i, val |-> DefaultVal] \in MetaFiles
      BY LibraryAssumption DEF EpubFiles, MetaFiles
    <3> QED
      BY <2>5, <3>1, <3>2, PutDirType
  <2> QED
    BY <1>1, <2>1, <2>2, <2>3, <2>4, <2>5
<1>3. IndexTypeOK' /\ UNCHANGED <<indexVars, phase, reindexVars, clientVars>>
  BY IndexKept DEF HandEdit
<1>4. touched' \in SUBSET HandEdits
  BY DEF HandEdit
<1> QED
  BY <1>2, <1>3, <1>4
  DEF ReindexTypeOK, TodoOK, ClientTypeOK, ClientOK, OwnOK, indexVars, reindexVars, clientVars

-----------------------------------------------------------------------------
(* Type correctness. *)

LEMMA InitTyped ==
  ASSUME Init
  PROVE  Typed
<1>1. StoreTypeOK
  BY DEF Init, StoreInit, StoreTypeOK
<1>2. IndexTypeOK
  <2>1. index \in [Ids -> Rows \union {None}]
    BY DEF Init, IndexInit
  <2>2. seq \in 0 .. MaxId
    BY StoreAssumption DEF Init, IndexInit
  <2>3. skipped \subseteq Skipped /\ own \subseteq Procs /\ leftover \subseteq Ids
    BY DEF Init, IndexInit
  <2> QED
    BY <2>1, <2>2, <2>3 DEF Init, IndexInit, IndexTypeOK
<1>3. ReindexTypeOK /\ TodoOK
  BY StoreAssumption DEF Init, ReindexIdle, ReindexTypeOK, TodoOK, NoBooks
<1>4. ClientTypeOK /\ ClientOK
  BY StoreAssumption
  DEF Init, ClientsIdle, ClientTypeOK, ClientOK, Labels, HeldLabels, FilingLabels, EditLabels,
      DeleteLabels
<1>5. OwnOK
  BY DEF Init, IndexInit, OwnOK
<1> QED
  BY <1>1, <1>2, <1>3, <1>4, <1>5 DEF Init, Typed, TypeOK

LEMMA NextTyped ==
  ASSUME Typed, [Next]_vars
  PROVE  Typed'
<1>1. ASSUME NEW p \in Procs, NEW c \in Requests, Call(p, c)
      PROVE  Typed'
  BY <1>1, CallTyped
<1>2. ASSUME NEW p \in Procs, ClientStep(p)
      PROVE  Typed'
  BY <1>2, BeginOnBookTyped, RewriteEpubTyped, RenameBookDirTyped, RenameBookFileTyped,
     UpdateMetaTyped, CommitEditTyped, RemoveBookTyped, CommitDeleteTyped, BeginIngestTyped,
     PlaceEpubTyped, PlaceMetaTyped, RecordIngestTyped, AnnounceIngestTyped, UndoIngestTyped
  DEF ClientStep
<1>3. CASE ReindexStep
  BY <1>3, AcquireReindexTyped, ScanStoreTyped, MoveBookDirTyped, MoveBookFileTyped,
     BeginRebuildTyped, RebuildIndexTyped, FinishReindexTyped
  DEF ReindexStep
<1>4. CASE RequestReindex \/ OpenLibrary \/ Crash \/ Upgrade \/ DiscardIndex
  BY <1>4, RequestReindexTyped, OpenLibraryTyped, CrashTyped, UpgradeTyped, DiscardIndexTyped
<1>5. ASSUME NEW kind \in HandEdits, HandEdit(kind)
      PROVE  Typed'
  BY <1>5, HandEditTyped
<1>6. CASE UNCHANGED vars
  BY <1>6
  DEF vars, storeVars, indexVars, reindexVars, clientVars, Typed, TypeOK, StoreTypeOK,
      IndexTypeOK, ReindexTypeOK, ClientTypeOK, ClientOK, OwnOK, TodoOK
<1> QED
  BY <1>1, <1>2, <1>3, <1>4, <1>5, <1>6 DEF Next

LEMMA AlwaysTyped == Spec => []Typed
<1> QED
  BY InitTyped, NextTyped, PTL DEF Spec

\* Every variable keeps its type: no call is at a label its request cannot bring
\* it to, no row or directory is made of a book that was not there, and no id
\* leaves its range (Edit, Delete, ingestPath, reindex, Open and their failures).
THEOREM TypeCorrect == Spec => []TypeOK
<1>1. Typed => TypeOK
  BY DEF Typed
<1> QED
  BY <1>1, AlwaysTyped, PTL

-----------------------------------------------------------------------------
(* One writer per book. *)

\* Nothing is under way while Reindex runs, nor before the library serves.
Quiet ==
  rpc \notin {"idle", "wait"} \/ phase # "serving" => \A p \in Procs : pc[p] = "idle"

\* No row has an id that was not issued, nor will a rebuild write one.
Issued ==
  /\ \A i \in Ids : index[i] # None => i <= seq
  /\ \A i \in Ids : found[i] # None => i <= top

\* An edit or a delete holds the lock of a book that has the row it read; an
\* ingest holds ingestMu and files an id that has none.  Both have a pending row.
HeldBy(p) ==
  /\ pc[p] \in HeldLabels => /\ bookMu[book[p]] = p
                             /\ index[book[p]] # None /\ was[p] = index[book[p]]
                             /\ p \in own
  /\ pc[p] \in FilingLabels => /\ ingestMu = p
                               /\ book[p] <= seq /\ index[book[p]] = None
                               /\ p \in own
  /\ pc[p] = "announce" => ingestMu = p

Held == \A p \in Procs : HeldBy(p)

Guarded == Quiet /\ Issued /\ Held

AtWork(p) == pc[p] \in HeldLabels \union FilingLabels

\* No two calls at work share a book.
LEMMA Apart ==
  ASSUME Typed, Held, NEW p \in Procs, NEW q \in Procs, p # q, AtWork(p), AtWork(q)
  PROVE  book[p] # book[q]
<1>1. CASE pc[p] \in HeldLabels /\ pc[q] \in HeldLabels
  BY <1>1 DEF Held, HeldBy
<1>2. CASE pc[p] \in FilingLabels /\ pc[q] \in FilingLabels
  BY <1>2 DEF Held, HeldBy
<1>3. CASE pc[p] \in HeldLabels /\ pc[q] \in FilingLabels
  BY <1>3 DEF Held, HeldBy
<1>4. CASE pc[p] \in FilingLabels /\ pc[q] \in HeldLabels
  BY <1>4 DEF Held, HeldBy
<1> QED
  BY <1>1, <1>2, <1>3, <1>4 DEF AtWork

\* What p does leaves the others' locks and rows as they were.
LEMMA OthersHeld ==
  ASSUME Typed, Held, NEW p \in Procs,
         \A q \in Procs \ {p} :
           /\ pc'[q] = pc[q] /\ book'[q] = book[q] /\ was'[q] = was[q]
           /\ q \in own => q \in own'
           /\ \A i \in Ids : bookMu[i] = q => bookMu'[i] = q
           /\ ingestMu = q => ingestMu' = q,
         \/ index' = index
         \/ AtWork(p) /\ \A i \in Ids \ {book[p]} : index'[i] = index[i],
         seq' \in Nat, seq <= seq'
  PROVE  \A q \in Procs \ {p} : HeldBy(q)'
<1> SUFFICES ASSUME NEW q \in Procs \ {p}
             PROVE  HeldBy(q)'
  OBVIOUS
<1>1. CASE AtWork(q)
  <2>1. book[q] \in Ids
    BY <1>1 DEF AtWork, Typed, ClientOK, HeldLabels, FilingLabels, EditLabels, DeleteLabels
  <2>2. index'[book[q]] = index[book[q]]
    BY <1>1, <2>1, Apart
  <2>3. seq \in Nat /\ book[q] \in Nat
    BY <2>1, StoreAssumption DEF Typed, TypeOK, IndexTypeOK, Ids
  <2> QED
    BY <1>1, <2>1, <2>2, <2>3
    DEF AtWork, Held, HeldBy, HeldLabels, FilingLabels, EditLabels, DeleteLabels
<1>2. CASE ~AtWork(q)
  BY <1>2 DEF AtWork, Held, HeldBy
<1> QED
  BY <1>1, <1>2

LEMMA ReturnHeld ==
  ASSUME Typed, Held, NEW p \in Procs, Return(p), own \subseteq own' \union {p},
         \/ index' = index
         \/ AtWork(p) /\ \A i \in Ids \ {book[p]} : index'[i] = index[i],
         seq' \in Nat, seq <= seq'
  PROVE  Held'
<1>1. \A q \in Procs \ {p} : HeldBy(q)'
  BY OthersHeld DEF Return, Goto, Typed, TypeOK, ClientTypeOK
<1>2. HeldBy(p)'
  BY DEF HeldBy, Return, Goto, Typed, TypeOK, ClientTypeOK, HeldLabels, FilingLabels, EditLabels,
         DeleteLabels
<1> QED
  BY <1>1, <1>2 DEF Held

LEMMA StepHeld ==
  ASSUME Typed, Held, NEW p \in Procs, NEW l, Step(p, l), UNCHANGED <<index, seq, own>>,
         \/ pc[p] \in HeldLabels /\ l \in HeldLabels
         \/ pc[p] \in FilingLabels /\ l \in FilingLabels
  PROVE  Held'
<1>1. \A q \in Procs \ {p} : HeldBy(q)'
  <2>1. seq \in Nat
    BY StoreAssumption DEF Typed, TypeOK, IndexTypeOK
  <2> QED
    BY <2>1, OthersHeld DEF Step, Goto, Typed, TypeOK, ClientTypeOK
<1>2. HeldBy(p)'
  BY DEF Held, HeldBy, Step, Goto, Typed, TypeOK, ClientTypeOK, HeldLabels, FilingLabels,
         EditLabels, DeleteLabels
<1> QED
  BY <1>1, <1>2 DEF Held

LEMMA ClientQuiet ==
  ASSUME Quiet, NEW p \in Procs, pc[p] # "idle", UNCHANGED <<phase, reindexVars>>
  PROVE  Quiet'
BY DEF Quiet, reindexVars

\* A step that issues or writes no more than it should.
LEMMA IssuedKept ==
  ASSUME Typed, Issued, UNCHANGED reindexVars, seq' \in Nat, seq <= seq',
         \A i \in Ids : index'[i] # None => index[i] # None \/ i <= seq
  PROVE  Issued'
<1>1. seq \in Nat /\ Ids \subseteq Nat
  BY StoreAssumption DEF Typed, TypeOK, IndexTypeOK, Ids
<1>2. ASSUME NEW i \in Ids, index'[i] # None
      PROVE  i <= seq'
  <2>1. i \in Nat /\ i <= seq
    BY <1>1, <1>2 DEF Issued
  <2> QED
    BY <1>1, <2>1
<1>3. found' = found /\ top' = top
  BY DEF reindexVars
<1> QED
  BY <1>2, <1>3 DEF Issued

\* A call at work ends, having changed at most the row of its own book.
LEMMA EndGuarded ==
  ASSUME Typed, Guarded, NEW p \in Procs, AtWork(p), Return(p), seq' = seq,
         UNCHANGED <<phase, reindexVars>>, own \subseteq own' \union {p},
         \A i \in Ids \ {book[p]} : index'[i] = index[i]
  PROVE  Guarded'
<1>1. book[p] \in Ids /\ book[p] <= seq
  <2>1. book[p] \in Ids
    BY DEF AtWork, Typed, ClientOK, HeldLabels, FilingLabels, EditLabels, DeleteLabels
  <2> QED
    BY <2>1 DEF AtWork, Guarded, Held, HeldBy, Issued
<1>2. seq \in Nat
  BY StoreAssumption DEF Typed, TypeOK, IndexTypeOK
<1>3. Held'
  BY <1>2, ReturnHeld DEF Guarded
<1>4. Issued'
  BY <1>1, <1>2, IssuedKept DEF Guarded
<1>5. Quiet'
  BY ClientQuiet DEF Guarded, AtWork, HeldLabels, FilingLabels, EditLabels, DeleteLabels
<1> QED
  BY <1>3, <1>4, <1>5 DEF Guarded

LEMMA GiveUpGuarded ==
  ASSUME Typed, Guarded, NEW p \in Procs, AtWork(p), GiveUp(p), UNCHANGED <<phase, reindexVars>>
  PROVE  Guarded'
BY EndGuarded DEF GiveUp, LeavePending

LEMMA CancelGuarded ==
  ASSUME Typed, Guarded, NEW p \in Procs, AtWork(p), Cancel(p), Return(p),
         UNCHANGED <<phase, reindexVars>>
  PROVE  Guarded'
BY EndGuarded DEF Cancel

LEMMA PutGuarded ==
  ASSUME Typed, Guarded, NEW p \in Procs, NEW row, AtWork(p), Put(p, book[p], row), Return(p),
         UNCHANGED <<phase, reindexVars>>
  PROVE  Guarded'
<1>1. \A i \in Ids \ {book[p]} : index'[i] = index[i]
  BY DEF Put, Typed, TypeOK, IndexTypeOK
<1> QED
  BY <1>1, EndGuarded DEF Put

LEMMA WorkGuarded ==
  ASSUME Typed, Guarded, NEW p \in Procs, NEW l, Step(p, l),
         UNCHANGED <<indexVars, phase, reindexVars>>,
         \/ pc[p] \in HeldLabels /\ l \in HeldLabels
         \/ pc[p] \in FilingLabels /\ l \in FilingLabels
  PROVE  Guarded'
<1>1. UNCHANGED <<index, seq, own>> /\ seq \in Nat
  BY StoreAssumption DEF indexVars, Typed, TypeOK, IndexTypeOK
<1>2. Held'
  BY <1>1, StepHeld DEF Guarded
<1>3. Issued'
  BY <1>1, IssuedKept DEF Guarded
<1>4. Quiet'
  BY ClientQuiet DEF Guarded, HeldLabels, FilingLabels, EditLabels, DeleteLabels
<1> QED
  BY <1>2, <1>3, <1>4 DEF Guarded

LEMMA CallGuarded ==
  ASSUME Typed, Guarded, NEW p \in Procs, NEW c \in Requests, Call(p, c)
  PROVE  Guarded'
<1>1. pc[p] = "idle" /\ phase = "serving" /\ rpc = "idle"
  BY DEF Call, MayRead
<1>2. UNCHANGED <<index, seq, own, phase, reindexVars, bookMu, ingestMu>> /\ seq \in Nat
  BY StoreAssumption DEF Call, indexVars, Typed, TypeOK, IndexTypeOK
<1>3. Quiet'
  BY <1>1, <1>2 DEF Quiet, reindexVars
<1>4. Issued'
  BY <1>2, IssuedKept DEF Guarded
<1>5. \A q \in Procs \ {p} : HeldBy(q)'
  BY <1>2, OthersHeld DEF Call, Goto, Guarded, Typed, TypeOK, ClientTypeOK
<1>6. HeldBy(p)'
  BY DEF Call, Goto, HeldBy, Typed, TypeOK, ClientTypeOK, HeldLabels, FilingLabels, EditLabels,
         DeleteLabels
<1> QED
  BY <1>3, <1>4, <1>5, <1>6 DEF Guarded, Held

LEMMA BeginOnBookGuarded ==
  ASSUME Typed, Guarded, NEW p \in Procs, BeginOnBook(p)
  PROVE  Guarded'
<1>1. /\ pc[p] = "book" /\ bookMu[book[p]] = None /\ book[p] \in Ids
      /\ call[p] \in Calls /\ call[p].kind # "ingest"
  BY DEF BeginOnBook, BookLockFree, Typed, ClientOK
<1>2. UNCHANGED <<index, seq, phase, reindexVars>> /\ seq \in Nat /\ own \subseteq own'
  BY StoreAssumption DEF BeginOnBook, MarkPending, indexVars, Typed, TypeOK, IndexTypeOK
<1>3. Quiet' /\ Issued'
  BY <1>1, <1>2, ClientQuiet, IssuedKept DEF Guarded
<1>4. CASE Return(p)
  BY <1>2, <1>3, <1>4, ReturnHeld DEF Guarded
<1>5. CASE /\ index[book[p]] # None
           /\ bookMu' = [bookMu EXCEPT ![book[p]] = p]
           /\ was' = [was EXCEPT ![p] = index[book[p]]]
           /\ Goto(p, FirstStep(call[p]))
           /\ MarkPending(p)
           /\ UNCHANGED <<book, ingestMu>>
  <2>1. FirstStep(call[p]) \in HeldLabels
    BY DEF FirstStep, HeldLabels, EditLabels, DeleteLabels
  <2>2. \A q \in Procs \ {p} :
          /\ pc'[q] = pc[q] /\ book'[q] = book[q] /\ was'[q] = was[q]
          /\ \A i \in Ids : bookMu[i] = q => bookMu'[i] = q
          /\ ingestMu = q => ingestMu' = q
    BY <1>1, <1>5, LibraryAssumption DEF Goto, Typed, TypeOK, ClientTypeOK
  <2>3. \A q \in Procs \ {p} : HeldBy(q)'
    BY <1>2, <2>2, OthersHeld DEF Guarded
  <2>4. HeldBy(p)'
    BY <1>1, <1>2, <1>5, <2>1
    DEF HeldBy, MarkPending, Goto, Typed, TypeOK, ClientTypeOK, HeldLabels, FilingLabels, EditLabels,
        DeleteLabels
  <2> QED
    BY <1>3, <2>3, <2>4 DEF Guarded, Held
<1> QED
  BY <1>4, <1>5 DEF BeginOnBook

LEMMA EditGuarded ==
  ASSUME Typed, Guarded, NEW p \in Procs,
         \/ RewriteEpub(p) \/ RenameBookDir(p) \/ RenameBookFile(p) \/ UpdateMeta(p)
         \/ CommitEdit(p)
  PROVE  Guarded'
<1>1. AtWork(p) /\ pc[p] \in HeldLabels
  BY DEF AtWork, HeldLabels, EditLabels, RewriteEpub, RenameBookDir, RenameBookFile, UpdateMeta,
         CommitEdit
<1>2. {"dir", "file", "meta", "put"} \subseteq HeldLabels
  BY DEF HeldLabels, EditLabels
<1>3. CASE RewriteEpub(p)
  BY <1>1, <1>2, <1>3, WorkGuarded, CancelGuarded, GiveUpGuarded DEF RewriteEpub
<1>4. CASE RenameBookDir(p)
  BY <1>1, <1>2, <1>4, WorkGuarded, GiveUpGuarded DEF RenameBookDir
<1>5. CASE RenameBookFile(p)
  BY <1>1, <1>2, <1>5, WorkGuarded, GiveUpGuarded DEF RenameBookFile
<1>6. CASE UpdateMeta(p)
  BY <1>1, <1>2, <1>6, WorkGuarded, GiveUpGuarded DEF UpdateMeta
<1>7. CASE CommitEdit(p)
  BY <1>1, <1>7, PutGuarded, GiveUpGuarded DEF CommitEdit
<1> QED
  BY <1>3, <1>4, <1>5, <1>6, <1>7

LEMMA DeleteGuarded ==
  ASSUME Typed, Guarded, NEW p \in Procs, RemoveBook(p) \/ CommitDelete(p)
  PROVE  Guarded'
<1>1. AtWork(p) /\ pc[p] \in HeldLabels /\ {"remove", "erase"} \subseteq HeldLabels
  BY DEF AtWork, HeldLabels, DeleteLabels, RemoveBook, CommitDelete
<1>2. CASE RemoveBook(p)
  BY <1>1, <1>2, WorkGuarded, GiveUpGuarded DEF RemoveBook
<1>3. CASE CommitDelete(p)
  BY <1>1, <1>3, PutGuarded, GiveUpGuarded DEF CommitDelete, Erase
<1> QED
  BY <1>2, <1>3

LEMMA BeginIngestGuarded ==
  ASSUME Typed, Guarded, NEW p \in Procs, BeginIngest(p)
  PROVE  Guarded'
<1>1. pc[p] = "ingest" /\ ingestMu = None /\ UNCHANGED <<phase, reindexVars>>
  BY DEF BeginIngest, IngestLockFree
<1>2. /\ seq \in Nat /\ MaxId \in Nat
      /\ UNCHANGED index /\ own \subseteq own'
      /\ seq' \in {seq, seq + 1} /\ (seq' = seq + 1 => seq < MaxId)
  BY StoreAssumption DEF BeginIngest, MarkPending, indexVars, Typed, TypeOK, IndexTypeOK
<1>3. seq' \in Nat /\ seq <= seq'
  BY <1>2
<1>4. Quiet' /\ Issued'
  BY <1>1, <1>2, <1>3, ClientQuiet, IssuedKept DEF Guarded
<1>5. CASE Return(p)
  BY <1>2, <1>3, <1>4, <1>5, ReturnHeld DEF Guarded
<1>6. CASE /\ seq < MaxId /\ seq' = seq + 1
           /\ ingestMu' = p
           /\ book' = [book EXCEPT ![p] = seq + 1]
           /\ Goto(p, "place")
           /\ MarkPending(p)
           /\ UNCHANGED <<was, bookMu>>
  <2>1. \A q \in Procs \ {p} : HeldBy(q)'
    BY <1>1, <1>2, <1>3, <1>6, LibraryAssumption, OthersHeld
    DEF Guarded, Goto, Typed, TypeOK, ClientTypeOK
  <2>2. seq + 1 \in Ids /\ ~(seq + 1 <= seq)
    BY <1>2, <1>6 DEF Ids
  <2>3. index[seq + 1] = None
    BY <2>2 DEF Guarded, Issued
  <2>4. HeldBy(p)'
    BY <1>2, <1>6, <2>3
    DEF HeldBy, MarkPending, Goto, Typed, TypeOK, ClientTypeOK, HeldLabels, FilingLabels, EditLabels,
        DeleteLabels
  <2> QED
    BY <1>4, <2>1, <2>4 DEF Guarded, Held
<1> QED
  BY <1>5, <1>6 DEF BeginIngest

LEMMA RecordIngestGuarded ==
  ASSUME Typed, Guarded, NEW p \in Procs, RecordIngest(p)
  PROVE  Guarded'
<1>1. AtWork(p) /\ pc[p] = "record" /\ UNCHANGED <<phase, reindexVars>>
  BY DEF AtWork, FilingLabels, RecordIngest
<1>2. CASE Step(p, "undo") /\ UNCHANGED indexVars
  BY <1>1, <1>2, WorkGuarded DEF FilingLabels
<1>3. ASSUME NEW row, Put(p, book[p], row), Step(p, "announce")
      PROVE  Guarded'
  <2>1. /\ \A i \in Ids \ {book[p]} : index'[i] = index[i]
        /\ seq' = seq /\ seq \in Nat /\ own \subseteq own' \union {p}
    BY <1>3, StoreAssumption DEF Put, Typed, TypeOK, IndexTypeOK
  <2>2. ingestMu = p /\ book[p] \in Ids /\ book[p] <= seq
    BY <1>1 DEF Guarded, Held, HeldBy, Typed, ClientOK, FilingLabels
  <2>3. Quiet' /\ Issued'
    BY <1>1, <2>1, <2>2, ClientQuiet, IssuedKept DEF Guarded
  <2>4. \A q \in Procs \ {p} : HeldBy(q)'
    BY <1>1, <1>3, <2>1, OthersHeld DEF Guarded, Step, Goto, Typed, TypeOK, ClientTypeOK
  <2>5. HeldBy(p)'
    BY <1>3, <2>2
    DEF HeldBy, Step, Goto, Typed, TypeOK, ClientTypeOK, HeldLabels, FilingLabels, EditLabels,
        DeleteLabels
  <2> QED
    BY <2>3, <2>4, <2>5 DEF Guarded, Held
<1> QED
  BY <1>2, <1>3 DEF RecordIngest

LEMMA IngestGuarded ==
  ASSUME Typed, Guarded, NEW p \in Procs,
         PlaceEpub(p) \/ PlaceMeta(p) \/ AnnounceIngest(p) \/ UndoIngest(p)
  PROVE  Guarded'
<1>1. {"place", "sidecar", "record", "undo"} = FilingLabels
  BY DEF FilingLabels
<1>2. CASE PlaceEpub(p)
  BY <1>1, <1>2, WorkGuarded DEF PlaceEpub
<1>3. CASE PlaceMeta(p)
  BY <1>1, <1>3, WorkGuarded DEF PlaceMeta
<1>4. CASE UndoIngest(p)
  BY <1>1, <1>4, WorkGuarded, CancelGuarded, GiveUpGuarded DEF UndoIngest, AtWork
<1>5. CASE AnnounceIngest(p)
  <2>1. UNCHANGED <<index, seq, own, phase, reindexVars>> /\ seq \in Nat
    BY <1>5, StoreAssumption DEF AnnounceIngest, indexVars, Typed, TypeOK, IndexTypeOK
  <2>2. Held'
    BY <1>5, <2>1, ReturnHeld DEF AnnounceIngest, Guarded
  <2> QED
    BY <1>5, <2>1, <2>2, ClientQuiet, IssuedKept DEF AnnounceIngest, Guarded
<1> QED
  BY <1>2, <1>3, <1>4, <1>5

LEMMA IdleGuarded ==
  ASSUME \A p \in Procs : pc'[p] = "idle", Issued'
  PROVE  Guarded'
BY DEF Guarded, Quiet, Held, HeldBy, HeldLabels, FilingLabels, EditLabels, DeleteLabels

LEMMA RequestReindexGuarded ==
  ASSUME Guarded, RequestReindex
  PROVE  Guarded'
BY DEF Guarded, Quiet, Issued, Held, HeldBy, RequestReindex, indexVars, clientVars

LEMMA AcquireReindexGuarded ==
  ASSUME Guarded, AcquireReindex
  PROVE  Guarded'
<1>1. Issued' /\ \A p \in Procs : pc'[p] = "idle"
  BY DEF Guarded, Issued, AcquireReindex, Drained, indexVars, clientVars
<1> QED
  BY <1>1, IdleGuarded

\* The end of a rebuild, and its failure, leave nothing found.
LEMMA EndsIssued ==
  ASSUME Issued, ReindexEnds, UNCHANGED <<index, seq>>
  PROVE  Issued'
BY DEF Issued, ReindexEnds, NoBooks

LEMMA ScanStoreIssued ==
  ASSUME Typed, Issued, ScanStore
  PROVE  Issued'
<1>1. UNCHANGED <<index, seq>>
  BY DEF ScanStore, indexVars
<1>2. CASE ReindexFails
  BY <1>1, <1>2, EndsIssued DEF ReindexFails
<1>3. ASSUME NEW missed \in IF ScanErrors THEN SUBSET Walk ELSE {{}},
             NEW readable, readable = {d \in Walk \ missed : Sound(d)},
             found' = ScanOf(readable),
             \A i \in Reserved : top' >= i
      PROVE  Issued'
  <2>1. \A d \in readable : meta[d].id \in Reserved
    BY <1>3 DEF Reserved, ClaimedId, Sound
  <2>2. \A i \in Ids : found'[i] # None => i \in Reserved
    BY <1>3, <2>1, ScanOfType DEF Typed, TypeOK
  <2>3. top' \in Nat /\ Ids \subseteq Nat
    BY ScanStoreTyped, StoreAssumption DEF Typed, TypeOK, ReindexTypeOK, Ids
  <2> QED
    BY <1>1, <1>3, <2>2, <2>3 DEF Issued
<1> QED
  BY <1>2, <1>3 DEF ScanStore

LEMMA MoveIssued ==
  ASSUME Typed, Issued, (\E i \in Ids : MoveBookDir(i)) \/ MoveBookFile
  PROVE  Issued'
<1>1. UNCHANGED <<index, seq, top>>
  BY DEF MoveBookDir, MoveBookFile, Stays, indexVars
<1>2. \A i \in Ids : found'[i] # None => found[i] # None
  <2>1. CASE \E i \in Ids : MoveBookDir(i)
    BY <2>1 DEF MoveBookDir, Stays
  <2>2. CASE MoveBookFile
    BY <2>2 DEF MoveBookFile, Stays, Typed, TypeOK, ReindexTypeOK, TodoOK
  <2> QED
    BY <2>1, <2>2
<1> QED
  BY <1>1, <1>2 DEF Issued

LEMMA RebuildIssued ==
  ASSUME Typed, Issued, BeginRebuild \/ RebuildIndex \/ FinishReindex
  PROVE  Issued'
<1>1. CASE ReindexFails /\ (UNCHANGED indexVars \/ StampVersion)
  BY <1>1, EndsIssued DEF ReindexFails, StampVersion, indexVars
<1>2. CASE PrepareRebuild /\ UNCHANGED <<found, top>>
  BY <1>2 DEF PrepareRebuild, Emptied, Issued
<1>3. CASE Rebuild(found, passed, top) /\ UNCHANGED <<found, top>>
  <2>1. seq \in Nat /\ top \in Nat /\ Ids \subseteq Nat
    BY StoreAssumption DEF Typed, TypeOK, IndexTypeOK, ReindexTypeOK, Ids
  <2> QED
    BY <1>3, <2>1 DEF Rebuild, Issued
<1>4. CASE StampVersion /\ ReindexEnds
  BY <1>4, EndsIssued DEF StampVersion
<1>5. CASE ReindexFails /\ DropTables
  BY <1>5, EndsIssued DEF ReindexFails, ReindexEnds, DropTables, Emptied, Issued, NoBooks
<1> QED
  BY <1>1, <1>2, <1>3, <1>4, <1>5 DEF BeginRebuild, RebuildIndex, FinishReindex

LEMMA RebuildingGuarded ==
  ASSUME Typed, Guarded,
         \/ ScanStore \/ (\E i \in Ids : MoveBookDir(i)) \/ MoveBookFile
         \/ BeginRebuild \/ RebuildIndex \/ FinishReindex
  PROVE  Guarded'
<1>1. rpc \notin {"idle", "wait"} /\ UNCHANGED pc
  BY DEF ScanStore, MoveBookDir, MoveBookFile, BeginRebuild, RebuildIndex, FinishReindex,
         clientVars
<1>2. Issued'
  BY ScanStoreIssued, MoveIssued, RebuildIssued DEF Guarded
<1> QED
  BY <1>1, <1>2, IdleGuarded DEF Guarded, Quiet

LEMMA StartGuarded ==
  ASSUME Typed, Guarded, OpenLibrary \/ Crash \/ Upgrade \/ DiscardIndex
  PROVE  Guarded'
<1>1. Issued'
  BY EndsIssued
  DEF OpenLibrary, Crash, Upgrade, DiscardIndex, ApplySchema, Emptied, Guarded, Issued,
      indexVars, reindexVars
<1>2. \A p \in Procs : pc'[p] = "idle"
  BY DEF OpenLibrary, Crash, Upgrade, DiscardIndex, Guarded, Quiet, clientVars
<1> QED
  BY <1>1, <1>2, IdleGuarded

LEMMA HandEditGuarded ==
  ASSUME Guarded, NEW kind \in HandEdits, HandEdit(kind)
  PROVE  Guarded'
BY DEF Guarded, Quiet, Issued, Held, HeldBy, HandEdit, indexVars, reindexVars, clientVars

LEMMA InitGuarded ==
  ASSUME Init
  PROVE  Guarded
BY DEF Init, IndexInit, ReindexIdle, ClientsIdle, NoBooks, Guarded, Quiet, Issued, Held, HeldBy,
       HeldLabels, FilingLabels, EditLabels, DeleteLabels

LEMMA NextGuarded ==
  ASSUME Typed, Guarded, [Next]_vars
  PROVE  Guarded'
<1>1. ASSUME NEW p \in Procs, NEW c \in Requests, Call(p, c)
      PROVE  Guarded'
  BY <1>1, CallGuarded
<1>2. ASSUME NEW p \in Procs, ClientStep(p)
      PROVE  Guarded'
  BY <1>2, BeginOnBookGuarded, EditGuarded, DeleteGuarded, BeginIngestGuarded,
     RecordIngestGuarded, IngestGuarded
  DEF ClientStep
<1>3. CASE ReindexStep
  BY <1>3, AcquireReindexGuarded, RebuildingGuarded DEF ReindexStep
<1>4. CASE RequestReindex \/ OpenLibrary \/ Crash \/ Upgrade \/ DiscardIndex
  BY <1>4, RequestReindexGuarded, StartGuarded
<1>5. ASSUME NEW kind \in HandEdits, HandEdit(kind)
      PROVE  Guarded'
  BY <1>5, HandEditGuarded
<1>6. CASE UNCHANGED vars
  BY <1>6 DEF vars, indexVars, reindexVars, clientVars, Guarded, Quiet, Issued, Held, HeldBy
<1> QED
  BY <1>1, <1>2, <1>3, <1>4, <1>5, <1>6 DEF Next

LEMMA AlwaysGuarded == Spec => []Guarded
<1> QED
  BY InitGuarded, AlwaysTyped, NextGuarded, PTL DEF Spec

\* No two calls ever work on one book, whatever fails, dies or is rebuilt: an edit
\* or delete cannot reach an id an ingest is still filing, because no row has it,
\* and NextID never issues one that has a row (bookMu, ingestMu, mutateMu).
THEOREM WritersExclude == Spec => []OneWriterPerBook
<1>1. Typed /\ Guarded => OneWriterPerBook
  <2> SUFFICES ASSUME Typed, Guarded, NEW p \in Procs, NEW q \in Procs,
                      p # q, Working(p), Working(q)
               PROVE  book[p] # book[q]
    BY DEF OneWriterPerBook
  <2>1. AtWork(p) /\ AtWork(q)
    BY DEF Working, AtWork, Typed, TypeOK, ClientTypeOK, ClientOK, Labels, HeldLabels,
           FilingLabels, EditLabels, DeleteLabels
  <2> QED
    BY <2>1, Apart DEF Guarded
<1> QED
  BY <1>1, AlwaysTyped, AlwaysGuarded, PTL

-----------------------------------------------------------------------------
(* What a step does to the files: a call changes those of its own book only, *)
(* and what a rebuild renames are those of the book it is at.                *)

\* A directory's name ends in the id its sidecar holds, and every row is of a
\* directory of its own book, until a user copies a directory under another name.
Labelled == \A d \in Dirs : meta[d] \in MetaFiles => meta[d].id = d.id

Filed(rows) == \A i \in Ids : rows[i] # None => rows[i].loc.dir.id = i

Placed == "copy" \notin touched => Labelled /\ Filed(index) /\ Filed(found)

KeepsFiles(i) ==
  \/ UNCHANGED storeVars
  \/ \E loc \in Locations, k \in Keys : loc.dir.id = i /\ WriteEpub(loc, k)
  \/ \E loc \in Locations, v \in Vals : loc.dir.id = i /\ WriteMeta(loc, [id |-> i, val |-> v])
  \/ \E from, to \in Dirs : /\ from.id = i /\ to.id = i /\ CanRenameDir(from, to)
                            /\ RenameDir(from, to)
  \/ \E d \in Dirs, k \in Keys : d.id = i /\ epub[d] # None /\ RenameFile(d, k)

RemovesFile(i) == \E d \in Dirs : d.id = i /\ RemoveOne(d)

\* The labels at which a call takes files away.
Removing == {"remove", "undo"}

LEMMA KeepsFilesBy ==
  /\ UNCHANGED storeVars => \A i : KeepsFiles(i)
  /\ \A loc \in Locations, k \in Keys : WriteEpub(loc, k) => KeepsFiles(loc.dir.id)
  /\ \A loc \in Locations, v \in Vals :
       WriteMeta(loc, [id |-> loc.dir.id, val |-> v]) => KeepsFiles(loc.dir.id)
  /\ \A from, to \in Dirs :
       to.id = from.id /\ CanRenameDir(from, to) /\ RenameDir(from, to) => KeepsFiles(from.id)
  /\ \A d \in Dirs, k \in Keys : epub[d] # None /\ RenameFile(d, k) => KeepsFiles(d.id)
  /\ \A d \in Dirs : RemoveOne(d) => RemovesFile(d.id)
BY DEF KeepsFiles, RemovesFile

LEMMA RenamedBackKeeps ==
  ASSUME NEW from \in Dirs, NEW to \in Dirs, to.id = from.id, RenamedBack(from, to)
  PROVE  KeepsFiles(from.id)
BY KeepsFilesBy DEF RenamedBack

\* Where a call on a book with a row takes its files from, and where to.
LEMMA OwnPlaces ==
  ASSUME Typed, Guarded, Placed, "copy" \notin touched, NEW p \in Procs, pc[p] \in HeldLabels
  PROVE  /\ From(p) \in Locations /\ From(p).dir \in Dirs /\ From(p).dir.id = book[p]
         /\ To(p).dir.id = book[p]
<1>1. book[p] \in Ids /\ was[p] \in Rows /\ was[p] = index[book[p]] /\ index[book[p]] # None
  BY DEF Typed, ClientOK, Guarded, Held, HeldBy, HeldLabels, EditLabels, DeleteLabels
<1> QED
  BY <1>1 DEF Placed, Filed, From, To, Layout, Rows, Locations

LEMMA EditFiles ==
  ASSUME Typed, Guarded, Placed, "copy" \notin touched, NEW p \in Procs,
         \/ RewriteEpub(p) \/ RenameBookDir(p) \/ RenameBookFile(p) \/ UpdateMeta(p)
         \/ CommitEdit(p)
  PROVE  KeepsFiles(book[p])
<1>1. pc[p] \in EditLabels /\ pc[p] \in HeldLabels
  BY DEF EditLabels, HeldLabels, RewriteEpub, RenameBookDir, RenameBookFile, UpdateMeta,
         CommitEdit
<1>2. /\ From(p) \in Locations /\ From(p).dir \in Dirs /\ From(p).dir.id = book[p]
      /\ To(p) \in Locations /\ To(p).dir \in Dirs /\ To(p).dir.id = book[p]
      /\ To(p).name \in Keys /\ NewBib(p) \in Keys /\ NewVal(p) \in Vals
  BY <1>1, OwnPlaces, EditPlaces
<1>3. CASE RewriteEpub(p)
  BY <1>2, <1>3, KeepsFilesBy DEF RewriteEpub
<1>4. CASE RenameBookDir(p)
  BY <1>2, <1>4, KeepsFilesBy DEF RenameBookDir
<1>5. CASE RenameBookFile(p)
  BY <1>2, <1>5, KeepsFilesBy, RenamedBackKeeps DEF RenameBookFile, FileAt
<1>6. CASE UpdateMeta(p)
  BY <1>2, <1>6, KeepsFilesBy DEF UpdateMeta
<1>7. CASE CommitEdit(p)
  BY <1>7, KeepsFilesBy DEF CommitEdit
<1> QED
  BY <1>3, <1>4, <1>5, <1>6, <1>7

LEMMA ClientFiles ==
  ASSUME Typed, Guarded, Placed, "copy" \notin touched, NEW p \in Procs, ClientStep(p)
  PROVE  KeepsFiles(book[p]) \/ (pc[p] \in Removing /\ RemovesFile(book[p]))
<1>1. CASE RemoveBook(p)
  <2>1. From(p).dir \in Dirs /\ From(p).dir.id = book[p]
    BY <1>1, OwnPlaces DEF RemoveBook, HeldLabels, DeleteLabels
  <2> QED
    BY <1>1, <2>1, KeepsFilesBy DEF RemoveBook, Removing
<1>2. CASE PlaceEpub(p) \/ PlaceMeta(p) \/ UndoIngest(p)
  <2>1. /\ NewPlace(p) \in Locations /\ NewPlace(p).dir \in Dirs
        /\ NewPlace(p).dir.id = book[p] /\ call[p].bib \in Keys
    BY <1>2, IngestPlace DEF PlaceEpub, PlaceMeta, UndoIngest, FilingLabels, NewPlace, Layout
  <2>2. CASE PlaceEpub(p)
    BY <2>1, <2>2, KeepsFilesBy DEF PlaceEpub
  <2>3. CASE PlaceMeta(p)
    BY <2>1, <2>3, LibraryAssumption, KeepsFilesBy DEF PlaceMeta
  <2>4. CASE UndoIngest(p)
    BY <2>1, <2>4, KeepsFilesBy DEF UndoIngest, Removing
  <2> QED
    BY <1>2, <2>2, <2>3, <2>4
<1>3. CASE BeginOnBook(p) \/ CommitDelete(p) \/ BeginIngest(p) \/ RecordIngest(p)
           \/ AnnounceIngest(p)
  BY <1>3, KeepsFilesBy DEF BeginOnBook, CommitDelete, BeginIngest, RecordIngest, AnnounceIngest
<1> QED
  BY <1>1, <1>2, <1>3, EditFiles DEF ClientStep

\* What a rebuild renames.
LEMMA MoveFiles ==
  ASSUME Typed, Placed, "copy" \notin touched
  PROVE  /\ \A i \in Ids : MoveBookDir(i) => KeepsFiles(i)
         /\ MoveBookFile => mv \in Ids /\ KeepsFiles(mv)
<1>1. ASSUME NEW i \in todo
      PROVE  /\ found[i].loc.dir \in Dirs /\ found[i].loc.dir.id = i
             /\ Home(i).dir \in Dirs /\ Home(i).dir.id = i /\ Home(i).name \in Keys
  BY MovePlaces DEF Placed, Filed, Home, Layout, Typed, TodoOK
<1>2. ASSUME NEW i \in Ids, MoveBookDir(i)
      PROVE  KeepsFiles(i)
  BY <1>1, <1>2, KeepsFilesBy DEF MoveBookDir
<1>3. ASSUME MoveBookFile
      PROVE  mv \in Ids /\ KeepsFiles(mv)
  <2>1. mv \in todo /\ mv \in Ids
    BY <1>3, MovePlaces DEF MoveBookFile, Typed, TodoOK
  <2> QED
    BY <1>1, <1>3, <2>1, KeepsFilesBy, RenamedBackKeeps DEF MoveBookFile, FileAt
<1> QED
  BY <1>2, <1>3

\* Files of other books are left alone.
LEMMA OthersFiles ==
  ASSUME StoreTypeOK, NEW i, KeepsFiles(i) \/ RemovesFile(i), NEW d \in Dirs, d.id # i
  PROVE  epub'[d] = epub[d] /\ meta'[d] = meta[d]
<1>1. CASE UNCHANGED storeVars
  BY <1>1 DEF storeVars
<1>2. ASSUME NEW loc \in Locations, NEW k \in Keys, loc.dir.id = i, WriteEpub(loc, k)
      PROVE  epub'[d] = epub[d] /\ meta'[d] = meta[d]
  BY <1>2 DEF WriteEpub, StoreTypeOK
<1>3. ASSUME NEW loc \in Locations, NEW m, loc.dir.id = i, WriteMeta(loc, m)
      PROVE  epub'[d] = epub[d] /\ meta'[d] = meta[d]
  BY <1>3 DEF WriteMeta, StoreTypeOK
<1>4. ASSUME NEW from \in Dirs, NEW to \in Dirs, from.id = i, to.id = i, RenameDir(from, to)
      PROVE  epub'[d] = epub[d] /\ meta'[d] = meta[d]
  BY <1>4 DEF RenameDir, MoveTo, StoreTypeOK
<1>5. ASSUME NEW e \in Dirs, NEW k \in Keys, e.id = i, RenameFile(e, k)
      PROVE  epub'[d] = epub[d] /\ meta'[d] = meta[d]
  BY <1>5 DEF RenameFile, StoreTypeOK
<1>6. CASE RemovesFile(i)
  BY <1>6 DEF RemovesFile, RemoveOne, StoreTypeOK
<1> QED
  BY <1>1, <1>2, <1>3, <1>4, <1>5, <1>6 DEF KeepsFiles

-----------------------------------------------------------------------------
(* Every book in its own directory, and nothing lost. *)

LEMMA KeepsLabelled ==
  ASSUME StoreTypeOK, Labelled, NEW i \in Ids, KeepsFiles(i) \/ RemovesFile(i)
  PROVE  Labelled'
<1>1. CASE UNCHANGED storeVars
  BY <1>1 DEF storeVars, Labelled
<1>2. ASSUME NEW loc \in Locations, NEW k \in Keys, WriteEpub(loc, k)
      PROVE  Labelled'
  BY <1>2 DEF WriteEpub, Labelled
<1>3. ASSUME NEW loc \in Locations, NEW v \in Vals, loc.dir.id = i,
             WriteMeta(loc, [id |-> i, val |-> v])
      PROVE  Labelled'
  BY <1>3 DEF WriteMeta, Labelled, StoreTypeOK
<1>4. ASSUME NEW from \in Dirs, NEW to \in Dirs, from.id = i, to.id = i, RenameDir(from, to)
      PROVE  Labelled'
  BY <1>4, StoreAssumption DEF RenameDir, MoveTo, Labelled, StoreTypeOK
<1>5. ASSUME NEW d \in Dirs, NEW k \in Keys, RenameFile(d, k)
      PROVE  Labelled'
  BY <1>5 DEF RenameFile, Labelled
<1>6. CASE RemovesFile(i)
  BY <1>6, StoreAssumption DEF RemovesFile, RemoveOne, Labelled, StoreTypeOK
<1> QED
  BY <1>1, <1>2, <1>3, <1>4, <1>5, <1>6 DEF KeepsFiles

\* Only a user's copy can break the labels.
LEMMA HandLabelled ==
  ASSUME Typed, Labelled, NEW kind, kind # "copy", HandEdit(kind)
  PROVE  Labelled'
<1> USE DEF Typed, TypeOK
<1>1. ASSUME NEW d \in Walk, NEW k, WriteEpub(LocationOf(d), k)
      PROVE  Labelled'
  BY <1>1 DEF WriteEpub, Labelled
<1>2. ASSUME NEW d \in Walk, WriteMeta(LocationOf(d), Unreadable)
      PROVE  Labelled'
  BY <1>2, WalkType, StoreAssumption DEF WriteMeta, Labelled, StoreTypeOK, LocationOf
<1>3. ASSUME NEW d \in Walk, RemoveOne(d)
      PROVE  Labelled'
  <2>1. d \in Dirs /\ RemovesFile(d.id) /\ d.id \in Ids
    BY <1>3, WalkType, KeepsFilesBy DEF Dirs
  <2> QED
    BY <2>1, KeepsLabelled
<1>4. ASSUME NEW k \in Keys, NEW i \in Ids,
             PutDir(Layout(k, i).dir, [name |-> k, bib |-> k], [id |-> i, val |-> DefaultVal])
      PROVE  Labelled'
  BY <1>4 DEF PutDir, Layout, Labelled, StoreTypeOK
<1> QED
  BY <1>1, <1>2, <1>3, <1>4 DEF HandEdit

\* A client writes rows of its own book, at a place of that book.
LEMMA ClientRows ==
  ASSUME Typed, NEW p \in Procs, ClientStep(p)
  PROVE  \/ index' = index
         \/ /\ AtWork(p) /\ book[p] \in Ids
            /\ \A i \in Ids \ {book[p]} : index'[i] = index[i]
            /\ index'[book[p]] # None => index'[book[p]].loc.dir.id = book[p]
<1> USE DEF Typed, TypeOK
<1>1. CASE CommitEdit(p)
  <2>1. /\ AtWork(p) /\ book[p] \in Ids /\ To(p).dir.id = book[p]
    BY <1>1, EditPlaces DEF CommitEdit, AtWork, HeldLabels, EditLabels, To, Layout
  <2> QED
    BY <1>1, <2>1 DEF CommitEdit, Put, RowFor, GiveUp, LeavePending, IndexTypeOK
<1>2. CASE CommitDelete(p)
  <2>1. AtWork(p) /\ book[p] \in Ids
    BY <1>2 DEF CommitDelete, AtWork, HeldLabels, DeleteLabels, ClientOK
  <2> QED
    BY <1>2, <2>1 DEF CommitDelete, Erase, Put, GiveUp, LeavePending, IndexTypeOK
<1>3. CASE RecordIngest(p)
  <2>1. AtWork(p) /\ book[p] \in Ids /\ NewPlace(p).dir.id = book[p]
    BY <1>3, IngestPlace DEF RecordIngest, AtWork, FilingLabels, NewPlace, Layout
  <2> QED
    BY <1>3, <2>1 DEF RecordIngest, Put, RowFor, indexVars, IndexTypeOK
<1>4. CASE ~(CommitEdit(p) \/ CommitDelete(p) \/ RecordIngest(p))
  BY <1>4
  DEF ClientStep, BeginOnBook, RewriteEpub, RenameBookDir, RenameBookFile, UpdateMeta,
      RemoveBook, BeginIngest, PlaceEpub, PlaceMeta, AnnounceIngest, UndoIngest, MarkPending,
      Cancel, GiveUp, LeavePending, indexVars
<1> QED
  BY <1>1, <1>2, <1>3, <1>4

LEMMA ClientStepFrame ==
  ASSUME NEW p \in Procs, ClientStep(p)
  PROVE  UNCHANGED <<phase, reindexVars, touched>>
BY DEF ClientStep, BeginOnBook, RewriteEpub, RenameBookDir, RenameBookFile, UpdateMeta,
       CommitEdit, RemoveBook, CommitDelete, BeginIngest, PlaceEpub, PlaceMeta, RecordIngest,
       AnnounceIngest, UndoIngest

LEMMA ClientPlaced ==
  ASSUME Typed, Guarded, Placed, NEW p \in Procs, ClientStep(p)
  PROVE  Placed'
<1> SUFFICES ASSUME "copy" \notin touched'
             PROVE  (Labelled /\ Filed(index) /\ Filed(found))'
  BY DEF Placed
<1>1. "copy" \notin touched /\ found' = found
  BY ClientStepFrame DEF reindexVars
<1>2. Labelled'
  <2>1. CASE UNCHANGED storeVars
    BY <1>1, <2>1 DEF Placed, Labelled, storeVars
  <2>2. CASE ~UNCHANGED storeVars
    <3>1. book[p] \in Ids
      BY <2>2
      DEF ClientStep, BeginOnBook, RewriteEpub, RenameBookDir, RenameBookFile, UpdateMeta,
          CommitEdit, RemoveBook, CommitDelete, BeginIngest, PlaceEpub, PlaceMeta,
          RecordIngest, AnnounceIngest, UndoIngest, Typed, ClientOK
    <3> QED
      BY <1>1, <3>1, ClientFiles, KeepsLabelled DEF Placed, Typed, TypeOK
  <2> QED
    BY <2>1, <2>2
<1>3. Filed(index)'
  BY <1>1, ClientRows DEF Placed, Filed
<1> QED
  BY <1>1, <1>2, <1>3 DEF Placed, Filed

LEMMA ScanStorePlaced ==
  ASSUME Typed, Placed, ScanStore
  PROVE  Placed'
<1> SUFFICES ASSUME "copy" \notin touched'
             PROVE  (Labelled /\ Filed(index) /\ Filed(found))'
  BY DEF Placed
<1>1. /\ Labelled /\ Filed(index)
      /\ UNCHANGED <<epub, meta, index>>
  BY DEF ScanStore, Placed, storeVars, indexVars
<1>2. Labelled' /\ Filed(index)'
  BY <1>1 DEF Labelled, Filed
<1>3. CASE ReindexFails
  BY <1>2, <1>3 DEF ReindexFails, ReindexEnds, NoBooks, Filed
<1>4. ASSUME NEW readable \in SUBSET Walk, \A d \in readable : Sound(d),
             found' = ScanOf(readable)
      PROVE  Filed(found)'
  <2> SUFFICES ASSUME NEW i \in Ids, OwnersOf(i, readable) # {}
               PROVE  ScanOf(readable)[i].loc.dir.id = i
    BY <1>4 DEF Filed, ScanOf
  <2> DEFINE d == CHOOSE e \in OwnersOf(i, readable) : TRUE
  <2>1. d \in readable /\ meta[d].id = i
    BY DEF OwnersOf
  <2>2. d \in Dirs /\ meta[d] \in MetaFiles
    BY <1>4, <2>1, WalkType DEF Sound, Typed, TypeOK
  <2> HIDE DEF d
  <2>3. ScanOf(readable)[i] = ScannedRow(d)
    BY DEF ScanOf, d
  <2> QED
    BY <1>1, <2>1, <2>2, <2>3 DEF ScannedRow, RowFor, LocationOf, Labelled
<1> QED
  BY <1>2, <1>3, <1>4 DEF ScanStore

LEMMA MovePlaced ==
  ASSUME Typed, Placed, (\E i \in Ids : MoveBookDir(i)) \/ MoveBookFile
  PROVE  Placed'
<1> SUFFICES ASSUME "copy" \notin touched'
             PROVE  (Labelled /\ Filed(index) /\ Filed(found))'
  BY DEF Placed
<1>1. "copy" \notin touched /\ index' = index
  BY DEF MoveBookDir, MoveBookFile, indexVars
<1>2. Labelled'
  BY <1>1, MoveFiles, KeepsLabelled DEF Placed, Typed, TypeOK
<1>3. Filed(found)'
  <2>1. CASE found' = found
    BY <1>1, <2>1 DEF Placed, Filed
  <2>2. CASE found' = [found EXCEPT ![mv].loc = Home(mv)]
    BY <1>1, <2>2 DEF Placed, Filed, Home, Layout, Typed, TypeOK, ReindexTypeOK
  <2> QED
    BY <2>1, <2>2 DEF MoveBookDir, MoveBookFile, Stays
<1> QED
  BY <1>1, <1>2, <1>3 DEF Placed, Filed

LEMMA RestPlaced ==
  ASSUME Placed,
         \/ RequestReindex \/ AcquireReindex \/ BeginRebuild \/ RebuildIndex \/ FinishReindex
         \/ OpenLibrary \/ Crash \/ Upgrade \/ DiscardIndex
         \/ \E p \in Procs, c \in Requests : Call(p, c)
  PROVE  Placed'
<1>1. UNCHANGED <<epub, meta, touched>>
  BY DEF RequestReindex, AcquireReindex, BeginRebuild, RebuildIndex, FinishReindex, OpenLibrary,
         Crash, Upgrade, DiscardIndex, Call, storeVars
<1>2. index' \in {index, NoBooks, found} /\ found' \in {found, NoBooks}
  BY DEF RequestReindex, AcquireReindex, BeginRebuild, RebuildIndex, FinishReindex, OpenLibrary,
         Crash, Upgrade, DiscardIndex, Call, PrepareRebuild, DropTables, Emptied, Rebuild,
         StampVersion, ApplySchema, ReindexFails, ReindexEnds, NoBooks, indexVars, reindexVars
<1> QED
  BY <1>1, <1>2 DEF Placed, Labelled, Filed, NoBooks

LEMMA HandPlaced ==
  ASSUME Typed, Placed, NEW kind, HandEdit(kind)
  PROVE  Placed'
<1> SUFFICES ASSUME "copy" \notin touched'
             PROVE  (Labelled /\ Filed(index) /\ Filed(found))'
  BY DEF Placed
<1>1. "copy" \notin touched /\ kind # "copy" /\ UNCHANGED <<index, found>>
  BY DEF HandEdit, indexVars, reindexVars
<1> QED
  BY <1>1, HandLabelled DEF Placed, Filed

LEMMA InitPlaced ==
  ASSUME Init
  PROVE  Placed
BY StoreAssumption
DEF Init, StoreInit, IndexInit, ReindexIdle, NoBooks, Placed, Labelled, Filed, MetaFiles

LEMMA NextPlaced ==
  ASSUME Typed, Guarded, Placed, [Next]_vars
  PROVE  Placed'
<1>1. ASSUME NEW p \in Procs, ClientStep(p)
      PROVE  Placed'
  BY <1>1, ClientPlaced
<1>2. CASE ReindexStep
  BY <1>2, RestPlaced, ScanStorePlaced, MovePlaced DEF ReindexStep
<1>3. CASE \/ RequestReindex \/ OpenLibrary \/ Crash \/ Upgrade \/ DiscardIndex
           \/ \E p \in Procs, c \in Requests : Call(p, c)
  BY <1>3, RestPlaced
<1>4. ASSUME NEW kind \in HandEdits, HandEdit(kind)
      PROVE  Placed'
  BY <1>4, HandPlaced
<1>5. CASE UNCHANGED vars
  BY <1>5 DEF vars, storeVars, indexVars, reindexVars, Placed, Labelled, Filed
<1> QED
  BY <1>1, <1>2, <1>3, <1>4, <1>5 DEF Next

LEMMA AlwaysPlaced == Spec => []Placed
<1> QED
  BY InitPlaced, AlwaysTyped, AlwaysGuarded, NextPlaced, PTL DEF Spec

\* What keeps files keeps the books they make up.
LEMMA KeepsBooks ==
  ASSUME StoreTypeOK, Labelled, NEW i \in Ids, KeepsFiles(i)
  PROVE  OnDiskIds \subseteq OnDiskIds'
<1> SUFFICES ASSUME NEW d \in Walk, meta[d] # Unreadable
             PROVE  \E e \in Walk' : meta'[e] # Unreadable /\ meta'[e].id = meta[d].id
  BY DEF OnDiskIds
<1>1. d \in Dirs /\ meta[d] \in MetaFiles /\ epub[d] # None /\ meta[d].id = d.id
  BY WalkType DEF Walk, Labelled
<1>2. None \notin MetaFiles /\ Unreadable \notin MetaFiles /\ None \notin EpubFiles
  BY StoreAssumption
<1>3. CASE UNCHANGED storeVars
  BY <1>1, <1>3 DEF storeVars, Walk
<1>4. ASSUME NEW loc \in Locations, NEW k \in Keys, WriteEpub(loc, k)
      PROVE  d \in Walk' /\ meta'[d] = meta[d]
  <2>1. [name |-> loc.name, bib |-> k] \in EpubFiles
    BY DEF Locations, EpubFiles
  <2> QED
    BY <1>1, <1>2, <1>4, <2>1 DEF WriteEpub, Walk, StoreTypeOK
<1>5. ASSUME NEW loc \in Locations, NEW v \in Vals, loc.dir.id = i,
             WriteMeta(loc, [id |-> i, val |-> v])
      PROVE  d \in Walk' /\ meta'[d] # Unreadable /\ meta'[d].id = meta[d].id
  <2>1. [id |-> i, val |-> v] \in MetaFiles
    BY DEF MetaFiles
  <2> QED
    BY <1>1, <1>2, <1>5, <2>1 DEF WriteMeta, Walk, StoreTypeOK
<1>6. ASSUME NEW from \in Dirs, NEW to \in Dirs, CanRenameDir(from, to), RenameDir(from, to)
      PROVE  \E e \in Walk' : meta'[e] = meta[d]
  <2>1. CASE d = from
    <3>1. to \in Walk' /\ meta'[to] = meta[d]
      BY <1>1, <1>2, <1>6, <2>1 DEF RenameDir, MoveTo, Walk, StoreTypeOK, CanRenameDir
    <3> QED
      BY <3>1
  <2>2. CASE d # from
    <3>1. d \in Walk' /\ meta'[d] = meta[d]
      BY <1>1, <1>2, <1>6, <2>2 DEF RenameDir, MoveTo, Walk, StoreTypeOK, CanRenameDir, DirExists
    <3> QED
      BY <3>1
  <2> QED
    BY <2>1, <2>2
<1>7. ASSUME NEW e \in Dirs, NEW k \in Keys, epub[e] # None, RenameFile(e, k)
      PROVE  d \in Walk' /\ meta'[d] = meta[d]
  <2>1. [name |-> k, bib |-> epub[e].bib] \in EpubFiles
    BY <1>7 DEF EpubFiles, StoreTypeOK
  <2> QED
    BY <1>1, <1>2, <1>7, <2>1 DEF RenameFile, Walk, StoreTypeOK
<1> QED
  BY <1>1, <1>2, <1>3, <1>4, <1>5, <1>6, <1>7 DEF KeepsFiles

\* What takes files of book i away can lose no other book.
LEMMA RemovesOwnBook ==
  ASSUME StoreTypeOK, Labelled, NEW i \in Ids, RemovesFile(i)
  PROVE  OnDiskIds \ OnDiskIds' \subseteq {i}
<1> SUFFICES ASSUME NEW d \in Walk, meta[d] # Unreadable, meta[d].id # i
             PROVE  d \in Walk' /\ meta'[d] = meta[d]
  BY DEF OnDiskIds
<1>1. d \in Dirs /\ meta[d] \in MetaFiles /\ meta[d].id = d.id
  BY WalkType DEF Labelled
<1> QED
  BY <1>1, OthersFiles DEF Walk

\* A book on disk is lost only by a delete of that very book, by undoing the ingest
\* that was filing it, or by a user: renames, rollbacks, rebuilds, crashes and failed
\* calls carry every book along (Move, moveToCanonical, Store.Delete, ingestPath).
\* A user who copies a directory has made two books of one id.
THEOREM BooksAreKept ==
  ASSUME "copy" \notin HandEdits
  PROVE  Spec => NothingLost
<1> DEFINE Kept == touched' = touched =>
                     \A i \in OnDiskIds \ OnDiskIds' :
                       \E p \in Procs : book[p] = i /\ pc[p] \in {"remove", "undo"}
<1>1. Typed /\ Guarded /\ Placed /\ [Next]_vars => [Kept]_vars
  <2> SUFFICES ASSUME Typed, Guarded, Placed, Next, touched' = touched,
                      NEW i \in OnDiskIds \ OnDiskIds'
               PROVE  \E p \in Procs : book[p] = i /\ pc[p] \in {"remove", "undo"}
    OBVIOUS
  <2>1. "copy" \notin touched /\ StoreTypeOK /\ Labelled
    BY DEF Typed, TypeOK, Placed
  <2>2. CASE UNCHANGED storeVars
    BY <2>2 DEF OnDiskIds, Walk, storeVars
  <2>3. ASSUME NEW p \in Procs, ClientStep(p), ~UNCHANGED storeVars
        PROVE  book[p] = i /\ pc[p] \in {"remove", "undo"}
    <3>1. book[p] \in Ids
      BY <2>3
      DEF ClientStep, BeginOnBook, RewriteEpub, RenameBookDir, RenameBookFile, UpdateMeta,
          CommitEdit, RemoveBook, CommitDelete, BeginIngest, PlaceEpub, PlaceMeta,
          RecordIngest, AnnounceIngest, UndoIngest, Typed, ClientOK
    <3>2. ~KeepsFiles(book[p])
      BY <2>1, <3>1, KeepsBooks
    <3> QED
      BY <2>1, <2>3, <3>1, <3>2, ClientFiles, RemovesOwnBook DEF Removing
  <2>4. CASE ReindexStep /\ ~UNCHANGED storeVars
    <3>1. (\E j \in Ids : MoveBookDir(j)) \/ MoveBookFile
      BY <2>4
      DEF ReindexStep, AcquireReindex, ScanStore, BeginRebuild, RebuildIndex, FinishReindex
    <3> QED
      BY <2>1, <3>1, MoveFiles, KeepsBooks
  <2>5. ASSUME NEW kind, HandEdit(kind)
        PROVE  FALSE
    BY <2>5 DEF HandEdit
  <2>6. CASE \/ RequestReindex \/ OpenLibrary \/ Crash \/ Upgrade \/ DiscardIndex
             \/ \E p \in Procs, c \in Requests : Call(p, c)
    BY <2>2, <2>6 DEF RequestReindex, OpenLibrary, Crash, Upgrade, DiscardIndex, Call
  <2> QED
    BY <2>2, <2>3, <2>4, <2>5, <2>6 DEF Next
<1> QED
  BY <1>1, AlwaysTyped, AlwaysGuarded, AlwaysPlaced, PTL DEF Spec, NothingLost

-----------------------------------------------------------------------------
(* No two directories of one book. *)

\* The user has made no second directory for an id.
NoCopies == touched \intersect {"copy", "restore"} = {}

\* Of the directories the walk reads, none but d is of book i.
Sole(i, d) == \A e \in Walk : e.id = i => e = d

OneDir(i) == \A d, e \in Walk : d.id = i /\ e.id = i => d = e

Alone(i, d) == DirExists(d) => Sole(i, d)

RowAlone(i, row) == row # None => Alone(i, row.loc.dir)

\* An ingest has the only directory of the id it was issued.  An edit under way
\* has the only one of its book, and has left nothing where it took it from.
CallAlone(p) ==
  /\ pc[p] \in FilingLabels => Sole(book[p], NewPlace(p).dir)
  /\ pc[p] \in {"file", "meta", "put"} =>
       /\ Alone(book[p], To(p).dir)
       /\ From(p).dir # To(p).dir => ~DirExists(From(p).dir)

\* A rebuild has found every book, and knows the largest id.
FoundAlone ==
  /\ rpc \in {"move", "file", "rebuild"} =>
       /\ \A i \in Ids : RowAlone(i, found[i])
       /\ \A d \in Walk : d.id <= top
  /\ rpc = "file" => Alone(mv, Home(mv).dir)

\* No id on disk is still to be issued.
Covered == Current \/ rpc = "stamp" => \A d \in Walk : d.id <= seq

\* Reindex runs only in a library that is open or opening.
Opened ==
  /\ phase = "down" => rpc = "idle"
  /\ phase = "serving" => Current

Single ==
  NoCopies =>
    /\ \A i \in Ids : OneDir(i) /\ RowAlone(i, index[i])
    /\ \A p \in Procs : CallAlone(p)
    /\ FoundAlone
    /\ Covered

-----------------------------------------------------------------------------
(* What the calls on the files make of that. *)

LEMMA FewerAlone ==
  ASSUME Walk' \subseteq Walk, \A x \in Dirs : DirExists(x)' => DirExists(x), NEW i
  PROVE  /\ OneDir(i) => OneDir(i)'
         /\ \A x : Sole(i, x) => Sole(i, x)'
         /\ \A x \in Dirs : Alone(i, x) => Alone(i, x)'
BY DEF OneDir, Sole, Alone

LEMMA SameFilesAlone ==
  ASSUME NEW i, \A d \in Dirs : d.id = i => epub'[d] = epub[d] /\ meta'[d] = meta[d]
  PROVE  /\ OneDir(i) => OneDir(i)'
         /\ \A x : Sole(i, x) => Sole(i, x)'
         /\ \A x \in Dirs : x.id = i /\ Alone(i, x) => Alone(i, x)'
BY DEF OneDir, Sole, Alone, Walk, DirExists

LEMMA RenameDirAlone ==
  ASSUME StoreTypeOK, NEW from \in Dirs, NEW to \in Dirs, NEW i, from.id = i, to.id = i,
         CanRenameDir(from, to), RenameDir(from, to), Alone(i, from)
  PROVE  /\ OneDir(i)' /\ Sole(i, to)' /\ ~DirExists(from)'
         /\ \A x \in Dirs : Alone(i, x) => Alone(i, x)'
<1>1. /\ from # to /\ Sole(i, from)
      /\ \A x \in Dirs \ {from, to} : epub'[x] = epub[x] /\ meta'[x] = meta[x]
      /\ epub'[from] = None /\ meta'[from] = None
      /\ epub'[to] = epub[from] /\ meta'[to] = meta[from]
      /\ epub[to] = None /\ meta[to] = None
  BY DEF StoreTypeOK, RenameDir, MoveTo, CanRenameDir, DirExists, Alone
<1>2. Sole(i, to)'
  BY <1>1 DEF Sole, Walk
<1>3. ASSUME NEW x \in Dirs, Alone(i, x)
      PROVE  Alone(i, x)'
  <2>1. CASE x \in {from, to}
    BY <1>1, <1>2, <2>1 DEF Alone, DirExists
  <2>2. CASE x \notin {from, to} /\ DirExists(x)'
    <3>1. DirExists(x) /\ Sole(i, x)
      BY <1>1, <1>3, <2>2 DEF Alone, DirExists
    <3>2. from \notin Walk
      BY <1>1, <2>2, <3>1 DEF Sole
    <3> QED
      BY <1>1, <1>2, <3>1, <3>2 DEF Alone, Sole, Walk
  <2> QED
    BY <2>1, <2>2 DEF Alone
<1> QED
  BY <1>1, <1>2, <1>3 DEF OneDir, Sole, DirExists

LEMMA WriteSole ==
  ASSUME StoreTypeOK, NEW loc \in Locations, NEW i, Sole(i, loc.dir),
         \/ \E k \in Keys : WriteEpub(loc, k)
         \/ \E m : WriteMeta(loc, m)
  PROVE  /\ OneDir(i)' /\ Sole(i, loc.dir)'
         /\ \A x \in Dirs : DirExists(x)' => DirExists(x) \/ x = loc.dir
BY DEF StoreTypeOK, Locations, WriteEpub, WriteMeta, OneDir, Sole, Walk, DirExists

LEMMA RenameFileFewer ==
  ASSUME StoreTypeOK, NEW d \in Dirs, NEW k, epub[d] # None, RenameFile(d, k)
  PROVE  Walk' \subseteq Walk /\ \A x \in Dirs : DirExists(x)' => DirExists(x)
BY DEF StoreTypeOK, RenameFile, Walk, DirExists

LEMMA RemoveOneFewer ==
  ASSUME StoreTypeOK, NEW d \in Dirs, RemoveOne(d)
  PROVE  Walk' \subseteq Walk /\ \A x \in Dirs : DirExists(x)' => DirExists(x)
BY DEF StoreTypeOK, RemoveOne, Walk, DirExists

LEMMA UnchangedFewer ==
  ASSUME UNCHANGED storeVars
  PROVE  Walk' \subseteq Walk /\ \A x \in Dirs : DirExists(x)' => DirExists(x)
BY DEF storeVars, Walk, DirExists

-----------------------------------------------------------------------------
(* The frame of a client's step. *)

LEMMA OthersSame ==
  ASSUME Typed, NEW p \in Procs, ClientStep(p), NEW q \in Procs \ {p}
  PROVE  pc'[q] = pc[q] /\ call'[q] = call[q] /\ book'[q] = book[q] /\ was'[q] = was[q]
BY DEF ClientStep, BeginOnBook, RewriteEpub, RenameBookDir, RenameBookFile, UpdateMeta,
       CommitEdit, RemoveBook, CommitDelete, BeginIngest, PlaceEpub, PlaceMeta, RecordIngest,
       AnnounceIngest, UndoIngest, GiveUp, Return, Step, Goto, Typed, TypeOK, ClientTypeOK

\* A step of a call that has not begun its work, or has ended it.
Aside(p) == BeginOnBook(p) \/ BeginIngest(p) \/ AnnounceIngest(p)

LEMMA OnlyWorkersWrite ==
  ASSUME NEW p \in Procs, ClientStep(p)
  PROVE  \/ AtWork(p)
         \/ Aside(p) /\ UNCHANGED <<storeVars, index>>
BY DEF ClientStep, BeginOnBook, RewriteEpub, RenameBookDir, RenameBookFile, UpdateMeta,
       CommitEdit, RemoveBook, CommitDelete, BeginIngest, PlaceEpub, PlaceMeta, RecordIngest,
       AnnounceIngest, UndoIngest, AtWork, HeldLabels, EditLabels, DeleteLabels, FilingLabels,
       Aside, MarkPending, indexVars

\* The files and the row of every book but the one p works on are left alone.
LEMMA OtherBooks ==
  ASSUME Typed, Guarded, Placed, "copy" \notin touched, NEW p \in Procs, ClientStep(p),
         NEW i \in Ids, i # book[p] \/ ~AtWork(p)
  PROVE  /\ index'[i] = index[i]
         /\ \A d \in Dirs : d.id = i => epub'[d] = epub[d] /\ meta'[d] = meta[d]
<1>1. CASE ~AtWork(p)
  BY <1>1, OnlyWorkersWrite DEF storeVars
<1>2. CASE AtWork(p)
  BY <1>2, ClientFiles, OthersFiles, ClientRows DEF Typed, TypeOK
<1> QED
  BY <1>1, <1>2

-----------------------------------------------------------------------------
(* One lemma for each action that can disturb it. *)

LEMMA OpenedKept ==
  ASSUME Opened, [Next]_vars
  PROVE  Opened'
<1>1. ASSUME NEW p \in Procs, ClientStep(p)
      PROVE  Opened'
  <2>1. version' = version
    BY <1>1
    DEF ClientStep, BeginOnBook, RewriteEpub, RenameBookDir, RenameBookFile, UpdateMeta,
        CommitEdit, RemoveBook, CommitDelete, BeginIngest, PlaceEpub, PlaceMeta, RecordIngest,
        AnnounceIngest, UndoIngest, MarkPending, Put, Erase, Cancel, GiveUp, LeavePending,
        indexVars
  <2> QED
    BY <1>1, <2>1, ClientStepFrame DEF Opened, Current, reindexVars
<1>2. CASE ReindexStep
  <2>1. CASE BeginRebuild
    BY <2>1 DEF BeginRebuild, PrepareRebuild, DropTables, ReindexFails, ReindexEnds, Opened, Current,
                indexVars
  <2>2. CASE RebuildIndex \/ FinishReindex
    BY <2>2 DEF RebuildIndex, FinishReindex, Rebuild, StampVersion, ReindexFails, ReindexEnds, Opened,
                Current,
                indexVars
  <2>3. CASE AcquireReindex \/ ScanStore \/ (\E i \in Ids : MoveBookDir(i)) \/ MoveBookFile
    BY <2>3 DEF AcquireReindex, ScanStore, MoveBookDir, MoveBookFile, Stays, ReindexFails, ReindexEnds,
                Opened,
                Current, indexVars
  <2> QED
    BY <1>2, <2>1, <2>2, <2>3 DEF ReindexStep
<1>3. CASE OpenLibrary
  BY <1>3 DEF OpenLibrary, ApplySchema, NeedsReindex, Opened, Current, indexVars,
              reindexVars
<1>4. CASE RequestReindex \/ Crash \/ Upgrade \/ DiscardIndex
  BY <1>4 DEF RequestReindex, Crash, Upgrade, DiscardIndex, ReindexEnds, Opened, Current,
              indexVars, reindexVars
<1>5. CASE \/ \E p \in Procs, c \in Requests : Call(p, c)
           \/ \E kind \in HandEdits : HandEdit(kind)
           \/ UNCHANGED vars
  BY <1>5 DEF Call, HandEdit, vars, Opened, Current, indexVars, reindexVars
<1> QED
  BY <1>1, <1>2, <1>3, <1>4, <1>5 DEF Next

\* An edit leaves its book one directory.
LEMMA EditSingle ==
  ASSUME Typed, Guarded, Placed, Single, NoCopies, NEW p \in Procs,
         \/ RewriteEpub(p) \/ RenameBookDir(p) \/ RenameBookFile(p) \/ UpdateMeta(p)
         \/ CommitEdit(p),
         NEW i, i = book[p]
  PROVE  OneDir(i)' /\ RowAlone(i, index[i])' /\ CallAlone(p)'
<1> USE DEF Typed, TypeOK
<1>1. /\ pc[p] \in EditLabels /\ pc[p] \in HeldLabels
      /\ "copy" \notin touched
  BY DEF EditLabels, HeldLabels, RewriteEpub, RenameBookDir, RenameBookFile, UpdateMeta,
         CommitEdit, NoCopies
<1>2. /\ From(p) \in Locations /\ From(p).dir \in Dirs /\ From(p).dir.id = i
      /\ To(p) \in Locations /\ To(p).dir \in Dirs /\ To(p).dir.id = i
      /\ To(p).name \in Keys /\ NewBib(p) \in Keys /\ i \in Ids
  BY <1>1, OwnPlaces, EditPlaces
<1>d. PICK from \in Dirs, to \in Dirs : from = From(p).dir /\ to = To(p).dir
  BY <1>2
<1>3. /\ OneDir(i) /\ RowAlone(i, index[i]) /\ CallAlone(p)
      /\ index[i] # None /\ index[i].loc = From(p)
  BY <1>1, <1>2 DEF Single, Guarded, Held, HeldBy, From
<1>4. ASSUME Walk' \subseteq Walk, \A x \in Dirs : DirExists(x)' => DirExists(x), index' = index
      PROVE  OneDir(i)' /\ RowAlone(i, index[i])'
  BY <1>2, <1>3, <1>4, FewerAlone DEF RowAlone
<1>5. ASSUME GiveUp(p) \/ Return(p)
      PROVE  CallAlone(p)'
  BY <1>5 DEF GiveUp, Return, Goto, CallAlone, FilingLabels, ClientTypeOK
<1>6. ASSUME NEW l, Step(p, l)
      PROVE  pc'[p] = l /\ From(p)' = From(p) /\ To(p)' = To(p) /\ book'[p] = i
  BY <1>6 DEF Step, Goto, From, To, NewBib, ClientTypeOK
<1>7. GiveUp(p) => index' = index
  BY DEF GiveUp, LeavePending
<1>8. CASE RewriteEpub(p)
  <2>1. CASE FileAt(From(p)) /\ WriteEpub(From(p), NewBib(p)) /\ Step(p, "dir")
             /\ UNCHANGED indexVars
    <3>1. Sole(i, from)
      BY <1>d, <1>3, <2>1 DEF RowAlone, Alone, FileAt, DirExists
    <3>2. OneDir(i)' /\ Sole(i, from)'
      BY <1>2, <1>d, <2>1, <3>1, WriteSole
    <3> QED
      BY <1>d, <1>3, <1>6, <2>1, <3>2 DEF RowAlone, Alone, CallAlone, FilingLabels, indexVars
  <2>2. CASE UNCHANGED storeVars /\ ((Cancel(p) /\ Return(p)) \/ GiveUp(p))
    BY <1>4, <1>5, <1>7, <2>2, UnchangedFewer DEF Cancel
  <2> QED
    BY <1>8, <2>1, <2>2 DEF RewriteEpub, CanRewrite
<1>9. CASE RenameBookDir(p)
  <2>1. CASE From(p).dir = To(p).dir /\ Step(p, "file") /\ UNCHANGED <<storeVars, indexVars>>
    <3>1. OneDir(i)' /\ RowAlone(i, index[i])' /\ index' = index
      BY <1>4, <2>1, UnchangedFewer DEF indexVars
    <3> QED
      BY <1>3, <1>6, <2>1, <3>1 DEF CallAlone, RowAlone, FilingLabels
  <2>2. CASE /\ CanRenameDir(From(p).dir, To(p).dir) /\ RenameDir(From(p).dir, To(p).dir)
             /\ Step(p, "file") /\ UNCHANGED indexVars
    <3>1. /\ OneDir(i)' /\ Sole(i, to)' /\ ~DirExists(from)'
          /\ index' = index
      BY <1>2, <1>d, <1>3, <2>2, RenameDirAlone DEF RowAlone, indexVars
    <3> QED
      BY <1>d, <1>3, <1>6, <2>2, <3>1 DEF CallAlone, RowAlone, Alone, FilingLabels
  <2>3. CASE GiveUp(p) /\ UNCHANGED storeVars
    BY <1>4, <1>5, <1>7, <2>3, UnchangedFewer
  <2> QED
    BY <1>9, <2>1, <2>2, <2>3 DEF RenameBookDir
<1>10. CASE RenameBookFile(p)
  <2>1. ASSUME Walk' \subseteq Walk, \A x \in Dirs : DirExists(x)' => DirExists(x),
               Step(p, "meta"), UNCHANGED indexVars
        PROVE  OneDir(i)' /\ RowAlone(i, index[i])' /\ CallAlone(p)'
    <3>1. OneDir(i)' /\ RowAlone(i, index[i])'
      BY <1>4, <2>1 DEF indexVars
    <3>2. Alone(i, to) /\ (from # to => ~DirExists(from))
      BY <1>d, <1>3, <1>10 DEF CallAlone, RenameBookFile
    <3>3. Alone(i, to)' /\ (from # to => ~DirExists(from)')
      BY <2>1, <3>2, FewerAlone
    <3> QED
      BY <1>d, <1>6, <2>1, <3>1, <3>3 DEF CallAlone, FilingLabels
  <2>2. CASE UNCHANGED <<storeVars, indexVars>> /\ Step(p, "meta")
    BY <2>1, <2>2, UnchangedFewer
  <2>3. CASE /\ FileAt([dir |-> To(p).dir, name |-> From(p).name])
             /\ RenameFile(To(p).dir, To(p).name) /\ Step(p, "meta") /\ UNCHANGED indexVars
    BY <1>2, <2>1, <2>3, RenameFileFewer DEF FileAt
  <2>4. CASE RenamedBack(From(p).dir, To(p).dir) /\ GiveUp(p)
    <3>1. CASE UNCHANGED storeVars
      BY <1>4, <1>5, <1>7, <2>4, <3>1, UnchangedFewer
    <3>2. CASE CanRenameDir(To(p).dir, From(p).dir) /\ RenameDir(To(p).dir, From(p).dir)
      <4>1. Alone(i, To(p).dir)
        BY <1>3, <1>10 DEF CallAlone, RenameBookFile
      <4>2. OneDir(i)' /\ \A x \in Dirs : Alone(i, x) => Alone(i, x)'
        BY <1>2, <3>2, <4>1, RenameDirAlone
      <4> QED
        BY <1>2, <1>3, <1>5, <1>7, <2>4, <4>2 DEF RowAlone
    <3> QED
      BY <2>4, <3>1, <3>2 DEF RenamedBack
  <2> QED
    BY <1>10, <2>2, <2>3, <2>4 DEF RenameBookFile
<1>11. CASE UpdateMeta(p)
  <2>1. CASE /\ DirExists(To(p).dir) /\ Step(p, "put") /\ UNCHANGED indexVars
             /\ \E m : WriteMeta(To(p), m)
    <3>1. Sole(i, to) /\ (from # to => ~DirExists(from))
      BY <1>d, <1>3, <1>11, <2>1 DEF CallAlone, UpdateMeta, Alone
    <3>2. OneDir(i)' /\ Sole(i, to)' /\ (from # to => ~DirExists(from)')
      BY <1>2, <1>d, <2>1, <3>1, WriteSole
    <3>3. RowAlone(i, index[i])'
      BY <1>d, <1>3, <2>1, <3>2 DEF RowAlone, Alone, indexVars
    <3> QED
      BY <1>d, <1>6, <2>1, <3>2, <3>3 DEF CallAlone, Alone, FilingLabels
  <2>2. CASE GiveUp(p) /\ UNCHANGED storeVars
    BY <1>4, <1>5, <1>7, <2>2, UnchangedFewer
  <2> QED
    BY <1>11, <2>1, <2>2 DEF UpdateMeta
<1>12. CASE CommitEdit(p)
  <2>1. CASE /\ CanStat(To(p)) /\ Return(p)
             /\ Put(p, book[p], RowFor(To(p), NewBib(p), NewVal(p)))
    <3>1. index'[i].loc.dir = to /\ Alone(i, to)
      BY <1>2, <1>d, <1>3, <1>12, <2>1 DEF Put, RowFor, CallAlone, CommitEdit, IndexTypeOK
    <3>2. OneDir(i)' /\ Alone(i, to)'
      BY <1>3, <1>12, <3>1, FewerAlone, UnchangedFewer DEF CommitEdit
    <3>3. RowAlone(i, index[i])'
      BY <3>1, <3>2 DEF RowAlone
    <3> QED
      BY <1>5, <2>1, <3>2, <3>3
  <2>2. CASE GiveUp(p)
    BY <1>4, <1>5, <1>7, <1>12, <2>2, UnchangedFewer DEF CommitEdit
  <2> QED
    BY <1>12, <2>1, <2>2 DEF CommitEdit
<1> QED
  BY <1>8, <1>9, <1>10, <1>11, <1>12

\* So does a delete.
LEMMA DeleteSingle ==
  ASSUME Typed, Guarded, Placed, Single, NoCopies, NEW p \in Procs,
         RemoveBook(p) \/ CommitDelete(p),
         NEW i, i = book[p]
  PROVE  OneDir(i)' /\ RowAlone(i, index[i])' /\ CallAlone(p)'
<1> USE DEF Typed, TypeOK
<1>1. /\ pc[p] \in HeldLabels /\ "copy" \notin touched
  BY DEF DeleteLabels, HeldLabels, RemoveBook, CommitDelete, NoCopies
<1>2. From(p).dir \in Dirs /\ i \in Ids
  BY <1>1, OwnPlaces DEF ClientOK, HeldLabels, DeleteLabels, EditLabels
<1>3. /\ OneDir(i) /\ RowAlone(i, index[i])
      /\ index[i] # None => index[i].loc.dir \in Dirs
  BY <1>2 DEF Single, IndexTypeOK, Rows, Locations
<1>4. Walk' \subseteq Walk /\ \A x \in Dirs : DirExists(x)' => DirExists(x)
  BY <1>2, RemoveOneFewer, UnchangedFewer DEF RemoveBook, CommitDelete
<1>5. index'[i] \in {index[i], None}
  BY <1>2 DEF RemoveBook, CommitDelete, Erase, Put, GiveUp, LeavePending, IndexTypeOK, indexVars
<1>6. OneDir(i)' /\ RowAlone(i, index[i])'
  BY <1>3, <1>4, <1>5, FewerAlone DEF RowAlone
<1>7. pc'[p] \in {"idle", "remove", "erase"}
  BY DEF RemoveBook, CommitDelete, GiveUp, Return, Step, Goto, ClientTypeOK
<1> QED
  BY <1>6, <1>7 DEF CallAlone, FilingLabels

\* An ingest files the only directory of its id.
LEMMA IngestSingle ==
  ASSUME Typed, Guarded, Placed, Single, NoCopies, NEW p \in Procs,
         PlaceEpub(p) \/ PlaceMeta(p) \/ RecordIngest(p) \/ UndoIngest(p),
         NEW i, i = book[p]
  PROVE  OneDir(i)' /\ RowAlone(i, index[i])' /\ CallAlone(p)'
<1> USE DEF Typed, TypeOK
<1>1. pc[p] \in FilingLabels
  BY DEF FilingLabels, PlaceEpub, PlaceMeta, RecordIngest, UndoIngest
<1>2. /\ i \in Ids /\ index[i] = None /\ NewPlace(p) \in Locations /\ call[p].bib \in Keys
      /\ OneDir(i) /\ Sole(i, NewPlace(p).dir)
  BY <1>1, IngestPlace DEF Guarded, Held, HeldBy, Single, CallAlone
<1>3. PICK d \in Dirs : d = NewPlace(p).dir
  BY <1>2 DEF Locations
<1>4. OneDir(i)' /\ Sole(i, d)'
  <2>1. CASE PlaceEpub(p) \/ PlaceMeta(p)
    BY <1>2, <1>3, <2>1, WriteSole, UnchangedFewer, FewerAlone DEF PlaceEpub, PlaceMeta
  <2>2. CASE RecordIngest(p) \/ UndoIngest(p)
    BY <1>2, <1>3, <2>2, RemoveOneFewer, UnchangedFewer, FewerAlone DEF RecordIngest, UndoIngest
  <2> QED
    BY <2>1, <2>2
<1>5. \/ UNCHANGED <<call, book>> /\ pc'[p] \in FilingLabels \union {"announce"}
      \/ pc'[p] = "idle"
  BY DEF PlaceEpub, PlaceMeta, RecordIngest, UndoIngest, GiveUp, Return, Step, Goto, FilingLabels,
         ClientTypeOK
<1>6. index'[i] # None => index'[i].loc.dir = d
  BY <1>2, <1>3
  DEF PlaceEpub, PlaceMeta, RecordIngest, UndoIngest, GiveUp, LeavePending, Cancel, Put, RowFor,
      IndexTypeOK, indexVars
<1>7. RowAlone(i, index[i])'
  BY <1>4, <1>6 DEF RowAlone, Alone
<1>8. CallAlone(p)'
  BY <1>2, <1>3, <1>4, <1>5 DEF CallAlone, NewPlace, FilingLabels
<1> QED
  BY <1>4, <1>7, <1>8

\* What a client changes of what the disk claims has an id that was issued.
LEMMA ClientCovered ==
  ASSUME Typed, Guarded, Placed, NoCopies, Covered, NEW p \in Procs, ClientStep(p)
  PROVE  Covered'
<1> USE DEF Typed, TypeOK
<1>1. "copy" \notin touched /\ seq \in Nat /\ Ids \subseteq Nat
  BY StoreAssumption DEF NoCopies, IndexTypeOK, Ids
<1>2. /\ version' = version /\ rpc' = rpc
      /\ seq' \in {seq, seq + 1}
  BY ClientStepFrame
  DEF ClientStep, BeginOnBook, RewriteEpub, RenameBookDir, RenameBookFile, UpdateMeta,
      CommitEdit, RemoveBook, CommitDelete, BeginIngest, PlaceEpub, PlaceMeta, RecordIngest,
      AnnounceIngest, UndoIngest, MarkPending, Put, Erase, Cancel, GiveUp, LeavePending,
      indexVars, reindexVars
<1>3. AtWork(p) => book[p] \in Ids /\ book[p] <= seq
  BY <1>1 DEF AtWork, Guarded, Held, HeldBy, Issued, ClientOK, HeldLabels, FilingLabels, EditLabels,
              DeleteLabels
<1>4. ASSUME NEW d, d \in Walk', Current' \/ rpc' = "stamp"
      PROVE  d.id <= seq'
  <2>1. d \in Dirs /\ d.id \in Ids /\ d.id \in Nat
    BY <1>1, <1>4 DEF Walk, Dirs
  <2>a. seq' \in Nat /\ seq <= seq'
    BY <1>1, <1>2
  <2>2. CASE AtWork(p) /\ d.id = book[p]
    BY <1>1, <1>3, <2>1, <2>a, <2>2
  <2>3. CASE ~(AtWork(p) /\ d.id = book[p])
    <3>1. d \in Walk
      BY <1>1, <1>4, <2>1, <2>3, OtherBooks DEF Walk
    <3>2. d.id <= seq
      BY <1>2, <1>4, <3>1 DEF Covered, Current
    <3> QED
      BY <1>1, <2>1, <2>a, <3>2
  <2> QED
    BY <2>2, <2>3
<1> QED
  BY <1>4 DEF Covered

LEMMA OthersSingle ==
  ASSUME Typed, Guarded, Placed, Single, NoCopies, NEW p \in Procs, ClientStep(p)
  PROVE  /\ \A i \in Ids : i # book[p] \/ ~AtWork(p) => OneDir(i)' /\ RowAlone(i, index[i])'
         /\ \A q \in Procs \ {p} : CallAlone(q)'
<1> USE DEF Typed, TypeOK
<1>1. "copy" \notin touched
  BY DEF NoCopies
<1>2. ASSUME NEW i \in Ids, i # book[p] \/ ~AtWork(p)
      PROVE  /\ index'[i] = index[i] /\ OneDir(i)' /\ RowAlone(i, index[i])'
             /\ \A x : Sole(i, x) => Sole(i, x)'
             /\ \A x \in Dirs : x.id = i /\ Alone(i, x) => Alone(i, x)'
             /\ \A x \in Dirs : x.id = i => DirExists(x)' = DirExists(x)
  <2>1. /\ index'[i] = index[i]
        /\ \A d \in Dirs : d.id = i => epub'[d] = epub[d] /\ meta'[d] = meta[d]
    BY <1>1, <1>2, OtherBooks
  <2>2. OneDir(i) /\ RowAlone(i, index[i])
    BY DEF Single
  <2>3. index[i] # None => index[i].loc.dir \in Dirs /\ index[i].loc.dir.id = i
    BY <1>1 DEF Placed, Filed, IndexTypeOK, Rows, Locations
  <2>4. /\ OneDir(i)'
        /\ \A x : Sole(i, x) => Sole(i, x)'
        /\ \A x \in Dirs : x.id = i /\ Alone(i, x) => Alone(i, x)'
    BY <2>1, <2>2, SameFilesAlone
  <2>5. RowAlone(i, index[i])'
    BY <2>1, <2>2, <2>3, <2>4 DEF RowAlone
  <2> QED
    BY <2>1, <2>4, <2>5 DEF DirExists
<1>3. ASSUME NEW q \in Procs \ {p}
      PROVE  CallAlone(q)'
  <2>1. pc'[q] = pc[q] /\ call'[q] = call[q] /\ book'[q] = book[q] /\ was'[q] = was[q]
    BY OthersSame
  <2>2. CallAlone(q)
    BY DEF Single
  <2>3. CASE pc[q] \in FilingLabels
    <3>1. AtWork(q) /\ book[q] \in Ids
      BY <2>3 DEF AtWork, ClientOK, FilingLabels
    <3>2. PICK x : x = NewPlace(q).dir
      OBVIOUS
    <3>3. Sole(book[q], x)'
      BY <1>2, <2>1, <2>2, <2>3, <3>1, <3>2, Apart DEF CallAlone, Guarded
    <3> QED
      BY <2>1, <2>3, <3>2, <3>3 DEF CallAlone, NewPlace, FilingLabels
  <2>4. CASE pc[q] \in {"file", "meta", "put"}
    <3>1. pc[q] \in EditLabels /\ pc[q] \in HeldLabels /\ AtWork(q) /\ book[q] \in Ids
      BY <2>4 DEF AtWork, ClientOK, HeldLabels, EditLabels
    <3>2. PICK from \in Dirs, to \in Dirs :
            from = From(q).dir /\ to = To(q).dir /\ from.id = book[q] /\ to.id = book[q]
      BY <1>1, <3>1, OwnPlaces, EditPlaces
    <3>3. Alone(book[q], to) /\ (from # to => ~DirExists(from))
      BY <2>2, <2>4, <3>2 DEF CallAlone
    <3>4. Alone(book[q], to)' /\ (from # to => ~DirExists(from)')
      <4>1. book[q] # book[p] \/ ~AtWork(p)
        BY <3>1, Apart DEF Guarded
      <4>2. PICK j \in Ids : j = book[q]
        BY <3>1
      <4>3. Alone(j, to)' /\ (from # to => ~DirExists(from)')
        BY <1>2, <3>2, <3>3, <4>1, <4>2
      <4> QED
        BY <2>1, <4>2, <4>3
    <3>5. From(q)' = From(q) /\ To(q)' = To(q)
      BY <2>1 DEF From, To, NewBib
    <3> QED
      BY <2>1, <2>4, <3>2, <3>4, <3>5 DEF CallAlone, FilingLabels
  <2>5. CASE pc[q] \notin FilingLabels \union {"file", "meta", "put"}
    BY <2>1, <2>5 DEF CallAlone
  <2> QED
    BY <2>3, <2>4, <2>5
<1> QED
  BY <1>2, <1>3

\* A rebuild runs alone, so a client's step is none of its business.
LEMMA ClientFinds ==
  ASSUME Guarded, FoundAlone, NEW p \in Procs, ClientStep(p)
  PROVE  FoundAlone'
<1>1. pc[p] # "idle"
  BY DEF ClientStep, BeginOnBook, RewriteEpub, RenameBookDir, RenameBookFile, UpdateMeta,
         CommitEdit, RemoveBook, CommitDelete, BeginIngest, PlaceEpub, PlaceMeta, RecordIngest,
         AnnounceIngest, UndoIngest
<1>2. rpc \in {"idle", "wait"} /\ rpc' = rpc
  BY <1>1, ClientStepFrame DEF Guarded, Quiet, reindexVars
<1> QED
  BY <1>2 DEF FoundAlone

\* The id an ingest is issued is on no directory.
LEMMA AsideAlone ==
  ASSUME Typed, Guarded, Single, NoCopies, Opened, NEW p \in Procs, Aside(p)
  PROVE  CallAlone(p)'
<1> USE DEF Typed, TypeOK
<1>1. CASE pc'[p] \in {"idle", "rewrite", "dir", "remove"}
  BY <1>1 DEF CallAlone, FilingLabels
<1>2. CASE pc'[p] = "place" /\ seq < MaxId /\ book'[p] = seq + 1 /\ UNCHANGED storeVars
           /\ pc[p] # "idle"
  <2>1. Current
    BY <1>2 DEF Guarded, Quiet, Opened
  <2>2. seq \in Nat /\ \A d \in Walk : d.id \in Nat /\ d.id <= seq
    BY <2>1, StoreAssumption DEF Single, Covered, IndexTypeOK, Walk, Dirs, Ids
  <2>3. Walk' = Walk
    BY <1>2 DEF storeVars, Walk
  <2> QED
    BY <1>2, <2>2, <2>3 DEF CallAlone, Sole
<1>3. pc'[p] \in {"idle", "rewrite", "dir", "remove"}
      \/ (pc'[p] = "place" /\ seq < MaxId /\ book'[p] = seq + 1 /\ UNCHANGED storeVars
          /\ pc[p] # "idle")
  BY DEF Aside, BeginOnBook, BeginIngest, AnnounceIngest, FirstStep, Return, Goto, ClientTypeOK
<1> QED
  BY <1>1, <1>2, <1>3

LEMMA ClientSingle ==
  ASSUME Typed, Guarded, Placed, Single, Opened, NEW p \in Procs, ClientStep(p)
  PROVE  Single'
<1> SUFFICES ASSUME NoCopies'
             PROVE  (/\ \A i \in Ids : OneDir(i) /\ RowAlone(i, index[i])
                     /\ \A q \in Procs : CallAlone(q)
                     /\ FoundAlone
                     /\ Covered)'
  BY DEF Single
<1>1. NoCopies
  BY ClientStepFrame DEF NoCopies
<1>2. FoundAlone' /\ Covered'
  BY <1>1, ClientFinds, ClientCovered DEF Single
<1>3. CASE AtWork(p)
  <2>1. PICK i \in Ids : i = book[p]
    BY <1>3 DEF AtWork, Typed, ClientOK, HeldLabels, FilingLabels, EditLabels, DeleteLabels
  <2>2. OneDir(i)' /\ RowAlone(i, index[i])' /\ CallAlone(p)'
    <3>1. ~Aside(p)
      BY <1>3 DEF Aside, AtWork, BeginOnBook, BeginIngest, AnnounceIngest, HeldLabels,
                  FilingLabels, EditLabels, DeleteLabels
    <3> QED
      BY <1>1, <2>1, <3>1, EditSingle, DeleteSingle, IngestSingle DEF ClientStep, Aside
  <2> QED
    BY <1>1, <1>2, <2>1, <2>2, OthersSingle
<1>4. CASE ~AtWork(p)
  <2>1. CallAlone(p)'
    BY <1>1, <1>4, OnlyWorkersWrite, AsideAlone
  <2> QED
    BY <1>1, <1>2, <1>4, <2>1, OthersSingle
<1> QED
  BY <1>3, <1>4

LEMMA IdleAlone ==
  ASSUME \A p \in Procs : pc'[p] = "idle"
  PROVE  \A p \in Procs : CallAlone(p)'
BY DEF CallAlone, FilingLabels

\* A row keeps its directory alone where every directory of its book does.
LEMMA RowsAlone ==
  ASSUME NEW rows \in [Ids -> Rows \union {None}], Filed(rows),
         \A i \in Ids : RowAlone(i, rows[i]),
         \A i \in Ids, x \in Dirs : x.id = i /\ Alone(i, x) => Alone(i, x)'
  PROVE  \A i \in Ids : RowAlone(i, rows[i])'
BY DEF Filed, RowAlone, Rows, Locations

\* A scan finds the only directory of each book, and every id.
LEMMA ScanStoreAlone ==
  ASSUME Typed, Placed, Single, NoCopies, ScanStore, rpc' # "idle"
  PROVE  /\ rpc' = "move"
         /\ \A i \in Ids : RowAlone(i, found'[i])
         /\ \A d \in Walk : d.id <= top'
<1> USE DEF Typed, TypeOK
<1>1. PICK missed \in IF ScanErrors THEN SUBSET Walk ELSE {{}} :
        LET readable == {d \in Walk \ missed : Sound(d)} IN
        /\ found' = ScanOf(readable)
        /\ \A i \in Reserved : top' >= i
        /\ rpc' = "move"
  BY DEF ScanStore, ReindexFails, ReindexEnds
<1> DEFINE readable == {d \in Walk \ missed : Sound(d)}
<1>2. Labelled /\ \A i \in Ids : OneDir(i)
  BY DEF Placed, Single, NoCopies
<1>3. ASSUME NEW i \in Ids, found'[i] # None
      PROVE  Alone(i, found'[i].loc.dir)
  <2>1. PICK d \in readable : meta[d].id = i /\ found'[i] = ScannedRow(d)
    BY <1>1, <1>3 DEF ScanOf, OwnersOf
  <2>2. d \in Walk /\ d.id = i /\ found'[i].loc.dir = d
    BY <2>1, <1>2, WalkType DEF Sound, Labelled, ScannedRow, RowFor, LocationOf
  <2> QED
    BY <1>2, <2>2 DEF Alone, Sole, OneDir
<1>4. ASSUME NEW d \in Walk
      PROVE  d.id <= top'
  <2>1. ClaimedId(d) = d.id
    BY <1>2, WalkType DEF ClaimedId, Labelled
  <2>2. d.id \in Reserved
    BY <2>1 DEF Reserved
  <2>3. top' \in Nat /\ d.id \in Nat
    BY StoreAssumption, WalkType, ScanStoreTyped DEF ReindexTypeOK, Dirs, Ids
  <2> QED
    BY <1>1, <2>2, <2>3
<1> QED
  BY <1>1, <1>3, <1>4 DEF RowAlone

\* What a rebuild does to the files of one book.
LEMMA RenamesAlone ==
  ASSUME StoreTypeOK, NEW i \in Ids, \A j \in Ids : OneDir(j),
         \/ UNCHANGED storeVars
         \/ \E d \in Dirs, k \in Keys : d.id = i /\ epub[d] # None /\ RenameFile(d, k)
         \/ \E from, to \in Dirs : /\ from.id = i /\ to.id = i /\ Alone(i, from)
                                   /\ CanRenameDir(from, to) /\ RenameDir(from, to)
  PROVE  /\ \A j \in Ids : OneDir(j)'
         /\ \A j \in Ids, x \in Dirs : x.id = j /\ Alone(j, x) => Alone(j, x)'
         /\ \A e \in Walk' : \E d \in Walk : d.id = e.id
<1>1. CASE Walk' \subseteq Walk /\ \A x \in Dirs : DirExists(x)' => DirExists(x)
  BY <1>1, FewerAlone
<1>2. CASE UNCHANGED storeVars
  BY <1>1, <1>2, UnchangedFewer
<1>3. ASSUME NEW d \in Dirs, NEW k \in Keys, epub[d] # None, RenameFile(d, k)
      PROVE  Walk' \subseteq Walk /\ \A x \in Dirs : DirExists(x)' => DirExists(x)
  BY <1>3, RenameFileFewer
<1>4. ASSUME NEW from \in Dirs, NEW to \in Dirs, from.id = i, to.id = i, Alone(i, from),
             CanRenameDir(from, to), RenameDir(from, to)
      PROVE  /\ \A j \in Ids : OneDir(j)'
             /\ \A j \in Ids, x \in Dirs : x.id = j /\ Alone(j, x) => Alone(j, x)'
             /\ \A e \in Walk' : \E d \in Walk : d.id = e.id
  <2>1. ASSUME NEW j \in Ids \ {i}
        PROVE  /\ OneDir(j)'
               /\ \A x \in Dirs : x.id = j /\ Alone(j, x) => Alone(j, x)'
    <3>1. \A d \in Dirs : d.id = j => epub'[d] = epub[d] /\ meta'[d] = meta[d]
      BY <1>4 DEF StoreTypeOK, RenameDir, MoveTo
    <3> QED
      BY <3>1, SameFilesAlone
  <2>2. /\ OneDir(i)'
        /\ \A x \in Dirs : Alone(i, x) => Alone(i, x)'
    BY <1>4, RenameDirAlone
  <2>3. \A e \in Walk' : \E d \in Walk : d.id = e.id
    BY <1>4 DEF StoreTypeOK, RenameDir, MoveTo, Walk, CanRenameDir, DirExists
  <2> QED
    BY <2>1, <2>2, <2>3
<1> QED
  BY <1>1, <1>2, <1>3, <1>4

LEMMA MoveBookDirSingle ==
  ASSUME Typed, Placed, Single, NoCopies, NEW i \in Ids, MoveBookDir(i)
  PROVE  (/\ \A j \in Ids : OneDir(j) /\ RowAlone(j, index[j])
          /\ FoundAlone /\ Covered)'
<1> USE DEF Typed, TypeOK
<1>1. /\ "copy" \notin touched /\ i \in todo /\ rpc = "move"
      /\ UNCHANGED <<index, seq, version, found, top>>
  BY DEF NoCopies, MoveBookDir, Stays, indexVars
<1>2. PICK from \in Dirs, to \in Dirs :
        from = found[i].loc.dir /\ to = Home(i).dir /\ from.id = i /\ to.id = i
  BY <1>1, MovePlaces DEF Placed, Filed, Home, Layout, TodoOK
<1>3. Alone(i, from) /\ \A j \in Ids : OneDir(j) /\ RowAlone(j, index[j]) /\ RowAlone(j, found[j])
  BY <1>1, <1>2 DEF Single, FoundAlone, RowAlone, TodoOK
<1>4. UNCHANGED storeVars \/ (CanRenameDir(from, to) /\ RenameDir(from, to))
  BY <1>2 DEF MoveBookDir
<1>5. /\ \A j \in Ids : OneDir(j)'
      /\ \A j \in Ids, x \in Dirs : x.id = j /\ Alone(j, x) => Alone(j, x)'
      /\ \A e \in Walk' : \E d \in Walk : d.id = e.id
  BY <1>2, <1>3, <1>4, RenamesAlone
<1>6. \A j \in Ids : RowAlone(j, index[j])' /\ RowAlone(j, found[j])'
  <2>1. PICK a \in [Ids -> Rows \union {None}], b \in [Ids -> Rows \union {None}] :
          a = index /\ b = found
    BY DEF IndexTypeOK, ReindexTypeOK
  <2>2. \A j \in Ids : RowAlone(j, a[j])' /\ RowAlone(j, b[j])'
    BY <1>1, <1>3, <1>5, <2>1, RowsAlone DEF Placed
  <2> QED
    BY <1>1, <2>1, <2>2
<1>7. /\ rpc' \in {"move", "file"}
      /\ rpc' = "file" => mv' = i /\ (from = to \/ (CanRenameDir(from, to) /\ RenameDir(from, to)))
  BY <1>1, <1>2 DEF MoveBookDir, Stays
<1>8. rpc' = "file" => Alone(i, to)'
  BY <1>2, <1>3, <1>5, <1>7, RenameDirAlone DEF Alone
<1>9. FoundAlone'
  <2>1. \A d \in Walk' : d.id <= top'
    BY <1>1, <1>5 DEF Single, FoundAlone
  <2>2. rpc' = "file" => Alone(mv, Home(mv).dir)'
    BY <1>1, <1>2, <1>7, <1>8 DEF Home
  <2> QED
    BY <1>6, <2>1, <2>2 DEF FoundAlone
<1>10. Covered'
  BY <1>1, <1>5, <1>7 DEF Single, Covered, Current
<1> QED
  BY <1>5, <1>6, <1>9, <1>10

LEMMA MoveBookFileSingle ==
  ASSUME Typed, Placed, Single, NoCopies, MoveBookFile
  PROVE  (/\ \A j \in Ids : OneDir(j) /\ RowAlone(j, index[j])
          /\ FoundAlone /\ Covered)'
<1> USE DEF Typed, TypeOK
<1>1. /\ "copy" \notin touched /\ mv \in todo /\ mv \in Ids /\ rpc = "file" /\ rpc' = "move"
      /\ UNCHANGED <<index, seq, version, top>>
  BY MovePlaces DEF NoCopies, MoveBookFile, Stays, TodoOK, indexVars
<1>2. PICK i \in Ids, from \in Dirs, to \in Dirs :
        i = mv /\ from = found[mv].loc.dir /\ to = Home(mv).dir /\ from.id = i /\ to.id = i
  <2>1. /\ found[mv].loc.dir \in Dirs /\ Home(mv).dir \in Dirs
        /\ found[mv].loc.dir.id = mv /\ Home(mv).dir.id = mv
    BY <1>1, MovePlaces DEF Placed, Filed, Home, Layout, TodoOK
  <2> QED
    BY <1>1, <2>1
<1>3. Alone(i, to) /\ \A j \in Ids : OneDir(j) /\ RowAlone(j, index[j]) /\ RowAlone(j, found[j])
  BY <1>1, <1>2 DEF Single, FoundAlone
<1>4. \/ UNCHANGED storeVars
      \/ \E k \in Keys : epub[to] # None /\ RenameFile(to, k)
      \/ CanRenameDir(to, from) /\ RenameDir(to, from)
  BY <1>1, <1>2, MovePlaces DEF MoveBookFile, RenamedBack, FileAt
<1>5. /\ \A j \in Ids : OneDir(j)'
      /\ \A j \in Ids, x \in Dirs : x.id = j /\ Alone(j, x) => Alone(j, x)'
      /\ \A e \in Walk' : \E d \in Walk : d.id = e.id
  BY <1>2, <1>3, <1>4, RenamesAlone
<1>6. \A j \in Ids : RowAlone(j, index[j])' /\ RowAlone(j, found[j])'
  <2>1. PICK a \in [Ids -> Rows \union {None}], b \in [Ids -> Rows \union {None}] :
          a = index /\ b = found
    BY DEF IndexTypeOK, ReindexTypeOK
  <2>2. \A j \in Ids : RowAlone(j, a[j])' /\ RowAlone(j, b[j])'
    BY <1>1, <1>3, <1>5, <2>1, RowsAlone DEF Placed
  <2>3. \A j \in Ids : RowAlone(j, index[j])'
    BY <1>1, <2>1, <2>2
  <2>4. CASE found' = found
    BY <2>1, <2>2, <2>3, <2>4
  <2>5. CASE found' = [found EXCEPT ![mv].loc = Home(mv)]
    <3>1. \A j \in Ids : j # i => found'[j] = b[j]
      BY <1>2, <2>1, <2>5 DEF ReindexTypeOK
    <3>2. found'[i].loc.dir = to /\ Alone(i, to)'
      BY <1>2, <1>3, <1>5, <2>5 DEF ReindexTypeOK
    <3> QED
      BY <2>2, <2>3, <3>1, <3>2 DEF RowAlone
  <2> QED
    BY <2>4, <2>5 DEF MoveBookFile, Stays
<1>7. FoundAlone'
  BY <1>1, <1>5, <1>6 DEF Single, FoundAlone
<1>8. Covered'
  BY <1>1, <1>5 DEF Single, Covered, Current
<1> QED
  BY <1>5, <1>6, <1>7, <1>8

\* The rest of a rebuild leaves the files alone.
LEMMA RebuildingSingle ==
  ASSUME Typed, Placed, Single, NoCopies, Opened,
         \/ AcquireReindex \/ ScanStore \/ BeginRebuild \/ RebuildIndex \/ FinishReindex
         \/ RequestReindex \/ OpenLibrary \/ Crash \/ Upgrade \/ DiscardIndex
  PROVE  (/\ \A j \in Ids : OneDir(j) /\ RowAlone(j, index[j])
          /\ FoundAlone /\ Covered)'
<1> USE DEF Typed, TypeOK
<1>1. UNCHANGED storeVars
  BY DEF AcquireReindex, ScanStore, BeginRebuild, RebuildIndex, FinishReindex, RequestReindex,
         OpenLibrary, Crash, Upgrade, DiscardIndex
<1>2. /\ Walk' = Walk
      /\ \A j, x : OneDir(j)' = OneDir(j) /\ Alone(j, x)' = Alone(j, x)
  BY <1>1 DEF storeVars, Walk, OneDir, Alone, Sole, DirExists
<1>3. \A j \in Ids : OneDir(j) /\ RowAlone(j, index[j])
  BY DEF Single
<1>4. \A row, j : RowAlone(j, row)' = RowAlone(j, row)
  BY <1>2 DEF RowAlone
<1>5. ASSUME \A j \in Ids : RowAlone(j, index'[j]), FoundAlone', Covered'
      PROVE  (/\ \A j \in Ids : OneDir(j) /\ RowAlone(j, index[j])
              /\ FoundAlone /\ Covered)'
  BY <1>2, <1>3, <1>5 DEF RowAlone
<1>6. CASE AcquireReindex \/ RequestReindex \/ Upgrade
  <2>1. UNCHANGED <<index, seq>>
    BY <1>6 DEF AcquireReindex, RequestReindex, Upgrade, indexVars
  <2>2. rpc' \in {"idle", "wait", "scan"} /\ version' \in {version, "old"}
    BY <1>6 DEF AcquireReindex, RequestReindex, Upgrade, Opened, indexVars, reindexVars
  <2>3. FoundAlone' /\ Covered'
    BY <1>2, <2>1, <2>2 DEF Single, FoundAlone, Covered, Current
  <2> QED
    BY <1>3, <1>5, <2>1, <2>3
<1>7. CASE ScanStore
  <2>1. UNCHANGED <<index, seq, version>> /\ rpc = "scan"
    BY <1>7 DEF ScanStore, indexVars
  <2>2. CASE rpc' = "idle"
    BY <1>2, <1>3, <1>5, <2>1, <2>2 DEF Single, FoundAlone, Covered, Current
  <2>3. CASE rpc' # "idle"
    <3>1. /\ rpc' = "move"
          /\ \A i \in Ids : RowAlone(i, found'[i])
          /\ \A d \in Walk : d.id <= top'
      BY <1>7, <2>3, ScanStoreAlone
    <3>2. FoundAlone'
      BY <1>2, <3>1 DEF FoundAlone, RowAlone
    <3>3. Covered'
      BY <1>2, <2>1, <3>1 DEF Single, Covered, Current
    <3> QED
      BY <1>3, <1>5, <2>1, <3>2, <3>3
  <2> QED
    BY <2>2, <2>3
<1>8. CASE BeginRebuild
  <2>1. CASE PrepareRebuild /\ rpc' = "rebuild" /\ rpc = "move" /\ UNCHANGED <<found, top, mv>>
    <3>1. /\ version' = version
          /\ UNCHANGED <<index, seq>> \/ (index' = [j \in Ids |-> None] /\ ~Current)
      BY <2>1 DEF PrepareRebuild, Emptied
    <3>2. FoundAlone' /\ Covered'
      BY <1>2, <2>1, <3>1 DEF Single, FoundAlone, Covered, Current, RowAlone
    <3> QED
      BY <1>3, <1>5, <3>1, <3>2 DEF RowAlone
  <2>2. CASE ReindexFails /\ (UNCHANGED indexVars \/ DropTables)
    <3>1. /\ version' = version /\ rpc' = "idle"
          /\ UNCHANGED <<index, seq>> \/ (index' = [j \in Ids |-> None] /\ ~Current)
      BY <2>2 DEF ReindexFails, ReindexEnds, DropTables, Emptied, indexVars
    <3>2. FoundAlone' /\ Covered'
      BY <1>2, <3>1 DEF Single, FoundAlone, Covered, Current
    <3> QED
      BY <1>3, <1>5, <3>1, <3>2 DEF RowAlone
  <2> QED
    BY <1>8, <2>1, <2>2 DEF BeginRebuild
<1>9. CASE RebuildIndex
  <2>1. CASE ReindexFails /\ UNCHANGED indexVars
    BY <1>2, <1>3, <1>5, <2>1
    DEF ReindexFails, ReindexEnds, Single, FoundAlone, Covered, Current, indexVars
  <2>2. CASE Rebuild(found, passed, top) /\ rpc' = "stamp" /\ rpc = "rebuild"
    <3>1. index' = found /\ \A j \in Ids : RowAlone(j, found[j])
      BY <2>2 DEF Rebuild, Single, FoundAlone
    <3>2. \A d \in Walk : d.id \in Nat /\ d.id <= top
      BY <2>2, StoreAssumption DEF Single, FoundAlone, Walk, Dirs, Ids
    <3>3. top \in Nat /\ seq \in Nat /\ top <= seq' /\ seq' \in Nat
      BY <2>2, StoreAssumption DEF Rebuild, IndexTypeOK, ReindexTypeOK
    <3>4. Covered'
      BY <1>2, <3>2, <3>3 DEF Covered
    <3> QED
      BY <1>5, <2>2, <3>1, <3>4 DEF FoundAlone
  <2> QED
    BY <1>9, <2>1, <2>2 DEF RebuildIndex
<1>10. CASE FinishReindex
  <2>1. rpc = "stamp" /\ rpc' = "idle" /\ UNCHANGED <<index, seq>>
    BY <1>10 DEF FinishReindex, StampVersion, ReindexFails, ReindexEnds, indexVars
  <2>2. FoundAlone' /\ Covered'
    BY <1>2, <2>1 DEF Single, FoundAlone, Covered
  <2> QED
    BY <1>3, <1>5, <2>1, <2>2
<1>11. CASE OpenLibrary
  <2>1. /\ UNCHANGED <<index, seq, version>>
        /\ UNCHANGED <<rpc, found, top, mv>> \/ rpc' = "scan"
    BY <1>11 DEF OpenLibrary, ApplySchema, indexVars, reindexVars
  <2>2. FoundAlone' /\ Covered'
    BY <1>2, <2>1 DEF Single, FoundAlone, Covered, Current, RowAlone, Home
  <2> QED
    BY <1>3, <1>5, <2>1, <2>2
<1>12. CASE Crash
  <2>1. UNCHANGED <<index, seq, version>> /\ rpc' = "idle"
    BY <1>12 DEF Crash, ReindexEnds
  <2>2. FoundAlone' /\ Covered'
    BY <1>2, <2>1 DEF Single, FoundAlone, Covered, Current
  <2> QED
    BY <1>3, <1>5, <2>1, <2>2
<1>13. CASE DiscardIndex
  <2>1. index' = [j \in Ids |-> None] /\ version' = "unset" /\ rpc' = "idle"
    BY <1>13 DEF DiscardIndex, Emptied, Opened, reindexVars
  <2>2. FoundAlone' /\ Covered'
    BY <2>1 DEF FoundAlone, Covered, Current
  <2> QED
    BY <1>3, <1>5, <2>1, <2>2 DEF RowAlone
<1> QED
  BY <1>6, <1>7, <1>8, <1>9, <1>10, <1>11, <1>12, <1>13

LEMMA HandFewer ==
  ASSUME Typed, NEW kind, kind \notin {"copy", "restore"}, HandEdit(kind)
  PROVE  Walk' \subseteq Walk /\ \A x \in Dirs : DirExists(x)' => DirExists(x)
<1> USE DEF Typed, TypeOK
<1>1. ASSUME NEW d \in Walk, NEW k, WriteEpub(LocationOf(d), k)
      PROVE  Walk' \subseteq Walk /\ \A x \in Dirs : DirExists(x)' => DirExists(x)
  BY <1>1 DEF WriteEpub, LocationOf, Walk, DirExists, StoreTypeOK
<1>2. ASSUME NEW d \in Walk, WriteMeta(LocationOf(d), Unreadable)
      PROVE  Walk' \subseteq Walk /\ \A x \in Dirs : DirExists(x)' => DirExists(x)
  BY <1>2 DEF WriteMeta, LocationOf, Walk, DirExists, StoreTypeOK
<1>3. ASSUME NEW d \in Walk, RemoveOne(d)
      PROVE  Walk' \subseteq Walk /\ \A x \in Dirs : DirExists(x)' => DirExists(x)
  BY <1>3, WalkType, RemoveOneFewer
<1> QED
  BY <1>1, <1>2, <1>3 DEF HandEdit

LEMMA HandSingle ==
  ASSUME Typed, Single, NEW kind, HandEdit(kind)
  PROVE  Single'
<1> SUFFICES ASSUME NoCopies'
             PROVE  (/\ \A i \in Ids : OneDir(i) /\ RowAlone(i, index[i])
                     /\ \A p \in Procs : CallAlone(p)
                     /\ FoundAlone
                     /\ Covered)'
  BY DEF Single
<1>1. NoCopies /\ kind \notin {"copy", "restore"}
  BY DEF NoCopies, HandEdit
<1>2. /\ rpc' = "idle" /\ \A p \in Procs : pc'[p] = "idle"
      /\ UNCHANGED <<index, seq, version>>
  BY DEF HandEdit, reindexVars, clientVars, indexVars
<1>3. Walk' \subseteq Walk /\ \A x \in Dirs : DirExists(x)' => DirExists(x)
  BY <1>1, HandFewer
<1>4. ASSUME NEW i \in Ids
      PROVE  OneDir(i)' /\ RowAlone(i, index[i])'
  <2>1. OneDir(i) /\ RowAlone(i, index[i])
    BY <1>1 DEF Single
  <2>2. index[i] # None => index[i].loc.dir \in Dirs
    BY DEF Typed, TypeOK, IndexTypeOK, Rows, Locations
  <2> QED
    BY <1>2, <1>3, <2>1, <2>2, FewerAlone DEF RowAlone
<1>5. FoundAlone' /\ Covered'
  BY <1>1, <1>2, <1>3 DEF Single, FoundAlone, Covered, Current
<1> QED
  BY <1>2, <1>4, <1>5, IdleAlone

LEMMA CallSingle ==
  ASSUME Typed, Single, NEW p \in Procs, NEW c \in Requests, Call(p, c)
  PROVE  Single'
<1>1. \A q \in Procs : CallAlone(q) => CallAlone(q)'
  <2>1. ASSUME NEW q \in Procs \ {p}
        PROVE  /\ pc'[q] = pc[q] /\ book'[q] = book[q]
               /\ From(q)' = From(q) /\ To(q)' = To(q) /\ NewPlace(q)' = NewPlace(q)
    BY DEF Call, Goto, From, To, NewBib, NewPlace, Typed, TypeOK, ClientTypeOK
  <2>2. pc'[p] \in {"ingest", "book"}
    BY DEF Call, Goto, Typed, TypeOK, ClientTypeOK
  <2>3. UNCHANGED <<epub, meta>>
    BY DEF Call, storeVars
  <2> QED
    BY <2>1, <2>2, <2>3 DEF CallAlone, FilingLabels, Alone, Sole, DirExists, Walk
<1>2. UNCHANGED <<epub, meta, index, seq, version, touched, reindexVars>>
  BY DEF Call, storeVars, indexVars
<1> QED
  BY <1>1, <1>2
  DEF Single, NoCopies, FoundAlone, Covered, Current, RowAlone, OneDir, Alone, Sole, DirExists, Walk,
      Home, reindexVars

LEMMA NextSingle ==
  ASSUME Typed, Guarded, Placed, Single, Opened, [Next]_vars
  PROVE  Single'
<1>1. ASSUME NEW p \in Procs, ClientStep(p)
      PROVE  Single'
  BY <1>1, ClientSingle
<1>2. CASE \/ ReindexStep \/ RequestReindex \/ OpenLibrary \/ Crash \/ Upgrade \/ DiscardIndex
  <2> SUFFICES ASSUME NoCopies'
               PROVE  (/\ \A i \in Ids : OneDir(i) /\ RowAlone(i, index[i])
                       /\ \A p \in Procs : CallAlone(p)
                       /\ FoundAlone
                       /\ Covered)'
    BY DEF Single
  <2>1. touched' = touched
    BY <1>2
    DEF ReindexStep, AcquireReindex, ScanStore, MoveBookDir, MoveBookFile, BeginRebuild,
        RebuildIndex, FinishReindex, RequestReindex, OpenLibrary, Crash, Upgrade, DiscardIndex
  <2>2. NoCopies
    BY <2>1 DEF NoCopies
  <2>3. (/\ \A j \in Ids : OneDir(j) /\ RowAlone(j, index[j])
         /\ FoundAlone /\ Covered)'
    BY <1>2, <2>2, RebuildingSingle, MoveBookDirSingle, MoveBookFileSingle DEF ReindexStep
  <2>4. \A p \in Procs : CallAlone(p)'
    <3>1. CASE RequestReindex
      <4>1. UNCHANGED <<epub, meta, clientVars>>
        BY <3>1 DEF RequestReindex, storeVars
      <4> QED
        BY <2>2, <4>1
        DEF Single, CallAlone, Alone, Sole, DirExists, Walk, From, To, NewBib, NewPlace, clientVars
    <3>2. CASE ~RequestReindex
      <4>1. \A p \in Procs : pc'[p] = "idle"
        BY <1>2, <3>2
        DEF ReindexStep, AcquireReindex, Drained, ScanStore, MoveBookDir, MoveBookFile,
            BeginRebuild, RebuildIndex, FinishReindex, OpenLibrary, Crash, Upgrade, DiscardIndex,
            Guarded, Quiet, clientVars
      <4> QED
        BY <4>1, IdleAlone
    <3> QED
      BY <3>1, <3>2
  <2> QED
    BY <2>3, <2>4
<1>3. ASSUME NEW p \in Procs, NEW c \in Requests, Call(p, c)
      PROVE  Single'
  BY <1>3, CallSingle
<1>4. ASSUME NEW kind \in HandEdits, HandEdit(kind)
      PROVE  Single'
  BY <1>4, HandSingle
<1>5. CASE UNCHANGED vars
  BY <1>5
  DEF vars, storeVars, indexVars, reindexVars, clientVars, Single, NoCopies, FoundAlone, Covered,
      Current, RowAlone, OneDir, Alone, Sole, DirExists, Walk, Home, CallAlone, From, To, NewBib,
      NewPlace
<1> QED
  BY <1>1, <1>2, <1>3, <1>4, <1>5 DEF Next

LEMMA InitSingle ==
  ASSUME Init
  PROVE  Single /\ Opened
BY DEF Init, StoreInit, IndexInit, ReindexIdle, ClientsIdle, Single, FoundAlone, Covered, RowAlone,
       OneDir, Walk, CallAlone, FilingLabels, Opened

LEMMA AlwaysSingle == Spec => [](Single /\ Opened)
<1> QED
  BY InitSingle, AlwaysTyped, AlwaysGuarded, AlwaysPlaced, NextSingle, OpenedKept, PTL DEF Spec

\* No two directories that a rebuild would read ever claim one id, whatever fails,
\* dies or is refused, so its fatal duplicate id error takes a user's copy or backup
\* (NextID, reserveID, renameDir, DECISIONS 14).
THEOREM NoDuplicateIds == Spec => []IdsUnique
<1>1. Typed /\ Placed /\ Single => IdsUnique
  <2> SUFFICES ASSUME Typed, Placed, Single, NoCopies,
                      NEW d \in Walk, NEW e \in Walk, meta[d] # Unreadable, meta[e] # Unreadable,
                      meta[d].id = meta[e].id
               PROVE  d = e
    BY DEF IdsUnique, DuplicateIds, NoCopies
  <2>1. d \in Dirs /\ e \in Dirs /\ meta[d].id = d.id /\ meta[e].id = e.id /\ d.id \in Ids
    BY WalkType DEF Placed, Labelled, NoCopies, Typed, TypeOK, Dirs
  <2> QED
    BY <2>1 DEF Single, OneDir
<1> QED
  BY <1>1, AlwaysTyped, AlwaysPlaced, AlwaysSingle, PTL

-----------------------------------------------------------------------------
(* Every row tells the truth, or is in doubt. *)

\* What a file of directory d says, where it is there, is k and v.
Says(d, k, v) ==
  /\ epub[d] # None => epub[d].bib = k
  /\ meta[d] # None => meta[d].val = v

\* So it is for a directory of book i that the walk reads, and for the directory x.
Honest(i, x, k, v) == \A d \in Dirs : d.id = i /\ (d \in Walk \/ d = x) => Says(d, k, v)

HonestRow(i, row) == row # None => Honest(i, row.loc.dir, row.bib, row.val)

AllSound == \A d \in Dirs : meta[d] # Unreadable /\ (epub[d] # None => epub[d].bib # Unreadable)

\* No call is at work on the book, and none has left a pending row for it.
Settled(i) == i \notin leftover /\ \A p \in Procs : AtWork(p) => book[p] # i

\* What the files of a call's book say, so far as the call has got.  A book that
\* an earlier call left half done may say anything.
CallHonest(p) ==
  /\ pc[p] \in EditLabels /\ book[p] \notin leftover =>
       /\ pc[p] = "rewrite" => HonestRow(book[p], was[p])
       /\ pc[p] = "dir" => Honest(book[p], From(p).dir, NewBib(p), was[p].val)
       /\ pc[p] \in {"file", "meta"} => Honest(book[p], To(p).dir, NewBib(p), was[p].val)
       /\ pc[p] = "put" => Honest(book[p], To(p).dir, NewBib(p), NewVal(p))
  /\ LET d == NewPlace(p).dir IN
     /\ pc[p] \in {"sidecar", "record"} => epub[d] # None /\ epub[d].bib = call[p].bib
     /\ pc[p] = "record" => meta[d] # None /\ meta[d].val = DefaultVal

\* The epub that row i names is where the row says it is, in a directory the walk
\* reads.
InPlace(row) == row.loc.dir \in Walk /\ LocationOf(row.loc.dir) = row.loc

\* A rebuild has found the truth about every book.  It misplaces one only by a late
\* error, and the one whose directory it has just renamed is at its new home.
FoundHonest ==
  /\ rpc \in {"move", "file", "rebuild"} =>
       /\ \A i \in Ids : HonestRow(i, found[i])
       /\ \A d \in Walk : found[d.id] # None
       /\ \A i \in Ids : found[i] # None /\ (i \in todo \/ ~LateErrors) /\ ~(rpc = "file" /\ i = mv)
                           => InPlace(found[i])
  /\ rpc = "file" =>
       LET from == found[mv].loc
           home == Home(mv).dir IN
       /\ home \in Walk /\ epub[home].name = from.name
       /\ from.dir = home \/ ~DirExists(from.dir)

Truthful ==
  /\ AllSound /\ skipped = {} /\ passed = {}
  /\ \A i \in Ids : Settled(i) => HonestRow(i, index[i])
  /\ \A p \in Procs : CallHonest(p)
  /\ FoundHonest
  /\ rpc = "stamp" /\ ~LateErrors => Mirrors

-----------------------------------------------------------------------------
(* What the calls on the files make of that. *)

LEMMA FilesSound ==
  ASSUME StoreTypeOK, AllSound, NEW i, KeepsFiles(i) \/ RemovesFile(i)
  PROVE  AllSound'
<1> USE StoreAssumption
<1>1. CASE UNCHANGED storeVars
  BY <1>1 DEF storeVars, AllSound
<1>2. ASSUME NEW loc \in Locations, NEW k \in Keys, WriteEpub(loc, k)
      PROVE  AllSound'
  BY <1>2 DEF WriteEpub, AllSound, StoreTypeOK
<1>3. ASSUME NEW loc \in Locations, NEW v \in Vals, loc.dir.id = i,
             WriteMeta(loc, [id |-> i, val |-> v])
      PROVE  AllSound'
  <2>1. [id |-> i, val |-> v] \in MetaFiles
    BY <1>3 DEF Locations, Dirs, MetaFiles
  <2> QED
    BY <1>3, <2>1 DEF WriteMeta, AllSound, StoreTypeOK
<1>4. ASSUME NEW from \in Dirs, NEW to \in Dirs, RenameDir(from, to)
      PROVE  AllSound'
  BY <1>4 DEF RenameDir, MoveTo, AllSound, StoreTypeOK
<1>5. ASSUME NEW d \in Dirs, NEW k \in Keys, epub[d] # None, RenameFile(d, k)
      PROVE  AllSound'
  BY <1>5 DEF RenameFile, AllSound, StoreTypeOK
<1>6. CASE RemovesFile(i)
  BY <1>6 DEF RemovesFile, RemoveOne, AllSound, StoreTypeOK
<1> QED
  BY <1>1, <1>2, <1>3, <1>4, <1>5, <1>6 DEF KeepsFiles

LEMMA SameHonest ==
  ASSUME NEW i, \A d \in Dirs : d.id = i => epub'[d] = epub[d] /\ meta'[d] = meta[d]
  PROVE  \A x, k, v : Honest(i, x, k, v) => Honest(i, x, k, v)'
BY DEF Honest, Says, Walk

LEMMA FewerHonest ==
  ASSUME \A d \in Dirs : /\ epub'[d] \in {epub[d], None}
                         /\ meta'[d] \in {meta[d], None}
  PROVE  \A i, x, k, v : Honest(i, x, k, v) => Honest(i, x, k, v)'
BY DEF Honest, Says, Walk

LEMMA RemoveOneHonest ==
  ASSUME StoreTypeOK, NEW d \in Dirs, RemoveOne(d)
  PROVE  \A i, x, k, v : Honest(i, x, k, v) => Honest(i, x, k, v)'
<1>1. \A e \in Dirs : epub'[e] \in {epub[e], None} /\ meta'[e] \in {meta[e], None}
  BY DEF RemoveOne, StoreTypeOK
<1> QED
  BY <1>1, FewerHonest

LEMMA RenameFileHonest ==
  ASSUME StoreTypeOK, NEW d \in Dirs, NEW name \in Keys, epub[d] # None, RenameFile(d, name)
  PROVE  \A i, x, k, v : Honest(i, x, k, v) => Honest(i, x, k, v)'
<1>1. /\ \A e \in Dirs : meta'[e] = meta[e] /\ (epub'[e] # None => epub[e] # None)
      /\ \A e \in Dirs : epub[e] # None => epub'[e].bib = epub[e].bib
  BY DEF RenameFile, StoreTypeOK
<1> QED
  BY <1>1 DEF Honest, Says, Walk

\* A directory keeps its truth as it is renamed.
LEMMA RenameDirHonest ==
  ASSUME StoreTypeOK, NEW from \in Dirs, NEW to \in Dirs, NEW i, from.id = i, to.id = i,
         CanRenameDir(from, to), RenameDir(from, to)
  PROVE  \A x, k, v : Honest(i, x, k, v) /\ (from \in Walk \/ from = x)
                        => Honest(i, x, k, v)' /\ Honest(i, to, k, v)'
<1>1. /\ from # to
      /\ \A d \in Dirs \ {from, to} : epub'[d] = epub[d] /\ meta'[d] = meta[d]
      /\ epub'[from] = None /\ meta'[from] = None
      /\ epub'[to] = epub[from] /\ meta'[to] = meta[from]
  BY DEF StoreTypeOK, RenameDir, MoveTo, CanRenameDir, DirExists
<1> SUFFICES ASSUME NEW x, NEW k, NEW v, Honest(i, x, k, v), from \in Walk \/ from = x,
                    NEW d \in Dirs, d.id = i, d \in Walk' \/ d = x \/ d = to
             PROVE  Says(d, k, v)'
  BY DEF Honest
<1>2. CASE d = from
  BY <1>1, <1>2 DEF Says
<1>3. CASE d = to
  BY <1>1, <1>3 DEF Says, Honest
<1>4. CASE d \notin {from, to}
  BY <1>1, <1>4 DEF Says, Honest, Walk
<1> QED
  BY <1>2, <1>3, <1>4

\* A book of one directory says what has just been written there.
LEMMA WriteHonest ==
  ASSUME StoreTypeOK, NEW loc \in Locations, NEW i, Sole(i, loc.dir), NEW k, NEW v,
         \/ /\ WriteEpub(loc, k)
            /\ meta[loc.dir] # None => meta[loc.dir].val = v
         \/ /\ WriteMeta(loc, [id |-> i, val |-> v])
            /\ epub[loc.dir] # None => epub[loc.dir].bib = k
  PROVE  Honest(i, loc.dir, k, v)'
<1> SUFFICES ASSUME NEW d \in Dirs, d.id = i, d \in Walk' \/ d = loc.dir
             PROVE  Says(d, k, v)'
  BY DEF Honest
<1>1. d = loc.dir
  BY WriteSole DEF Sole, WriteEpub, WriteMeta, StoreTypeOK, Locations, Walk
<1> QED
  BY <1>1 DEF Says, WriteEpub, WriteMeta, StoreTypeOK, Locations

-----------------------------------------------------------------------------
(* One lemma for each action that can disturb it. *)

\* An edit says of its book what it has done so far.
LEMMA EditTruthful ==
  ASSUME Typed, Guarded, Placed, Single, NoCopies, NEW p \in Procs,
         \/ RewriteEpub(p) \/ RenameBookDir(p) \/ RenameBookFile(p) \/ UpdateMeta(p)
         \/ CommitEdit(p),
         NEW i, i = book[p], CallHonest(p)
  PROVE  CallHonest(p)' /\ (Settled(i)' => HonestRow(i, index[i])')
<1> USE DEF Typed, TypeOK
<1>1. /\ pc[p] \in EditLabels /\ pc[p] \in HeldLabels
      /\ "copy" \notin touched
  BY DEF EditLabels, HeldLabels, RewriteEpub, RenameBookDir, RenameBookFile, UpdateMeta,
         CommitEdit, NoCopies
<1>2. /\ From(p) \in Locations /\ From(p).dir \in Dirs /\ From(p).dir.id = i
      /\ To(p) \in Locations /\ To(p).dir \in Dirs /\ To(p).dir.id = i
      /\ To(p).name \in Keys /\ NewBib(p) \in Keys /\ i \in Ids
  BY <1>1, OwnPlaces, EditPlaces
<1>3. PICK from, to, k, v, w, row :
        /\ from \in Dirs /\ to \in Dirs /\ k \in Keys
        /\ from = From(p).dir /\ to = To(p).dir /\ k = NewBib(p)
        /\ v = was[p].val /\ w = NewVal(p) /\ row = index[i]
  BY <1>2
<1>4. /\ RowAlone(i, row) /\ CallAlone(p) /\ row = was[p] /\ row # None /\ row.loc = From(p)
  BY <1>1, <1>2, <1>3 DEF Single, Guarded, Held, HeldBy, From
<1>5. ASSUME GiveUp(p)
      PROVE  CallHonest(p)' /\ ~Settled(i)'
  BY <1>5 DEF GiveUp, LeavePending, Return, Goto, CallHonest, Settled, EditLabels, ClientTypeOK
<1>6. ASSUME NEW l \in EditLabels, Step(p, l), UNCHANGED indexVars
      PROVE  /\ ~Settled(i)' /\ pc'[p] = l /\ book'[p] = i
             /\ From(p)' = From(p) /\ To(p)' = To(p) /\ NewBib(p)' = k /\ NewVal(p)' = w
             /\ was'[p].val = v /\ leftover' = leftover
  BY <1>3, <1>6 DEF Step, Goto, From, To, NewBib, NewVal, ClientTypeOK, Settled, AtWork, HeldLabels,
                    indexVars
<1>7. CASE RewriteEpub(p)
  <2>1. i \notin leftover => Honest(i, from, row.bib, v)
    BY <1>1, <1>3, <1>4, <1>7 DEF CallHonest, HonestRow, RewriteEpub
  <2>2. CASE CanRewrite(p) /\ WriteEpub(From(p), NewBib(p)) /\ Step(p, "dir") /\ UNCHANGED indexVars
    <3>1. DirExists(from) /\ Sole(i, from)
      BY <1>3, <1>4, <2>2 DEF CanRewrite, FileAt, DirExists, RowAlone, Alone
    <3>2. i \notin leftover /\ meta[from] # None => meta[from].val = v
      BY <1>2, <1>3, <2>1 DEF Honest, Says
    <3>3. i \notin leftover => Honest(i, from, k, v)'
      BY <1>2, <1>3, <2>2, <3>1, <3>2, WriteHonest
    <3> QED
      BY <1>3, <1>6, <2>2, <3>3 DEF CallHonest, EditLabels
  <2>3. CASE Cancel(p) /\ Return(p) /\ UNCHANGED storeVars
    <3>1. CallHonest(p)'
      BY <2>3 DEF Return, Goto, CallHonest, EditLabels, ClientTypeOK
    <3>2. index' = index /\ leftover' = leftover
      BY <2>3 DEF Cancel
    <3>3. Settled(i)' => HonestRow(i, row)'
      BY <1>3, <1>4, <2>1, <2>3, <3>2, SameHonest DEF Settled, HonestRow, storeVars
    <3> QED
      BY <1>3, <3>1, <3>2, <3>3
  <2> QED
    BY <1>5, <1>7, <2>2, <2>3 DEF RewriteEpub
<1>8. CASE RenameBookDir(p)
  <2>1. i \notin leftover => Honest(i, from, k, v)
    BY <1>1, <1>3, <1>8 DEF CallHonest, RenameBookDir
  <2>2. CASE from = to /\ Step(p, "file") /\ UNCHANGED <<storeVars, indexVars>>
    <3>1. i \notin leftover => Honest(i, to, k, v)'
      BY <2>1, <2>2, SameHonest DEF storeVars
    <3> QED
      BY <1>3, <1>6, <2>2, <3>1 DEF CallHonest, EditLabels
  <2>3. CASE CanRenameDir(from, to) /\ RenameDir(from, to) /\ Step(p, "file") /\ UNCHANGED indexVars
    <3>1. i \notin leftover => Honest(i, to, k, v)'
      BY <1>2, <1>3, <2>1, <2>3, RenameDirHonest
    <3> QED
      BY <1>3, <1>6, <2>3, <3>1 DEF CallHonest, EditLabels
  <2> QED
    BY <1>3, <1>5, <1>8, <2>2, <2>3 DEF RenameBookDir
<1>9. CASE RenameBookFile(p)
  <2>1. i \notin leftover => Honest(i, to, k, v)
    BY <1>1, <1>3, <1>9 DEF CallHonest, RenameBookFile
  <2>2. CASE Step(p, "meta") /\ UNCHANGED <<storeVars, indexVars>>
    <3>1. i \notin leftover => Honest(i, to, k, v)'
      BY <2>1, <2>2, SameHonest DEF storeVars
    <3> QED
      BY <1>3, <1>6, <2>2, <3>1 DEF CallHonest, EditLabels
  <2>3. CASE epub[to] # None /\ RenameFile(to, To(p).name) /\ Step(p, "meta") /\ UNCHANGED indexVars
    <3>1. to \in Dirs /\ \E name \in Keys : RenameFile(to, name)
      BY <1>2, <1>3, <2>3
    <3>2. i \notin leftover => Honest(i, to, k, v)'
      BY <2>1, <2>3, <3>1, RenameFileHonest
    <3> QED
      BY <1>3, <1>6, <2>3, <3>2 DEF CallHonest, EditLabels
  <2> QED
    BY <1>3, <1>5, <1>9, <2>2, <2>3 DEF RenameBookFile, FileAt
<1>10. CASE UpdateMeta(p)
  <2>1. i \notin leftover => Honest(i, to, k, v)
    BY <1>1, <1>3, <1>10 DEF CallHonest, UpdateMeta
  <2>2. CASE DirExists(to) /\ WriteMeta(To(p), [id |-> i, val |-> w]) /\ Step(p, "put")
             /\ UNCHANGED indexVars
    <3>1. Sole(i, to)
      BY <1>3, <1>4, <1>10, <2>2 DEF CallAlone, UpdateMeta, Alone
    <3>2. i \notin leftover /\ epub[to] # None => epub[to].bib = k
      BY <1>2, <1>3, <2>1 DEF Honest, Says
    <3>3. i \notin leftover => Honest(i, to, k, w)'
      BY <1>2, <1>3, <2>2, <3>1, <3>2, WriteHonest
    <3> QED
      BY <1>3, <1>6, <2>2, <3>3 DEF CallHonest, EditLabels
  <2> QED
    BY <1>3, <1>5, <1>10, <2>2 DEF UpdateMeta
<1>11. CASE CommitEdit(p)
  <2>1. i \notin leftover => Honest(i, to, k, w)
    BY <1>1, <1>3, <1>11 DEF CallHonest, CommitEdit
  <2>2. PICK new : new = RowFor(To(p), NewBib(p), NewVal(p))
    OBVIOUS
  <2>3. CASE Put(p, i, new) /\ Return(p) /\ UNCHANGED storeVars
    <3>1. CallHonest(p)'
      BY <2>3 DEF Return, Goto, CallHonest, EditLabels, ClientTypeOK
    <3>2. index'[i] = new /\ leftover' = leftover
      BY <1>2, <2>3 DEF Put, IndexTypeOK
    <3>3. new.loc.dir = to /\ new.bib = k /\ new.val = w
      BY <1>3, <2>2 DEF RowFor
    <3>4. Settled(i)' => HonestRow(i, new)'
      BY <2>1, <2>3, <3>2, <3>3, SameHonest DEF Settled, HonestRow, storeVars
    <3> QED
      BY <3>1, <3>2, <3>4
  <2> QED
    BY <1>5, <1>11, <2>2, <2>3 DEF CommitEdit
<1> QED
  BY <1>7, <1>8, <1>9, <1>10, <1>11


LEMMA DeleteTruthful ==
  ASSUME Typed, NEW p \in Procs, RemoveBook(p) \/ CommitDelete(p), NEW i, i = book[p]
  PROVE  CallHonest(p)' /\ (Settled(i)' => HonestRow(i, index[i])')
<1> USE DEF Typed, TypeOK
<1>1. pc'[p] \in {"idle", "remove", "erase"} /\ i \in Ids
  BY DEF RemoveBook, CommitDelete, GiveUp, Return, Step, Goto, ClientTypeOK, ClientOK
<1>2. CallHonest(p)'
  BY <1>1 DEF CallHonest, EditLabels
<1>3. CASE GiveUp(p) \/ (Step(p, "remove") \/ Step(p, "erase"))
  <2>1. ~Settled(i)'
    BY <1>3 DEF GiveUp, LeavePending, Step, Goto, Settled, AtWork, HeldLabels, DeleteLabels,
                ClientTypeOK
  <2> QED
    BY <1>2, <2>1
<1>4. CASE Erase(p, i)
  BY <1>1, <1>2, <1>4 DEF Erase, Put, HonestRow, IndexTypeOK
<1> QED
  BY <1>3, <1>4 DEF RemoveBook, CommitDelete

\* What an ingest has placed is what it was given.
LEMMA IngestTruthful ==
  ASSUME Typed, Guarded, Placed, Single, NoCopies, NEW p \in Procs,
         PlaceEpub(p) \/ PlaceMeta(p) \/ RecordIngest(p) \/ UndoIngest(p),
         NEW i, i = book[p], CallHonest(p)
  PROVE  CallHonest(p)' /\ (Settled(i)' => HonestRow(i, index[i])')
<1> USE DEF Typed, TypeOK
<1>1. pc[p] \in FilingLabels
  BY DEF FilingLabels, PlaceEpub, PlaceMeta, RecordIngest, UndoIngest
<1>2. /\ i \in Ids /\ index[i] = None /\ NewPlace(p) \in Locations /\ call[p].bib \in Keys
      /\ Sole(i, NewPlace(p).dir)
  BY <1>1, IngestPlace DEF Guarded, Held, HeldBy, Single, CallAlone
<1>3. PICK d \in Dirs : d = NewPlace(p).dir
  BY <1>2 DEF Locations
<1>4. ASSUME NEW l, Step(p, l)
      PROVE  pc'[p] = l /\ NewPlace(p)' = NewPlace(p) /\ call'[p] = call[p]
  BY <1>4 DEF Step, Goto, NewPlace, ClientTypeOK
<1>5. ASSUME index' = index
      PROVE  HonestRow(i, index[i])'
  BY <1>2, <1>5 DEF HonestRow
<1>6. ASSUME pc'[p] \in {"idle", "undo", "announce"}
      PROVE  CallHonest(p)'
  BY <1>6 DEF CallHonest, EditLabels
<1>7. CASE PlaceEpub(p)
  <2>1. CASE WriteEpub(NewPlace(p), call[p].bib) /\ Step(p, "sidecar")
    <3>1. epub'[d] # None /\ epub'[d].bib = call[p].bib
      BY <1>2, <1>3, <2>1, StoreAssumption DEF WriteEpub, StoreTypeOK, EpubFiles, Locations
    <3> QED
      BY <1>3, <1>4, <1>5, <1>7, <2>1, <3>1 DEF CallHonest, EditLabels, PlaceEpub, indexVars
  <2>2. CASE Step(p, "undo")
    BY <1>4, <1>5, <1>6, <1>7, <2>2 DEF PlaceEpub, indexVars
  <2> QED
    BY <1>7, <2>1, <2>2 DEF PlaceEpub
<1>8. CASE PlaceMeta(p)
  <2>1. CASE WriteMeta(NewPlace(p), [id |-> i, val |-> DefaultVal]) /\ Step(p, "record")
    <3>1. [id |-> i, val |-> DefaultVal] \in MetaFiles
      BY <1>2, LibraryAssumption DEF MetaFiles
    <3>2. meta'[d] # None /\ meta'[d].val = DefaultVal
      BY <1>2, <1>3, <2>1, <3>1, StoreAssumption DEF WriteMeta, StoreTypeOK, Locations
    <3>3. epub'[d] # None /\ epub'[d].bib = call[p].bib
      BY <1>3, <1>8, <2>1 DEF WriteMeta, CallHonest, PlaceMeta
    <3> QED
      BY <1>3, <1>4, <1>5, <1>8, <2>1, <3>2, <3>3 DEF CallHonest, EditLabels, PlaceMeta, indexVars
  <2>2. CASE Step(p, "undo")
    BY <1>4, <1>5, <1>6, <1>8, <2>2 DEF PlaceMeta, indexVars
  <2> QED
    BY <1>8, <2>1, <2>2 DEF PlaceMeta
<1>9. CASE RecordIngest(p)
  <2>1. PICK new : new = RowFor(NewPlace(p), call[p].bib, DefaultVal)
    OBVIOUS
  <2>2. CASE Put(p, i, new) /\ Step(p, "announce")
    <3>1. index'[i] = new /\ UNCHANGED storeVars
      BY <1>2, <1>9, <2>2 DEF Put, IndexTypeOK, RecordIngest
    <3>2. new.loc.dir = d /\ new.bib = call[p].bib /\ new.val = DefaultVal
      BY <1>3, <2>1 DEF RowFor
    <3>3. Honest(i, d, new.bib, new.val)
      BY <1>2, <1>3, <1>9, <3>2 DEF Honest, Says, Sole, CallHonest, RecordIngest
    <3>4. Honest(i, d, new.bib, new.val)'
      BY <3>1, <3>3, SameHonest DEF storeVars
    <3> QED
      BY <1>4, <1>6, <2>2, <3>1, <3>2, <3>4 DEF HonestRow
  <2>3. CASE Step(p, "undo") /\ UNCHANGED indexVars
    BY <1>4, <1>5, <1>6, <2>3 DEF indexVars
  <2> QED
    BY <1>9, <2>1, <2>2, <2>3 DEF RecordIngest
<1>10. CASE UndoIngest(p)
  <2>1. index' = index /\ pc'[p] \in {"idle", "undo"}
    BY <1>10 DEF UndoIngest, GiveUp, LeavePending, Cancel, Return, Step, Goto, ClientTypeOK, indexVars
  <2> QED
    BY <1>5, <1>6, <2>1
<1> QED
  BY <1>7, <1>8, <1>9, <1>10

\* A call that begins reads a row that is true, or in doubt.
LEMMA AsideTruthful ==
  ASSUME Typed, Guarded, \A i \in Ids : Settled(i) => HonestRow(i, index[i]),
         NEW p \in Procs, Aside(p)
  PROVE  CallHonest(p)'
<1> USE DEF Typed, TypeOK
<1>1. CASE pc'[p] \notin {"rewrite", "dir"}
  <2>1. pc'[p] \in {"idle", "remove", "place"}
    BY <1>1 DEF Aside, BeginOnBook, BeginIngest, AnnounceIngest, FirstStep, Return, Goto, ClientTypeOK
  <2> QED
    BY <2>1 DEF CallHonest, EditLabels
<1>2. CASE /\ pc[p] = "book" /\ BookLockFree(book[p]) /\ index[book[p]] # None
           /\ was' = [was EXCEPT ![p] = index[book[p]]]
           /\ Goto(p, FirstStep(call[p])) /\ MarkPending(p)
           /\ UNCHANGED <<call, book, storeVars>>
  <2>1. PICK i \in Ids : i = book[p]
    BY <1>2 DEF ClientOK
  <2>2. ASSUME i \notin leftover
        PROVE  Settled(i)
    <3>1. ASSUME NEW q \in Procs, AtWork(q), book[q] = i
          PROVE  FALSE
      BY <1>2, <2>1, <3>1, LibraryAssumption DEF AtWork, Guarded, Held, HeldBy, BookLockFree
    <3> QED
      BY <2>2, <3>1 DEF Settled
  <2>3. PICK row \in Rows : row = index[i] /\ row # None
    BY <1>2, <2>1 DEF IndexTypeOK
  <2>4. /\ was'[p] = row /\ book'[p] = i /\ leftover' = leftover
        /\ pc'[p] = FirstStep(call[p])
    BY <1>2, <2>1, <2>3 DEF MarkPending, Goto, ClientTypeOK
  <2>5. i \notin leftover => HonestRow(i, row)'
    BY <1>2, <2>2, <2>3, SameHonest DEF HonestRow, storeVars
  <2>6. pc'[p] = "dir" => NewBib(p)' = row.bib /\ From(p)' = row.loc
    BY <1>2, <2>4 DEF FirstStep, NewBib, From
  <2> QED
    BY <2>3, <2>4, <2>5, <2>6 DEF CallHonest, HonestRow, FirstStep
<1> QED
  BY <1>1, <1>2 DEF Aside, BeginOnBook, BeginIngest, AnnounceIngest, FirstStep, Return, Goto, ClientTypeOK


LEMMA OthersTruthful ==
  ASSUME Typed, Guarded, Placed, NoCopies, NEW p \in Procs, ClientStep(p),
         \A i \in Ids : Settled(i) => HonestRow(i, index[i]), leftover \subseteq leftover'
  PROVE  /\ \A i \in Ids : (i # book[p] \/ ~AtWork(p)) /\ Settled(i)' => HonestRow(i, index[i])'
         /\ \A q \in Procs \ {p} : CallHonest(q) => CallHonest(q)'
<1> USE DEF Typed, TypeOK
<1>1. "copy" \notin touched
  BY DEF NoCopies
<1>2. ASSUME NEW q \in Procs \ {p}
      PROVE  /\ pc'[q] = pc[q] /\ call'[q] = call[q] /\ book'[q] = book[q] /\ was'[q] = was[q]
             /\ AtWork(q)' = AtWork(q)
  BY OthersSame DEF AtWork
<1>3. ASSUME NEW i \in Ids, i # book[p] \/ ~AtWork(p), Settled(i)'
      PROVE  HonestRow(i, index[i])'
  <2>1. Settled(i)
    BY <1>2, <1>3 DEF Settled
  <2>2. PICK row : row = index[i] /\ HonestRow(i, row)
    BY <2>1
  <2>3. index'[i] = index[i]
    BY <1>1, <1>3, OtherBooks
  <2>4. \A x, k, v : Honest(i, x, k, v) => Honest(i, x, k, v)'
    BY <1>1, <1>3, OtherBooks, SameHonest
  <2> QED
    BY <2>2, <2>3, <2>4 DEF HonestRow
<1>4. ASSUME NEW q \in Procs \ {p}, CallHonest(q)
      PROVE  CallHonest(q)'
  <2>1. CASE pc[q] \notin EditLabels \union {"sidecar", "record"}
    BY <1>2, <2>1 DEF CallHonest, EditLabels
  <2>2. CASE pc[q] \in EditLabels \union {"sidecar", "record"}
    <3>1. AtWork(q) /\ book[q] \in Ids
      BY <2>2 DEF AtWork, HeldLabels, FilingLabels, EditLabels, DeleteLabels, ClientOK
    <3>2. PICK i \in Ids : i = book[q] /\ (i # book[p] \/ ~AtWork(p))
      BY <3>1, Apart DEF Guarded
    <3>3. \A d \in Dirs : d.id = i => epub'[d] = epub[d] /\ meta'[d] = meta[d]
      BY <1>1, <3>2, OtherBooks
    <3>4. \A x, k, v : Honest(i, x, k, v) => Honest(i, x, k, v)'
      BY <3>3, SameHonest
    <3>5. PICK d : d = NewPlace(q).dir
      OBVIOUS
    <3>6. NewPlace(q)' = NewPlace(q) /\ From(q)' = From(q) /\ To(q)' = To(q)
          /\ NewBib(q)' = NewBib(q) /\ NewVal(q)' = NewVal(q)
      BY <1>2 DEF NewPlace, From, To, NewBib, NewVal
    <3>7. CASE pc[q] \in {"sidecar", "record"}
      <4>1. d \in Dirs /\ d.id = i
        BY <3>2, <3>5, <3>7, IngestPlace DEF FilingLabels, NewPlace, Layout
      <4> QED
        BY <1>2, <1>4, <3>3, <3>5, <3>6, <3>7, <4>1 DEF CallHonest, EditLabels
    <3>8. CASE pc[q] \in EditLabels
      <4>1. PICK from, to, k, v, w, row :
              /\ from = From(q).dir /\ to = To(q).dir /\ k = NewBib(q)
              /\ v = was[q].val /\ w = NewVal(q) /\ row = was[q]
        OBVIOUS
      <4>2. i \notin leftover' =>
              /\ pc[q] = "rewrite" => HonestRow(i, row)'
              /\ pc[q] = "dir" => Honest(i, from, k, v)'
              /\ pc[q] \in {"file", "meta"} => Honest(i, to, k, v)'
              /\ pc[q] = "put" => Honest(i, to, k, w)'
        BY <1>4, <3>2, <3>4, <3>8, <4>1 DEF CallHonest, HonestRow
      <4> QED
        BY <1>2, <3>2, <3>6, <3>8, <4>1, <4>2 DEF CallHonest, EditLabels
    <3> QED
      BY <2>2, <3>7, <3>8
  <2> QED
    BY <2>1, <2>2
<1> QED
  BY <1>3, <1>4

LEMMA ClientTruthful ==
  ASSUME Typed, Guarded, Placed, Single, NoCopies, Truthful, NEW p \in Procs, ClientStep(p)
  PROVE  Truthful'
<1>1. /\ "copy" \notin touched /\ StoreTypeOK
      /\ pc[p] # "idle" /\ rpc \in {"idle", "wait"} /\ rpc' = rpc /\ passed' = passed
  <2>1. pc[p] # "idle"
    BY DEF ClientStep, BeginOnBook, RewriteEpub, RenameBookDir, RenameBookFile, UpdateMeta,
           CommitEdit, RemoveBook, CommitDelete, BeginIngest, PlaceEpub, PlaceMeta, RecordIngest,
           AnnounceIngest, UndoIngest
  <2> QED
    BY <2>1, ClientStepFrame DEF NoCopies, Guarded, Quiet, reindexVars, Typed, TypeOK
<1>2. AllSound'
  BY <1>1, ClientFiles, FilesSound DEF Truthful
<1>3. skipped' = skipped /\ leftover \subseteq leftover'
  BY DEF ClientStep, BeginOnBook, RewriteEpub, RenameBookDir, RenameBookFile, UpdateMeta,
         CommitEdit, RemoveBook, CommitDelete, BeginIngest, PlaceEpub, PlaceMeta, RecordIngest,
         AnnounceIngest, UndoIngest, MarkPending, Put, Erase, Cancel, GiveUp, LeavePending,
         indexVars
<1>4. /\ \A i \in Ids : (i # book[p] \/ ~AtWork(p)) /\ Settled(i)' => HonestRow(i, index[i])'
      /\ \A q \in Procs \ {p} : CallHonest(q)'
  BY <1>3, OthersTruthful DEF Truthful
<1>5. CallHonest(p)' /\ \A i \in Ids : Settled(i)' => HonestRow(i, index[i])'
  <2>1. CASE AtWork(p)
    <3>1. PICK i \in Ids : i = book[p]
      BY <2>1 DEF AtWork, Typed, ClientOK, HeldLabels, FilingLabels, EditLabels, DeleteLabels
    <3>2. ~Aside(p) /\ CallHonest(p)
      BY <2>1 DEF Aside, AtWork, BeginOnBook, BeginIngest, AnnounceIngest, HeldLabels,
                  FilingLabels, EditLabels, DeleteLabels, Truthful
    <3>3. CallHonest(p)' /\ (Settled(i)' => HonestRow(i, index[i])')
      BY <3>1, <3>2, EditTruthful, DeleteTruthful, IngestTruthful DEF ClientStep, Aside
    <3> QED
      BY <1>4, <3>1, <3>3
  <2>2. CASE ~AtWork(p)
    BY <1>4, <2>2, OnlyWorkersWrite, AsideTruthful DEF Truthful
  <2> QED
    BY <2>1, <2>2
<1> QED
  BY <1>1, <1>2, <1>3, <1>4, <1>5 DEF Truthful, FoundHonest


\* What a rebuild renames it has read, so every row stays as true as it was.
LEMMA RenamesHonest ==
  ASSUME StoreTypeOK, NEW i \in Ids,
         \/ UNCHANGED storeVars
         \/ \E d \in Dirs, k \in Keys : d.id = i /\ epub[d] # None /\ RenameFile(d, k)
         \/ \E from, to \in Dirs : /\ from.id = i /\ to.id = i /\ from \in Walk
                                   /\ CanRenameDir(from, to) /\ RenameDir(from, to)
  PROVE  /\ \A j \in Ids : \A x, k, v : Honest(j, x, k, v) => Honest(j, x, k, v)'
         /\ \A e \in Walk' : \E d \in Walk : d.id = e.id
         /\ \A d \in Dirs : d.id # i => epub'[d] = epub[d] /\ meta'[d] = meta[d]
<1>1. CASE UNCHANGED storeVars
  BY <1>1 DEF storeVars, Honest, Says, Walk
<1>2. ASSUME NEW d \in Dirs, NEW name \in Keys, d.id = i, epub[d] # None, RenameFile(d, name)
      PROVE  /\ \A j \in Ids : \A x, k, v : Honest(j, x, k, v) => Honest(j, x, k, v)'
             /\ Walk' \subseteq Walk
             /\ \A e \in Dirs : e.id # i => epub'[e] = epub[e] /\ meta'[e] = meta[e]
  <2>1. \A j, x, k, v : Honest(j, x, k, v) => Honest(j, x, k, v)'
    BY <1>2, RenameFileHonest
  <2>2. \A e \in Dirs : e.id # i => epub'[e] = epub[e] /\ meta'[e] = meta[e]
    BY <1>2 DEF RenameFile, StoreTypeOK
  <2> QED
    BY <1>2, <2>1, <2>2, RenameFileFewer
<1>3. ASSUME NEW from \in Dirs, NEW to \in Dirs, from.id = i, to.id = i, from \in Walk,
             CanRenameDir(from, to), RenameDir(from, to)
      PROVE  /\ \A j \in Ids : \A x, k, v : Honest(j, x, k, v) => Honest(j, x, k, v)'
             /\ \A e \in Walk' : \E d \in Walk : d.id = e.id
             /\ \A d \in Dirs : d.id # i => epub'[d] = epub[d] /\ meta'[d] = meta[d]
  <2>1. \A d \in Dirs : d.id # i => epub'[d] = epub[d] /\ meta'[d] = meta[d]
    BY <1>3 DEF StoreTypeOK, RenameDir, MoveTo
  <2>2. ASSUME NEW j \in Ids, j # i
        PROVE  \A x, k, v : Honest(j, x, k, v) => Honest(j, x, k, v)'
    BY <2>1, <2>2, SameHonest
  <2>3. \A x, k, v : Honest(i, x, k, v) => Honest(i, x, k, v)'
    BY <1>3, RenameDirHonest
  <2>4. \A e \in Walk' : \E d \in Walk : d.id = e.id
    BY <1>3 DEF StoreTypeOK, RenameDir, MoveTo, Walk, CanRenameDir, DirExists
  <2> QED
    BY <2>1, <2>2, <2>3, <2>4
<1>4. Walk' \subseteq Walk => \A e \in Walk' : \E d \in Walk : d.id = e.id
  OBVIOUS
<1> QED
  BY <1>1, <1>2, <1>3, <1>4 DEF storeVars, Walk

\* A book of other files than the ones renamed stays where it was.
LEMMA PlaceKept ==
  ASSUME NEW row \in Rows, epub'[row.loc.dir] = epub[row.loc.dir],
         meta'[row.loc.dir] = meta[row.loc.dir], InPlace(row)
  PROVE  InPlace(row)'
BY DEF InPlace, Walk, LocationOf

\* Where a rebuild is with a book it is about to move, or is moving.
LEMMA MovingBook ==
  ASSUME Typed, Placed, "copy" \notin touched, NEW i \in todo
  PROVE  /\ i \in Ids /\ found[i] \in Rows /\ found[i] # None
         /\ found[i].loc.dir \in Dirs /\ found[i].loc.dir.id = i
         /\ Home(i).dir \in Dirs /\ Home(i).dir.id = i /\ Home(i).name \in Keys
BY MovePlaces DEF Placed, Filed, Home, Layout, Typed, TodoOK

LEMMA MoveBookDirTruthful ==
  ASSUME Typed, Placed, "copy" \notin touched, NEW i \in Ids, MoveBookDir(i), Truthful
  PROVE  /\ AllSound' /\ FoundHonest'
         /\ \A j \in Ids : HonestRow(j, index[j]) => HonestRow(j, index[j])'
<1> USE DEF Typed, TypeOK
<1>1. /\ i \in todo /\ rpc = "move" /\ UNCHANGED <<index, found>> /\ FoundHonest
  BY DEF MoveBookDir, Stays, indexVars, Truthful
<1>2. /\ found[i] \in Rows /\ found[i] # None
      /\ found[i].loc.dir \in Dirs /\ found[i].loc.dir.id = i
      /\ Home(i).dir \in Dirs /\ Home(i).dir.id = i
  BY <1>1, MovingBook
<1>3. PICK from, to, row :
        /\ from \in Dirs /\ to \in Dirs /\ row \in Rows /\ row = found[i]
        /\ from = row.loc.dir /\ to = Home(i).dir /\ from.id = i /\ to.id = i
  BY <1>2
<1>4. InPlace(row) /\ from \in Walk
  BY <1>1, <1>2, <1>3 DEF FoundHonest, InPlace
<1>5. UNCHANGED storeVars \/ (CanRenameDir(from, to) /\ RenameDir(from, to))
  BY <1>3 DEF MoveBookDir
<1>6. /\ \A j \in Ids : \A x, k, v : Honest(j, x, k, v) => Honest(j, x, k, v)'
      /\ \A e \in Walk' : \E d \in Walk : d.id = e.id
      /\ \A d \in Dirs : d.id # i => epub'[d] = epub[d] /\ meta'[d] = meta[d]
  BY <1>3, <1>4, <1>5, RenamesHonest
<1>7. \A j \in Ids : /\ HonestRow(j, index[j]) => HonestRow(j, index[j])'
                     /\ HonestRow(j, found[j]) => HonestRow(j, found[j])'
  BY <1>1, <1>6 DEF HonestRow
<1>8. AllSound'
  BY FilesSound, MoveFiles DEF Truthful
<1>9. ASSUME NEW j \in Ids, j # i, found[j] # None, InPlace(found[j])
      PROVE  InPlace(found[j])'
  <2>1. PICK other \in Rows : other = found[j]
    BY <1>9 DEF ReindexTypeOK
  <2>2. other.loc.dir \in Dirs /\ other.loc.dir.id = j
    BY <1>9, <2>1 DEF Placed, Filed, Rows, Locations
  <2> QED
    BY <1>1, <1>6, <1>9, <2>1, <2>2, PlaceKept
<1>10. /\ \A j \in Ids : HonestRow(j, found[j])'
       /\ \A d \in Walk' : found'[d.id] # None
  BY <1>1, <1>6, <1>7 DEF FoundHonest
<1>11. CASE /\ from = to \/ CanRenameDir(from, to)
            /\ IF from = to THEN UNCHANGED storeVars ELSE RenameDir(from, to)
            /\ mv' = i /\ rpc' = "file"
            /\ UNCHANGED <<phase, found, passed, top, todo>>
  <2>1. to \in Walk' /\ epub'[to].name = row.loc.name
    <3>1. CASE from = to
      BY <1>3, <1>4, <1>11, <3>1 DEF InPlace, LocationOf, Walk, storeVars
    <3>2. CASE from # to
      <4>1. epub'[to] = epub[from] /\ meta'[to] = meta[from]
        BY <1>3, <1>11, <3>2 DEF RenameDir, MoveTo, StoreTypeOK
      <4> QED
        BY <1>3, <1>4, <4>1 DEF InPlace, LocationOf, Walk
    <3> QED
      BY <3>1, <3>2
  <2>2. from = to \/ ~DirExists(from)'
    BY <1>3, <1>11 DEF RenameDir, MoveTo, StoreTypeOK, DirExists
  <2>3. Home(mv)' = Home(i) /\ found'[mv'] = row
    BY <1>3, <1>11 DEF Home
  <2>4. \A j \in Ids : found[j] # None /\ (j \in todo \/ ~LateErrors) /\ j # i => InPlace(found[j])'
    BY <1>1, <1>9 DEF FoundHonest
  <2> QED
    BY <1>3, <1>7, <1>8, <1>10, <1>11, <2>1, <2>2, <2>3, <2>4 DEF FoundHonest
<1>12. CASE Stays(i) /\ UNCHANGED storeVars
  <2>1. InPlace(found[i])'
    BY <1>1, <1>3, <1>4, <1>12, PlaceKept DEF storeVars
  <2>2. \A j \in Ids : found[j] # None /\ (j \in todo \/ ~LateErrors) => InPlace(found[j])'
    BY <1>1, <1>9, <2>1 DEF FoundHonest
  <2> QED
    BY <1>7, <1>8, <1>10, <1>12, <2>2 DEF FoundHonest, Stays
<1> QED
  BY <1>3, <1>11, <1>12 DEF MoveBookDir

LEMMA MoveBookFileTruthful ==
  ASSUME Typed, Placed, "copy" \notin touched, MoveBookFile, Truthful
  PROVE  /\ AllSound' /\ FoundHonest'
         /\ \A j \in Ids : HonestRow(j, index[j]) => HonestRow(j, index[j])'
<1> USE DEF Typed, TypeOK
<1>1. mv \in todo /\ mv \in Ids /\ rpc = "file" /\ rpc' = "move" /\ UNCHANGED index /\ FoundHonest
  BY MovingBook DEF MoveBookFile, Stays, TodoOK, indexVars, Truthful
<1>2. /\ found[mv] \in Rows /\ found[mv] # None
      /\ found[mv].loc.dir \in Dirs /\ found[mv].loc.dir.id = mv
      /\ Home(mv).dir \in Dirs /\ Home(mv).dir.id = mv /\ Home(mv).name \in Keys
  BY <1>1, MovingBook
<1>3. PICK i, from, to, row, place, rows :
        /\ i \in Ids /\ i = mv /\ from \in Dirs /\ to \in Dirs /\ row \in Rows /\ row = found[i]
        /\ from = row.loc.dir /\ place = Home(mv) /\ to = place.dir /\ from.id = i /\ to.id = i
        /\ place.name \in Keys
        /\ rows = found /\ rows \in [Ids -> Rows \union {None}]
  BY <1>1, <1>2 DEF ReindexTypeOK
<1>4. /\ to \in Walk /\ epub[to].name = row.loc.name
      /\ from = to \/ ~DirExists(from)
      /\ \A j \in Ids : HonestRow(j, rows[j])
      /\ \A d \in Walk : rows[d.id] # None
      /\ \A j \in Ids : rows[j] # None /\ (j \in todo \/ ~LateErrors) /\ j # i => InPlace(rows[j])
  BY <1>1, <1>3 DEF FoundHonest
<1>5. \/ UNCHANGED storeVars
      \/ epub[to] # None /\ RenameFile(to, place.name)
      \/ CanRenameDir(to, from) /\ RenameDir(to, from)
  BY <1>3 DEF MoveBookFile, RenamedBack, FileAt
<1>6. /\ \A j \in Ids : \A x, k, v : Honest(j, x, k, v) => Honest(j, x, k, v)'
      /\ \A e \in Walk' : \E d \in Walk : d.id = e.id
      /\ \A d \in Dirs : d.id # i => epub'[d] = epub[d] /\ meta'[d] = meta[d]
  BY <1>3, <1>4, <1>5, RenamesHonest
<1>7. \A j \in Ids : /\ HonestRow(j, index[j]) => HonestRow(j, index[j])'
                     /\ HonestRow(j, rows[j])'
  BY <1>1, <1>4, <1>6 DEF HonestRow
<1>8. AllSound'
  BY FilesSound, MoveFiles DEF Truthful
<1>9. ASSUME NEW j \in Ids, j # i, rows[j] # None, InPlace(rows[j])
      PROVE  InPlace(rows[j])'
  <2>1. PICK other \in Rows : other = rows[j]
    BY <1>3, <1>9
  <2>2. other.loc.dir \in Dirs /\ other.loc.dir.id = j
    BY <1>3, <1>9, <2>1 DEF Placed, Filed, Rows, Locations
  <2> QED
    BY <1>6, <1>9, <2>1, <2>2, PlaceKept
<1>10. /\ \A d \in Walk' : rows[d.id] # None
       /\ \A j \in Ids : rows[j] # None /\ (j \in todo \/ ~LateErrors) /\ j # i
                           => InPlace(rows[j])'
  BY <1>4, <1>6, <1>9
<1>11. CASE /\ \/ row.loc.name = place.name /\ UNCHANGED storeVars
               \/ epub[to] # None /\ RenameFile(to, place.name)
            /\ found' = [found EXCEPT ![mv].loc = place]
            /\ todo' = todo \ {mv}
  <2>1. to \in Walk' /\ epub'[to].name = place.name
    <3>1. CASE row.loc.name = place.name /\ UNCHANGED storeVars
      BY <1>4, <3>1 DEF Walk, storeVars
    <3>2. CASE epub[to] # None /\ RenameFile(to, place.name)
      <4>1. StoreTypeOK'
        BY <1>3, <3>2, RenameFileType
      <4>2. meta'[to] = meta[to] /\ epub'[to] = [name |-> place.name, bib |-> epub[to].bib]
        BY <1>3, <3>2 DEF RenameFile, StoreTypeOK
      <4>3. epub[to].bib \in Keys \union {Unreadable}
        BY <1>3, <3>2 DEF StoreTypeOK, EpubFiles
      <4>4. [name |-> place.name, bib |-> epub[to].bib] \in EpubFiles
        BY <1>3, <4>3 DEF EpubFiles
      <4> QED
        BY <1>3, <1>4, <4>2, <4>4, StoreAssumption DEF Walk
    <3> QED
      BY <1>11, <3>1, <3>2
  <2>2. PICK new : new = [row EXCEPT !.loc = place]
    OBVIOUS
  <2>3. /\ found'[i] = new /\ \A j \in Ids : j # i => found'[j] = rows[j]
        /\ new.loc = place /\ new.bib = row.bib /\ new.val = row.val
    BY <1>3, <1>11, <2>2 DEF Rows
  <2>4. place = [dir |-> to, name |-> place.name]
    BY <1>3 DEF Home, Layout
  <2>5. InPlace(new)'
    BY <2>1, <2>3, <2>4 DEF InPlace, LocationOf
  <2>6. HonestRow(i, new)'
    <3>1. Honest(i, to, row.bib, row.val)
      BY <1>2, <1>3, <1>4 DEF HonestRow, Honest
    <3> QED
      BY <1>3, <1>6, <2>3, <3>1 DEF HonestRow
  <2>7. new # None
    <3>1. new \in Rows
      BY <1>1, <1>3, <2>2, MovePlaces DEF Rows
    <3> QED
      BY <3>1, IndexAssumption
  <2>8. \A j \in Ids : HonestRow(j, found[j])'
    BY <1>7, <2>3, <2>6
  <2>9. \A d \in Walk' : found'[d.id] # None
    BY <1>10, <2>3, <2>7 DEF Walk, Dirs
  <2>10. \A j \in Ids : found'[j] # None /\ (j \in todo' \/ ~LateErrors) => InPlace(found[j])'
    BY <1>10, <1>11, <2>3, <2>5
  <2> QED
    BY <1>1, <1>7, <1>8, <2>8, <2>9, <2>10 DEF FoundHonest
<1>12. CASE Stays(mv) /\ (LateErrors \/ RenamedBack(from, to))
  <2>1. ASSUME ~LateErrors, RenamedBack(from, to)
        PROVE  InPlace(row)'
    <3>1. row.loc = [dir |-> from, name |-> row.loc.name]
      BY <1>3 DEF Rows, Locations
    <3>2. CASE from = to
      BY <1>3, <1>4, <2>1, <3>1, <3>2 DEF RenamedBack, InPlace, LocationOf, Walk, storeVars
    <3>3. CASE from # to
      <4>1. CanRenameDir(to, from)
        BY <1>4, <3>3 DEF CanRenameDir, DirExists, Walk
      <4>2. epub'[from] = epub[to] /\ meta'[from] = meta[to]
        BY <1>3, <2>1, <3>3, <4>1 DEF RenamedBack, RenameDir, MoveTo, StoreTypeOK
      <4> QED
        BY <1>3, <1>4, <3>1, <4>2 DEF InPlace, LocationOf, Walk
    <3> QED
      BY <3>2, <3>3
  <2> QED
    BY <1>1, <1>3, <1>7, <1>8, <1>10, <1>12, <2>1 DEF FoundHonest, Stays
<1> QED
  BY <1>3, <1>11, <1>12 DEF MoveBookFile, FileAt


\* Rows that are true, and in place, say what a scan of the tree would.
LEMMA MirrorsIf ==
  ASSUME StoreTypeOK, Labelled, AllSound,
         NEW rows \in [Ids -> Rows \union {None}], Filed(rows),
         \A i \in Ids : HonestRow(i, rows[i]),
         \A d \in Walk : rows[d.id] # None /\ rows[d.id].loc = LocationOf(d),
         \A i \in Ids : rows[i] # None => rows[i].loc.dir \in Walk
  PROVE  LET readable == {d \in Walk : Sound(d)} IN
         /\ Walk \ readable = {}
         /\ \A d \in readable :
              LET row == rows[meta[d].id] IN
              /\ row # None
              /\ row.loc = LocationOf(d) /\ row.bib = epub[d].bib /\ row.val = meta[d].val
         /\ \A i \in Ids : rows[i] # None => /\ rows[i].loc.dir \in readable
                                             /\ meta[rows[i].loc.dir].id = i
<1>1. {d \in Walk : Sound(d)} = Walk
  BY DEF AllSound, Sound, Walk
<1>2. ASSUME NEW d \in Walk
      PROVE  meta[d] \in MetaFiles /\ meta[d].id = d.id /\ d.id \in Ids /\ d \in Dirs
  BY WalkType DEF AllSound, Labelled, Dirs
<1>3. ASSUME NEW d \in Walk
      PROVE  rows[d.id].bib = epub[d].bib /\ rows[d.id].val = meta[d].val
  BY <1>2 DEF HonestRow, Honest, Says, Walk
<1>4. ASSUME NEW i \in Ids, rows[i] # None
      PROVE  meta[rows[i].loc.dir].id = i
  BY <1>2, <1>4 DEF Filed
<1> QED
  BY <1>1, <1>2, <1>3, <1>4

LEMMA ScanStoreTruthful ==
  ASSUME Typed, Placed, Single, NoCopies, Truthful, ~ScanErrors, ScanStore
  PROVE  FoundHonest' /\ passed' = {} /\ rpc' \in {"idle", "move"}
<1> USE DEF Typed, TypeOK
<1>1. CASE ReindexFails
  BY <1>1 DEF ReindexFails, ReindexEnds, FoundHonest
<1>2. CASE /\ found' = ScanOf({d \in Walk \ {} : Sound(d)})
           /\ passed' = {[loc |-> LocationOf(d), info |-> Stat(d)] :
                           d \in Walk \ {d \in Walk \ {} : Sound(d)}}
           /\ rpc' = "move"
  <2>1. {d \in Walk \ {} : Sound(d)} = Walk
    BY DEF Truthful, AllSound, Sound, Walk
  <2>2. found' = ScanOf(Walk) /\ passed' = {}
    BY <1>2, <2>1
  <2>3. ASSUME NEW d \in Walk
        PROVE  /\ d \in Dirs /\ d.id \in Ids /\ meta[d].id = d.id
               /\ epub'[d] = epub[d] /\ meta'[d] = meta[d]
    BY WalkType DEF Truthful, AllSound, Labelled, Placed, NoCopies, Dirs, ScanStore, storeVars
  <2>4. ASSUME NEW i \in Ids, found'[i] # None
        PROVE  \E d \in Walk : d.id = i /\ found'[i] = ScannedRow(d)
    <3>1. PICK d \in Walk : meta[d].id = i /\ found'[i] = ScannedRow(d)
      BY <2>2, <2>4 DEF ScanOf, OwnersOf
    <3> QED
      BY <2>3, <3>1
  <2>5. ASSUME NEW i \in Ids, found'[i] # None
        PROVE  HonestRow(i, found[i])' /\ InPlace(found[i])'
    <3>1. PICK d \in Walk : d.id = i /\ found'[i] = ScannedRow(d)
      BY <2>4, <2>5
    <3>2. PICK row : row = found'[i]
      OBVIOUS
    <3>3. row.loc = LocationOf(d) /\ row.loc.dir = d /\ row.bib = epub[d].bib /\ row.val = meta[d].val
      BY <3>1, <3>2 DEF ScannedRow, RowFor, LocationOf
    <3>4. Walk' = Walk /\ OneDir(i)
      BY DEF ScanStore, storeVars, Walk, Single
    <3>5. Honest(i, d, row.bib, row.val)'
      BY <2>3, <3>1, <3>3, <3>4 DEF Honest, Says, OneDir
    <3>6. InPlace(row)'
      BY <2>3, <3>1, <3>3, <3>4 DEF InPlace, LocationOf
    <3> QED
      BY <3>2, <3>3, <3>5, <3>6 DEF HonestRow
  <2>6. ASSUME NEW d \in Walk'
        PROVE  found'[d.id] # None
    <3>1. d \in Walk /\ d \in OwnersOf(d.id, Walk)
      BY <2>3 DEF OwnersOf, ScanStore, storeVars, Walk
    <3>2. found'[d.id] = ScannedRow(CHOOSE e \in OwnersOf(d.id, Walk) : TRUE)
      BY <2>2, <2>3, <3>1 DEF ScanOf
    <3>3. (CHOOSE e \in OwnersOf(d.id, Walk) : TRUE) \in Walk
      BY <3>1 DEF OwnersOf
    <3>4. \A e \in Walk : Sound(e)
      BY DEF Truthful, AllSound, Sound, Walk
    <3>5. found'[d.id] \in Rows
      BY <3>2, <3>3, <3>4, ScannedRowType
    <3> QED
      BY <3>5, IndexAssumption
  <2>7. \A i \in Ids : HonestRow(i, found[i])'
    BY <2>5 DEF HonestRow
  <2> QED
    BY <1>2, <2>2, <2>5, <2>6, <2>7 DEF FoundHonest
<1> QED
  BY <1>1, <1>2 DEF ScanStore

\* Files that are left alone say what they said.
LEMMA StoreSays ==
  ASSUME UNCHANGED storeVars
  PROVE  /\ AllSound => AllSound'
         /\ \A i, row : HonestRow(i, row)' = HonestRow(i, row)
         /\ \A row : InPlace(row)' = InPlace(row)
         /\ Walk' = Walk
BY DEF storeVars, AllSound, HonestRow, Honest, Says, InPlace, LocationOf, Walk

LEMMA RebuildIndexTruthful ==
  ASSUME Typed, Placed, Single, NoCopies, Truthful, RebuildIndex, rpc' = "stamp"
  PROVE  /\ skipped' = {} /\ passed' = {}
         /\ \A i \in Ids : HonestRow(i, index[i])'
         /\ ~LateErrors => Mirrors'
<1> USE DEF Typed, TypeOK
<1>1. /\ index' = found /\ skipped' = {} /\ passed' = {} /\ UNCHANGED storeVars
      /\ rpc = "rebuild"
  BY DEF RebuildIndex, Rebuild, ReindexFails, ReindexEnds, Truthful
<1>2. PICK rows \in [Ids -> Rows \union {None}] : rows = found
  BY DEF ReindexTypeOK
<1>3. /\ \A i \in Ids : HonestRow(i, rows[i])
      /\ \A d \in Walk : rows[d.id] # None
      /\ ~LateErrors => \A i \in Ids : rows[i] # None => InPlace(rows[i])
  BY <1>1, <1>2 DEF Truthful, FoundHonest
<1>4. /\ Labelled /\ AllSound /\ Filed(rows) /\ \A i \in Ids : OneDir(i)
      /\ \A d \in Walk : d.id \in Ids
  BY <1>2, WalkType DEF Placed, NoCopies, Truthful, Single, Dirs
<1>5. ASSUME ~LateErrors
      PROVE  Mirrors'
  <2>1. \A i \in Ids : rows[i] # None => rows[i].loc.dir \in Walk
    BY <1>3, <1>5 DEF InPlace
  <2>2. ASSUME NEW d \in Walk
        PROVE  rows[d.id].loc = LocationOf(d)
    <3>1. rows[d.id].loc.dir = d
      BY <1>3, <1>4, <2>1 DEF Filed, OneDir
    <3> QED
      BY <1>3, <1>4, <1>5, <3>1 DEF InPlace
  <2>3. LET readable == {d \in Walk : Sound(d)} IN
        /\ Walk \ readable = {}
        /\ \A d \in readable :
             LET row == rows[meta[d].id] IN
             /\ row # None
             /\ row.loc = LocationOf(d) /\ row.bib = epub[d].bib /\ row.val = meta[d].val
        /\ \A i \in Ids : rows[i] # None => /\ rows[i].loc.dir \in readable
                                            /\ meta[rows[i].loc.dir].id = i
    BY <1>3, <1>4, <2>1, <2>2, MirrorsIf
  <2>4. {d \in Walk : Sound(d)}' = {d \in Walk : Sound(d)} /\ Walk' = Walk
    BY <1>1 DEF storeVars, Sound, Walk
  <2>5. index' = rows /\ epub' = epub /\ meta' = meta
    BY <1>1, <1>2 DEF storeVars
  <2> QED
    BY <1>1, <2>3, <2>4, <2>5 DEF Mirrors, LocationOf
<1> QED
  BY <1>1, <1>2, <1>3, <1>5, StoreSays


LEMMA IdleHonest ==
  ASSUME \A p \in Procs : pc'[p] = "idle"
  PROVE  \A p \in Procs : CallHonest(p)'
BY DEF CallHonest, EditLabels

LEMMA NoneAtWork ==
  ASSUME \A p \in Procs : pc[p] = "idle"
  PROVE  \A p \in Procs : ~AtWork(p)
BY DEF AtWork, HeldLabels, FilingLabels, EditLabels, DeleteLabels

\* A rebuild, from the scan to the stamp.
LEMMA RebuildingTruthful ==
  ASSUME Typed, Guarded, Placed, Single, NoCopies, Truthful, ~ScanErrors, ReindexStep
  PROVE  Truthful'
<1> USE DEF Typed, TypeOK
<1>1. /\ "copy" \notin touched
      /\ \A p \in Procs : pc[p] = "idle" /\ pc'[p] = "idle" /\ ~AtWork(p)
  <2>1. \A p \in Procs : pc[p] = "idle"
    BY DEF ReindexStep, AcquireReindex, Drained, ScanStore, MoveBookDir, MoveBookFile,
           BeginRebuild, RebuildIndex, FinishReindex, Guarded, Quiet
  <2>2. pc' = pc
    BY DEF ReindexStep, AcquireReindex, ScanStore, MoveBookDir, MoveBookFile, BeginRebuild,
           RebuildIndex, FinishReindex, clientVars
  <2> QED
    BY <2>1, <2>2, NoneAtWork DEF NoCopies
<1>2. /\ \A p \in Procs : CallHonest(p)'
      /\ \A i \in Ids : i \notin leftover => HonestRow(i, index[i])
      /\ \A i \in Ids : Settled(i)' => i \notin leftover'
      /\ AllSound /\ skipped = {} /\ passed = {} /\ FoundHonest
  BY <1>1, IdleHonest DEF Truthful, Settled
<1>3. CASE \/ \E i \in Ids : MoveBookDir(i)
           \/ MoveBookFile
  <2>1. /\ AllSound' /\ FoundHonest'
        /\ \A j \in Ids : HonestRow(j, index[j]) => HonestRow(j, index[j])'
    BY <1>1, <1>3, MoveBookDirTruthful, MoveBookFileTruthful
  <2>2. UNCHANGED <<skipped, passed, leftover>> /\ rpc' \in {"move", "file"}
    BY <1>3 DEF MoveBookDir, MoveBookFile, Stays, indexVars
  <2> QED
    BY <1>2, <2>1, <2>2 DEF Truthful
<1>4. CASE UNCHANGED storeVars
  <2>1. /\ AllSound'
        /\ \A i, row : HonestRow(i, row) => HonestRow(i, row)'
    BY <1>2, <1>4, StoreSays
  <2>2. ASSUME UNCHANGED <<index, skipped, leftover>>, FoundHonest', passed' = {}, rpc' # "stamp"
        PROVE  Truthful'
    BY <1>2, <2>1, <2>2 DEF Truthful
  <2>3. CASE AcquireReindex
    BY <1>2, <2>2, <2>3 DEF AcquireReindex, FoundHonest, indexVars
  <2>4. CASE ScanStore
    <3>1. UNCHANGED <<index, skipped, leftover>>
      BY <2>4 DEF ScanStore, indexVars
    <3> QED
      BY <2>2, <2>4, <3>1, ScanStoreTruthful
  <2>5. CASE BeginRebuild
    <3>1. /\ skipped' = {} /\ passed' = {} /\ rpc' \in {"rebuild", "idle"}
          /\ UNCHANGED <<index, leftover>> \/ index' = [i \in Ids |-> None]
      BY <1>2, <2>5
      DEF BeginRebuild, PrepareRebuild, Emptied, DropTables, ReindexFails, ReindexEnds, indexVars
    <3>2. rpc' = "rebuild" => rpc = "move" /\ UNCHANGED <<found, todo>>
      BY <2>5 DEF BeginRebuild, ReindexFails, ReindexEnds
    <3>3. FoundHonest'
      <4>1. CASE rpc' = "rebuild"
        <5>1. /\ \A i \in Ids : HonestRow(i, found[i])'
              /\ \A d \in Walk' : found'[d.id] # None
          BY <1>2, <1>4, <2>1, <3>2, <4>1, StoreSays DEF FoundHonest
        <5>2. \A i \in Ids : found[i] # None /\ (i \in todo \/ ~LateErrors) => InPlace(found[i])'
          BY <1>2, <1>4, <3>2, <4>1, StoreSays DEF FoundHonest
        <5> QED
          BY <3>2, <4>1, <5>1, <5>2 DEF FoundHonest
      <4>2. CASE rpc' = "idle"
        BY <4>2 DEF FoundHonest
      <4> QED
        BY <3>1, <4>1, <4>2
    <3>4. \A i \in Ids : Settled(i)' => HonestRow(i, index[i])'
      BY <1>2, <2>1, <3>1 DEF HonestRow
    <3> QED
      BY <1>2, <2>1, <3>1, <3>3, <3>4 DEF Truthful
  <2>6. CASE RebuildIndex
    <3>1. CASE rpc' = "stamp"
      <4>1. FoundHonest'
        BY <3>1 DEF FoundHonest
      <4> QED
        BY <1>2, <2>1, <2>6, <3>1, <4>1, RebuildIndexTruthful DEF Truthful
    <3>2. CASE rpc' # "stamp"
      <4>1. ReindexFails /\ UNCHANGED <<index, skipped, leftover>>
        BY <2>6, <3>2 DEF RebuildIndex, indexVars
      <4> QED
        BY <2>2, <3>2, <4>1 DEF ReindexFails, ReindexEnds, FoundHonest
    <3> QED
      BY <3>1, <3>2
  <2>7. CASE FinishReindex
    <3>1. UNCHANGED <<index, skipped, leftover>> /\ ReindexEnds
      BY <2>7 DEF FinishReindex, StampVersion, ReindexFails, indexVars
    <3> QED
      BY <2>2, <3>1 DEF ReindexEnds, FoundHonest
  <2> QED
    BY <1>3, <2>3, <2>4, <2>5, <2>6, <2>7 DEF ReindexStep
<1> QED
  BY <1>3, <1>4
  DEF ReindexStep, AcquireReindex, ScanStore, BeginRebuild, RebuildIndex, FinishReindex

\* What happens to the process, and the calls that begin.
LEMMA RunTruthful ==
  ASSUME Typed, Guarded, Opened, Truthful,
         \/ \E p \in Procs, c \in Requests : Call(p, c)
         \/ RequestReindex \/ OpenLibrary \/ Crash \/ Upgrade \/ DiscardIndex
  PROVE  Truthful'
<1> USE DEF Typed, TypeOK
<1>1. UNCHANGED storeVars /\ rpc' \in {"idle", "wait", "scan"} /\ passed' = {}
  BY DEF Call, MayRead, RequestReindex, OpenLibrary, Crash, Upgrade, DiscardIndex, ReindexEnds,
         Opened, Truthful, reindexVars
<1>2. FoundHonest'
  BY <1>1 DEF FoundHonest
<1>3. /\ AllSound'
      /\ \A i, row : HonestRow(i, row) => HonestRow(i, row)'
  BY <1>1, StoreSays DEF Truthful
<1>4. skipped' = {}
  BY DEF Call, RequestReindex, OpenLibrary, ApplySchema, Crash, Upgrade, DiscardIndex, Emptied,
         Truthful, indexVars
<1>5. \A i \in Ids : index'[i] = None \/ (index' = index /\ (Settled(i)' => Settled(i)))
  <2>1. CASE \E p \in Procs, c \in Requests : Call(p, c)
    <3>1. PICK p \in Procs, c \in Requests : Call(p, c)
      BY <2>1
    <3>2. pc[p] = "idle" /\ \A q \in Procs : q # p => pc'[q] = pc[q] /\ book'[q] = book[q]
      BY <3>1 DEF Call, Goto, ClientTypeOK
    <3>3. \A q \in Procs : AtWork(q) => AtWork(q)' /\ book'[q] = book[q]
      BY <3>2 DEF AtWork, HeldLabels, FilingLabels, EditLabels, DeleteLabels
    <3>4. index' = index /\ leftover' = leftover
      BY <3>1 DEF Call, indexVars
    <3> QED
      BY <3>3, <3>4 DEF Settled
  <2>2. CASE RequestReindex \/ OpenLibrary \/ Upgrade
    <3>1. UNCHANGED <<index, leftover, pc, book>>
      BY <2>2 DEF RequestReindex, OpenLibrary, ApplySchema, Upgrade, indexVars, clientVars
    <3> QED
      BY <3>1 DEF Settled, AtWork
  <2>3. CASE Crash
    <3>1. index' = index /\ leftover' = leftover \union {book[p] : p \in own}
      BY <2>3 DEF Crash
    <3>2. \A p \in Procs : AtWork(p) => p \in own
      BY DEF AtWork, Guarded, Held, HeldBy
    <3> QED
      BY <3>1, <3>2 DEF Settled
  <2>4. CASE DiscardIndex
    BY <2>4 DEF DiscardIndex, Emptied
  <2> QED
    BY <2>1, <2>2, <2>3, <2>4
<1>6. \A i \in Ids : Settled(i)' => HonestRow(i, index[i])'
  BY <1>3, <1>5 DEF Truthful, HonestRow
<1>7. \A p \in Procs : CallHonest(p)'
  <2>1. CASE \E p \in Procs, c \in Requests : Call(p, c)
    <3>1. PICK p \in Procs, c \in Requests : Call(p, c)
      BY <2>1
    <3>2. pc'[p] \in {"ingest", "book"} /\ UNCHANGED <<epub, meta, leftover>>
      BY <3>1 DEF Call, Goto, ClientTypeOK, indexVars, storeVars
    <3>3. ASSUME NEW q \in Procs \ {p}
          PROVE  /\ pc'[q] = pc[q] /\ book'[q] = book[q] /\ was'[q] = was[q] /\ call'[q] = call[q]
                 /\ From(q)' = From(q) /\ To(q)' = To(q) /\ NewPlace(q)' = NewPlace(q)
                 /\ NewBib(q)' = NewBib(q) /\ NewVal(q)' = NewVal(q)
      BY <3>1 DEF Call, Goto, From, To, NewBib, NewVal, NewPlace, ClientTypeOK
    <3> QED
      BY <3>2, <3>3
      DEF Truthful, CallHonest, EditLabels, HonestRow, Honest, Says, Walk
  <2>2. CASE RequestReindex
    BY <2>2
    DEF Truthful, RequestReindex, storeVars, indexVars, clientVars, CallHonest, HonestRow, Honest, Says,
        Walk, From, To, NewBib, NewVal, NewPlace
  <2>3. CASE OpenLibrary \/ Crash \/ Upgrade \/ DiscardIndex
    <3>1. \A p \in Procs : pc'[p] = "idle"
      BY <2>3 DEF OpenLibrary, Crash, Upgrade, DiscardIndex, Guarded, Quiet, clientVars
    <3> QED
      BY <3>1, IdleHonest
  <2> QED
    BY <2>1, <2>2, <2>3
<1> QED
  BY <1>1, <1>2, <1>3, <1>4, <1>6, <1>7 DEF Truthful

\* A user who only removes files tells the rows no lie.
LEMMA HandTruthful ==
  ASSUME Typed, Truthful, HandEdit("remove")
  PROVE  Truthful'
<1> USE DEF Typed, TypeOK
<1>1. PICK d \in Walk : RemoveOne(d)
  BY DEF HandEdit
<1>2. d \in Dirs /\ RemovesFile(d.id)
  BY <1>1, WalkType, KeepsFilesBy
<1>3. AllSound' /\ \A i, x, k, v : Honest(i, x, k, v) => Honest(i, x, k, v)'
  BY <1>1, <1>2, FilesSound, RemoveOneHonest DEF Truthful
<1>4. /\ rpc' = "idle" /\ \A p \in Procs : pc'[p] = "idle"
      /\ UNCHANGED <<index, skipped, passed, leftover, pc, book>>
  BY DEF HandEdit, reindexVars, clientVars, indexVars
<1>5. \A i \in Ids : Settled(i)' => HonestRow(i, index[i])'
  BY <1>3, <1>4 DEF Truthful, Settled, AtWork, HonestRow
<1> QED
  BY <1>3, <1>4, <1>5, IdleHonest DEF Truthful, FoundHonest

LEMMA InitTruthful ==
  ASSUME Init
  PROVE  Truthful
BY StoreAssumption
DEF Init, StoreInit, IndexInit, ReindexIdle, ClientsIdle, Truthful, AllSound, HonestRow, CallHonest,
    EditLabels, FoundHonest

LEMMA NextTruthful ==
  ASSUME Typed, Guarded, Placed, Single, Opened, Truthful, HandEdits \subseteq {"remove"},
         ~ScanErrors, [Next]_vars
  PROVE  Truthful'
<1>1. NoCopies
  BY DEF NoCopies, Typed, TypeOK
<1>2. ASSUME NEW p \in Procs, ClientStep(p)
      PROVE  Truthful'
  BY <1>1, <1>2, ClientTruthful
<1>3. CASE ReindexStep
  BY <1>1, <1>3, RebuildingTruthful
<1>4. CASE \/ \E p \in Procs, c \in Requests : Call(p, c)
           \/ RequestReindex \/ OpenLibrary \/ Crash \/ Upgrade \/ DiscardIndex
  BY <1>4, RunTruthful
<1>5. ASSUME NEW kind \in HandEdits, HandEdit(kind)
      PROVE  Truthful'
  BY <1>5, HandTruthful
<1>6. CASE UNCHANGED vars
  <2> USE <1>6 DEF vars, storeVars, indexVars, reindexVars, clientVars
  <2>1. AllSound' /\ skipped' = {} /\ passed' = {} /\ Walk' = Walk
    BY DEF Truthful, AllSound, Walk
  <2>2. \A i, x, k, v : Honest(i, x, k, v) => Honest(i, x, k, v)'
    BY SameHonest
  <2>3. ASSUME NEW i \in Ids, Settled(i)'
        PROVE  HonestRow(i, index[i])'
    BY <2>2, <2>3 DEF Truthful, HonestRow, Settled, AtWork
  <2>4. ASSUME NEW p \in Procs
        PROVE  CallHonest(p)'
    BY <2>2 DEF Truthful, CallHonest, HonestRow, From, To, NewBib, NewVal, NewPlace
  <2>5. FoundHonest'
    BY <2>1, <2>2 DEF Truthful, FoundHonest, HonestRow, InPlace, LocationOf, Home, DirExists
  <2>6. rpc' = "stamp" /\ ~LateErrors => Mirrors'
    BY <2>1 DEF Truthful, Mirrors, LocationOf, Sound
  <2> QED
    BY <2>1, <2>3, <2>4, <2>5, <2>6 DEF Truthful
<1> QED
  BY <1>2, <1>3, <1>4, <1>5, <1>6 DEF Next

LEMMA AlwaysTruthful ==
  ASSUME HandEdits \subseteq {"remove"}, ~ScanErrors
  PROVE  Spec => []Truthful
<1> QED
  BY InitTruthful, AlwaysTyped, AlwaysGuarded, AlwaysPlaced, AlwaysSingle, NextTruthful, PTL DEF Spec

\* What a start that finds nothing to rebuild may rely on.
LEMMA CleanMirrors ==
  ASSUME Typed, Guarded, Placed, NoCopies, Truthful, ~NeedsReindex, ~Drifted
  PROVE  Mirrors
<1> USE DEF Typed, TypeOK
<1>1. PICK rows \in [Ids -> Rows \union {None}] : rows = index
  BY DEF IndexTypeOK
<1>2. Labelled /\ AllSound /\ Filed(rows) /\ skipped = {}
  BY <1>1 DEF Placed, NoCopies, Truthful
<1>3. \A i \in Ids : Settled(i)
  BY DEF NeedsReindex, Settled, AtWork, Guarded, Held, HeldBy
<1>4. \A i \in Ids : HonestRow(i, rows[i])
  BY <1>1, <1>3 DEF Truthful
<1>5. OnDisk = Indexed
  BY <1>2 DEF Drifted
<1>6. ASSUME NEW d \in Walk
      PROVE  rows[d.id] # None /\ rows[d.id].loc = LocationOf(d)
  <2>1. [loc |-> LocationOf(d), info |-> Stat(d)] \in Indexed
    BY <1>5 DEF OnDisk
  <2>2. PICK i \in Ids : index[i] # None /\ index[i].loc = LocationOf(d)
    BY <2>1 DEF Indexed
  <2>3. d.id = i
    BY <1>1, <1>2, <2>2 DEF Filed, LocationOf
  <2> QED
    BY <1>1, <2>2, <2>3
<1>7. ASSUME NEW i \in Ids, rows[i] # None
      PROVE  rows[i].loc.dir \in Walk
  <2>1. [loc |-> index[i].loc, info |-> index[i].info] \in OnDisk
    BY <1>1, <1>5, <1>7 DEF Indexed
  <2>2. PICK d \in Walk : index[i].loc = LocationOf(d)
    BY <2>1 DEF OnDisk
  <2> QED
    BY <1>1, <2>2 DEF LocationOf
<1>8. LET readable == {d \in Walk : Sound(d)} IN
      /\ Walk \ readable = {}
      /\ \A d \in readable :
           LET row == rows[meta[d].id] IN
           /\ row # None
           /\ row.loc = LocationOf(d) /\ row.bib = epub[d].bib /\ row.val = meta[d].val
      /\ \A i \in Ids : rows[i] # None => /\ rows[i].loc.dir \in readable
                                          /\ meta[rows[i].loc.dir].id = i
  BY <1>2, <1>4, <1>6, <1>7, MirrorsIf
<1> QED
  BY <1>1, <1>2, <1>8 DEF Mirrors

\* Whatever failed or died, and wherever, an index that has stopped telling the
\* truth about the tree is rebuilt by the next start: a pending row, another schema
\* version or a path that moved says so.  It holds of users who remove files, whose
\* removals the walk cannot miss, and of scans that read what can be read; a user who
\* changes a book in place, or a scan that skips a sound one, is not always noticed
\* (Op.MarkPending, Put, rebuildTx, storeDrifted, DECISIONS 22).
THEOREM SelfHealing ==
  ASSUME HandEdits \subseteq {"remove"}, ~ScanErrors
  PROVE  Spec => []Healable
<1>1. Typed => NoCopies
  BY DEF NoCopies, Typed, TypeOK
<1>2. Typed /\ Guarded /\ Placed /\ Truthful => Healable
  BY <1>1, CleanMirrors DEF Healable
<1> QED
  BY <1>2, AlwaysTyped, AlwaysGuarded, AlwaysPlaced, AlwaysTruthful, PTL

\* A library is never handed to its frontends with an index that misstates the tree,
\* whether Open rebuilt it or found nothing to rebuild.  A move that fails after it
\* took effect (LateErrors) leaves a path that the same rebuild records wrongly
\* (Open, reindex, moveToCanonical).
THEOREM ServesTheTruth ==
  ASSUME HandEdits \subseteq {"remove"}, ~ScanErrors, ~LateErrors
  PROVE  Spec => OpensTruthful
<1> DEFINE Opens == phase # "serving" /\ phase' = "serving" => Mirrors'
<1>1. Typed /\ Guarded /\ Placed /\ Truthful /\ [Next]_vars => [Opens]_vars
  <2> SUFFICES ASSUME Typed, Guarded, Placed, Truthful, Next, phase # "serving", phase' = "serving"
               PROVE  Mirrors'
    OBVIOUS
  <2>1. NoCopies
    BY DEF NoCopies, Typed, TypeOK
  <2>2. \/ FinishReindex /\ StampVersion /\ rpc = "stamp"
        \/ OpenLibrary /\ ~NeedsReindex /\ ~Drifted /\ UNCHANGED indexVars
    <3>1. \A p \in Procs : ~ClientStep(p)
      BY ClientStepFrame
    <3>2. ~(\E p \in Procs, c \in Requests : Call(p, c)) /\ ~(\E kind \in HandEdits : HandEdit(kind))
      BY DEF Call, HandEdit
    <3>3. ReindexStep \/ RequestReindex \/ OpenLibrary \/ Crash \/ Upgrade \/ DiscardIndex
      BY <3>1, <3>2 DEF Next
    <3> QED
      BY <3>3
      DEF ReindexStep, AcquireReindex, ScanStore, MoveBookDir, MoveBookFile, Stays, BeginRebuild,
          RebuildIndex, FinishReindex, ReindexFails, RequestReindex, OpenLibrary, Crash, Upgrade,
          DiscardIndex
  <2>3. Mirrors /\ UNCHANGED <<epub, meta, index, skipped>>
    BY <2>1, <2>2, CleanMirrors
    DEF Truthful, FinishReindex, StampVersion, OpenLibrary, storeVars, indexVars
  <2> QED
    BY <2>3 DEF Mirrors, Walk, Sound, LocationOf
<1> QED
  BY <1>1, AlwaysTyped, AlwaysGuarded, AlwaysPlaced, AlwaysTruthful, PTL DEF Spec, OpensTruthful


-----------------------------------------------------------------------------
(* The index has a row for each book on disk, and no other. *)

\* No user touches the tree, no move fails after it took effect, no scan misses a
\* book that is sound, and a Reindex that moves books goes through.
Undisturbed ==
  HandEdits = {} /\ ~LateErrors /\ ~ScanErrors /\ ~(ReindexCalls /\ IoErrors)

OnWalk(i) == \E d \in Walk : d.id = i

\* The row of book i is there as its directory is, and says where that is.
Fits(i) ==
  /\ index[i] # None <=> OnWalk(i)
  /\ index[i] # None => Sole(i, index[i].loc.dir)

\* What a call has taken on, and where the files of its book are while no one has
\* left the book half done.
CallPlaced(p) ==
  /\ pc[p] = "idle" => call[p] = None
  /\ pc[p] \in HeldLabels \union {"book"} => call[p].id = book[p]
  /\ pc[p] \in DeleteLabels => call[p].kind = "delete"
  /\ book[p] \notin leftover =>
       /\ pc[p] \in EditLabels => OnWalk(book[p])
       /\ pc[p] \in {"rewrite", "remove"} => Sole(book[p], From(p).dir)
       /\ pc[p] = "erase" => ~OnWalk(book[p])

\* While the library serves, a settled book is where its row says.
Shelved ==
  /\ \A p \in Procs : CallPlaced(p)
  /\ phase = "serving" /\ rpc # "idle" => ReindexCalls
  /\ Current => \A i \in Ids : Settled(i) => (index[i] # None <=> OnWalk(i))
  /\ phase = "serving" /\ rpc \in {"idle", "wait"} => \A i \in Ids : Settled(i) => Fits(i)

LEMMA WalkIds ==
  ASSUME StoreTypeOK, StoreTypeOK', Labelled, Labelled', AllSound, AllSound', NEW i
  PROVE  /\ OnWalk(i) <=> i \in OnDiskIds
         /\ OnWalk(i)' <=> i \in OnDiskIds'
BY DEF OnWalk, OnDiskIds, Walk, Labelled, AllSound, StoreTypeOK

\* A call or a move that keeps the files of a book keeps every book on the walk.
LEMMA OnWalkKept ==
  ASSUME StoreTypeOK, StoreTypeOK', Labelled, Labelled', AllSound, AllSound',
         NEW j \in Ids, KeepsFiles(j), NEW i, OnWalk(i)
  PROVE  OnWalk(i)'
BY WalkIds, KeepsBooks

LEMMA SameWalk ==
  ASSUME NEW i, \A d \in Dirs : d.id = i => epub'[d] = epub[d] /\ meta'[d] = meta[d]
  PROVE  /\ OnWalk(i)' <=> OnWalk(i)
         /\ \A x : Sole(i, x)' <=> Sole(i, x)
BY DEF OnWalk, Sole, Walk

LEMMA StoreFits ==
  ASSUME UNCHANGED storeVars
  PROVE  \A i : (OnWalk(i)' <=> OnWalk(i)) /\ \A x : Sole(i, x)' <=> Sole(i, x)
BY DEF storeVars, OnWalk, Sole, Walk

-----------------------------------------------------------------------------
(* One lemma for each action that can disturb it. *)

\* What an edit makes of its own book.
LEMMA EditShelved ==
  ASSUME Typed, Guarded, Placed, Single, NoCopies, Truthful, Typed', Placed', Truthful',
         touched' = touched, NEW p \in Procs,
         \/ RewriteEpub(p) \/ RenameBookDir(p) \/ RenameBookFile(p) \/ UpdateMeta(p)
         \/ CommitEdit(p),
         NEW i \in Ids, i = book[p], CallPlaced(p)
  PROVE  CallPlaced(p)' /\ (Settled(i)' => Fits(i)')
<1> USE DEF Typed, TypeOK
<1>1. /\ pc[p] \in EditLabels /\ pc[p] \in HeldLabels
      /\ "copy" \notin touched
  BY DEF EditLabels, HeldLabels, RewriteEpub, RenameBookDir, RenameBookFile, UpdateMeta,
         CommitEdit, NoCopies
<1>2. OnWalk(i) => OnWalk(i)'
  <2>1. KeepsFiles(i)
    BY <1>1, EditFiles
  <2>2. Labelled /\ Labelled' /\ AllSound /\ AllSound'
    BY <1>1 DEF Placed, Truthful
  <2> QED
    BY <2>1, <2>2, OnWalkKept
<1>3. call[p].id = i /\ (i \notin leftover => OnWalk(i))
  BY <1>1 DEF CallPlaced
<1>4. ASSUME GiveUp(p)
      PROVE  CallPlaced(p)' /\ ~Settled(i)'
  BY <1>4 DEF GiveUp, LeavePending, Return, Goto, CallPlaced, Settled, EditLabels, HeldLabels, DeleteLabels,
              ClientTypeOK
<1>5. ASSUME Step(p, "dir") \/ Step(p, "file") \/ Step(p, "meta") \/ Step(p, "put"),
             UNCHANGED indexVars
      PROVE  CallPlaced(p)' /\ ~Settled(i)'
  <2>1. pc'[p] \in {"dir", "file", "meta", "put"} /\ call'[p] = call[p] /\ book'[p] = i
        /\ leftover' = leftover
    BY <1>5 DEF Step, Goto, ClientTypeOK, indexVars
  <2> QED
    BY <1>2, <1>3, <2>1 DEF CallPlaced, Settled, AtWork, HeldLabels, EditLabels, DeleteLabels
<1>6. ASSUME Return(p)
      PROVE  CallPlaced(p)'
  BY <1>6 DEF Return, Goto, CallPlaced, ClientTypeOK, EditLabels, HeldLabels, DeleteLabels
<1>7. ASSUME pc[p] = "rewrite", Cancel(p), Return(p), UNCHANGED storeVars
      PROVE  CallPlaced(p)' /\ (Settled(i)' => Fits(i)')
  <2>1. PICK row : row = index[i] /\ row # None /\ row.loc = From(p)
    BY <1>1 DEF Guarded, Held, HeldBy, From
  <2>2. index' = index /\ leftover' = leftover
    BY <1>7 DEF Cancel
  <2>3. i \notin leftover => Sole(i, row.loc.dir)
    BY <1>7, <2>1 DEF CallPlaced
  <2> QED
    BY <1>3, <1>6, <1>7, <2>1, <2>2, <2>3, StoreFits DEF Settled, Fits
<1>8. ASSUME CanStat(To(p)), Put(p, i, RowFor(To(p), NewBib(p), NewVal(p))), Return(p),
             UNCHANGED storeVars
      PROVE  CallPlaced(p)' /\ (Settled(i)' => Fits(i)')
  <2>1. To(p) \in Locations /\ To(p).dir \in Dirs /\ To(p).dir.id = i
        /\ NewBib(p) \in Keys /\ NewVal(p) \in Vals
    BY <1>1, OwnPlaces, EditPlaces
  <2>2. PICK row \in Rows : row = RowFor(To(p), NewBib(p), NewVal(p))
    BY <1>8, <2>1, RowType
  <2>3. row.loc = To(p) /\ row # None /\ index'[i] = row
    BY <1>8, <2>2, IndexAssumption DEF RowFor, Put, IndexTypeOK
  <2>4. row.loc.dir \in Walk /\ row.loc.dir.id = i
    BY <1>8, <2>1, <2>3 DEF CanStat, FileAt, Walk
  <2>5. OneDir(i)
    BY DEF Single
  <2>6. OnWalk(i) /\ Sole(i, row.loc.dir)
    BY <2>4, <2>5 DEF OnWalk, OneDir, Sole
  <2> QED
    BY <1>6, <1>8, <2>3, <2>6, StoreFits DEF Fits
<1> QED
  BY <1>4, <1>5, <1>7, <1>8
  DEF RewriteEpub, RenameBookDir, RenameBookFile, UpdateMeta, CommitEdit

LEMMA DeleteShelved ==
  ASSUME Typed, Guarded, Placed, NoCopies, NEW p \in Procs,
         RemoveBook(p) \/ CommitDelete(p),
         NEW i \in Ids, i = book[p], CallPlaced(p)
  PROVE  CallPlaced(p)' /\ (Settled(i)' => Fits(i)')
<1> USE DEF Typed, TypeOK
<1>1. /\ pc[p] \in {"remove", "erase"} /\ pc[p] \in HeldLabels
      /\ "copy" \notin touched /\ call[p].id = i /\ call[p].kind = "delete"
  BY DEF HeldLabels, DeleteLabels, RemoveBook, CommitDelete, NoCopies, CallPlaced
<1>2. PICK d \in Dirs : d = From(p).dir /\ d.id = i
  BY <1>1, OwnPlaces
<1>3. ASSUME GiveUp(p)
      PROVE  CallPlaced(p)' /\ ~Settled(i)'
  BY <1>3 DEF GiveUp, LeavePending, Return, Goto, CallPlaced, Settled, EditLabels, HeldLabels, DeleteLabels,
              ClientTypeOK
<1>4. ASSUME NEW l \in DeleteLabels, Step(p, l), UNCHANGED indexVars
      PROVE  /\ ~Settled(i)' /\ pc'[p] = l /\ book'[p] = i
             /\ call'[p].id = i /\ call'[p].kind = "delete"
             /\ From(p)' = From(p) /\ leftover' = leftover
  BY <1>1, <1>4 DEF Step, Goto, From, ClientTypeOK, Settled, AtWork, HeldLabels, indexVars
<1>5. ASSUME RemoveOne(d), Step(p, "remove"), UNCHANGED indexVars, pc[p] = "remove"
      PROVE  CallPlaced(p)' /\ ~Settled(i)'
  <2>1. Walk' \subseteq Walk /\ \A x \in Dirs : DirExists(x)' => DirExists(x)
    BY <1>5, RemoveOneFewer
  <2>2. i \notin leftover => Sole(i, d)'
    BY <1>2, <1>5, <2>1, FewerAlone DEF CallPlaced
  <2> QED
    BY <1>2, <1>4, <1>5, <2>2 DEF CallPlaced, EditLabels, DeleteLabels
<1>6. ASSUME ~DirExists(d), Step(p, "erase"), UNCHANGED <<storeVars, indexVars>>, pc[p] = "remove"
      PROVE  CallPlaced(p)' /\ ~Settled(i)'
  <2>1. i \notin leftover => ~OnWalk(i)
    BY <1>2, <1>6 DEF CallPlaced, Sole, OnWalk, Walk, DirExists
  <2> QED
    BY <1>4, <1>6, <2>1, StoreFits DEF CallPlaced, EditLabels, DeleteLabels
<1>7. ASSUME Erase(p, i), Return(p), UNCHANGED storeVars, pc[p] = "erase"
      PROVE  CallPlaced(p)' /\ (Settled(i)' => Fits(i)')
  <2>1. index'[i] = None /\ leftover' = leftover
    BY <1>7 DEF Erase, Put, IndexTypeOK
  <2>2. CallPlaced(p)'
    BY <1>7 DEF Return, Goto, CallPlaced, ClientTypeOK, EditLabels, HeldLabels, DeleteLabels
  <2>3. Settled(i)' => ~OnWalk(i)'
    BY <1>7, <2>1, StoreFits DEF Settled, CallPlaced
  <2> QED
    BY <2>1, <2>2, <2>3 DEF Fits
<1> QED
  BY <1>2, <1>3, <1>5, <1>6, <1>7 DEF RemoveBook, CommitDelete

LEMMA IngestShelved ==
  ASSUME Typed, Guarded, Single, NoCopies, NEW p \in Procs,
         PlaceEpub(p) \/ PlaceMeta(p) \/ RecordIngest(p) \/ UndoIngest(p),
         NEW i \in Ids, i = book[p]
  PROVE  CallPlaced(p)' /\ (Settled(i)' => Fits(i)')
<1> USE DEF Typed, TypeOK
<1>1. /\ pc[p] \in FilingLabels
      /\ pc'[p] \in {"idle", "sidecar", "undo", "record", "announce"}
      /\ pc'[p] = "idle" => call'[p] = None
  BY DEF PlaceEpub, PlaceMeta, RecordIngest, UndoIngest, FilingLabels, GiveUp, Return, Step, Goto,
         ClientTypeOK
<1>2. CallPlaced(p)'
  BY <1>1 DEF CallPlaced, EditLabels, HeldLabels, DeleteLabels
<1>3. PICK place \in Locations : /\ place = NewPlace(p) /\ place.dir \in Dirs /\ place.dir.id = i
                                 /\ call[p].bib \in Keys
  BY <1>1, IngestPlace DEF NewPlace, Layout
<1>4. index[i] = None /\ Sole(i, place.dir)
  BY <1>1, <1>3 DEF Guarded, Held, HeldBy, Single, CallAlone
<1>5. ASSUME GiveUp(p) \/ Step(p, "sidecar") \/ Step(p, "undo") \/ Step(p, "record")
      PROVE  ~Settled(i)'
  BY <1>5 DEF GiveUp, LeavePending, Step, Goto, Settled, AtWork, FilingLabels, ClientTypeOK
<1>6. ASSUME CanStat(place), Put(p, i, RowFor(place, call[p].bib, DefaultVal)), UNCHANGED storeVars
      PROVE  Fits(i)'
  <2>1. PICK row \in Rows : row = RowFor(place, call[p].bib, DefaultVal)
    BY <1>3, <1>6, RowType, LibraryAssumption
  <2>2. row.loc = place /\ row # None /\ index'[i] = row
    BY <1>6, <2>1, IndexAssumption DEF RowFor, Put, IndexTypeOK
  <2>3. OnWalk(i)
    BY <1>3, <1>6 DEF CanStat, FileAt, Walk, OnWalk
  <2> QED
    BY <1>4, <1>6, <2>2, <2>3, StoreFits DEF Fits
<1>7. ASSUME ~DirExists(place.dir), Cancel(p), UNCHANGED storeVars
      PROVE  Fits(i)'
  <2>1. ~OnWalk(i)
    BY <1>4, <1>7 DEF Sole, OnWalk, Walk, DirExists
  <2> QED
    BY <1>4, <1>7, <2>1, StoreFits DEF Fits, Cancel
<1> QED
  BY <1>2, <1>3, <1>5, <1>6, <1>7 DEF PlaceEpub, PlaceMeta, RecordIngest, UndoIngest


\* A call that begins on a settled book finds it where the row says.
LEMMA AsideShelved ==
  ASSUME Typed, Guarded, \A i \in Ids : Settled(i) => Fits(i),
         NEW p \in Procs, Aside(p), CallPlaced(p)
  PROVE  CallPlaced(p)'
<1> USE DEF Typed, TypeOK
<1>1. CASE Return(p)
  BY <1>1 DEF Return, Goto, CallPlaced, ClientTypeOK, EditLabels, HeldLabels, DeleteLabels
<1>2. CASE pc'[p] = "place"
  BY <1>2 DEF CallPlaced, EditLabels, HeldLabels, DeleteLabels
<1>3. CASE /\ pc[p] = "book" /\ BookLockFree(book[p]) /\ index[book[p]] # None
           /\ was' = [was EXCEPT ![p] = index[book[p]]]
           /\ Goto(p, FirstStep(call[p])) /\ MarkPending(p)
           /\ UNCHANGED <<call, book, storeVars>>
  <2>1. PICK i \in Ids : i = book[p]
    BY <1>3 DEF ClientOK
  <2>2. ASSUME i \notin leftover
        PROVE  Settled(i)
    <3>1. ASSUME NEW q \in Procs, AtWork(q), book[q] = i
          PROVE  FALSE
      BY <1>3, <2>1, <3>1, LibraryAssumption DEF AtWork, Guarded, Held, HeldBy, BookLockFree
    <3> QED
      BY <2>2, <3>1 DEF Settled
  <2>3. PICK row \in Rows : row = index[i] /\ row # None
    BY <1>3, <2>1 DEF IndexTypeOK
  <2>4. /\ was'[p] = row /\ book'[p] = i /\ leftover' = leftover
        /\ pc'[p] \in {"rewrite", "dir", "remove"} /\ call'[p].id = i /\ From(p)' = row.loc
        /\ pc'[p] = "remove" => call'[p].kind = "delete"
    BY <1>3, <2>1, <2>3, CallShape
    DEF MarkPending, Goto, FirstStep, From, ClientTypeOK, CallPlaced, ClientOK
  <2>5. i \notin leftover => OnWalk(i)' /\ Sole(i, row.loc.dir)'
    BY <1>3, <2>2, <2>3, StoreFits DEF Fits
  <2> QED
    BY <2>4, <2>5 DEF CallPlaced, DeleteLabels
<1> QED
  BY <1>1, <1>2, <1>3 DEF Aside, BeginOnBook, BeginIngest, AnnounceIngest, Goto, ClientTypeOK

LEMMA OthersShelved ==
  ASSUME Typed, Guarded, Placed, NoCopies, NEW p \in Procs, ClientStep(p),
         leftover \subseteq leftover'
  PROVE  /\ \A i \in Ids : (i # book[p] \/ ~AtWork(p)) /\ Settled(i)'
                             => Settled(i) /\ (Fits(i) => Fits(i)')
         /\ \A q \in Procs \ {p} : CallPlaced(q) => CallPlaced(q)'
<1> USE DEF Typed, TypeOK
<1>1. "copy" \notin touched
  BY DEF NoCopies
<1>2. ASSUME NEW q \in Procs \ {p}
      PROVE  /\ pc'[q] = pc[q] /\ call'[q] = call[q] /\ book'[q] = book[q] /\ was'[q] = was[q]
             /\ AtWork(q)' = AtWork(q)
  BY OthersSame DEF AtWork
<1>3. ASSUME NEW i \in Ids, i # book[p] \/ ~AtWork(p), Settled(i)'
      PROVE  Settled(i) /\ (Fits(i) => Fits(i)')
  <2>1. Settled(i)
    BY <1>2, <1>3 DEF Settled
  <2>2. PICK row : row = index[i] /\ index'[i] = row
    BY <1>1, <1>3, OtherBooks
  <2>3. (OnWalk(i)' <=> OnWalk(i)) /\ (Sole(i, row.loc.dir)' <=> Sole(i, row.loc.dir))
    BY <1>1, <1>3, OtherBooks, SameWalk
  <2> QED
    BY <2>1, <2>2, <2>3 DEF Fits
<1>4. ASSUME NEW q \in Procs \ {p}, CallPlaced(q)
      PROVE  CallPlaced(q)'
  <2>1. CASE pc[q] \notin HeldLabels
    <3>1. /\ pc'[q] \notin EditLabels /\ pc'[q] \notin {"rewrite", "remove", "erase"}
          /\ pc'[q] \notin HeldLabels
      BY <1>2, <2>1 DEF HeldLabels, EditLabels, DeleteLabels
    <3>2. pc'[q] = "idle" => call'[q] = None
      BY <1>2, <1>4 DEF CallPlaced
    <3>3. pc'[q] = "book" => call'[q].id = book'[q]
      BY <1>2, <1>4 DEF CallPlaced
    <3> QED
      BY <3>1, <3>2, <3>3 DEF CallPlaced, DeleteLabels
  <2>2. CASE pc[q] \in HeldLabels
    <3>1. AtWork(q) /\ book[q] \in Ids
      BY <2>2 DEF AtWork, HeldLabels, FilingLabels, EditLabels, DeleteLabels, ClientOK
    <3>2. PICK i \in Ids : i = book[q] /\ (i # book[p] \/ ~AtWork(p))
      BY <3>1, Apart DEF Guarded
    <3>3. PICK d : d = From(q).dir /\ From(q)' = From(q)
      BY <1>2 DEF From
    <3>4. (OnWalk(i)' <=> OnWalk(i)) /\ (Sole(i, d)' <=> Sole(i, d))
      <4>1. \A e \in Dirs : e.id = i => epub'[e] = epub[e] /\ meta'[e] = meta[e]
        BY <1>1, <3>2, OtherBooks
      <4> QED
        BY <4>1, SameWalk
    <3>5. /\ call[q].id = i /\ (pc[q] \in DeleteLabels => call[q].kind = "delete")
          /\ i \notin leftover =>
               /\ pc[q] \in EditLabels => OnWalk(i)'
               /\ pc[q] \in {"rewrite", "remove"} => Sole(i, d)'
               /\ pc[q] = "erase" => ~OnWalk(i)'
      BY <1>4, <2>2, <3>2, <3>3, <3>4 DEF CallPlaced
    <3>6. pc[q] # "idle"
      BY <2>2 DEF HeldLabels, EditLabels, DeleteLabels
    <3> QED
      BY <1>2, <3>2, <3>3, <3>5, <3>6 DEF CallPlaced
  <2> QED
    BY <2>1, <2>2
<1> QED
  BY <1>3, <1>4

LEMMA ClientShelved ==
  ASSUME Typed, Guarded, Placed, Single, Opened, NoCopies, Truthful, Shelved,
         Typed', Placed', Truthful', NEW p \in Procs, ClientStep(p)
  PROVE  Shelved'
<1>1. /\ pc[p] # "idle" /\ phase = "serving" /\ rpc \in {"idle", "wait"}
      /\ UNCHANGED <<phase, rpc, touched>>
  <2>1. pc[p] # "idle"
    BY DEF ClientStep, BeginOnBook, RewriteEpub, RenameBookDir, RenameBookFile, UpdateMeta,
           CommitEdit, RemoveBook, CommitDelete, BeginIngest, PlaceEpub, PlaceMeta, RecordIngest,
           AnnounceIngest, UndoIngest
  <2> QED
    BY <2>1, ClientStepFrame DEF NoCopies, Guarded, Quiet, reindexVars, Typed, TypeOK
<1>2. leftover \subseteq leftover'
  BY DEF ClientStep, BeginOnBook, RewriteEpub, RenameBookDir, RenameBookFile, UpdateMeta,
         CommitEdit, RemoveBook, CommitDelete, BeginIngest, PlaceEpub, PlaceMeta, RecordIngest,
         AnnounceIngest, UndoIngest, MarkPending, Put, Erase, Cancel, GiveUp, LeavePending,
         indexVars
<1>3. /\ \A i \in Ids : Settled(i) => Fits(i)
      /\ \A q \in Procs : CallPlaced(q)
  BY <1>1 DEF Shelved
<1>4. /\ \A i \in Ids : (i # book[p] \/ ~AtWork(p)) /\ Settled(i)' => Fits(i)'
      /\ \A q \in Procs \ {p} : CallPlaced(q)'
  BY <1>2, <1>3, OthersShelved
<1>5. CallPlaced(p)' /\ \A i \in Ids : Settled(i)' => Fits(i)'
  <2>1. CASE AtWork(p)
    <3>1. PICK i \in Ids : i = book[p]
      BY <2>1 DEF AtWork, Typed, ClientOK, HeldLabels, FilingLabels, EditLabels, DeleteLabels
    <3>2. ~Aside(p) /\ CallPlaced(p)
      BY <1>3, <2>1 DEF Aside, AtWork, BeginOnBook, BeginIngest, AnnounceIngest, HeldLabels,
                  FilingLabels, EditLabels, DeleteLabels
    <3>3. CallPlaced(p)' /\ (Settled(i)' => Fits(i)')
      BY <1>1, <3>1, <3>2, EditShelved, DeleteShelved, IngestShelved DEF ClientStep, Aside
    <3> QED
      BY <1>4, <3>1, <3>3
  <2>2. CASE ~AtWork(p)
    BY <1>3, <1>4, <2>2, OnlyWorkersWrite, AsideShelved
  <2> QED
    BY <2>1, <2>2
<1> QED
  BY <1>1, <1>3, <1>4, <1>5 DEF Shelved, Fits

\* What a rebuild renames loses and makes no book.
LEMMA MovesKeepWalk ==
  ASSUME Typed, Typed', Placed, Placed', NoCopies, Truthful, Truthful', touched' = touched,
         (\E i \in Ids : MoveBookDir(i)) \/ MoveBookFile,
         NEW j \in Ids
  PROVE  OnWalk(j)' <=> OnWalk(j)
<1> USE DEF Typed, TypeOK
<1>1. "copy" \notin touched /\ Labelled /\ Labelled' /\ AllSound /\ AllSound' /\ FoundHonest
  BY DEF NoCopies, Placed, Truthful
<1>2. PICK i \in Ids : KeepsFiles(i) /\ (MoveBookDir(i) \/ (MoveBookFile /\ i = mv))
  BY <1>1, MovingBook, MoveFiles DEF MoveBookFile, TodoOK
<1>3. OnWalk(j) => OnWalk(j)'
  BY <1>1, <1>2, OnWalkKept
<1>4. i \in todo /\ (MoveBookFile => rpc = "file") /\ (MoveBookDir(i) => rpc = "move")
  BY <1>2 DEF MoveBookDir, MoveBookFile, TodoOK
<1>5. PICK from, to, row, place :
        /\ from \in Dirs /\ to \in Dirs /\ row = found[i] /\ row # None
        /\ from = row.loc.dir /\ place = Home(i) /\ to = place.dir
        /\ from.id = i /\ to.id = i /\ place.name \in Keys
  BY <1>1, <1>4, MovingBook
<1>6. /\ MoveBookDir(i) => from \in Walk
      /\ MoveBookFile => to \in Walk
  BY <1>1, <1>2, <1>4, <1>5 DEF FoundHonest, InPlace
<1>7. \/ UNCHANGED storeVars
      \/ MoveBookDir(i) /\ CanRenameDir(from, to) /\ RenameDir(from, to)
      \/ MoveBookFile /\ epub[to] # None /\ RenameFile(to, place.name)
      \/ MoveBookFile /\ CanRenameDir(to, from) /\ RenameDir(to, from)
  BY <1>2, <1>5 DEF MoveBookDir, MoveBookFile, RenamedBack, FileAt
<1>8. \A e \in Walk' : \E d \in Walk : d.id = e.id
  BY <1>5, <1>6, <1>7, RenamesHonest
<1> QED
  BY <1>3, <1>8 DEF OnWalk


LEMMA MirrorsFits ==
  ASSUME StoreTypeOK, Labelled, AllSound, Mirrors, NEW i \in Ids, OneDir(i)
  PROVE  Fits(i)
<1>1. ASSUME NEW d \in Walk
      PROVE  Sound(d) /\ meta[d].id = d.id
  BY WalkType DEF AllSound, Labelled, Sound, Walk
<1>2. ASSUME index[i] # None
      PROVE  index[i].loc.dir \in Walk /\ index[i].loc.dir.id = i
  BY <1>1, <1>2 DEF Mirrors
<1>3. OnWalk(i) => index[i] # None
  BY <1>1 DEF OnWalk, Mirrors
<1> QED
  BY <1>2, <1>3 DEF Fits, OnWalk, Sole, OneDir

\* A scan that reads every book meets no two of one id.
LEMMA ScanGoesOn ==
  ASSUME Typed, Placed, Single, NoCopies, Truthful, ~ScanErrors, ~IoErrors, ScanStore
  PROVE  rpc' = "move" /\ phase' = phase
<1>1. {d \in Walk \ {} : Sound(d)} = Walk
  BY DEF Truthful, AllSound, Sound, Walk
<1>2. ~DuplicateIds(Walk)
  <2> SUFFICES ASSUME NEW d \in Walk, NEW e \in Walk, d # e, meta[d].id = meta[e].id
               PROVE  FALSE
    BY DEF DuplicateIds
  <2>1. d \in Dirs /\ e \in Dirs /\ meta[d].id = d.id /\ meta[e].id = e.id /\ d.id \in Ids
    BY WalkType DEF Truthful, AllSound, Labelled, Placed, NoCopies, Dirs, Typed, TypeOK
  <2> QED
    BY <2>1 DEF Single, OneDir
<1> QED
  BY <1>1, <1>2 DEF ScanStore

\* What a rebuild has found when it commits.
LEMMA FoundOnWalk ==
  ASSUME Typed, Placed, NoCopies, Truthful, ~LateErrors, rpc = "rebuild", NEW i \in Ids
  PROVE  found[i] # None <=> OnWalk(i)
<1>1. Filed(found)
  BY DEF Placed, NoCopies
<1>2. found[i] # None => found[i].loc.dir \in Walk /\ found[i].loc.dir.id = i
  BY <1>1 DEF Truthful, FoundHonest, InPlace, Filed
<1> QED
  BY <1>2 DEF Truthful, FoundHonest, OnWalk

LEMMA RebuildingShelved ==
  ASSUME Typed, Guarded, Placed, Single, Opened, NoCopies, Truthful, Shelved,
         Typed', Placed', Truthful', Undisturbed, ReindexStep
  PROVE  Shelved'
<1> USE DEF Typed, TypeOK
<1>1. /\ \A p \in Procs : pc[p] = "idle" /\ ~AtWork(p) /\ ~AtWork(p)'
      /\ UNCHANGED <<clientVars, touched>>
  <2>1. \A p \in Procs : pc[p] = "idle"
    BY DEF ReindexStep, AcquireReindex, Drained, ScanStore, MoveBookDir, MoveBookFile,
           BeginRebuild, RebuildIndex, FinishReindex, Guarded, Quiet
  <2>2. UNCHANGED <<clientVars, touched>>
    BY DEF ReindexStep, AcquireReindex, ScanStore, MoveBookDir, MoveBookFile, BeginRebuild,
           RebuildIndex, FinishReindex
  <2> QED
    BY <2>1, <2>2, NoneAtWork DEF clientVars, AtWork
<1>2. /\ \A p \in Procs : CallPlaced(p)'
      /\ \A i \in Ids : (Settled(i) <=> i \notin leftover) /\ (Settled(i)' <=> i \notin leftover')
  <2>1. ASSUME NEW p \in Procs
        PROVE  CallPlaced(p)'
    <3>1. pc'[p] = "idle" /\ call'[p] = None
      BY <1>1 DEF Shelved, CallPlaced, clientVars
    <3> QED
      BY <3>1 DEF CallPlaced, HeldLabels, EditLabels, DeleteLabels
  <2> QED
    BY <1>1, <2>1 DEF Settled
<1>3. /\ phase = "opening" \/ (phase = "serving" /\ ReindexCalls /\ ~IoErrors)
      /\ Labelled /\ AllSound /\ \A i \in Ids : OneDir(i)
      /\ ~LateErrors /\ ~ScanErrors
  <2>1. rpc # "idle"
    BY DEF ReindexStep, AcquireReindex, ScanStore, MoveBookDir, MoveBookFile, BeginRebuild,
           RebuildIndex, FinishReindex
  <2> QED
    BY <2>1 DEF Shelved, Opened, Undisturbed, Placed, NoCopies, Truthful, Single
<1>4. ASSUME ReindexFails, IoErrors,
             Current' => \A i \in Ids : Settled(i)' => (index'[i] # None <=> OnWalk(i)')
      PROVE  Shelved'
  <2>1. phase' = "down"
    BY <1>3, <1>4 DEF ReindexFails
  <2> QED
    BY <1>2, <1>4, <2>1 DEF Shelved
<1>5. ASSUME phase' = phase, rpc' \in {"scan", "move", "file", "rebuild", "stamp"},
             Current' => \A i \in Ids : Settled(i)' => (index'[i] # None <=> OnWalk(i)')
      PROVE  Shelved'
  BY <1>2, <1>3, <1>5 DEF Shelved
<1>6. ASSUME UNCHANGED <<index, leftover, version>>, \A i \in Ids : OnWalk(i)' <=> OnWalk(i)
      PROVE  Current' => \A i \in Ids : Settled(i)' => (index'[i] # None <=> OnWalk(i)')
  BY <1>2, <1>6 DEF Shelved, Current
<1>7. CASE \/ \E i \in Ids : MoveBookDir(i)
           \/ MoveBookFile
  <2>1. \A i \in Ids : OnWalk(i)' <=> OnWalk(i)
    BY <1>1, <1>7, MovesKeepWalk
  <2>2. UNCHANGED <<index, leftover, version, phase>> /\ rpc' \in {"move", "file"}
    BY <1>7 DEF MoveBookDir, MoveBookFile, Stays, indexVars
  <2> QED
    BY <1>5, <1>6, <2>1, <2>2
<1>8. CASE AcquireReindex
  <2>1. UNCHANGED <<index, leftover, version, phase, storeVars>> /\ rpc' = "scan"
    BY <1>8 DEF AcquireReindex, indexVars
  <2> QED
    BY <1>5, <1>6, <2>1, StoreFits
<1>9. CASE ScanStore
  <2>1. UNCHANGED <<index, leftover, version, storeVars>>
    BY <1>9 DEF ScanStore, indexVars
  <2>2. CASE ReindexFails /\ IoErrors
    BY <1>4, <1>6, <2>1, <2>2, StoreFits
  <2>3. CASE ReindexFails /\ ~IoErrors
    BY <1>3, <1>9, <2>3, ScanGoesOn DEF ReindexFails, ReindexEnds
  <2>4. CASE rpc' = "move" /\ phase' = phase
    BY <1>5, <1>6, <2>1, <2>4, StoreFits
  <2> QED
    BY <1>9, <2>2, <2>3, <2>4 DEF ScanStore
<1>10. CASE BeginRebuild
  <2>1. CASE PrepareRebuild /\ rpc' = "rebuild" /\ UNCHANGED <<phase, storeVars>>
    <3>1. version' = version /\ (Current => UNCHANGED <<index, leftover>>)
      BY <2>1 DEF PrepareRebuild
    <3> QED
      BY <1>5, <1>6, <2>1, <3>1, StoreFits DEF Current
  <2>2. CASE IoErrors /\ ReindexFails /\ (UNCHANGED indexVars \/ DropTables) /\ UNCHANGED storeVars
    <3>1. version' = version /\ (Current => UNCHANGED <<index, leftover>>)
      BY <2>2 DEF DropTables, indexVars
    <3> QED
      BY <1>4, <1>6, <2>2, <3>1, StoreFits DEF Current
  <2> QED
    BY <1>10, <2>1, <2>2 DEF BeginRebuild
<1>11. CASE RebuildIndex
  <2>1. CASE Rebuild(found, passed, top) /\ rpc' = "stamp" /\ phase' = phase /\ UNCHANGED storeVars
    <3>1. index' = found /\ rpc = "rebuild"
      BY <1>11, <2>1 DEF Rebuild, RebuildIndex
    <3>2. \A i \in Ids : found[i] # None <=> OnWalk(i)'
      BY <1>3, <2>1, <3>1, FoundOnWalk, StoreFits
    <3> QED
      BY <1>5, <2>1, <3>1, <3>2
  <2>2. CASE IoErrors /\ ReindexFails /\ UNCHANGED <<indexVars, storeVars>>
    BY <1>4, <1>6, <2>2, StoreFits DEF indexVars
  <2> QED
    BY <1>11, <2>1, <2>2 DEF RebuildIndex
<1>12. CASE FinishReindex
  <2>1. Mirrors /\ UNCHANGED <<storeVars, index>>
    BY <1>3, <1>12 DEF Truthful, FinishReindex, StampVersion, indexVars
  <2>2. \A i \in Ids : Fits(i)'
    <3>1. \A i \in Ids : Fits(i)
      BY <1>3, <2>1, MirrorsFits
    <3> QED
      BY <2>1, <3>1, StoreFits DEF Fits
  <2>3. CASE IoErrors /\ ReindexFails
    BY <1>4, <2>2, <2>3 DEF Fits
  <2>4. CASE ReindexEnds
    BY <1>2, <2>2, <2>4 DEF Shelved, ReindexEnds, Fits
  <2> QED
    BY <1>12, <2>3, <2>4 DEF FinishReindex
<1> QED
  BY <1>7, <1>8, <1>9, <1>10, <1>11, <1>12 DEF ReindexStep

\* What happens to the process, and the calls that begin.
LEMMA RunShelved ==
  ASSUME Typed, Guarded, Placed, Single, Opened, NoCopies, Truthful, Shelved,
         \/ \E p \in Procs, c \in Requests : Call(p, c)
         \/ RequestReindex \/ OpenLibrary \/ Crash \/ Upgrade \/ DiscardIndex
  PROVE  Shelved'
<1> USE DEF Typed, TypeOK
<1>1. UNCHANGED storeVars
  BY DEF Call, RequestReindex, OpenLibrary, Crash, Upgrade, DiscardIndex
<1>2. ASSUME \A i \in Ids : Settled(i)' => Settled(i), UNCHANGED index
      PROVE  \A i \in Ids : Settled(i)' => /\ Settled(i) /\ (Fits(i) => Fits(i)')
                                           /\ (index'[i] # None <=> OnWalk(i)')
                                                 <=> (index[i] # None <=> OnWalk(i))
  BY <1>1, <1>2, StoreFits DEF Fits
<1>3. ASSUME \A p \in Procs : pc'[p] = "idle" /\ call'[p] = None
      PROVE  \A p \in Procs : CallPlaced(p)'
  BY <1>3 DEF CallPlaced, HeldLabels, EditLabels, DeleteLabels
<1>4. phase # "serving" => \A p \in Procs : pc[p] = "idle" /\ call[p] = None
  BY DEF Guarded, Quiet, Shelved, CallPlaced
<1>5. CASE \E p \in Procs, c \in Requests : Call(p, c)
  <2>1. PICK p \in Procs, c \in Requests : Call(p, c)
    BY <1>5
  <2>2. /\ pc[p] = "idle" /\ pc'[p] \in {"book", "ingest"}
        /\ pc'[p] = "book" => call'[p].id = book'[p]
        /\ phase = "serving" /\ rpc = "idle"
        /\ UNCHANGED <<index, leftover, version, phase, rpc>>
    BY <2>1 DEF Call, MayRead, Goto, indexVars, reindexVars, ClientTypeOK
  <2>3. ASSUME NEW q \in Procs \ {p}
        PROVE  /\ pc'[q] = pc[q] /\ book'[q] = book[q] /\ call'[q] = call[q]
               /\ From(q)' = From(q) /\ AtWork(q)' = AtWork(q)
    BY <2>1 DEF Call, Goto, From, AtWork, ClientTypeOK
  <2>4. ~AtWork(p) /\ CallPlaced(p)'
    BY <2>2 DEF AtWork, CallPlaced, HeldLabels, FilingLabels, EditLabels, DeleteLabels
  <2>5. ASSUME NEW q \in Procs \ {p}
        PROVE  CallPlaced(q)'
    <3>1. PICK i, d : i = book[q] /\ d = From(q).dir
      OBVIOUS
    <3>2. CallPlaced(q) /\ (OnWalk(i)' <=> OnWalk(i)) /\ (Sole(i, d)' <=> Sole(i, d))
      BY <1>1, StoreFits DEF Shelved
    <3> QED
      BY <2>2, <2>3, <3>1, <3>2 DEF CallPlaced
  <2>6. \A i \in Ids : Settled(i)' => Settled(i)
    BY <2>2, <2>3, <2>4 DEF Settled
  <2>7. \A i \in Ids : Settled(i)' => Fits(i)'
    BY <1>2, <2>2, <2>6 DEF Shelved
  <2> QED
    BY <2>2, <2>4, <2>5, <2>7 DEF Shelved, Fits
<1>6. CASE RequestReindex
  <2>1. /\ UNCHANGED <<index, leftover, version, phase, clientVars>>
        /\ ReindexCalls /\ phase = "serving" /\ rpc = "idle" /\ rpc' = "wait"
    BY <1>6 DEF RequestReindex, indexVars
  <2>2. \A i \in Ids : Settled(i)' => Settled(i)
    BY <2>1 DEF Settled, AtWork, clientVars
  <2>3. \A i \in Ids : Settled(i)' => Fits(i)'
    BY <1>2, <2>1, <2>2 DEF Shelved
  <2>4. ASSUME NEW q \in Procs
        PROVE  CallPlaced(q)'
    <3>1. PICK i, d : i = book[q] /\ d = From(q).dir
      OBVIOUS
    <3>2. CallPlaced(q) /\ (OnWalk(i)' <=> OnWalk(i)) /\ (Sole(i, d)' <=> Sole(i, d))
      BY <1>1, StoreFits DEF Shelved
    <3>3. From(q)' = From(q)
      BY <2>1 DEF From, clientVars
    <3> QED
      BY <2>1, <3>1, <3>2, <3>3 DEF CallPlaced, clientVars
  <2> QED
    BY <2>1, <2>3, <2>4 DEF Shelved, Fits
<1>7. CASE OpenLibrary
  <2>1. /\ UNCHANGED <<index, leftover, version, clientVars>> /\ phase = "down"
        /\ \/ phase' # "serving"
           \/ ~NeedsReindex /\ ~Drifted /\ rpc' = rpc
    BY <1>7 DEF OpenLibrary, ApplySchema, indexVars, reindexVars
  <2>2. \A i \in Ids : Settled(i)' => Settled(i)
    BY <2>1 DEF Settled, AtWork, clientVars
  <2>3. \A p \in Procs : CallPlaced(p)'
    BY <1>3, <1>4, <2>1 DEF clientVars
  <2>4. Current' => \A i \in Ids : Settled(i)' => (index'[i] # None <=> OnWalk(i)')
    BY <1>2, <2>1, <2>2 DEF Shelved, Current
  <2>5. CASE phase' # "serving"
    BY <2>3, <2>4, <2>5 DEF Shelved
  <2>6. CASE ~NeedsReindex /\ ~Drifted /\ rpc' = rpc
    <3>1. rpc' = "idle"
      BY <2>1, <2>6 DEF Opened
    <3>2. Mirrors /\ Labelled /\ AllSound /\ \A i \in Ids : OneDir(i)
      BY <2>6, CleanMirrors DEF Placed, NoCopies, Truthful, Single
    <3>3. \A i \in Ids : Fits(i)
      BY <3>2, MirrorsFits
    <3>4. \A i \in Ids : Fits(i)'
      BY <1>1, <2>1, <3>3, StoreFits DEF Fits
    <3> QED
      BY <2>3, <2>4, <3>1, <3>4 DEF Shelved
  <2> QED
    BY <2>1, <2>5, <2>6
<1>8. CASE Crash
  <2>1. /\ UNCHANGED <<index, version>> /\ phase' = "down"
        /\ leftover' = leftover \union {book[p] : p \in own}
        /\ \A p \in Procs : pc'[p] = "idle" /\ call'[p] = None
    BY <1>8 DEF Crash
  <2>2. \A p \in Procs : AtWork(p) => p \in own
    BY DEF AtWork, Guarded, Held, HeldBy
  <2>3. \A i \in Ids : Settled(i)' => Settled(i)
    BY <2>1, <2>2 DEF Settled
  <2>4. Current' => \A i \in Ids : Settled(i)' => (index'[i] # None <=> OnWalk(i)')
    BY <1>2, <2>1, <2>3 DEF Shelved, Current
  <2> QED
    BY <1>3, <2>1, <2>4 DEF Shelved
<1>9. CASE Upgrade \/ DiscardIndex
  <2>1. ~Current' /\ phase' = "down" /\ phase = "down" /\ UNCHANGED clientVars
    BY <1>9 DEF Upgrade, DiscardIndex, Current
  <2> QED
    BY <1>3, <1>4, <2>1 DEF Shelved, clientVars
<1> QED
  BY <1>5, <1>6, <1>7, <1>8, <1>9

LEMMA InitShelved ==
  ASSUME Init
  PROVE  Shelved
BY DEF Init, IndexInit, ReindexIdle, ClientsIdle, Shelved, CallPlaced, Current, EditLabels,
       HeldLabels, DeleteLabels

LEMMA NextShelved ==
  ASSUME Typed, Guarded, Placed, Single, Opened, Truthful, Shelved, Typed', Placed', Truthful',
         Undisturbed, [Next]_vars
  PROVE  Shelved'
<1>1. NoCopies
  BY DEF NoCopies, Typed, TypeOK, Undisturbed
<1>2. ASSUME NEW p \in Procs, ClientStep(p)
      PROVE  Shelved'
  BY <1>1, <1>2, ClientShelved
<1>3. CASE ReindexStep
  BY <1>1, <1>3, RebuildingShelved
<1>4. CASE \/ \E p \in Procs, c \in Requests : Call(p, c)
           \/ RequestReindex \/ OpenLibrary \/ Crash \/ Upgrade \/ DiscardIndex
  BY <1>1, <1>4, RunShelved
<1>5. CASE UNCHANGED vars
  BY <1>5
  DEF vars, storeVars, indexVars, reindexVars, clientVars, Shelved, CallPlaced, Fits, OnWalk, Sole,
      Settled, AtWork, From, Walk, Current
<1> QED
  BY <1>2, <1>3, <1>4, <1>5 DEF Next, Undisturbed

LEMMA AlwaysShelved ==
  ASSUME Undisturbed
  PROVE  Spec => []Shelved
<1>1. HandEdits \subseteq {"remove"} /\ ~ScanErrors
  BY DEF Undisturbed
<1>2. Spec => []Truthful
  BY <1>1, AlwaysTruthful
<1> QED
  BY <1>2, InitShelved, AlwaysTyped, AlwaysGuarded, AlwaysPlaced, AlwaysSingle, NextShelved, PTL
  DEF Spec


-----------------------------------------------------------------------------
(* The library keeps the promises of Shelf.  These are the shelf, the books  *)
(* in doubt and the requests that Promise reads off the library's state.     *)

Books == [bib : Keys, val : Vals]

Told(row) == IF row = None THEN None ELSE [bib |-> row.bib, val |-> row.val]

\* What the tree alone says book i is, for an index of another schema.
Shown(i) ==
  LET owners == {d \in Walk : Sound(d) /\ meta[d].id = i}
      d      == CHOOSE e \in owners : TRUE IN
  IF owners = {} THEN None ELSE [bib |-> epub[d].bib, val |-> meta[d].val]

TheShelf == [i \in Ids |-> OnShelf(i)]
InDoubt  == leftover \union {book[p] : p \in own}
Asked    == [p \in Procs |-> IF pc[p] = "announce" THEN None ELSE call[p]]

LEMMA ShelfIs ==
  /\ \A i : OnShelf(i) = IF Current THEN Told(index[i]) ELSE Shown(i)
  /\ \A i : OnShelf(i)' = IF Current' THEN Told(index'[i]) ELSE Shown(i)'
BY DEF OnShelf, Told, Shown

-----------------------------------------------------------------------------
(* Steps of the library as steps of Shelf. *)

LEMMA AStutter ==
  ASSUME UNCHANGED <<TheShelf, InDoubt, Asked>>
  PROVE  UNCHANGED Promise!shelfVars
BY DEF TheShelf, InDoubt, Asked, Promise!shelfVars

LEMMA ARequest ==
  ASSUME NEW p \in Procs, NEW c \in Requests, Asked[p] = None,
         Asked' = [Asked EXCEPT ![p] = c], UNCHANGED <<TheShelf, InDoubt>>
  PROVE  Promise!Next
<1>1. Promise!Request(p, c)
  BY DEF TheShelf, InDoubt, Asked, Promise!Request
<1> QED
  BY <1>1 DEF Promise!Next

LEMMA ARefusal ==
  ASSUME NEW P \in SUBSET Procs, InDoubt' \subseteq InDoubt, TheShelf' = TheShelf,
         \A p \in Procs : Asked'[p] = IF p \in P THEN None ELSE Asked[p]
  PROVE  Promise!Next
<1>1. Promise!Refuse(P)
  BY DEF TheShelf, InDoubt, Asked, Promise!Refuse
<1> QED
  BY <1>1 DEF Promise!Next

LEMMA AStart ==
  ASSUME NEW p \in Procs, NEW i \in Ids, Asked[p] # None,
         InDoubt' = InDoubt \union {i}, UNCHANGED <<TheShelf, Asked>>
  PROVE  Promise!Next
<1>1. Promise!StartTouching(p, i)
  BY DEF TheShelf, InDoubt, Asked, Promise!StartTouching
<1> QED
  BY <1>1 DEF Promise!Next

LEMMA AnEffect ==
  ASSUME NEW p \in Procs, NEW i \in Ids, Asked[p] # None, i \in InDoubt, NEW b,
         \/ /\ Asked[p].kind = "edit" /\ Asked[p].id = i /\ TheShelf[i] # None
            /\ b = [bib |-> IF Asked[p].bib = None THEN TheShelf[i].bib ELSE Asked[p].bib,
                    val |-> IF Asked[p].val = None THEN TheShelf[i].val ELSE Asked[p].val]
         \/ Asked[p].kind = "delete" /\ Asked[p].id = i /\ b = None
         \/ /\ Asked[p].kind = "ingest" /\ TheShelf[i] = None
            /\ b = [bib |-> Asked[p].bib, val |-> DefaultVal],
         TheShelf' = [TheShelf EXCEPT ![i] = b],
         Asked' = [Asked EXCEPT ![p] = None],
         InDoubt' \in {InDoubt, InDoubt \ {i}}
  PROVE  Promise!Next
<1>1. Promise!TakeEffect(p, i)
  BY DEF TheShelf, InDoubt, Asked, Promise!TakeEffect, Promise!Amended
<1> QED
  BY <1>1 DEF Promise!Next

LEMMA ARecovery ==
  ASSUME \A p \in Procs : Asked[p] = None,
         \A i \in Ids : OnShelf(i)' \in Books \union {None},
         \A i \in Ids \ InDoubt : OnShelf(i)' = OnShelf(i),
         InDoubt' \subseteq InDoubt, Asked' = Asked
  PROVE  Promise!Next
<1>1. Promise!Recover
  BY DEF Books, InDoubt, Asked, Promise!Recover, Promise!ShelfBooks
<1> QED
  BY <1>1 DEF Promise!Next

-----------------------------------------------------------------------------
(* How a client's step moves the doubt and the requests. *)

LEMMA DoubtIs ==
  ASSUME Typed, Guarded
  PROVE  InDoubt = {i \in Ids : ~Settled(i)}
<1>1. \A p \in Procs : p \in own <=> AtWork(p)
  BY DEF Typed, OwnOK, Guarded, Held, HeldBy, AtWork
<1>2. \A p \in own : p \in Procs /\ book[p] \in Ids
  BY <1>1 DEF Typed, TypeOK, IndexTypeOK, ClientOK, AtWork, HeldLabels, FilingLabels, EditLabels,
              DeleteLabels
<1>3. leftover \subseteq Ids
  BY DEF Typed, TypeOK, IndexTypeOK
<1> QED
  BY <1>1, <1>2, <1>3 DEF InDoubt, Settled

LEMMA DoubtMoves ==
  ASSUME Typed, Guarded, NEW p \in Procs, \A q \in Procs \ {p} : book'[q] = book[q]
  PROVE  /\ UNCHANGED <<own, leftover>> /\ (p \notin own \/ book'[p] = book[p])
              => InDoubt' = InDoubt
         /\ p \notin own /\ own' = own \union {p} /\ leftover' = leftover
              => InDoubt' = InDoubt \union {book'[p]}
         /\ p \in own /\ own' = own \ {p} /\ leftover' \subseteq leftover \union {book[p]}
              => InDoubt' \subseteq InDoubt
         /\ AtWork(p) /\ own' = own \ {p} /\ leftover' = leftover
              => book[p] \in InDoubt /\ InDoubt' \in {InDoubt, InDoubt \ {book[p]}}
<1>1. own \subseteq Procs
  BY DEF Typed, TypeOK, IndexTypeOK
<1>2. UNCHANGED <<own, leftover>> /\ (p \notin own \/ book'[p] = book[p])
        => InDoubt' = InDoubt
  BY <1>1 DEF InDoubt
<1>3. p \notin own /\ own' = own \union {p} /\ leftover' = leftover
        => InDoubt' = InDoubt \union {book'[p]}
  BY <1>1 DEF InDoubt
<1>4. p \in own /\ own' = own \ {p} /\ leftover' \subseteq leftover \union {book[p]}
        => InDoubt' \subseteq InDoubt
  BY <1>1 DEF InDoubt
<1>5. ASSUME AtWork(p), own' = own \ {p}, leftover' = leftover
      PROVE  book[p] \in InDoubt /\ InDoubt' \in {InDoubt, InDoubt \ {book[p]}}
  <2>1. p \in own
    BY <1>5 DEF AtWork, Guarded, Held, HeldBy
  <2>2. \A q \in own \ {p} : q \in Procs /\ book[q] # book[p]
    BY <1>1, <1>5, Apart DEF Guarded, Typed, OwnOK, AtWork
  <2>3. InDoubt = leftover \union {book[p]} \union {book[q] : q \in own \ {p}}
    BY <2>1 DEF InDoubt
  <2>4. InDoubt' = leftover \union {book[q] : q \in own \ {p}}
    BY <1>1, <1>5 DEF InDoubt
  <2> QED
    BY <2>2, <2>3, <2>4
<1> QED
  BY <1>2, <1>3, <1>4, <1>5

LEMMA AskedMoves ==
  ASSUME Typed, NEW p \in Procs,
         \A q \in Procs \ {p} : pc'[q] = pc[q] /\ call'[q] = call[q]
  PROVE  Asked' = [Asked EXCEPT ![p] = IF pc'[p] = "announce" THEN None ELSE call'[p]]
BY DEF Asked, Typed, TypeOK, ClientTypeOK


LEMMA ServedShelf ==
  ASSUME Typed, Current, Current'
  PROVE  /\ index' = index => TheShelf' = TheShelf
         /\ \A i \in Ids : TheShelf[i] = Told(index[i])
         /\ \A i \in Ids : \A row : index' = [index EXCEPT ![i] = row]
              => TheShelf' = [TheShelf EXCEPT ![i] = Told(row)]
<1>1. /\ TheShelf = [i \in Ids |-> Told(index[i])]
      /\ TheShelf' = [i \in Ids |-> Told(index'[i])]
  BY ShelfIs DEF TheShelf
<1> QED
  BY <1>1 DEF Typed, TypeOK, IndexTypeOK

LEMMA ToldBook ==
  ASSUME NEW row \in Rows
  PROVE  /\ row # None /\ Told(row) # None /\ Told(row) \in Books
         /\ Told(row) = [bib |-> row.bib, val |-> row.val]
<1>1. row # None /\ row.bib \in Keys /\ row.val \in Vals
  BY IndexAssumption DEF Rows
<1>2. None \notin Books
  BY LibraryAssumption DEF Books
<1> QED
  BY <1>1, <1>2 DEF Told, Books

\* A call that fails, and leaves its book in doubt or takes the doubt back.
LEMMA ARefusedCall ==
  ASSUME Typed, Guarded, NEW p \in Procs, Return(p), index' = index, Current, Current',
         \/ UNCHANGED <<own, leftover>> /\ p \notin own
         \/ p \in own /\ own' = own \ {p} /\ leftover' \subseteq leftover \union {book[p]}
  PROVE  Promise!Next
<1>1. /\ \A q \in Procs \ {p} : pc'[q] = pc[q] /\ call'[q] = call[q] /\ book'[q] = book[q]
      /\ pc'[p] = "idle" /\ call'[p] = None
  BY DEF Return, Goto, Typed, TypeOK, ClientTypeOK
<1>2. InDoubt' \subseteq InDoubt
  BY <1>1, DoubtMoves
<1>3. Asked' = [Asked EXCEPT ![p] = None]
  BY <1>1, AskedMoves
<1>4. \A q \in Procs : Asked'[q] = IF q \in {p} THEN None ELSE Asked[q]
  BY <1>3 DEF Asked
<1>5. TheShelf' = TheShelf
  BY ServedShelf
<1> QED
  BY <1>2, <1>4, <1>5, ARefusal

\* A step in the middle of a call.
LEMMA AWorkingStep ==
  ASSUME Typed, Guarded, NEW p \in Procs, NEW l, Step(p, l), l # "announce", pc[p] # "announce",
         UNCHANGED <<index, own, leftover>>, Current, Current'
  PROVE  UNCHANGED Promise!shelfVars
<1>1. /\ pc' = [pc EXCEPT ![p] = l] /\ UNCHANGED <<call, book>>
  BY DEF Step, Goto
<1>2. InDoubt' = InDoubt /\ TheShelf' = TheShelf
  BY <1>1, DoubtMoves, ServedShelf
<1>3. Asked' = Asked
  BY <1>1 DEF Asked, Typed, TypeOK, ClientTypeOK
<1> QED
  BY <1>2, <1>3, AStutter

\* The transaction at which a call takes effect.
LEMMA ACommit ==
  ASSUME Typed, Guarded, NEW p \in Procs, NEW i \in Ids, NEW row, AtWork(p), i = book[p],
         Put(p, i, row), Current, Current',
         \A q \in Procs \ {p} : pc'[q] = pc[q] /\ call'[q] = call[q] /\ book'[q] = book[q],
         pc'[p] = "announce" \/ call'[p] = None,
         \/ /\ call[p].kind = "edit" /\ call[p].id = i /\ index[i] # None
            /\ Told(row) = [bib |-> IF call[p].bib = None THEN index[i].bib ELSE call[p].bib,
                            val |-> IF call[p].val = None THEN index[i].val ELSE call[p].val]
         \/ call[p].kind = "delete" /\ call[p].id = i /\ row = None
         \/ /\ call[p].kind = "ingest" /\ index[i] = None
            /\ Told(row) = [bib |-> call[p].bib, val |-> DefaultVal]
  PROVE  Promise!Next
<1>1. /\ own' = own \ {p} /\ leftover' = leftover
      /\ index' = [index EXCEPT ![i] = row]
  BY DEF Put
<1>2. i \in InDoubt /\ InDoubt' \in {InDoubt, InDoubt \ {i}}
  BY <1>1, DoubtMoves
<1>3. PICK c \in Calls : c = call[p] /\ c # None /\ Asked[p] = c
  BY LibraryAssumption
  DEF Asked, AtWork, Typed, ClientOK, HeldLabels, FilingLabels, EditLabels, DeleteLabels
<1>4. Asked' = [Asked EXCEPT ![p] = None]
  BY AskedMoves
<1>5. PICK b : b = Told(row)
  OBVIOUS
<1>6. TheShelf' = [TheShelf EXCEPT ![i] = b]
  BY <1>1, <1>5, ServedShelf
<1>7. TheShelf[i] = Told(index[i]) /\ index[i] \in Rows \union {None}
  BY ServedShelf DEF Typed, TypeOK, IndexTypeOK
<1>8. \/ /\ c.kind = "edit" /\ c.id = i /\ TheShelf[i] # None
         /\ b = [bib |-> IF c.bib = None THEN TheShelf[i].bib ELSE c.bib,
                 val |-> IF c.val = None THEN TheShelf[i].val ELSE c.val]
      \/ c.kind = "delete" /\ c.id = i /\ b = None
      \/ /\ c.kind = "ingest" /\ TheShelf[i] = None
         /\ b = [bib |-> c.bib, val |-> DefaultVal]
  <2>1. CASE index[i] # None
    <3>1. TheShelf[i] # None /\ TheShelf[i].bib = index[i].bib /\ TheShelf[i].val = index[i].val
      BY <1>7, <2>1, ToldBook
    <3> QED
      BY <1>3, <1>5, <2>1, <3>1 DEF Told
  <2>2. CASE index[i] = None
    BY <1>3, <1>5, <1>7, <2>2 DEF Told
  <2> QED
    BY <2>1, <2>2
<1> QED
  BY <1>2, <1>3, <1>4, <1>6, <1>8, AnEffect

\* The pending row goes in.
LEMMA ABeginning ==
  ASSUME Typed, Guarded, NEW p \in Procs, NEW i \in Ids, MarkPending(p),
         pc[p] \in {"book", "ingest"}, call' = call, pc' = [pc EXCEPT ![p] = pc'[p]],
         pc'[p] # "announce", \A q \in Procs \ {p} : book'[q] = book[q], book'[p] = i,
         Current, Current'
  PROVE  Promise!Next
<1>1. p \notin own /\ own' = own \union {p} /\ UNCHANGED <<index, leftover>>
  BY DEF MarkPending, Typed, OwnOK, HeldLabels, FilingLabels, EditLabels, DeleteLabels
<1>2. InDoubt' = InDoubt \union {i} /\ TheShelf' = TheShelf
  BY <1>1, DoubtMoves, ServedShelf
<1>3. Asked' = Asked
  BY DEF Asked, Typed, TypeOK, ClientTypeOK
<1>4. Asked[p] # None
  BY LibraryAssumption DEF Asked, Typed, ClientOK
<1> QED
  BY <1>2, <1>3, <1>4, AStart

LEMMA ClientKeepsPromises ==
  ASSUME Typed, Guarded, Opened, Shelved, Typed', NEW p \in Procs, ClientStep(p)
  PROVE  [Promise!Next]_(Promise!shelfVars)
<1> USE DEF Typed, TypeOK
<1>1. /\ Current /\ Current'
      /\ pc[p] # "idle"
      /\ \A q \in Procs \ {p} : pc'[q] = pc[q] /\ call'[q] = call[q] /\ book'[q] = book[q]
  <2>1. pc[p] # "idle"
    BY DEF ClientStep, BeginOnBook, RewriteEpub, RenameBookDir, RenameBookFile, UpdateMeta,
           CommitEdit, RemoveBook, CommitDelete, BeginIngest, PlaceEpub, PlaceMeta, RecordIngest,
           AnnounceIngest, UndoIngest
  <2>2. version' = version
    BY DEF ClientStep, BeginOnBook, RewriteEpub, RenameBookDir, RenameBookFile, UpdateMeta,
        CommitEdit, RemoveBook, CommitDelete, BeginIngest, PlaceEpub, PlaceMeta, RecordIngest,
        AnnounceIngest, UndoIngest, MarkPending, Put, Erase, Cancel, GiveUp, LeavePending,
        indexVars
  <2> QED
    BY <2>1, <2>2, OthersSame DEF Guarded, Quiet, Opened, Current
<1>2. AtWork(p) => /\ p \in own /\ book[p] \in Ids
                   /\ pc[p] # "announce" /\ CallPlaced(p)
  BY DEF AtWork, Guarded, Held, HeldBy, ClientOK, Shelved, HeldLabels, FilingLabels, EditLabels,
         DeleteLabels
<1>3. ~AtWork(p) => p \notin own
  BY DEF AtWork, OwnOK
<1>4. ASSUME AtWork(p), GiveUp(p) \/ (Cancel(p) /\ Return(p))
      PROVE  Promise!Next
  BY <1>1, <1>2, <1>4, ARefusedCall DEF GiveUp, LeavePending, Cancel
<1>5. ASSUME AtWork(p), UNCHANGED indexVars, NEW l, Step(p, l), l # "announce"
      PROVE  UNCHANGED Promise!shelfVars
  BY <1>1, <1>2, <1>5, AWorkingStep DEF indexVars
<1>6. CASE RewriteEpub(p) \/ RenameBookDir(p) \/ RenameBookFile(p) \/ UpdateMeta(p)
  <2>1. AtWork(p)
    BY <1>6 DEF RewriteEpub, RenameBookDir, RenameBookFile, UpdateMeta, AtWork, HeldLabels,
                EditLabels
  <2> QED
    BY <1>4, <1>5, <1>6, <2>1 DEF RewriteEpub, RenameBookDir, RenameBookFile, UpdateMeta
<1>7. CASE RemoveBook(p) \/ PlaceEpub(p) \/ PlaceMeta(p) \/ UndoIngest(p)
  <2>1. AtWork(p)
    BY <1>7 DEF RemoveBook, PlaceEpub, PlaceMeta, UndoIngest, AtWork, HeldLabels, DeleteLabels,
                FilingLabels
  <2> QED
    BY <1>4, <1>5, <1>7, <2>1 DEF RemoveBook, PlaceEpub, PlaceMeta, UndoIngest
<1>8. CASE CommitEdit(p)
  <2>1. AtWork(p) /\ pc[p] \in EditLabels /\ pc[p] \in HeldLabels
    BY <1>8 DEF CommitEdit, AtWork, HeldLabels, EditLabels
  <2>2. CASE CanStat(To(p)) /\ Put(p, book[p], RowFor(To(p), NewBib(p), NewVal(p))) /\ Return(p)
    <3>1. PICK i \in Ids : i = book[p]
      BY <1>2, <2>1
    <3>2. To(p) \in Locations /\ NewBib(p) \in Keys /\ NewVal(p) \in Vals
      BY <2>1, EditPlaces
    <3>3. StoreTypeOK /\ CanStat(To(p))
      BY <2>2
    <3>4. PICK row \in Rows : row = RowFor(To(p), NewBib(p), NewVal(p))
      BY <3>2, <3>3, RowType
    <3>5. call[p].kind = "edit" /\ call[p].id = i /\ index[i] # None /\ was[p] = index[i]
      BY <1>2, <2>1, <3>1 DEF CallPlaced, ClientOK, Guarded, Held, HeldBy
    <3>6. /\ row.bib = IF call[p].bib = None THEN index[i].bib ELSE call[p].bib
          /\ row.val = IF call[p].val = None THEN index[i].val ELSE call[p].val
      BY <3>4, <3>5 DEF RowFor, NewBib, NewVal
    <3>7. Told(row) = [bib |-> row.bib, val |-> row.val]
      BY ToldBook
    <3>8. Put(p, i, row) /\ call'[p] = None
      BY <2>2, <3>1, <3>4 DEF Return, ClientTypeOK
    <3> QED
      BY <1>1, <2>1, <3>1, <3>5, <3>6, <3>7, <3>8, ACommit
  <2> QED
    BY <1>4, <1>8, <2>1, <2>2 DEF CommitEdit
<1>9. CASE CommitDelete(p)
  <2>1. AtWork(p) /\ pc[p] = "erase" /\ pc[p] \in HeldLabels
    BY <1>9 DEF CommitDelete, AtWork, HeldLabels, DeleteLabels
  <2>2. CASE Erase(p, book[p]) /\ Return(p)
    <3>1. PICK i \in Ids : i = book[p]
      BY <1>2, <2>1
    <3>2. call[p].id = i /\ call[p].kind = "delete"
      BY <1>2, <2>1, <3>1 DEF CallPlaced, DeleteLabels
    <3>3. Put(p, i, None) /\ call'[p] = None
      BY <2>2, <3>1 DEF Erase, Return, ClientTypeOK
    <3> QED
      BY <1>1, <2>1, <3>1, <3>2, <3>3, ACommit
  <2> QED
    BY <1>4, <1>9, <2>1, <2>2 DEF CommitDelete
<1>10. CASE RecordIngest(p)
  <2>1. AtWork(p) /\ pc[p] \in FilingLabels
    BY <1>10 DEF RecordIngest, AtWork, FilingLabels
  <2>2. CASE /\ CanStat(NewPlace(p))
             /\ Put(p, book[p], RowFor(NewPlace(p), call[p].bib, DefaultVal))
             /\ Step(p, "announce")
    <3>1. PICK i \in Ids : i = book[p]
      BY <1>2, <2>1
    <3>2. NewPlace(p) \in Locations /\ call[p].bib \in Keys /\ StoreTypeOK
      BY <2>1, IngestPlace
    <3>3. PICK row \in Rows : row = RowFor(NewPlace(p), call[p].bib, DefaultVal)
      BY <2>2, <3>2, RowType, LibraryAssumption
    <3>4. call[p].kind = "ingest" /\ index[i] = None
      BY <2>1, <3>1 DEF ClientOK, Guarded, Held, HeldBy
    <3>5. Told(row) = [bib |-> call[p].bib, val |-> DefaultVal]
      BY <3>3, ToldBook DEF RowFor
    <3>6. Put(p, i, row) /\ pc'[p] = "announce"
      BY <2>2, <3>1, <3>3 DEF Step, Goto, ClientTypeOK
    <3> QED
      BY <1>1, <2>1, <3>1, <3>4, <3>5, <3>6, ACommit
  <2> QED
    BY <1>5, <1>10, <2>1, <2>2 DEF RecordIngest
<1>11. CASE AnnounceIngest(p)
  <2>1. p \notin own /\ pc[p] = "announce" /\ UNCHANGED <<own, leftover, index>>
    BY <1>3, <1>11 DEF AnnounceIngest, AtWork, HeldLabels, FilingLabels, EditLabels, DeleteLabels,
                       indexVars
  <2>2. call'[p] = None
    BY <1>11 DEF AnnounceIngest, Return, ClientTypeOK
  <2>3. Asked' = [Asked EXCEPT ![p] = None] /\ Asked[p] = None
    BY <1>1, <2>1, <2>2, AskedMoves DEF Asked
  <2>4. Asked' = Asked
    BY <2>3 DEF Asked
  <2>5. InDoubt' = InDoubt /\ TheShelf' = TheShelf
    BY <1>1, <2>1, DoubtMoves, ServedShelf
  <2> QED
    BY <2>4, <2>5, AStutter
<1>12. CASE BeginOnBook(p) \/ BeginIngest(p)
  <2>1. ~AtWork(p) /\ p \notin own /\ pc[p] \in {"book", "ingest"}
    BY <1>3, <1>12 DEF BeginOnBook, BeginIngest, AtWork, HeldLabels, FilingLabels, EditLabels, DeleteLabels
  <2>2. CASE Return(p) /\ UNCHANGED <<index, own, leftover>>
    BY <1>1, <2>1, <2>2, ARefusedCall
  <2>3. ASSUME NEW l, Goto(p, l), l # "announce", MarkPending(p), call' = call, book'[p] \in Ids
        PROVE  Promise!Next
    <3>1. pc' = [pc EXCEPT ![p] = pc'[p]] /\ pc'[p] = l
      BY <2>3 DEF Goto, ClientTypeOK
    <3> QED
      BY <1>1, <2>1, <2>3, <3>1, ABeginning
  <2>4. CASE BeginOnBook(p)
    <3>1. FirstStep(call[p]) # "announce" /\ book[p] \in Ids
      BY <2>4 DEF FirstStep, BeginOnBook, ClientOK
    <3> QED
      BY <2>2, <2>3, <2>4, <3>1 DEF BeginOnBook, indexVars
  <2>5. CASE BeginIngest(p)
    <3>1. seq < MaxId => seq + 1 \in Ids
      BY StoreAssumption DEF Ids, IndexTypeOK
    <3>2. book' = [book EXCEPT ![p] = seq + 1] => book'[p] = seq + 1
      BY DEF ClientTypeOK
    <3> QED
      BY <2>2, <2>3, <2>5, <3>1, <3>2 DEF BeginIngest, indexVars
  <2> QED
    BY <1>12, <2>4, <2>5
<1> QED
  BY <1>6, <1>7, <1>8, <1>9, <1>10, <1>11, <1>12 DEF ClientStep


-----------------------------------------------------------------------------
(* What the tree alone says of a book. *)

LEMMA ShownIs ==
  ASSUME StoreTypeOK, Labelled, AllSound, NEW i
  PROVE  /\ ~OnWalk(i) => Shown(i) = None
         /\ \A x, k, v : OnWalk(i) /\ Honest(i, x, k, v) => Shown(i) = [bib |-> k, val |-> v]
         /\ Shown(i) \in Books \union {None}
<1>1. PICK owners : owners = {d \in Walk : Sound(d) /\ meta[d].id = i}
  OBVIOUS
<1>2. PICK d : d = CHOOSE e \in owners : TRUE
  OBVIOUS
<1>3. Shown(i) = IF owners = {} THEN None ELSE [bib |-> epub[d].bib, val |-> meta[d].val]
  BY <1>1, <1>2 DEF Shown
<1>4. ASSUME NEW e \in Walk
      PROVE  /\ Sound(e) /\ meta[e].id = e.id /\ e \in Dirs
             /\ epub[e] # None /\ meta[e] # None /\ epub[e].bib \in Keys /\ meta[e].val \in Vals
  BY WalkType DEF AllSound, Labelled, Sound, Walk, EpubFiles, MetaFiles
<1>5. owners # {} => d \in Walk /\ d.id = i
  BY <1>1, <1>2, <1>4
<1>6. OnWalk(i) <=> owners # {}
  BY <1>1, <1>4 DEF OnWalk
<1> QED
  BY <1>3, <1>4, <1>5, <1>6 DEF Honest, Says, Books

LEMMA ShownIsNext ==
  ASSUME StoreTypeOK', Labelled', AllSound', NEW i
  PROVE  /\ ~OnWalk(i)' => Shown(i)' = None
         /\ \A x, k, v : OnWalk(i)' /\ Honest(i, x, k, v)' => Shown(i)' = [bib |-> k, val |-> v]
         /\ Shown(i)' \in Books \union {None}
<1>1. PICK owners : owners = {d \in Walk : Sound(d) /\ meta[d].id = i}'
  OBVIOUS
<1>2. PICK d : d = CHOOSE e \in owners : TRUE
  OBVIOUS
<1>3. Shown(i)' = IF owners = {} THEN None ELSE [bib |-> epub'[d].bib, val |-> meta'[d].val]
  BY <1>1, <1>2 DEF Shown
<1>4. ASSUME NEW e \in Walk'
      PROVE  /\ Sound(e)' /\ meta'[e].id = e.id /\ e \in Dirs
             /\ epub'[e] # None /\ meta'[e] # None
             /\ epub'[e].bib \in Keys /\ meta'[e].val \in Vals
  BY DEF StoreTypeOK, AllSound, Labelled, Sound, Walk, EpubFiles, MetaFiles
<1>5. owners # {} => d \in Walk' /\ d.id = i
  BY <1>1, <1>2, <1>4
<1>6. OnWalk(i)' <=> owners # {}
  BY <1>1, <1>4 DEF OnWalk
<1> QED
  BY <1>3, <1>4, <1>5, <1>6 DEF Honest, Says, Books

\* An index that is right about a book and the tree say the same of it.
LEMMA ToldIsShown ==
  ASSUME StoreTypeOK, Labelled, AllSound, NEW i \in Ids, NEW row, HonestRow(i, row),
         row # None <=> OnWalk(i)
  PROVE  Shown(i) = Told(row)
BY ShownIs DEF HonestRow, Told

LEMMA SameShown ==
  ASSUME UNCHANGED storeVars
  PROVE  \A i : Shown(i)' = Shown(i)
BY DEF storeVars, Shown, Walk, Sound

\* A step that changes neither the tree, nor the version, nor a row, changes nothing
\* that the library says.
LEMMA SameShelf ==
  ASSUME UNCHANGED <<version, storeVars>>, Current => index' = index
  PROVE  TheShelf' = TheShelf
BY ShelfIs, SameShown DEF TheShelf, Current

LEMMA IdleAsks ==
  ASSUME Typed, Guarded, Shelved, \A p \in Procs : pc[p] = "idle"
  PROVE  /\ \A p \in Procs : Asked[p] = None
         /\ own = {} /\ InDoubt = leftover
         /\ \A i \in Ids : i \notin InDoubt => Settled(i)
<1>1. own = {}
  BY DEF Typed, TypeOK, OwnOK, IndexTypeOK, HeldLabels, FilingLabels, EditLabels, DeleteLabels
<1> QED
  BY <1>1, NoneAtWork DEF Asked, InDoubt, Shelved, CallPlaced, Settled

-----------------------------------------------------------------------------
(* A rebuild, from the scan to the stamp. *)

\* What moves of books do not change: what the tree says of each.
LEMMA MovesKeepShown ==
  ASSUME Typed, Typed', Placed, Placed', NoCopies, Truthful, Truthful', touched' = touched,
         (\E i \in Ids : MoveBookDir(i)) \/ MoveBookFile,
         NEW j \in Ids
  PROVE  Shown(j)' = Shown(j)
<1> USE DEF Typed, TypeOK
<1>1. /\ Labelled /\ Labelled' /\ AllSound /\ AllSound'
      /\ FoundHonest /\ FoundHonest'
      /\ rpc \in {"move", "file"} /\ rpc' \in {"move", "file"}
  BY DEF NoCopies, Placed, Truthful, MoveBookDir, MoveBookFile, Stays
<1>2. OnWalk(j)' <=> OnWalk(j)
  BY MovesKeepWalk
<1>3. PICK row, new : row = found[j] /\ new = found'[j]
  OBVIOUS
<1>4. OnWalk(j) => row # None
  BY <1>1, <1>3 DEF FoundHonest, OnWalk
<1>5. row # None => new # None /\ new.bib = row.bib /\ new.val = row.val
  <2>1. CASE found' = found
    BY <1>3, <2>1
  <2>2. CASE found' = [found EXCEPT ![mv].loc = Home(mv)] /\ mv \in todo
    <3>1. /\ mv \in Ids /\ found[mv] \in Rows /\ Home(mv) \in Locations
          /\ found \in [Ids -> Rows \union {None}]
      BY <2>2, MovePlaces DEF TodoOK, ReindexTypeOK
    <3>2. [found[mv] EXCEPT !.loc = Home(mv)] \in Rows
      BY <3>1 DEF Rows
    <3> QED
      BY <1>3, <2>2, <3>1, <3>2, IndexAssumption DEF Rows
  <2>3. found' = found \/ (found' = [found EXCEPT ![mv].loc = Home(mv)] /\ mv \in todo)
    BY DEF MoveBookDir, MoveBookFile, Stays, TodoOK
  <2> QED
    BY <2>1, <2>2, <2>3
<1>6. OnWalk(j) => Honest(j, row.loc.dir, row.bib, row.val)
                   /\ Honest(j, new.loc.dir, new.bib, new.val)'
  <2>1. HonestRow(j, row)
    BY <1>1, <1>3 DEF FoundHonest
  <2>2. HonestRow(j, found[j])'
    BY <1>1 DEF FoundHonest
  <2> QED
    BY <1>3, <1>4, <1>5, <2>1, <2>2 DEF HonestRow
<1>7. CASE OnWalk(j)
  <2>1. Shown(j) = [bib |-> row.bib, val |-> row.val]
    BY <1>1, <1>6, <1>7, ShownIs
  <2>2. Shown(j)' = [bib |-> new.bib, val |-> new.val]
    BY <1>1, <1>2, <1>6, <1>7, ShownIsNext
  <2> QED
    BY <1>4, <1>5, <1>7, <2>1, <2>2
<1>8. CASE ~OnWalk(j)
  BY <1>1, <1>2, <1>8, ShownIs, ShownIsNext
<1> QED
  BY <1>7, <1>8


\* A rebuild that goes wrong, or right without a word of the shelf changed.
LEMMA AQuietStep ==
  ASSUME TheShelf' = TheShelf, Asked' = Asked, InDoubt' \subseteq InDoubt
  PROVE  Promise!Next
<1>1. PICK P \in SUBSET Procs : P = {}
  OBVIOUS
<1>2. \A p \in Procs : Asked'[p] = IF p \in P THEN None ELSE Asked[p]
  BY <1>1
<1> QED
  BY <1>2, ARefusal

\* What the rebuild commits is what the index said of every settled book.
LEMMA RebuildRecovers ==
  ASSUME Typed, Guarded, Placed, NoCopies, Truthful, Shelved, ~LateErrors,
         \A p \in Procs : pc[p] = "idle", UNCHANGED <<storeVars, version, clientVars>>,
         rpc = "rebuild", Rebuild(found, passed, top)
  PROVE  Promise!Next
<1> USE DEF Typed, TypeOK
<1>1. /\ InDoubt = leftover /\ InDoubt' = {}
      /\ \A p \in Procs : Asked[p] = None
      /\ \A i \in Ids : i \notin InDoubt => Settled(i)
  BY IdleAsks DEF Rebuild, InDoubt
<1>2. Asked' = Asked
  BY DEF Asked, clientVars
<1>3. CASE ~Current
  BY <1>1, <1>2, <1>3, SameShelf, AQuietStep
<1>4. CASE Current
  <2>1. ASSUME NEW i \in Ids
        PROVE  /\ OnShelf(i) = Told(index[i]) /\ OnShelf(i)' = Told(found[i])
               /\ found[i] \in Rows \union {None}
    BY <1>4, ShelfIs DEF Rebuild, Current, ReindexTypeOK
  <2>2. \A i \in Ids : OnShelf(i)' \in Books \union {None}
    BY <2>1, ToldBook DEF Told
  <2>3. ASSUME NEW i \in Ids \ InDoubt
        PROVE  OnShelf(i)' = OnShelf(i)
    <3>1. /\ HonestRow(i, index[i]) /\ (index[i] # None <=> OnWalk(i))
          /\ HonestRow(i, found[i])
      BY <1>1, <1>4 DEF Truthful, FoundHonest, Shelved
    <3>2. found[i] # None <=> OnWalk(i)
      BY FoundOnWalk
    <3>3. Labelled /\ AllSound
      BY DEF Placed, NoCopies, Truthful
    <3>4. Told(index[i]) = Shown(i) /\ Told(found[i]) = Shown(i)
      BY <3>1, <3>2, <3>3, ToldIsShown
    <3> QED
      BY <2>1, <3>4
  <2> QED
    BY <1>1, <1>2, <2>2, <2>3, ARecovery
<1> QED
  BY <1>3, <1>4

LEMMA RebuildingKeepsPromises ==
  ASSUME Typed, Guarded, Placed, Single, Opened, NoCopies, Truthful, Shelved,
         Typed', Placed', Truthful', Undisturbed, ReindexStep
  PROVE  [Promise!Next]_(Promise!shelfVars)
<1> USE DEF Typed, TypeOK
<1>1. /\ \A p \in Procs : pc[p] = "idle"
      /\ UNCHANGED <<clientVars, touched>>
  <2>1. \A p \in Procs : pc[p] = "idle"
    BY DEF ReindexStep, AcquireReindex, Drained, ScanStore, MoveBookDir, MoveBookFile,
           BeginRebuild, RebuildIndex, FinishReindex, Guarded, Quiet
  <2>2. UNCHANGED <<clientVars, touched>>
    BY DEF ReindexStep, AcquireReindex, ScanStore, MoveBookDir, MoveBookFile, BeginRebuild,
           RebuildIndex, FinishReindex
  <2> QED
    BY <2>1, <2>2
<1>2. Asked' = Asked
  BY <1>1 DEF Asked, clientVars
<1>3. own = {} /\ InDoubt = leftover
  BY <1>1, IdleAsks
<1>4. Labelled /\ AllSound /\ ~LateErrors
  BY DEF Placed, NoCopies, Truthful, Undisturbed
<1>5. ASSUME UNCHANGED <<own, leftover>>, TheShelf' = TheShelf
      PROVE  UNCHANGED Promise!shelfVars
  <2>1. InDoubt' = InDoubt
    BY <1>1, <1>5 DEF InDoubt, clientVars
  <2> QED
    BY <1>2, <1>5, <2>1, AStutter
<1>6. CASE AcquireReindex \/ ScanStore
  <2>1. UNCHANGED <<own, leftover, version, index, storeVars>>
    BY <1>6 DEF AcquireReindex, ScanStore, indexVars
  <2> QED
    BY <1>5, <2>1, SameShelf
<1>7. CASE (\E i \in Ids : MoveBookDir(i)) \/ MoveBookFile
  <2>1. UNCHANGED <<own, leftover, version, index>>
    BY <1>7 DEF MoveBookDir, MoveBookFile, indexVars
  <2>2. \A j \in Ids : Shown(j)' = Shown(j)
    BY <1>1, <1>7, MovesKeepShown
  <2>3. TheShelf' = TheShelf
    BY <2>1, <2>2, ShelfIs DEF TheShelf, Current
  <2> QED
    BY <1>5, <2>1, <2>3
<1>8. CASE BeginRebuild
  <2>1. /\ UNCHANGED <<version, storeVars>> /\ (Current => index' = index)
        /\ own' \subseteq own /\ leftover' \subseteq leftover
    BY <1>8 DEF BeginRebuild, PrepareRebuild, DropTables, Emptied, indexVars
  <2>2. InDoubt' \subseteq InDoubt
    BY <1>3, <2>1 DEF InDoubt
  <2> QED
    BY <1>2, <2>1, <2>2, SameShelf, AQuietStep
<1>9. CASE RebuildIndex
  <2>1. CASE Rebuild(found, passed, top)
    BY <1>1, <1>4, <1>9, <2>1, RebuildRecovers DEF RebuildIndex, Rebuild
  <2>2. CASE UNCHANGED indexVars
    BY <1>5, <1>9, <2>2, SameShelf DEF RebuildIndex, indexVars
  <2> QED
    BY <1>9, <2>1, <2>2 DEF RebuildIndex
<1>10. CASE FinishReindex
  <2>1. Mirrors /\ UNCHANGED <<own, leftover, index, storeVars>>
    BY <1>4, <1>10 DEF Truthful, FinishReindex, StampVersion, indexVars
  <2>2. ASSUME NEW i \in Ids
        PROVE  Told(index[i]) = Shown(i)
    <3>1. OneDir(i)
      BY DEF Single
    <3>2. index[i] # None <=> OnWalk(i)
      BY <1>4, <2>1, <3>1, MirrorsFits DEF Fits
    <3>3. ASSUME NEW d \in Walk, d.id = i
          PROVE  index[i].bib = epub[d].bib /\ index[i].val = meta[d].val
      <4>1. Sound(d) /\ meta[d].id = i
        BY <1>4, <3>3, WalkType DEF AllSound, Labelled, Sound, Walk
      <4> QED
        BY <2>1, <4>1 DEF Mirrors
    <3>4. PICK row : row = index[i]
      OBVIOUS
    <3>5. row # None => Honest(i, row.loc.dir, row.bib, row.val)
      <4>1. row # None => row.loc.dir \in Walk
        BY <2>1, <3>4 DEF Mirrors
      <4> QED
        BY <3>3, <3>4, <4>1 DEF Honest, Says
    <3> QED
      BY <1>4, <3>2, <3>4, <3>5, ToldIsShown DEF HonestRow
  <2>3. \A i \in Ids : Shown(i)' = Shown(i) /\ Told(index'[i]) = Told(index[i])
    BY <2>1, SameShown
  <2>4. TheShelf' = TheShelf
    BY <2>2, <2>3, ShelfIs DEF TheShelf
  <2> QED
    BY <1>5, <2>1, <2>4
<1> QED
  BY <1>6, <1>7, <1>8, <1>9, <1>10 DEF ReindexStep

\* What happens to the process, and the calls that begin.
LEMMA RunKeepsPromises ==
  ASSUME Typed, Guarded, Placed, Opened, NoCopies, Truthful, Shelved, Typed', Placed', Truthful',
         touched' = touched,
         \/ \E p \in Procs, c \in Requests : Call(p, c)
         \/ RequestReindex \/ OpenLibrary \/ Crash \/ Upgrade \/ DiscardIndex
  PROVE  [Promise!Next]_(Promise!shelfVars)
<1> USE DEF Typed, TypeOK
<1>1. CASE \E p \in Procs, c \in Requests : Call(p, c)
  <2>1. PICK p \in Procs, c \in Requests : Call(p, c)
    BY <1>1
  <2>2. /\ \A q \in Procs \ {p} : pc'[q] = pc[q] /\ call'[q] = call[q] /\ book'[q] = book[q]
        /\ pc[p] = "idle" /\ pc'[p] # "announce" /\ call'[p] = c
        /\ UNCHANGED <<own, leftover, version, index, storeVars>>
    BY <2>1 DEF Call, Goto, ClientTypeOK, indexVars
  <2>3. p \notin own /\ Asked[p] = None
    BY <2>2 DEF OwnOK, Asked, Shelved, CallPlaced, HeldLabels, FilingLabels, EditLabels, DeleteLabels
  <2>4. Asked' = [Asked EXCEPT ![p] = c] /\ InDoubt' = InDoubt /\ TheShelf' = TheShelf
    BY <2>2, <2>3, AskedMoves, DoubtMoves, SameShelf
  <2> QED
    BY <2>3, <2>4, ARequest
<1>2. CASE RequestReindex \/ OpenLibrary
  <2>1. UNCHANGED <<own, leftover, version, index, storeVars, clientVars>>
    BY <1>2 DEF RequestReindex, OpenLibrary, ApplySchema, indexVars
  <2>2. InDoubt' = InDoubt /\ Asked' = Asked
    BY <2>1 DEF InDoubt, Asked, clientVars
  <2> QED
    BY <2>1, <2>2, SameShelf, AStutter
<1>3. CASE Crash
  <2>1. /\ UNCHANGED <<version, index, storeVars>> /\ InDoubt' = InDoubt
        /\ \A p \in Procs : Asked'[p] = None
    BY <1>3 DEF Crash, InDoubt, Asked
  <2>2. \A p \in Procs : Asked'[p] = IF p \in Procs THEN None ELSE Asked[p]
    BY <2>1
  <2> QED
    BY <2>1, <2>2, SameShelf, ARefusal
<1>4. CASE Upgrade \/ DiscardIndex
  <2>1. /\ ~Current' /\ UNCHANGED <<storeVars, clientVars>> /\ phase = "down"
        /\ own' \subseteq own /\ leftover' \subseteq leftover
    BY <1>4 DEF Upgrade, DiscardIndex, Current, Emptied
  <2>2. \A p \in Procs : pc[p] = "idle"
    BY <2>1 DEF Guarded, Quiet
  <2>3. InDoubt' \subseteq InDoubt /\ Asked' = Asked
    BY <2>1 DEF InDoubt, Asked, clientVars
  <2>4. Labelled /\ AllSound
    BY DEF Placed, NoCopies, Truthful
  <2>5. \A i : Shown(i)' = Shown(i)
    BY <2>1, SameShown
  <2>6. CASE ~Current
    <3>1. TheShelf' = TheShelf
      BY <2>1, <2>5, <2>6, ShelfIs DEF TheShelf
    <3> QED
      BY <2>3, <3>1, AQuietStep
  <2>7. CASE Current
    <3>1. \A i \in Ids : OnShelf(i) = Told(index[i]) /\ OnShelf(i)' = Shown(i)
      BY <2>1, <2>5, <2>7, ShelfIs
    <3>2. \A i \in Ids : OnShelf(i)' \in Books \union {None}
      BY <2>4, <3>1, ShownIs
    <3>3. ASSUME NEW i \in Ids \ InDoubt
          PROVE  OnShelf(i)' = OnShelf(i)
      <4>1. HonestRow(i, index[i]) /\ (index[i] # None <=> OnWalk(i))
        BY <2>2, <2>7, IdleAsks DEF Truthful, Shelved
      <4> QED
        BY <2>4, <3>1, <4>1, ToldIsShown
    <3> QED
      BY <2>2, <2>3, <3>2, <3>3, IdleAsks, ARecovery
  <2> QED
    BY <2>6, <2>7
<1> QED
  BY <1>1, <1>2, <1>3, <1>4

LEMMA InitKeepsPromises ==
  ASSUME Init
  PROVE  Promise!Init
<1>1. Walk = {} /\ ~Current /\ own = {} /\ leftover = {}
  BY DEF Init, StoreInit, IndexInit, Walk, Current
<1>2. \A i : OnShelf(i) = None
  BY <1>1 DEF OnShelf
<1>3. /\ [i \in Ids |-> OnShelf(i)] = [i \in Ids |-> None]
      /\ leftover \union {book[p] : p \in own} = {}
  BY <1>1, <1>2
<1>4. [p \in Procs |-> IF pc[p] = "announce" THEN None ELSE call[p]] = [p \in Procs |-> None]
  BY DEF Init, ClientsIdle
<1> QED
  BY <1>3, <1>4 DEF Promise!Init

\* Every acknowledged edit, delete and ingest is applied whole to the book as it then
\* stands, and survives any later failure, crash, upgrade or rebuild; only a call that
\* returned an error, or never returned, may be half done (the claim of the Library
\* type's comment).  Every step of the library is a step of Shelf or changes nothing
\* there.  A user's change of the tree is outside the promise; a late error, a scan that
\* misses a sound book, and a Reindex that fails at run time after it moved one are not,
\* and each breaks it.
THEOREM PromisesKept ==
  ASSUME Undisturbed
  PROVE  Spec => KeepsPromises
<1>1. Typed /\ Guarded /\ Placed /\ Single /\ Opened /\ Truthful /\ Shelved
        /\ Typed' /\ Placed' /\ Truthful' /\ [Next]_vars
        => [Promise!Next]_(Promise!shelfVars)
  <2> SUFFICES ASSUME Typed, Guarded, Placed, Single, Opened, Truthful, Shelved,
                      Typed', Placed', Truthful', [Next]_vars
               PROVE  [Promise!Next]_(Promise!shelfVars)
    OBVIOUS
  <2>1. NoCopies /\ (touched' = touched \/ \E kind \in HandEdits : HandEdit(kind))
    BY DEF NoCopies, Typed, TypeOK, Undisturbed
  <2>2. ASSUME NEW p \in Procs, ClientStep(p)
        PROVE  [Promise!Next]_(Promise!shelfVars)
    BY <2>2, ClientKeepsPromises
  <2>3. CASE ReindexStep
    BY <2>1, <2>3, RebuildingKeepsPromises
  <2>4. CASE \/ \E p \in Procs, c \in Requests : Call(p, c)
             \/ RequestReindex \/ OpenLibrary \/ Crash \/ Upgrade \/ DiscardIndex
    <3>1. touched' = touched
      BY <2>4 DEF Call, RequestReindex, OpenLibrary, Crash, Upgrade, DiscardIndex
    <3> QED
      BY <2>1, <2>4, <3>1, RunKeepsPromises
  <2>5. CASE UNCHANGED vars
    <3>1. UNCHANGED <<epub, meta, index, version, own, leftover, pc, call, book>>
      BY <2>5 DEF vars, storeVars, indexVars, clientVars
    <3>2. InDoubt' = InDoubt /\ Asked' = Asked
      BY <3>1 DEF InDoubt, Asked
    <3> QED
      BY <3>1, <3>2, SameShelf, AStutter DEF storeVars
  <2> QED
    BY <2>2, <2>3, <2>4, <2>5 DEF Next, Undisturbed
<1>2. HandEdits \subseteq {"remove"} /\ ~ScanErrors
  BY DEF Undisturbed
<1>3. Spec => []Truthful
  BY <1>2, AlwaysTruthful
<1>4. Spec => []Shelved
  BY AlwaysShelved
<1> QED
  BY <1>1, <1>3, <1>4, InitKeepsPromises, AlwaysTyped, AlwaysGuarded, AlwaysPlaced, AlwaysSingle, PTL
  DEF Spec, KeepsPromises, Promise!Spec


-----------------------------------------------------------------------------
(* No two books of one author and title. *)

\* The author and title that an edit gives a book.
EditKeys == {c.bib : c \in {r \in Requests : r.kind = "edit" /\ r.bib # None}}

Owns(i, k) == \E c \in Requests : c.kind = "edit" /\ c.bib = k /\ c.id = i

\* No two books are edited into one another's place, nor into that of an upload.
NoRivals ==
  \A c, r \in Requests : c.kind = "edit" /\ c.bib # None =>
    /\ r.kind = "edit" /\ r.bib = c.bib => r.id = c.id
    /\ r.kind = "ingest" => r.bib # c.bib

\* The epub in d, if there is one, is one that an edit has rewritten, or is damaged.
Rewritten(d) == epub[d] # None => epub[d].bib \in EditKeys \union {Unreadable}

\* An epub that no edit has rewritten is where the ingest put it.
FilesNamed ==
  \A d \in Dirs : epub[d] # None =>
    /\ epub[d].bib \in EditKeys => Owns(d.id, epub[d].bib)
    /\ epub[d].bib \in Keys \ EditKeys => d.key = epub[d].bib /\ epub[d].name = epub[d].bib

RowNamed(i, row) ==
  row # None =>
    /\ row.bib \in EditKeys => Owns(i, row.bib) /\ Rewritten(row.loc.dir)
    /\ row.bib \notin EditKeys => row.loc = Layout(row.bib, i)

\* Book i has the file, or the row, that an ingest of k gave it.
Holds(i, k) ==
  LET file == epub[Layout(k, i).dir] IN file # None /\ file.bib = k

Claims(i, k) == Holds(i, k) \/ (index[i] # None /\ index[i].bib = k)

CallNamed(p) ==
  /\ pc[p] # "idle" => call[p] \in Requests
  /\ pc[p] \in HeldLabels \union {"book"} => call[p].id = book[p]
  /\ pc[p] = "rewrite" => call[p].bib # None
  /\ pc[p] = "dir" /\ NewBib(p) \in EditKeys => Rewritten(From(p).dir)
  /\ pc[p] \in {"file", "meta", "put"} /\ NewBib(p) \in EditKeys => Rewritten(To(p).dir)
  /\ pc[p] \in FilingLabels => \A i \in Ids : Claims(i, call[p].bib) => i = book[p]

FoundNamed ==
  /\ rpc \in {"move", "file", "rebuild"} => \A i \in Ids :
       /\ RowNamed(i, found[i])
       /\ found[i] # None /\ found[i].bib \notin EditKeys => Holds(i, found[i].bib)
       /\ i \in todo => found[i].bib \in EditKeys
  /\ rpc = "file" => Rewritten(Home(mv).dir)

Named ==
  /\ FilesNamed
  /\ \A i \in Ids : RowNamed(i, index[i])
  /\ \A p \in Procs : CallNamed(p)
  /\ FoundNamed
  /\ \A k \in Keys \ EditKeys : \A i, j \in Ids : Claims(i, k) /\ Claims(j, k) => i = j

\* Epubs are removed, damaged or rewritten, or only rewritten ones are moved.
Gentle ==
  \A d \in Dirs : epub'[d] # None /\ epub'[d] # epub[d] =>
    /\ epub'[d].bib \in EditKeys \union {Unreadable}
    /\ epub'[d].bib \in EditKeys => Owns(d.id, epub'[d].bib)

LEMMA EditKeysAre ==
  /\ EditKeys \subseteq Keys
  /\ Unreadable \notin Keys
  /\ \A c \in Requests : c.kind = "edit" /\ c.bib # None =>
       c.bib \in EditKeys /\ Owns(c.id, c.bib)
  /\ NoRivals => \A r \in Requests : r.kind = "ingest" => r.bib \in Keys \ EditKeys
<1>1. Requests \subseteq Calls /\ Unreadable \notin Keys
  BY LibraryAssumption, StoreAssumption
<1>2. EditKeys \subseteq Keys
  BY <1>1, CallShape DEF EditKeys
<1>3. \A c \in Requests : c.kind = "edit" /\ c.bib # None => c.bib \in EditKeys /\ Owns(c.id, c.bib)
  BY DEF EditKeys, Owns
<1>4. NoRivals => \A r \in Requests : r.kind = "ingest" => r.bib \in Keys \ EditKeys
  BY <1>1, CallShape DEF EditKeys, NoRivals
<1> QED
  BY <1>1, <1>2, <1>3, <1>4

LEMMA GentleKeeps ==
  ASSUME StoreTypeOK, FilesNamed, Gentle
  PROVE  /\ FilesNamed'
         /\ \A d \in Dirs : Rewritten(d) => Rewritten(d)'
         /\ \A i, row : RowNamed(i, row) /\ row \in Rows \union {None} => RowNamed(i, row)'
         /\ \A i \in Ids, k \in Keys \ EditKeys : Holds(i, k)' => Holds(i, k)
<1>1. FilesNamed'
  BY EditKeysAre DEF FilesNamed, Gentle
<1>2. \A d \in Dirs : Rewritten(d) => Rewritten(d)'
  BY DEF Rewritten, Gentle
<1>3. \A i, row : RowNamed(i, row) /\ row \in Rows \union {None} => RowNamed(i, row)'
  BY <1>2 DEF RowNamed, Rows, Locations
<1>4. ASSUME NEW i \in Ids, NEW k \in Keys \ EditKeys, Holds(i, k)'
      PROVE  Holds(i, k)
  <2>1. PICK d \in Dirs : d = Layout(k, i).dir
    BY DEF Layout, Dirs
  <2>2. epub'[d] # None /\ epub'[d].bib = k
    BY <1>4, <2>1 DEF Holds
  <2>3. epub'[d] = epub[d]
    BY <2>2, EditKeysAre DEF Gentle
  <2> QED
    BY <2>1, <2>2, <2>3 DEF Holds
<1> QED
  BY <1>1, <1>2, <1>3, <1>4

LEMMA GentleSteps ==
  ASSUME StoreTypeOK, FilesNamed
  PROVE  /\ epub' = epub => Gentle
         /\ \A d \in Dirs : RemoveOne(d) => Gentle
         /\ \A d \in Dirs : \A k : epub[d] # None /\ Rewritten(d) /\ RenameFile(d, k) => Gentle
         /\ \A from, to \in Dirs : from.id = to.id /\ Rewritten(from) /\ RenameDir(from, to)
              => Gentle
<1>1. epub' = epub => Gentle
  BY DEF Gentle
<1>2. \A d \in Dirs : RemoveOne(d) => Gentle
  BY DEF RemoveOne, Gentle, StoreTypeOK
<1>3. ASSUME NEW d \in Dirs, NEW k, epub[d] # None, Rewritten(d), RenameFile(d, k)
      PROVE  Gentle
  BY <1>3 DEF RenameFile, Gentle, Rewritten, FilesNamed, StoreTypeOK
<1>4. ASSUME NEW from \in Dirs, NEW to \in Dirs, from.id = to.id, Rewritten(from),
             RenameDir(from, to)
      PROVE  Gentle
  BY <1>4 DEF RenameDir, MoveTo, Gentle, Rewritten, FilesNamed, StoreTypeOK
<1> QED
  BY <1>1, <1>2, <1>3, <1>4

\* What an edit renames it has rewritten, or an earlier edit has.
LEMMA EditNamed ==
  ASSUME Typed, Guarded, Placed, Named, "copy" \notin touched,
         NEW p \in Procs, pc[p] \in EditLabels
  PROVE  /\ call[p].bib # None => NewBib(p) \in EditKeys
         /\ NewBib(p) \in EditKeys => Owns(book[p], NewBib(p))
         /\ NewBib(p) \notin EditKeys => From(p) = To(p)
<1>1. /\ call[p] \in Requests /\ call[p].kind = "edit" /\ call[p].id = book[p]
      /\ book[p] \in Ids /\ was[p] = index[book[p]] /\ index[book[p]] # None
  BY DEF Typed, ClientOK, Guarded, Held, HeldBy, Named, CallNamed, HeldLabels, EditLabels
<1>2. RowNamed(book[p], was[p]) /\ was[p] # None
  BY <1>1 DEF Named
<1>3. CASE call[p].bib # None
  BY <1>1, <1>3, EditKeysAre DEF NewBib
<1>4. CASE call[p].bib = None
  BY <1>2, <1>4 DEF NewBib, RowNamed, From, To
<1> QED
  BY <1>3, <1>4

LEMMA ClientGentle ==
  ASSUME Typed, Guarded, Placed, Named, "copy" \notin touched,
         NEW p \in Procs, ClientStep(p)
  PROVE  Gentle \/ (pc[p] = "place" /\ WriteEpub(NewPlace(p), call[p].bib))
<1> USE DEF Typed, TypeOK
<1>1. StoreTypeOK /\ FilesNamed /\ CallNamed(p)
  BY DEF Named
<1>2. CASE RewriteEpub(p) \/ RenameBookDir(p) \/ RenameBookFile(p)
  <2>1. pc[p] \in EditLabels /\ pc[p] \in HeldLabels
    BY <1>2 DEF RewriteEpub, RenameBookDir, RenameBookFile, EditLabels, HeldLabels
  <2>2. PICK from \in Dirs, to \in Dirs : from = From(p).dir /\ to = To(p).dir
    BY <2>1, EditPlaces
  <2>3. /\ from.id = book[p] /\ to.id = book[p]
        /\ From(p) \in Locations /\ NewBib(p) \in Keys
    BY <2>1, <2>2, OwnPlaces, EditPlaces
  <2>4. /\ call[p].bib # None => NewBib(p) \in EditKeys
        /\ NewBib(p) \in EditKeys => Owns(book[p], NewBib(p))
        /\ NewBib(p) \notin EditKeys => From(p) = To(p)
    BY <2>1, EditNamed
  <2>5. CASE RewriteEpub(p)
    <3>1. NewBib(p) \in EditKeys /\ Owns(book[p], NewBib(p))
      BY <1>1, <2>4, <2>5 DEF RewriteEpub, CallNamed
    <3>2. WriteEpub(From(p), NewBib(p)) => Gentle
      BY <1>1, <2>2, <2>3, <3>1 DEF WriteEpub, Gentle, StoreTypeOK
    <3>3. UNCHANGED storeVars => Gentle
      BY <1>1, GentleSteps DEF storeVars
    <3> QED
      BY <2>5, <3>2, <3>3 DEF RewriteEpub
  <2>6. CASE RenameBookDir(p)
    <3>1. CASE UNCHANGED storeVars
      BY <1>1, <3>1, GentleSteps DEF storeVars
    <3>2. CASE from # to /\ RenameDir(from, to)
      <4>1. Rewritten(from)
        BY <1>1, <2>2, <2>4, <2>6, <3>2 DEF RenameBookDir, CallNamed
      <4> QED
        BY <1>1, <2>3, <3>2, <4>1, GentleSteps
    <3> QED
      BY <2>2, <2>6, <3>1, <3>2 DEF RenameBookDir
  <2>7. CASE RenameBookFile(p)
    <3>1. CASE UNCHANGED storeVars
      BY <1>1, <3>1, GentleSteps DEF storeVars
    <3>2. CASE From(p).name # To(p).name /\ ~UNCHANGED storeVars
      <4>1. Rewritten(to)
        BY <1>1, <2>2, <2>4, <2>7, <3>2 DEF RenameBookFile, CallNamed
      <4>2. \/ epub[to] # None /\ RenameFile(to, To(p).name)
            \/ RenameDir(to, from)
        BY <2>2, <2>7, <3>2 DEF RenameBookFile, RenamedBack, FileAt
      <4> QED
        BY <1>1, <2>3, <4>1, <4>2, GentleSteps
    <3> QED
      BY <2>7, <3>1, <3>2 DEF RenameBookFile
  <2> QED
    BY <1>2, <2>5, <2>6, <2>7
<1>3. CASE RemoveBook(p)
  <2>1. From(p).dir \in Dirs
    BY <1>3, OwnPlaces DEF RemoveBook, HeldLabels, DeleteLabels
  <2> QED
    BY <1>1, <1>3, <2>1, GentleSteps DEF RemoveBook, storeVars
<1>4. CASE UndoIngest(p)
  <2>1. NewPlace(p).dir \in Dirs
    BY <1>4, IngestPlace DEF UndoIngest, FilingLabels
  <2> QED
    BY <1>1, <1>4, <2>1, GentleSteps DEF UndoIngest, storeVars
<1>5. CASE PlaceEpub(p)
  BY <1>1, <1>5, GentleSteps DEF PlaceEpub, storeVars
<1>6. CASE \/ BeginOnBook(p) \/ UpdateMeta(p) \/ CommitEdit(p) \/ CommitDelete(p)
           \/ BeginIngest(p) \/ PlaceMeta(p) \/ RecordIngest(p) \/ AnnounceIngest(p)
  <2>1. epub' = epub
    BY <1>6 DEF BeginOnBook, UpdateMeta, CommitEdit, CommitDelete, BeginIngest, PlaceMeta,
                RecordIngest, AnnounceIngest, WriteMeta, storeVars
  <2> QED
    BY <1>1, <2>1, GentleSteps
<1> QED
  BY <1>2, <1>3, <1>4, <1>5, <1>6 DEF ClientStep


\* A client adds no claim but the one it files.
LEMMA ClientClaims ==
  ASSUME NoRivals, Typed, Guarded, Placed, Named, "copy" \notin touched,
         NEW p \in Procs, ClientStep(p), NEW i \in Ids, NEW k \in Keys \ EditKeys, Claims(i, k)'
  PROVE  Claims(i, k) \/ (pc[p] \in FilingLabels /\ i = book[p] /\ k = call[p].bib)
<1> USE DEF Typed, TypeOK
<1>1. CASE Holds(i, k)'
  <2>1. CASE Gentle
    BY <1>1, <2>1, GentleKeeps DEF Claims, Named
  <2>2. CASE pc[p] = "place" /\ WriteEpub(NewPlace(p), call[p].bib)
    <3>1. pc[p] \in FilingLabels
      BY <2>2 DEF FilingLabels
    <3>2. PICK d \in Dirs, e \in Dirs : d = Layout(k, i).dir /\ e = NewPlace(p).dir
      BY <3>1, IngestPlace DEF Layout, Dirs
    <3>3. CASE d = e
      BY <1>1, <2>2, <3>1, <3>2, <3>3 DEF Holds, WriteEpub, NewPlace, Layout, StoreTypeOK
    <3>4. CASE d # e
      BY <1>1, <2>2, <3>2, <3>4 DEF Holds, WriteEpub, Claims, StoreTypeOK
    <3> QED
      BY <3>3, <3>4
  <2> QED
    BY <2>1, <2>2, ClientGentle
<1>2. CASE index'[i] # None /\ index'[i].bib = k
  <2>1. CASE index'[i] = index[i]
    BY <1>2, <2>1 DEF Claims
  <2>2. CASE index'[i] # index[i]
    <3>1. CommitEdit(p) \/ CommitDelete(p) \/ RecordIngest(p)
      BY <2>2
      DEF ClientStep, BeginOnBook, RewriteEpub, RenameBookDir, RenameBookFile, UpdateMeta,
          RemoveBook, BeginIngest, PlaceEpub, PlaceMeta, AnnounceIngest, UndoIngest,
          MarkPending, Cancel, GiveUp, LeavePending, indexVars
    <3>2. CASE CommitEdit(p)
      <4>1. pc[p] \in EditLabels /\ pc[p] \in HeldLabels
        BY <3>2 DEF CommitEdit, EditLabels, HeldLabels
      <4>2. i = book[p] /\ k = NewBib(p)
        BY <1>2, <2>2, <3>2 DEF CommitEdit, Put, RowFor, GiveUp, LeavePending, IndexTypeOK
      <4>3. call[p].bib = None
        BY <4>1, <4>2, EditNamed
      <4>4. was[p] = index[i] /\ index[i] # None
        BY <4>1, <4>2 DEF Guarded, Held, HeldBy
      <4> QED
        BY <4>2, <4>3, <4>4 DEF NewBib, Claims
    <3>3. CASE CommitDelete(p)
      BY <1>2, <2>2, <3>3 DEF CommitDelete, Erase, Put, GiveUp, LeavePending, IndexTypeOK
    <3>4. CASE RecordIngest(p)
      BY <1>2, <2>2, <3>4
      DEF RecordIngest, Put, RowFor, indexVars, FilingLabels, IndexTypeOK
    <3> QED
      BY <3>1, <3>2, <3>3, <3>4
  <2> QED
    BY <2>1, <2>2
<1> QED
  BY <1>1, <1>2 DEF Claims

\* What an upload of a new book asks before it begins (Exists, PathTaken).
LEMMA NobodyClaims ==
  ASSUME Typed, Named, NEW k \in Keys \ EditKeys, ~Duplicate(k), NEW i \in Ids
  PROVE  ~Claims(i, k)
<1>1. index[i] # None => index[i].bib # k
  BY DEF Duplicate, Exists
<1>2. ~Holds(i, k)
  <2>1. Layout(k, i).dir \in Dirs /\ Layout(k, i).dir.key = k
    BY DEF Layout, Dirs
  <2>2. PICK d \in Dirs : d = Layout(k, i).dir /\ d.key = k
    BY <2>1
  <2> QED
    BY <2>2 DEF Holds, Named, FilesNamed, Duplicate, PathTaken
<1> QED
  BY <1>1, <1>2 DEF Claims

\* Rewritten files of the books p has nothing to do with stay so.
LEMMA ClientRewritten ==
  ASSUME Typed, Guarded, Placed, Named, "copy" \notin touched,
         NEW p \in Procs, ClientStep(p), NEW d \in Dirs, Rewritten(d),
         Gentle \/ d.id # book[p] \/ ~AtWork(p)
  PROVE  Rewritten(d)'
<1>1. CASE Gentle
  BY <1>1, GentleKeeps DEF Named, Typed, TypeOK
<1>2. CASE d.id # book[p] \/ ~AtWork(p)
  <2>1. PICK i \in Ids : i = d.id
    BY DEF Dirs
  <2>2. epub'[d] = epub[d]
    BY <1>2, <2>1, OtherBooks
  <2> QED
    BY <2>2 DEF Rewritten
<1> QED
  BY <1>1, <1>2

LEMMA ClientFilesNamed ==
  ASSUME NoRivals, Typed, Guarded, Placed, Named, "copy" \notin touched,
         NEW p \in Procs, ClientStep(p)
  PROVE  FilesNamed'
<1> USE DEF Typed, TypeOK
<1>1. CASE Gentle
  BY <1>1, GentleKeeps DEF Named
<1>2. CASE pc[p] = "place" /\ WriteEpub(NewPlace(p), call[p].bib)
  <2>1. call[p].bib \in Keys \ EditKeys
    BY <1>2, EditKeysAre DEF Named, CallNamed, ClientOK, FilingLabels
  <2>2. NewPlace(p).dir \in Dirs
    BY <1>2, IngestPlace DEF FilingLabels
  <2>3. FilesNamed
    BY DEF Named
  <2> QED
    BY <1>2, <2>1, <2>2, <2>3 DEF FilesNamed, WriteEpub, NewPlace, Layout, StoreTypeOK
<1> QED
  BY <1>1, <1>2, ClientGentle

LEMMA ClientRowNamed ==
  ASSUME NoRivals, Typed, Guarded, Placed, Named, "copy" \notin touched,
         NEW p \in Procs, ClientStep(p), NEW i \in Ids
  PROVE  RowNamed(i, index[i])'
<1> USE DEF Typed, TypeOK
<1>1. CASE index'[i] = index[i]
  <2>1. PICK row \in Rows \union {None} : row = index[i]
    BY DEF IndexTypeOK
  <2>2. RowNamed(i, row)
    BY <2>1 DEF Named
  <2>3. CASE row = None
    BY <1>1, <2>1, <2>3 DEF RowNamed
  <2>4. CASE row # None
    <3>1. row.loc.dir \in Dirs
      BY <2>1, <2>4 DEF Rows, Locations
    <3>2. row.loc.dir.id = i
      BY <2>1, <2>4 DEF Placed, Filed
    <3>3. Gentle \/ i # book[p] \/ ~AtWork(p)
      <4>1. pc[p] = "place" => index[book[p]] = None
        BY DEF Guarded, Held, HeldBy, FilingLabels
      <4> QED
        BY <2>1, <2>4, <4>1, ClientGentle
    <3>4. Rewritten(row.loc.dir) => Rewritten(row.loc.dir)'
      BY <3>1, <3>2, <3>3, ClientRewritten
    <3> QED
      BY <1>1, <2>1, <2>2, <3>4 DEF RowNamed
  <2> QED
    BY <2>3, <2>4
<1>2. CASE index'[i] # index[i]
  <2>1. CommitEdit(p) \/ CommitDelete(p) \/ RecordIngest(p)
    BY <1>2
    DEF ClientStep, BeginOnBook, RewriteEpub, RenameBookDir, RenameBookFile, UpdateMeta,
        RemoveBook, BeginIngest, PlaceEpub, PlaceMeta, AnnounceIngest, UndoIngest,
        MarkPending, Cancel, GiveUp, LeavePending, indexVars
  <2>2. CASE CommitEdit(p)
    <3>1. pc[p] \in EditLabels /\ pc[p] \in HeldLabels /\ pc[p] = "put"
      BY <2>2 DEF CommitEdit, EditLabels, HeldLabels
    <3>2. /\ i = book[p] /\ index'[i] = RowFor(To(p), NewBib(p), NewVal(p))
          /\ epub' = epub
      BY <1>2, <2>2
      DEF CommitEdit, Put, GiveUp, LeavePending, IndexTypeOK, storeVars
    <3>3. NewBib(p) \in EditKeys => Owns(i, NewBib(p)) /\ Rewritten(To(p).dir)
      BY <3>1, <3>2, EditNamed DEF Named, CallNamed
    <3> QED
      BY <3>2, <3>3 DEF RowNamed, RowFor, Rewritten, To
  <2>3. CASE CommitDelete(p)
    BY <1>2, <2>3 DEF CommitDelete, Erase, Put, GiveUp, LeavePending, IndexTypeOK, RowNamed
  <2>4. CASE RecordIngest(p)
    <3>1. i = book[p] /\ index'[i] = RowFor(NewPlace(p), call[p].bib, DefaultVal)
      BY <1>2, <2>4 DEF RecordIngest, Put, indexVars, IndexTypeOK
    <3>2. call[p].bib \notin EditKeys
      BY <2>4, EditKeysAre DEF RecordIngest, Named, CallNamed, ClientOK, FilingLabels
    <3> QED
      BY <3>1, <3>2 DEF RowNamed, RowFor, NewPlace
  <2> QED
    BY <2>1, <2>2, <2>3, <2>4
<1> QED
  BY <1>1, <1>2


LEMMA OthersNamed ==
  ASSUME NoRivals, Typed, Guarded, Placed, Named, "copy" \notin touched,
         NEW p \in Procs, ClientStep(p), NEW q \in Procs \ {p}
  PROVE  CallNamed(q)'
<1> USE DEF Typed, TypeOK
<1>1. /\ pc'[q] = pc[q] /\ call'[q] = call[q] /\ book'[q] = book[q] /\ was'[q] = was[q]
      /\ CallNamed(q)
  BY OthersSame DEF Named
<1>2. CASE pc[q] \in EditLabels
  <2>1. pc[q] \in HeldLabels /\ pc[q] \notin FilingLabels
    BY <1>2 DEF HeldLabels, EditLabels, FilingLabels
  <2>2. PICK from \in Dirs, to \in Dirs : from = From(q).dir /\ to = To(q).dir
    BY <1>2, EditPlaces
  <2>3. from.id = book[q] /\ to.id = book[q]
    BY <2>1, <2>2, OwnPlaces
  <2>4. book[q] # book[p] \/ ~AtWork(p)
    BY <2>1, Apart DEF AtWork, Guarded
  <2>5. /\ Rewritten(from) => Rewritten(from)'
        /\ Rewritten(to) => Rewritten(to)'
    BY <2>3, <2>4, ClientRewritten
  <2>6. /\ NewBib(q)' = NewBib(q) /\ From(q).dir' = from /\ To(q).dir' = to
    BY <1>1, <2>2 DEF NewBib, From, To
  <2> QED
    BY <1>1, <2>1, <2>2, <2>5, <2>6 DEF CallNamed, Rewritten
<1>3. CASE pc[q] \in FilingLabels
  <2>1. PICK k \in Keys \ EditKeys : k = call[q].bib
    BY <1>1, <1>3, EditKeysAre DEF CallNamed, ClientOK, FilingLabels
  <2>2. pc[p] \notin FilingLabels
    BY <1>3 DEF Guarded, Held, HeldBy
  <2>3. \A i \in Ids : Claims(i, k)' => i = book[q]
    BY <1>1, <1>3, <2>1, <2>2, ClientClaims DEF CallNamed
  <2> QED
    BY <1>1, <1>3, <2>1, <2>3 DEF CallNamed, FilingLabels, HeldLabels, EditLabels, DeleteLabels, Claims, Holds
<1>4. CASE pc[q] \notin EditLabels \union FilingLabels
  BY <1>1, <1>4 DEF CallNamed, EditLabels
<1> QED
  BY <1>2, <1>3, <1>4

LEMMA OwnNamed ==
  ASSUME NoRivals, Typed, Guarded, Placed, Named, "copy" \notin touched,
         NEW p \in Procs, ClientStep(p)
  PROVE  CallNamed(p)'
<1> USE DEF Typed, TypeOK
<1>1. CallNamed(p)
  BY DEF Named
<1>2. CASE pc'[p] = "idle"
  BY <1>2 DEF CallNamed, HeldLabels, EditLabels, DeleteLabels, FilingLabels
<1>3. CASE BeginOnBook(p) /\ pc'[p] # "idle"
  <2>1. /\ pc[p] = "book" /\ call[p].kind \in {"edit", "delete"}
        /\ index[book[p]] # None /\ book[p] \in Ids
        /\ pc'[p] = FirstStep(call[p]) /\ was'[p] = index[book[p]]
        /\ UNCHANGED <<epub, call, book>>
    BY <1>3, CallShape
    DEF BeginOnBook, Return, Goto, ClientTypeOK, ClientOK, storeVars
  <2>2. RowNamed(book[p], index[book[p]])
    BY <2>1 DEF Named
  <2>3. pc'[p] = "dir" /\ NewBib(p)' \in EditKeys => Rewritten(From(p).dir)'
    BY <2>1, <2>2 DEF FirstStep, NewBib, From, RowNamed, Rewritten
  <2>4. pc'[p] \in {"rewrite", "dir", "remove"} /\ (pc'[p] = "rewrite" => call[p].bib # None)
    BY <2>1 DEF FirstStep
  <2>5. call[p] \in Requests /\ call[p].id = book[p]
    BY <1>1, <2>1 DEF CallNamed
  <2> QED
    BY <2>1, <2>3, <2>4, <2>5 DEF CallNamed, HeldLabels, EditLabels, DeleteLabels, FilingLabels
<1>4. CASE /\ RewriteEpub(p) \/ RenameBookDir(p) \/ RenameBookFile(p) \/ UpdateMeta(p)
              \/ CommitEdit(p)
           /\ pc'[p] # "idle"
  <2>1. pc[p] \in EditLabels /\ pc[p] \in HeldLabels
    BY <1>4 DEF RewriteEpub, RenameBookDir, RenameBookFile, UpdateMeta, CommitEdit, EditLabels,
                HeldLabels
  <2>2. /\ pc'[p] \in {"dir", "file", "meta", "put"}
        /\ UNCHANGED <<call, book, was>>
    BY <1>4 DEF RewriteEpub, RenameBookDir, RenameBookFile, UpdateMeta, CommitEdit, Step, GiveUp,
                Return, Goto, ClientTypeOK
  <2>3. PICK from \in Dirs, to \in Dirs : from = From(p).dir /\ to = To(p).dir
    BY <2>1, EditPlaces
  <2>4. NewBib(p)' = NewBib(p) /\ From(p).dir' = from /\ To(p).dir' = to
    BY <2>2, <2>3 DEF NewBib, From, To
  <2>5. call[p] \in Requests /\ call[p].id = book[p]
    BY <1>1, <2>1 DEF CallNamed, HeldLabels, EditLabels
  <2>6. CASE RewriteEpub(p)
    <3>1. /\ WriteEpub(From(p), NewBib(p)) /\ pc'[p] = "dir"
      BY <1>4, <2>6 DEF RewriteEpub, Step, GiveUp, Return, Goto, ClientTypeOK
    <3>2. NewBib(p) \in EditKeys => Rewritten(from)'
      BY <2>3, <3>1 DEF WriteEpub, Rewritten, StoreTypeOK
    <3> QED
      BY <2>2, <2>3, <2>4, <2>5, <3>1, <3>2
      DEF CallNamed, HeldLabels, EditLabels, DeleteLabels, FilingLabels, Rewritten
  <2>7. CASE RenameBookDir(p)
    <3>1. /\ pc[p] = "dir" /\ pc'[p] = "file"
          /\ (from = to /\ UNCHANGED storeVars) \/ RenameDir(from, to)
      BY <1>4, <2>3, <2>7 DEF RenameBookDir, Step, GiveUp, Return, Goto, ClientTypeOK
    <3>2. NewBib(p) \in EditKeys => Rewritten(from)
      BY <1>1, <2>3, <3>1 DEF CallNamed
    <3>3. Rewritten(from) => Rewritten(to)'
      BY <3>1 DEF Rewritten, RenameDir, MoveTo, storeVars, StoreTypeOK
    <3> QED
      BY <2>2, <2>4, <2>5, <3>1, <3>2, <3>3
      DEF CallNamed, HeldLabels, EditLabels, DeleteLabels, FilingLabels, Rewritten
  <2>8. CASE RenameBookFile(p) \/ UpdateMeta(p)
    <3>1. /\ pc[p] \in {"file", "meta"} /\ pc'[p] \in {"meta", "put"}
          /\ epub' = epub \/ (epub[to] # None /\ \E k : RenameFile(to, k))
      BY <1>4, <2>3, <2>8
      DEF RenameBookFile, UpdateMeta, Step, GiveUp, Return, Goto, ClientTypeOK, FileAt,
          WriteMeta, storeVars
    <3>2. NewBib(p) \in EditKeys => Rewritten(to)
      BY <1>1, <2>3, <3>1 DEF CallNamed
    <3>3. Rewritten(to) => Rewritten(to)'
      BY <3>1 DEF Rewritten, RenameFile, StoreTypeOK
    <3> QED
      BY <2>2, <2>4, <2>5, <3>1, <3>2, <3>3
      DEF CallNamed, HeldLabels, EditLabels, DeleteLabels, FilingLabels, Rewritten
  <2>9. ~CommitEdit(p)
    BY <1>4 DEF CommitEdit, GiveUp, Return, Goto, ClientTypeOK
  <2> QED
    BY <1>4, <2>6, <2>7, <2>8, <2>9
<1>5. CASE (RemoveBook(p) \/ CommitDelete(p)) /\ pc'[p] # "idle"
  <2>1. /\ pc[p] \in DeleteLabels /\ pc'[p] \in DeleteLabels
        /\ UNCHANGED <<call, book>>
    BY <1>5 DEF RemoveBook, CommitDelete, Step, GiveUp, Return, Goto, ClientTypeOK, DeleteLabels
  <2> QED
    BY <1>1, <2>1 DEF CallNamed, HeldLabels, EditLabels, DeleteLabels, FilingLabels
<1>6. CASE BeginIngest(p) /\ pc'[p] # "idle"
  <2>1. /\ pc[p] = "ingest" /\ pc'[p] = "place" /\ ~Duplicate(call[p].bib)
        /\ UNCHANGED <<epub, index, call>>
    BY <1>6 DEF BeginIngest, MarkPending, Return, Goto, ClientTypeOK, storeVars
  <2>2. PICK k \in Keys \ EditKeys : k = call[p].bib
    BY <1>1, <2>1, EditKeysAre DEF CallNamed, ClientOK
  <2>3. \A i \in Ids : ~Claims(i, k)
    BY <2>1, <2>2, NobodyClaims
  <2>4. \A i \in Ids : ~Claims(i, k)'
    BY <2>1, <2>3 DEF Claims, Holds
  <2> QED
    BY <1>1, <2>1, <2>2, <2>4
    DEF CallNamed, HeldLabels, EditLabels, DeleteLabels, FilingLabels, Claims, Holds
<1>7. CASE /\ PlaceEpub(p) \/ PlaceMeta(p) \/ RecordIngest(p) \/ UndoIngest(p)
           /\ pc'[p] # "idle"
  <2>1. /\ pc[p] \in FilingLabels /\ pc'[p] \in FilingLabels \union {"announce"}
        /\ UNCHANGED <<call, book>>
    BY <1>7 DEF PlaceEpub, PlaceMeta, RecordIngest, UndoIngest, Step, GiveUp, Return, Goto,
                ClientTypeOK, FilingLabels
  <2>2. PICK k \in Keys \ EditKeys : k = call[p].bib
    BY <1>1, <2>1, EditKeysAre DEF CallNamed, ClientOK, FilingLabels
  <2>3. \A i \in Ids : Claims(i, k)' => i = book[p]
    BY <1>1, <2>1, <2>2, ClientClaims DEF CallNamed
  <2>4. call[p] \in Requests
    BY <1>1, <2>1 DEF CallNamed, FilingLabels
  <2> QED
    BY <2>1, <2>2, <2>3, <2>4
    DEF CallNamed, HeldLabels, EditLabels, DeleteLabels, FilingLabels, Claims, Holds
<1>8. AnnounceIngest(p) => pc'[p] = "idle"
  BY DEF AnnounceIngest, Return, Goto, ClientTypeOK
<1> QED
  BY <1>2, <1>3, <1>4, <1>5, <1>6, <1>7, <1>8 DEF ClientStep

LEMMA ClientNamed ==
  ASSUME NoRivals, Typed, Guarded, Placed, Named, "copy" \notin touched,
         NEW p \in Procs, ClientStep(p)
  PROVE  Named'
<1>1. FilesNamed' /\ \A i \in Ids : RowNamed(i, index[i])'
  BY ClientFilesNamed, ClientRowNamed
<1>2. \A q \in Procs : CallNamed(q)'
  BY OwnNamed, OthersNamed
<1>3. FoundNamed'
  <2>1. pc[p] # "idle"
    BY DEF ClientStep, BeginOnBook, RewriteEpub, RenameBookDir, RenameBookFile, UpdateMeta,
           CommitEdit, RemoveBook, CommitDelete, BeginIngest, PlaceEpub, PlaceMeta,
           RecordIngest, AnnounceIngest, UndoIngest
  <2>2. rpc \in {"idle", "wait"} /\ rpc' = rpc
    BY <2>1, ClientStepFrame DEF Guarded, Quiet, reindexVars
  <2> QED
    BY <2>2 DEF FoundNamed
<1>4. ASSUME NEW k \in Keys \ EditKeys, NEW i \in Ids, NEW j \in Ids, Claims(i, k)', Claims(j, k)'
      PROVE  i = j
  <2>1. Claims(i, k) /\ Claims(j, k) => i = j
    BY DEF Named
  <2>2. pc[p] \in FilingLabels /\ k = call[p].bib =>
          /\ Claims(i, k) => i = book[p]
          /\ Claims(j, k) => j = book[p]
    BY DEF Named, CallNamed
  <2>3. /\ Claims(i, k) \/ (pc[p] \in FilingLabels /\ i = book[p] /\ k = call[p].bib)
        /\ Claims(j, k) \/ (pc[p] \in FilingLabels /\ j = book[p] /\ k = call[p].bib)
    BY <1>4, ClientClaims
  <2> QED
    BY <2>1, <2>2, <2>3
<1> QED
  BY <1>1, <1>2, <1>3, <1>4 DEF Named


\* While no call runs, only files and rows are named by anything.
LEMMA IdleNamed ==
  ASSUME \A p \in Procs : pc'[p] = "idle"
  PROVE  \A p \in Procs : CallNamed(p)'
BY DEF CallNamed, HeldLabels, EditLabels, DeleteLabels, FilingLabels

\* What a scan finds is named as the file says.
LEMMA ScanStoreNamed ==
  ASSUME Typed, Guarded, Placed, Named, "copy" \notin touched, ScanStore
  PROVE  Named'
<1> USE DEF Typed, TypeOK
<1>1. /\ UNCHANGED <<epub, index>> /\ rpc = "scan"
      /\ \A p \in Procs : pc'[p] = "idle"
  BY DEF ScanStore, storeVars, indexVars, clientVars, Guarded, Quiet
<1>2. /\ FilesNamed' /\ \A i \in Ids : RowNamed(i, index[i])'
      /\ \A k \in Keys \ EditKeys : \A i, j \in Ids : Claims(i, k)' /\ Claims(j, k)' => i = j
  BY <1>1 DEF Named, FilesNamed, RowNamed, Rewritten, Claims, Holds
<1>3. FoundNamed'
  <2>1. CASE ReindexFails
    BY <2>1 DEF ReindexFails, ReindexEnds, FoundNamed
  <2>2. ASSUME NEW readable \in SUBSET Walk, \A d \in readable : Sound(d),
               found' = ScanOf(readable), rpc' = "move",
               todo' = {i \in Ids : ScanOf(readable)[i] # None
                                    /\ ~Canonical(ScanOf(readable)[i], i)}
        PROVE  FoundNamed'
    <3>0. PICK rows \in [Ids -> Rows \union {None}] : rows = ScanOf(readable)
      BY <2>2, ScanOfType
    <3> SUFFICES ASSUME NEW i \in Ids, rows[i] # None
                 PROVE  /\ RowNamed(i, rows[i])'
                        /\ rows[i].bib \notin EditKeys =>
                             Holds(i, rows[i].bib)' /\ Canonical(rows[i], i)
      <4>1. /\ found' = rows /\ rpc' = "move"
            /\ todo' = {i \in Ids : rows[i] # None /\ ~Canonical(rows[i], i)}
        BY <2>2, <3>0
      <4>2. \A i \in Ids : rows[i] = None => RowNamed(i, rows[i])'
        BY DEF RowNamed
      <4> QED
        BY <4>1, <4>2 DEF FoundNamed, RowNamed, Rewritten, Holds
    <3> DEFINE e == CHOOSE f \in OwnersOf(i, readable) : TRUE
    <3>1. OwnersOf(i, readable) # {} /\ ScanOf(readable)[i] = ScannedRow(e)
      BY <3>0 DEF ScanOf
    <3>2. e \in readable /\ meta[e].id = i
      BY <3>1 DEF OwnersOf
    <3> HIDE DEF e
    <3>3. PICK d \in Dirs : d = e
      BY <3>2, <2>2, WalkType
    <3>4. /\ d.id = i /\ epub[d] # None /\ epub[d].bib \in Keys
          /\ rows[i] = ScannedRow(d)
      BY <2>2, <3>1, <3>2, <3>3, <3>0, WalkType DEF Sound, Placed, Labelled, Walk, EpubFiles
    <3>5. CASE epub[d].bib \in EditKeys
      BY <1>1, <3>4, <3>5
      DEF Named, FilesNamed, RowNamed, Rewritten, ScannedRow, RowFor, LocationOf
    <3>6. CASE epub[d].bib \notin EditKeys
      <4>1. d.key = epub[d].bib /\ epub[d].name = epub[d].bib
        BY <3>4, <3>6 DEF Named, FilesNamed
      <4>2. d = [key |-> epub[d].bib, id |-> i]
        BY <3>4, <4>1 DEF Dirs
      <4>3. Layout(epub[d].bib, i) = LocationOf(d)
        BY <4>1, <4>2 DEF Layout, LocationOf
      <4> QED
        BY <1>1, <3>4, <3>6, <4>2, <4>3
        DEF RowNamed, ScannedRow, RowFor, Canonical, Holds, LocationOf, Layout
    <3> QED
      BY <3>5, <3>6
  <2> QED
    BY <2>1, <2>2 DEF ScanStore
<1> QED
  BY <1>1, <1>2, <1>3, IdleNamed DEF Named

\* A rebuild moves only what edits have rewritten.
LEMMA MovesNamed ==
  ASSUME Typed, Guarded, Placed, Named, "copy" \notin touched, NEW i \in Ids,
         \/ MoveBookDir(i)
         \/ MoveBookFile /\ i = mv
  PROVE  Named'
<1> USE DEF Typed, TypeOK
<1>1. /\ i \in todo /\ rpc \in {"move", "file"} /\ rpc' \in {"move", "file"}
      /\ rpc = "file" => i = mv
      /\ index' = index
      /\ \A p \in Procs : pc'[p] = "idle"
  BY DEF MoveBookDir, MoveBookFile, Stays, TodoOK, indexVars, clientVars, Guarded, Quiet
<1>2. PICK from \in Dirs, to \in Dirs :
        from = found[i].loc.dir /\ to = Home(i).dir /\ from.id = i /\ to.id = i
  <2>1. /\ found[i].loc.dir \in Dirs /\ Home(i).dir \in Dirs
        /\ found[i].loc.dir.id = i /\ Home(i).dir.id = i
    BY <1>1, MovePlaces DEF Placed, Filed, Home, Layout, TodoOK
  <2> QED
    BY <2>1
<1>3. /\ found[i] # None /\ found[i].bib \in EditKeys
      /\ Owns(i, found[i].bib) /\ Rewritten(from)
      /\ rpc = "file" => Rewritten(to)
  BY <1>1, <1>2 DEF Named, FoundNamed, RowNamed, TodoOK
<1>4. \/ UNCHANGED storeVars
      \/ rpc = "move" /\ CanRenameDir(from, to) /\ RenameDir(from, to)
      \/ rpc = "file" /\ epub[to] # None /\ \E k : RenameFile(to, k)
      \/ rpc = "file" /\ CanRenameDir(to, from) /\ RenameDir(to, from)
  BY <1>1, <1>2 DEF MoveBookDir, MoveBookFile, RenamedBack, FileAt
<1>5. Gentle
  BY <1>2, <1>3, <1>4, GentleSteps DEF Named, storeVars
<1>6. /\ FilesNamed'
      /\ \A d \in Dirs : Rewritten(d) => Rewritten(d)'
      /\ \A j, row : RowNamed(j, row) /\ row \in Rows \union {None} => RowNamed(j, row)'
      /\ \A j \in Ids, k \in Keys \ EditKeys : Holds(j, k)' => Holds(j, k)
  BY <1>5, GentleKeeps DEF Named
<1>7. \A j \in Ids : RowNamed(j, index[j])'
  <2> SUFFICES ASSUME NEW j \in Ids
               PROVE  RowNamed(j, index[j])'
    OBVIOUS
  <2>1. PICK row \in Rows \union {None} : row = index[j]
    BY DEF IndexTypeOK
  <2>2. RowNamed(j, row)'
    BY <1>6, <2>1 DEF Named
  <2> QED
    BY <1>1, <2>1, <2>2 DEF RowNamed
<1>8. \A k \in Keys \ EditKeys : \A j, l \in Ids : Claims(j, k)' /\ Claims(l, k)' => j = l
  <2>1. \A k \in Keys \ EditKeys : \A j \in Ids : Claims(j, k)' => Claims(j, k)
    BY <1>1, <1>6 DEF Claims
  <2> QED
    BY <2>1 DEF Named
<1>9. ASSUME NEW j \in Ids, NEW k \in Keys \ EditKeys, Holds(j, k)
      PROVE  Holds(j, k)'
  <2>1. Layout(k, j).dir \in Dirs
    BY DEF Layout, Dirs
  <2>2. PICK d \in Dirs : d = Layout(k, j).dir
    BY <2>1
  <2>3. epub[d] # None /\ epub[d].bib = k /\ k # Unreadable
    BY <1>9, <2>2, EditKeysAre DEF Holds
  <2>4. ~Rewritten(d)
    BY <2>3 DEF Rewritten
  <2>5. epub'[d] # None /\ epub'[d].bib = k
    BY <1>3, <1>4, <2>3, <2>4
    DEF CanRenameDir, DirExists, RenameDir, RenameFile, MoveTo, storeVars, StoreTypeOK
  <2> QED
    BY <2>2, <2>5 DEF Holds
<1>10. /\ rpc' = "file" => Rewritten(Home(mv).dir)'
       /\ todo' \subseteq todo
  <2>1. CASE rpc' = "file"
    <3>1. /\ mv' = i /\ UNCHANGED <<found, todo>>
          /\ (from = to /\ UNCHANGED storeVars) \/ RenameDir(from, to)
      BY <1>1, <1>2, <2>1 DEF MoveBookDir, MoveBookFile, Stays
    <3>2. Rewritten(to)'
      BY <1>3, <3>1 DEF Rewritten, RenameDir, MoveTo, storeVars, StoreTypeOK
    <3>3. Home(mv).dir' = to
      BY <1>2, <3>1 DEF Home
    <3> QED
      BY <3>1, <3>2, <3>3 DEF Rewritten
  <2>2. CASE rpc' # "file"
    BY <2>2 DEF MoveBookDir, MoveBookFile, Stays
  <2> QED
    BY <2>1, <2>2
<1>11. ASSUME NEW j \in Ids
       PROVE  /\ RowNamed(j, found[j])'
              /\ found'[j] # None /\ found'[j].bib \notin EditKeys => Holds(j, found[j].bib)'
              /\ j \in todo' => found'[j].bib \in EditKeys
  <2>1. PICK row \in Rows \union {None} : row = found[j]
    BY DEF ReindexTypeOK
  <2>2. /\ RowNamed(j, row)'
        /\ row # None /\ row.bib \notin EditKeys => Holds(j, row.bib)'
        /\ j \in todo => row.bib \in EditKeys
    <3>1. RowNamed(j, row)
      BY <1>1, <2>1 DEF Named, FoundNamed
    <3>2. row # None /\ row.bib \notin EditKeys => Holds(j, row.bib) /\ row.bib \in Keys
      BY <1>1, <2>1 DEF Named, FoundNamed, Rows
    <3> QED
      BY <1>1, <1>6, <1>9, <2>1, <3>1, <3>2 DEF Named, FoundNamed
  <2>3. CASE found'[j] = found[j]
    BY <1>10, <2>1, <2>2, <2>3 DEF RowNamed, Holds
  <2>4. CASE found'[j] # found[j]
    <3>1. /\ j = i /\ rpc = "file"
          /\ found' = [found EXCEPT ![i].loc = Home(i)]
      BY <1>1, <2>4 DEF MoveBookDir, MoveBookFile, Stays, ReindexTypeOK
    <3>2. found'[j].loc.dir = to /\ found'[j].bib = found[i].bib
      BY <1>2, <3>1 DEF ReindexTypeOK
    <3>3. Rewritten(to)'
      BY <1>3, <1>6, <3>1
    <3> QED
      BY <1>3, <3>1, <3>2, <3>3 DEF RowNamed, Rewritten
  <2> QED
    BY <2>3, <2>4
<1>12. FoundNamed'
  BY <1>10, <1>11 DEF FoundNamed
<1> QED
  BY <1>1, <1>6, <1>7, <1>8, <1>12, IdleNamed DEF Named


\* Steps that leave the files alone, and every row as it is, gone or as found.
LEMMA RestNamed ==
  ASSUME Typed, Guarded, Named,
         \/ AcquireReindex \/ BeginRebuild \/ RebuildIndex \/ FinishReindex
         \/ OpenLibrary \/ Crash \/ Upgrade \/ DiscardIndex
  PROVE  Named'
<1> USE DEF Typed, TypeOK
<1>1. /\ epub' = epub
      /\ \A p \in Procs : pc'[p] = "idle"
  BY DEF AcquireReindex, Drained, BeginRebuild, RebuildIndex, FinishReindex, OpenLibrary, Crash,
         Upgrade, DiscardIndex, storeVars, clientVars, Guarded, Quiet
<1>2. \/ index' \in {index, NoBooks}
      \/ rpc = "rebuild" /\ index' = found
  BY DEF AcquireReindex, BeginRebuild, RebuildIndex, FinishReindex, OpenLibrary, Crash, Upgrade,
         DiscardIndex, PrepareRebuild, DropTables, Emptied, Rebuild, StampVersion, ApplySchema,
         NoBooks, indexVars
<1>3. \/ rpc' \in {"idle", "wait", "scan", "stamp"}
      \/ /\ rpc = "move" /\ rpc' = "rebuild"
         /\ UNCHANGED <<found, todo, mv>>
      \/ UNCHANGED reindexVars
  BY DEF AcquireReindex, BeginRebuild, RebuildIndex, FinishReindex, OpenLibrary, Crash, Upgrade,
         DiscardIndex, ReindexFails, ReindexEnds, reindexVars
<1>4. /\ \A i \in Ids : RowNamed(i, index[i]) /\ (rpc = "rebuild" => RowNamed(i, found[i]))
      /\ \A i \in Ids : rpc = "rebuild" /\ found[i] # None /\ found[i].bib \notin EditKeys =>
           Holds(i, found[i].bib)
  BY DEF Named, FoundNamed
<1>5. FilesNamed' /\ \A i \in Ids : RowNamed(i, index[i])'
  BY <1>1, <1>2, <1>4 DEF Named, FilesNamed, RowNamed, Rewritten, NoBooks
<1>6. ASSUME NEW k \in Keys \ EditKeys, NEW i \in Ids, Claims(i, k)'
      PROVE  Claims(i, k)
  BY <1>1, <1>2, <1>4, <1>6 DEF Claims, Holds, NoBooks
<1>7. \A k \in Keys \ EditKeys : \A i, j \in Ids : Claims(i, k)' /\ Claims(j, k)' => i = j
  BY <1>6 DEF Named
<1>8. FoundNamed'
  BY <1>1, <1>3 DEF Named, FoundNamed, RowNamed, Rewritten, Holds, Home, reindexVars
<1> QED
  BY <1>1, <1>5, <1>7, <1>8, IdleNamed DEF Named

LEMMA CallsNamed ==
  ASSUME Typed, Named,
         \/ RequestReindex
         \/ \E p \in Procs, c \in Requests : Call(p, c)
         \/ UNCHANGED vars
  PROVE  Named'
<1> USE DEF Typed, TypeOK
<1>1. /\ UNCHANGED <<epub, index, found, todo, mv, was>>
      /\ rpc' = rpc \/ rpc' = "wait"
  BY DEF RequestReindex, Call, vars, storeVars, indexVars, reindexVars, clientVars
<1>2. FilesNamed' /\ FoundNamed' /\ \A i \in Ids : RowNamed(i, index[i])'
  BY <1>1 DEF Named, FilesNamed, FoundNamed, RowNamed, Rewritten, Holds, Home
<1>3. \A i, k : Claims(i, k)' = Claims(i, k)
  BY <1>1 DEF Claims, Holds
<1>4. ASSUME NEW q \in Procs, UNCHANGED <<pc[q], call[q], book[q]>>
      PROVE  CallNamed(q)'
  <2>1. CallNamed(q)
    BY DEF Named
  <2>2. From(q)' = From(q) /\ NewBib(q)' = NewBib(q) /\ To(q)' = To(q)
    BY <1>1, <1>4 DEF From, To, NewBib
  <2> QED
    BY <1>1, <1>4, <2>1, <2>2 DEF CallNamed, Rewritten, Claims, Holds
<1>5. \A q \in Procs : CallNamed(q)'
  <2>1. ASSUME NEW p \in Procs, NEW c \in Requests, Call(p, c), NEW q \in Procs
        PROVE  CallNamed(q)'
    <3>1. CASE q # p
      BY <1>4, <2>1, <3>1 DEF Call, Goto, ClientTypeOK
    <3>2. CASE q = p
      <4>1. /\ pc'[p] \in {"ingest", "book"} /\ call'[p] = c
            /\ pc'[p] = "book" => book'[p] = c.id
        BY <2>1 DEF Call, Goto, ClientTypeOK
      <4> QED
        BY <3>2, <4>1 DEF CallNamed, HeldLabels, EditLabels, DeleteLabels, FilingLabels
    <3> QED
      BY <3>1, <3>2
  <2>2. CASE RequestReindex \/ UNCHANGED vars
    BY <1>4, <2>2 DEF RequestReindex, vars, clientVars
  <2> QED
    BY <2>1, <2>2
<1> QED
  BY <1>2, <1>3, <1>5 DEF Named

\* A user who removes or damages files names none.
LEMMA HandNamed ==
  ASSUME Typed, Named, NEW kind \in {"remove", "damage"}, HandEdit(kind)
  PROVE  Named'
<1> USE DEF Typed, TypeOK
<1>1. /\ rpc' = "idle" /\ \A p \in Procs : pc'[p] = "idle"
      /\ index' = index
  BY DEF HandEdit, reindexVars, clientVars, indexVars
<1>2. Gentle
  <2>1. ASSUME NEW d \in Walk, WriteEpub(LocationOf(d), Unreadable)
        PROVE  Gentle
    BY <2>1, WalkType, EditKeysAre DEF WriteEpub, LocationOf, Gentle, StoreTypeOK
  <2>2. ASSUME NEW d \in Walk, WriteMeta(LocationOf(d), Unreadable)
        PROVE  Gentle
    BY <2>2 DEF WriteMeta, Gentle
  <2>3. ASSUME NEW d \in Walk, RemoveOne(d)
        PROVE  Gentle
    BY <2>3, WalkType, GentleSteps DEF Named
  <2> QED
    BY <2>1, <2>2, <2>3 DEF HandEdit
<1>3. /\ FilesNamed'
      /\ \A j, row : RowNamed(j, row) /\ row \in Rows \union {None} => RowNamed(j, row)'
      /\ \A j \in Ids, k \in Keys \ EditKeys : Holds(j, k)' => Holds(j, k)
  BY <1>2, GentleKeeps DEF Named
<1>4. \A j \in Ids : RowNamed(j, index[j])'
  <2> SUFFICES ASSUME NEW j \in Ids
               PROVE  RowNamed(j, index[j])'
    OBVIOUS
  <2>1. PICK row \in Rows \union {None} : row = index[j]
    BY DEF IndexTypeOK
  <2>2. RowNamed(j, row)'
    BY <1>3, <2>1 DEF Named
  <2> QED
    BY <1>1, <2>1, <2>2 DEF RowNamed
<1>5. \A k \in Keys \ EditKeys : \A j, l \in Ids : Claims(j, k)' /\ Claims(l, k)' => j = l
  <2>1. \A k \in Keys \ EditKeys : \A j \in Ids : Claims(j, k)' => Claims(j, k)
    BY <1>1, <1>3 DEF Claims
  <2> QED
    BY <2>1 DEF Named
<1> QED
  BY <1>1, <1>3, <1>4, <1>5, IdleNamed DEF Named, FoundNamed

LEMMA InitNamed ==
  ASSUME Init
  PROVE  Named
BY DEF Init, StoreInit, IndexInit, ReindexIdle, ClientsIdle, Named, FilesNamed, RowNamed,
       CallNamed, FoundNamed, Claims, Holds, Layout, Dirs, HeldLabels, EditLabels,
       DeleteLabels, FilingLabels

LEMMA NextNamed ==
  ASSUME NoRivals, HandEdits \subseteq {"remove", "damage"},
         Typed, Guarded, Placed, Named, [Next]_vars
  PROVE  Named'
<1>1. "copy" \notin touched
  BY DEF Typed, TypeOK
<1>2. ASSUME NEW p \in Procs, ClientStep(p)
      PROVE  Named'
  BY <1>1, <1>2, ClientNamed
<1>3. ASSUME ReindexStep
      PROVE  Named'
  <2>1. ASSUME NEW i \in Ids, MoveBookDir(i)
        PROVE  Named'
    BY <1>1, <2>1, MovesNamed
  <2>2. CASE MoveBookFile
    <3>1. mv \in Ids
      BY <2>2, MovePlaces DEF MoveBookFile, Typed, TodoOK
    <3>2. PICK i \in Ids : i = mv
      BY <3>1
    <3> QED
      BY <1>1, <2>2, <3>2, MovesNamed
  <2> QED
    BY <1>1, <1>3, <2>1, <2>2, ScanStoreNamed, RestNamed DEF ReindexStep
<1>4. CASE OpenLibrary \/ Crash \/ Upgrade \/ DiscardIndex
  BY <1>4, RestNamed
<1>5. CASE RequestReindex \/ (\E p \in Procs, c \in Requests : Call(p, c)) \/ UNCHANGED vars
  BY <1>5, CallsNamed
<1>6. ASSUME NEW kind \in HandEdits, HandEdit(kind)
      PROVE  Named'
  BY <1>6, HandNamed
<1> QED
  BY <1>2, <1>3, <1>4, <1>5, <1>6 DEF Next

\* Two uploads of one book never both get in, whatever fails in either, whatever a
\* crash leaves, whatever a rebuild skips, and whatever a user removes or damages, as
\* long as no edit gives a book the author and title of another (ingestMu, Exists and
\* PathTaken in ingestPath).
THEOREM NeverTwice ==
  ASSUME NoRivals, HandEdits \subseteq {"remove", "damage"}
  PROVE  Spec => []NoTwinBooks
<1>1. Typed /\ Guarded /\ Placed /\ Named /\ [Next]_vars => Named'
  BY NextNamed
<1>2. Init => Named
  BY InitNamed
<1>3. Typed /\ Named => NoTwinBooks
  <2> SUFFICES ASSUME Typed, Named, NEW i \in Ids, NEW j \in Ids,
                      index[i] # None, index[j] # None, index[i].bib = index[j].bib
               PROVE  i = j
    BY DEF NoTwinBooks
  <2>1. PICK k \in Keys : k = index[i].bib
    BY DEF Typed, TypeOK, IndexTypeOK, Rows
  <2>2. CASE k \in EditKeys
    <3>1. Owns(i, k) /\ Owns(j, k) /\ k # None
      BY <2>1, <2>2, StoreAssumption DEF Named, RowNamed
    <3> QED
      BY <3>1 DEF Owns, NoRivals
  <2>3. CASE k \notin EditKeys
    BY <2>1, <2>3 DEF Named, Claims
  <2> QED
    BY <2>2, <2>3
<1> QED
  BY <1>1, <1>2, <1>3, AlwaysTyped, AlwaysGuarded, AlwaysPlaced, PTL DEF Spec

=============================================================================
