------------------------------ MODULE Library ------------------------------
(***************************************************************************)
(* The library facade (pkg/library): Edit, Delete, ingest, Reindex and     *)
(* Open, each broken at every file system call and every transaction, run  *)
(* by any number of goroutines under the three locks, with each call free  *)
(* to fail and the process free to die between any two of them.            *)
(*                                                                         *)
(*   mutateMu   read-held by every client whose pc is not "idle"; wanted   *)
(*              or write-held by Reindex while rpc is not "idle"           *)
(*   bookMu     a mutex per book id                                        *)
(*   ingestMu   one mutex                                                  *)
(***************************************************************************)
EXTENDS Index

CONSTANTS
  DefaultVal,   \* the meta.toml of a new book
  Requests,     \* the calls clients make
  ReindexCalls, \* may Reindex be called while the library serves?
  IoErrors,     \* may a file system call or a transaction fail?
  LateErrors,   \* may Move fail after its rename took effect?
  ScanErrors,   \* may a scan fail to read a book that is sound?
  Crashes,      \* may the process die?
  Upgrades,     \* may a start find an index of another schema version?
  HandEdits,    \* what users do to the tree behind the library, once each
  MaxHands      \* bound on how many of these happen

Calls == [kind : {"edit"}, id : Ids, bib : Keys \union {None}, val : Vals \union {None}]
           \union [kind : {"delete"}, id : Ids]
           \union [kind : {"ingest"}, bib : Keys]

ASSUME LibraryAssumption ==
  /\ DefaultVal \in Vals
  /\ Requests \subseteq Calls
  /\ None \notin Procs \union Calls \union [bib : Keys, val : Vals]
  /\ MaxId > 0
  /\ {ReindexCalls, IoErrors, LateErrors, ScanErrors, Crashes, Upgrades} \subseteq BOOLEAN
  /\ MaxHands \in Nat

VARIABLES
  phase,        \* "down", "opening" (Open is reindexing) or "serving"
  rpc,          \* Reindex: where it is
  found,        \* reindex: the readable books, by id
  passed,       \* reindex: the directories it skips
  top,          \* reindex: the largest id any directory claims
  todo,         \* reindex: books whose place is still to be checked
  mv,           \* reindex: the book whose directory was renamed last, or 0
  pc,           \* each client: where it is
  call,         \* each client: its request, or None
  book,         \* each client: the id it works on, or 0
  was,          \* each client: the row read under the book lock, or None
  bookMu,       \* who holds each book's lock, or None
  ingestMu,     \* who holds the ingest lock, or None
  touched       \* the hand edits made so far

reindexVars == <<rpc, found, passed, top, todo, mv>>
clientVars  == <<pc, call, book, was, bookMu, ingestMu>>
vars == <<storeVars, indexVars, phase, reindexVars, clientVars, touched>>

ReindexTypeOK ==
  /\ rpc \in {"idle", "wait", "scan", "move", "file", "rebuild", "stamp"}
  /\ found \in [Ids -> Rows \union {None}]
  /\ passed \in SUBSET Skipped
  /\ top \in 0 .. MaxId
  /\ todo \in SUBSET Ids
  /\ mv \in 0 .. MaxId

Labels == {"idle", "book", "rewrite", "dir", "file", "meta", "put", "remove", "erase",
           "ingest", "place", "sidecar", "record", "announce", "undo"}

ClientTypeOK ==
  /\ pc \in [Procs -> Labels]
  /\ call \in [Procs -> Calls \union {None}]
  /\ book \in [Procs -> 0 .. MaxId]
  /\ was \in [Procs -> Rows \union {None}]
  /\ bookMu \in [Ids -> Procs \union {None}]
  /\ ingestMu \in Procs \union {None}

TypeOK ==
  /\ StoreTypeOK
  /\ IndexTypeOK
  /\ phase \in {"down", "opening", "serving"}
  /\ ReindexTypeOK
  /\ ClientTypeOK
  /\ touched \in SUBSET HandEdits

NoBooks == [i \in Ids |-> None]

ReindexIdle ==
  /\ rpc = "idle" /\ found = NoBooks /\ passed = {}
  /\ top = 0 /\ todo = {} /\ mv = 0

ClientsIdle ==
  /\ pc = [p \in Procs |-> "idle"]
  /\ call = [p \in Procs |-> None]
  /\ book = [p \in Procs |-> 0]
  /\ was = [p \in Procs |-> None]
  /\ bookMu = [i \in Ids |-> None]
  /\ ingestMu = None

Init ==
  /\ StoreInit
  /\ IndexInit
  /\ phase = "down"
  /\ ReindexIdle
  /\ ClientsIdle
  /\ touched = {}

-----------------------------------------------------------------------------
(* Shared by the three mutations. *)

Goto(p, l) == pc' = [pc EXCEPT ![p] = l]

\* Where p goes next, with everything else of the client state as it is.
Step(p, l) ==
  /\ Goto(p, l)
  /\ UNCHANGED <<call, book, was, bookMu, ingestMu>>

\* Mutant of Return: a path that leaves ingestMu locked.
ReturnKeepingIngestMu(p) ==
  /\ Goto(p, "idle")
  /\ call' = [call EXCEPT ![p] = None]
  /\ book' = [book EXCEPT ![p] = 0]
  /\ was' = [was EXCEPT ![p] = None]
  /\ bookMu' = [i \in Ids |-> IF bookMu[i] = p THEN None ELSE bookMu[i]]
  /\ UNCHANGED ingestMu

\* The deferred unlocks run and the caller has its answer.
Return(p) ==
  /\ Goto(p, "idle")
  /\ call' = [call EXCEPT ![p] = None]
  /\ book' = [book EXCEPT ![p] = 0]
  /\ was' = [was EXCEPT ![p] = None]
  /\ bookMu' = [i \in Ids |-> IF bookMu[i] = p THEN None ELSE bookMu[i]]
  /\ ingestMu' = IF ingestMu = p THEN None ELSE ingestMu

\* The call returns an error and leaves its pending row behind.
GiveUp(p) ==
  /\ LeavePending(p, book[p])
  /\ Return(p)

\* Mutant of MayRead: a lock that lets readers pass a waiting writer.
MayReadWhileWanted == rpc \in {"idle", "wait"}

\* mutateMu.RLock: a Reindex that runs or waits keeps new readers out.
MayRead == rpc = "idle"

Call(p, c) ==
  /\ phase = "serving" /\ MayRead /\ pc[p] = "idle"
  /\ call' = [call EXCEPT ![p] = c]
  /\ Goto(p, IF c.kind = "ingest" THEN "ingest" ELSE "book")
  /\ book' = [book EXCEPT ![p] = IF c.kind = "ingest" THEN 0 ELSE c.id]
  /\ UNCHANGED <<storeVars, indexVars, phase, reindexVars, was, bookMu, ingestMu, touched>>

\* Mutant of BookLockFree: no per-book lock.
BookLockIgnored(i) == TRUE

BookLockFree(i) == bookMu[i] = None

FirstStep(c) == IF c.kind = "delete" THEN "remove"
                ELSE IF c.bib # None THEN "rewrite" ELSE "dir"

\* bookMu.Lock, get and MarkPending, for Edit and Delete.  The call ends here
\* when the index has no such book or the pending row cannot be written.
BeginOnBook(p) ==
  /\ pc[p] = "book" /\ BookLockFree(book[p])
  /\ \/ /\ index[book[p]] = None \/ IoErrors
        /\ Return(p)
        /\ UNCHANGED indexVars
     \/ /\ index[book[p]] # None
        /\ bookMu' = [bookMu EXCEPT ![book[p]] = p]
        /\ was' = [was EXCEPT ![p] = index[book[p]]]
        /\ Goto(p, FirstStep(call[p]))
        /\ MarkPending(p)
        /\ UNCHANGED <<call, book, ingestMu, seq>>
  /\ UNCHANGED <<storeVars, phase, reindexVars, touched>>

-----------------------------------------------------------------------------
(* Edit. *)

\* Mutant of NewVal: applyMeta without its nil checks.
NewValUnchecked(p) == call[p].val

NewBib(p) == IF call[p].bib = None THEN was[p].bib ELSE call[p].bib
NewVal(p) == IF call[p].val = None THEN was[p].val ELSE call[p].val
From(p)   == was[p].loc
To(p)     == Layout(NewBib(p), book[p])

\* epub.Rewrite: the file is replaced in place, or the edit is cancelled.
CanRewrite(p) == FileAt(From(p)) /\ epub[From(p).dir].bib # Unreadable

RewriteEpub(p) ==
  /\ pc[p] = "rewrite"
  /\ \/ /\ CanRewrite(p)
        /\ WriteEpub(From(p), NewBib(p))
        /\ Step(p, "dir")
        /\ UNCHANGED indexVars
     \/ /\ IoErrors \/ ~CanRewrite(p)
        /\ \/ Cancel(p) /\ Return(p)
           \/ IoErrors /\ GiveUp(p)
        /\ UNCHANGED storeVars
  /\ UNCHANGED <<phase, reindexVars, touched>>

\* Store.Move, first half: the directory.
RenameBookDir(p) ==
  /\ pc[p] = "dir"
  /\ \/ /\ From(p).dir = To(p).dir
        /\ Step(p, "file")
        /\ UNCHANGED <<storeVars, indexVars>>
     \/ /\ From(p).dir # To(p).dir
        /\ CanRenameDir(From(p).dir, To(p).dir)
        /\ RenameDir(From(p).dir, To(p).dir)
        /\ Step(p, "file")
        /\ UNCHANGED indexVars
     \/ /\ From(p).dir # To(p).dir
        /\ IoErrors \/ ~CanRenameDir(From(p).dir, To(p).dir)
        /\ GiveUp(p)
        /\ UNCHANGED storeVars
  /\ UNCHANGED <<phase, reindexVars, touched>>

\* When the epub cannot be renamed the directory goes back, if it can: rename
\* replaces no directory that holds anything.
RenamedBack(old, new) ==
  \/ old # new /\ CanRenameDir(new, old) /\ RenameDir(new, old)
  \/ /\ old = new \/ LateErrors \/ ~CanRenameDir(new, old)
     /\ UNCHANGED storeVars

\* Second half: the epub inside it.
RenameBookFile(p) ==
  LET here == [dir |-> To(p).dir, name |-> From(p).name] IN
  /\ pc[p] = "file"
  /\ \/ /\ From(p).name = To(p).name
        /\ Step(p, "meta")
        /\ UNCHANGED <<storeVars, indexVars>>
     \/ /\ From(p).name # To(p).name
        /\ FileAt(here)
        /\ RenameFile(here.dir, To(p).name)
        /\ Step(p, "meta")
        /\ UNCHANGED indexVars
     \/ /\ From(p).name # To(p).name
        /\ IoErrors \/ ~FileAt(here)
        /\ RenamedBack(From(p).dir, here.dir)
        /\ GiveUp(p)
  /\ UNCHANGED <<phase, reindexVars, touched>>

\* writeMeta, the rest of Store.Update.  A failure of the author directory's
\* removal just before it looks the same from outside.
UpdateMeta(p) ==
  /\ pc[p] = "meta"
  /\ \/ /\ DirExists(To(p).dir)
        /\ WriteMeta(To(p), [id |-> book[p], val |-> NewVal(p)])
        /\ Step(p, "put")
        /\ UNCHANGED indexVars
     \/ /\ IoErrors \/ ~DirExists(To(p).dir)
        /\ GiveUp(p)
        /\ UNCHANGED storeVars
  /\ UNCHANGED <<phase, reindexVars, touched>>

RowFor(loc, k, v) == [loc |-> loc, bib |-> k, val |-> v, info |-> Stat(loc.dir)]

\* Stat and op.Put: the edit is acknowledged.
CommitEdit(p) ==
  /\ pc[p] = "put"
  /\ \/ /\ CanStat(To(p))
        /\ Put(p, book[p], RowFor(To(p), NewBib(p), NewVal(p)))
        /\ Return(p)
     \/ /\ IoErrors \/ ~CanStat(To(p))
        /\ GiveUp(p)
  /\ UNCHANGED <<storeVars, phase, reindexVars, touched>>

-----------------------------------------------------------------------------
(* Delete. *)

\* Store.Delete at the path the index holds.  A directory that is not there
\* is not an error.
RemoveBook(p) ==
  /\ pc[p] = "remove"
  /\ \/ RemoveOne(From(p).dir) /\ Step(p, "remove") /\ UNCHANGED indexVars
     \/ ~DirExists(From(p).dir) /\ Step(p, "erase") /\ UNCHANGED <<storeVars, indexVars>>
     \/ IoErrors /\ GiveUp(p) /\ UNCHANGED storeVars
  /\ UNCHANGED <<phase, reindexVars, touched>>

CommitDelete(p) ==
  /\ pc[p] = "erase"
  /\ \/ Erase(p, book[p]) /\ Return(p)
     \/ IoErrors /\ GiveUp(p)
  /\ UNCHANGED <<storeVars, phase, reindexVars, touched>>

-----------------------------------------------------------------------------
(* Ingest. *)

\* Mutant of Duplicate: only the index is asked.
DuplicateInIndex(k) == Exists(k)

IngestLockFree == ingestMu = None

Duplicate(k) == Exists(k) \/ PathTaken(k)

\* ingestMu.Lock, both duplicate checks, NextID and MarkPending.  The call ends
\* here when the book is there already or ids have run out (MaxId, a bound).
BeginIngest(p) ==
  LET k == call[p].bib IN
  /\ pc[p] = "ingest" /\ IngestLockFree
  /\ \/ /\ Duplicate(k) \/ IoErrors \/ seq = MaxId
        /\ Return(p)
        /\ UNCHANGED indexVars
     \/ /\ ~Duplicate(k) /\ seq < MaxId
        /\ seq' = seq + 1
        /\ ingestMu' = p
        /\ book' = [book EXCEPT ![p] = seq + 1]
        /\ Goto(p, "place")
        /\ MarkPending(p)
        /\ UNCHANGED <<call, was, bookMu>>
     \/ /\ ~Duplicate(k) /\ seq < MaxId /\ IoErrors
        /\ seq' = seq + 1
        /\ Return(p)
        /\ UNCHANGED <<index, skipped, schemaVars, own, leftover, unfinished>>
  /\ UNCHANGED <<storeVars, phase, reindexVars, touched>>

NewPlace(p) == Layout(call[p].bib, book[p])

\* Store.Ingest: the upload is renamed into its directory ...
PlaceEpub(p) ==
  /\ pc[p] = "place"
  /\ \/ WriteEpub(NewPlace(p), call[p].bib) /\ Step(p, "sidecar")
     \/ IoErrors /\ Step(p, "undo") /\ UNCHANGED storeVars
  /\ UNCHANGED <<indexVars, phase, reindexVars, touched>>

\* ... and then given its meta.toml.
PlaceMeta(p) ==
  /\ pc[p] = "sidecar"
  /\ \/ /\ WriteMeta(NewPlace(p), [id |-> book[p], val |-> DefaultVal])
        /\ Step(p, "record")
     \/ IoErrors /\ Step(p, "undo") /\ UNCHANGED storeVars
  /\ UNCHANGED <<indexVars, phase, reindexVars, touched>>

\* Stat and op.Put: the book is in the library.
RecordIngest(p) ==
  /\ pc[p] = "record"
  /\ \/ /\ CanStat(NewPlace(p))
        /\ Put(p, book[p], RowFor(NewPlace(p), call[p].bib, DefaultVal))
        /\ Step(p, "announce")
     \/ /\ IoErrors \/ ~CanStat(NewPlace(p))
        /\ Step(p, "undo")
        /\ UNCHANGED indexVars
  /\ UNCHANGED <<storeVars, phase, reindexVars, touched>>

\* OnIngested, under the book lock and still under ingestMu.
AnnounceIngest(p) ==
  /\ pc[p] = "announce" /\ BookLockFree(book[p])
  /\ Return(p)
  /\ UNCHANGED <<storeVars, indexVars, phase, reindexVars, touched>>

\* A failed ingest deletes what it placed, and cancels only if that worked.
UndoIngest(p) ==
  LET d == NewPlace(p).dir IN
  /\ pc[p] = "undo"
  /\ \/ RemoveOne(d) /\ Step(p, "undo") /\ UNCHANGED indexVars
     \/ ~DirExists(d) /\ Cancel(p) /\ Return(p) /\ UNCHANGED storeVars
     \/ IoErrors /\ GiveUp(p) /\ UNCHANGED storeVars
  /\ UNCHANGED <<phase, reindexVars, touched>>

-----------------------------------------------------------------------------
(* Reindex.  Nothing else runs meanwhile: at run time Reindex holds mutateMu *)
(* for writing, and during Open no client has the library yet.               *)

RequestReindex ==
  /\ ReindexCalls
  /\ phase = "serving" /\ rpc = "idle"
  /\ rpc' = "wait"
  /\ UNCHANGED <<storeVars, indexVars, phase, found, passed, top, todo, mv,
                 clientVars, touched>>

\* mutateMu.Lock: granted once the readers have drained.
Drained == \A p \in Procs : pc[p] = "idle"

AcquireReindex ==
  /\ rpc = "wait" /\ Drained
  /\ rpc' = "scan"
  /\ UNCHANGED <<storeVars, indexVars, phase, found, passed, top, todo, mv,
                 clientVars, touched>>

ReindexEnds ==
  /\ rpc' = "idle" /\ found' = NoBooks /\ passed' = {}
  /\ top' = 0 /\ todo' = {} /\ mv' = 0

\* An error: Open closes the index and the process exits, Reindex returns it.
ReindexFails ==
  /\ ReindexEnds
  /\ phase' = IF phase = "opening" THEN "down" ELSE phase

Sound(d) == epub[d].bib # Unreadable /\ meta[d] # Unreadable

\* A directory reserves its id whether or not it can be indexed: the id in
\* meta.toml or, failing that, the one in its name.
ClaimedId(d) == IF meta[d] = Unreadable THEN d.id ELSE meta[d].id

Canonical(row, i) == row.loc = Layout(row.bib, i)

\* The row a scan builds from a directory.
ScannedRow(d) == RowFor(LocationOf(d), epub[d].bib, meta[d].val)

OwnersOf(i, readable) == {d \in readable : meta[d].id = i}

ScanOf(readable) ==
  [i \in Ids |-> IF OwnersOf(i, readable) = {} THEN None
                 ELSE ScannedRow(CHOOSE d \in OwnersOf(i, readable) : TRUE)]

\* Mutant of DuplicateIds: the check is left to the database.
DuplicateIdsIgnored(readable) == FALSE

\* Two readable directories that claim one id stop the rebuild.
DuplicateIds(readable) ==
  \E d, e \in readable : d # e /\ meta[d].id = meta[e].id

\* Mutant of Reserved: only directories that can be indexed reserve their id.
ReservedByIndexed == {ClaimedId(d) : d \in {e \in Walk : Sound(e)}}

Reserved == {ClaimedId(d) : d \in Walk}

ScanStore ==
  /\ rpc = "scan"
  /\ \/ \E missed \in IF ScanErrors THEN SUBSET Walk ELSE {{}} :
          LET readable == {d \in Walk \ missed : Sound(d)}
              rows     == ScanOf(readable) IN
          IF DuplicateIds(readable)
            THEN ReindexFails
            ELSE /\ found' = rows
                 /\ passed' = {[loc |-> LocationOf(d), info |-> Stat(d)] :
                                 d \in Walk \ readable}
                 /\ top' \in Reserved \union {0}
                 /\ \A i \in Reserved : top' >= i
                 /\ todo' = {i \in Ids : rows[i] # None /\ ~Canonical(rows[i], i)}
                 /\ rpc' = "move"
                 /\ UNCHANGED <<phase, mv>>
     \/ IoErrors /\ ReindexFails
  /\ UNCHANGED <<storeVars, indexVars, clientVars, touched>>

\* moveToCanonical, one book: its directory, then the epub inside.  A book
\* that cannot move keeps the location it was found at.
Stays(i) == /\ todo' = todo \ {i} /\ mv' = 0 /\ rpc' = "move"
            /\ UNCHANGED <<phase, found, passed, top>>

Home(i) == Layout(found[i].bib, i)

MoveBookDir(i) ==
  LET from == found[i].loc.dir
      to   == Home(i).dir IN
  /\ rpc = "move" /\ i \in todo
  /\ \/ /\ from = to \/ CanRenameDir(from, to)
        /\ IF from = to THEN UNCHANGED storeVars ELSE RenameDir(from, to)
        /\ mv' = i /\ rpc' = "file"
        /\ UNCHANGED <<phase, found, passed, top, todo>>
     \/ /\ from # to
        /\ IoErrors \/ ~CanRenameDir(from, to)
        /\ Stays(i)
        /\ UNCHANGED storeVars
  /\ UNCHANGED <<indexVars, clientVars, touched>>

\* LateErrors: the rollback fails, or the move is done and removing the old
\* author directory fails; both leave found as it was.
MoveBookFile ==
  LET from == found[mv].loc
      to   == Home(mv)
      here == [dir |-> to.dir, name |-> from.name] IN
  /\ rpc = "file"
  /\ \/ /\ \/ from.name = to.name /\ UNCHANGED storeVars
           \/ /\ from.name # to.name /\ FileAt(here)
              /\ RenameFile(here.dir, to.name)
        /\ \/ /\ found' = [found EXCEPT ![mv].loc = to]
              /\ todo' = todo \ {mv} /\ mv' = 0 /\ rpc' = "move"
              /\ UNCHANGED <<phase, passed, top>>
           \/ LateErrors /\ Stays(mv)
     \/ /\ from.name # to.name
        /\ IoErrors \/ ~FileAt(here)
        /\ RenamedBack(from.dir, here.dir)
        /\ Stays(mv)
  /\ UNCHANGED <<indexVars, clientVars, touched>>

\* ensureSchema and the pending row the rebuild writes for itself.
BeginRebuild ==
  /\ rpc = "move" /\ todo = {}
  /\ \/ /\ PrepareRebuild
        /\ rpc' = "rebuild"
        /\ UNCHANGED <<phase, found, passed, top, todo, mv>>
     \/ IoErrors /\ ReindexFails /\ (UNCHANGED indexVars \/ DropTables)
  /\ UNCHANGED <<storeVars, clientVars, touched>>

RebuildIndex ==
  /\ rpc = "rebuild"
  /\ \/ /\ Rebuild(found, passed, top)
        /\ rpc' = "stamp"
        /\ UNCHANGED <<phase, found, passed, top, todo, mv>>
     \/ IoErrors /\ ReindexFails /\ UNCHANGED indexVars
  /\ UNCHANGED <<storeVars, clientVars, touched>>

\* setSchemaVersion; the ANALYZE after it may still fail.
FinishReindex ==
  /\ rpc = "stamp"
  /\ \/ /\ StampVersion
        /\ ReindexEnds
        /\ phase' = "serving"
     \/ IoErrors /\ ReindexFails /\ (UNCHANGED indexVars \/ StampVersion)
  /\ UNCHANGED <<storeVars, clientVars, touched>>

-----------------------------------------------------------------------------
(* Start, death and what happens behind the library. *)

\* Open fails when the schema cannot be applied, and may fail at it.  It reindexes
\* when the index says so, when the tree has drifted from it, or when it is told to.
OpenLibrary ==
  /\ phase = "down"
  /\ \/ /\ ApplySchema
        /\ \/ phase' = "opening" /\ rpc' = "scan"
           \/ IoErrors /\ UNCHANGED <<phase, rpc>>
        /\ UNCHANGED <<found, passed, top, todo, mv>>
     \/ /\ ~NeedsReindex /\ ~Drifted
        /\ phase' = "serving"
        /\ UNCHANGED <<indexVars, reindexVars>>
  /\ UNCHANGED <<storeVars, clientVars, touched>>

\* The disk and every committed transaction survive; a pending row whose
\* operation died is nobody's.
Crash ==
  /\ Crashes /\ phase # "down"
  /\ phase' = "down"
  /\ ReindexEnds
  /\ pc' = [p \in Procs |-> "idle"]
  /\ call' = [p \in Procs |-> None]
  /\ book' = [p \in Procs |-> 0]
  /\ was' = [p \in Procs |-> None]
  /\ bookMu' = [i \in Ids |-> None]
  /\ ingestMu' = None
  /\ own' = {}
  /\ leftover' = leftover \union {book[p] : p \in own}
  /\ UNCHANGED <<storeVars, index, skipped, seq, schemaVars, unfinished, touched>>

Upgrade ==
  /\ Upgrades /\ phase = "down" /\ Current
  /\ version' = "old"
  /\ UNCHANGED <<storeVars, index, skipped, seq, created, own, leftover, unfinished,
                 phase, reindexVars, clientVars, touched>>

\* The index file is removed while the process is down, or a backup is restored
\* without it.
DiscardIndex ==
  /\ phase = "down" /\ created
  /\ Emptied
  /\ version' = "unset" /\ created' = FALSE /\ unfinished' = FALSE
  /\ UNCHANGED <<storeVars, phase, reindexVars, clientVars, touched>>

\* A user edits the tree while no call runs: a book's own directory, a copy of it
\* under another name, or a book restored from a backup.
HandEdit(kind) ==
  /\ kind \notin touched /\ Cardinality(touched) < MaxHands
  /\ touched' = touched \union {kind}
  /\ rpc = "idle" /\ \A p \in Procs : pc[p] = "idle"
  /\ \/ /\ kind = "retitle"
        /\ \E d \in Walk, k \in Keys : WriteEpub(LocationOf(d), k)
     \/ /\ kind = "damage"
        /\ \E d \in Walk : \/ WriteEpub(LocationOf(d), Unreadable)
                           \/ WriteMeta(LocationOf(d), Unreadable)
     \/ /\ kind = "remove"
        /\ \E d \in Walk : RemoveOne(d)
     \/ /\ kind = "copy"
        /\ \E d \in Walk, e \in Dirs : ~DirExists(e) /\ PutDir(e, epub[d], meta[d])
     \/ /\ kind = "restore"
        /\ \E k \in Keys, i \in Ids :
             LET home == Layout(k, i).dir IN
             /\ ~DirExists(home)
             /\ PutDir(home, [name |-> k, bib |-> k], [id |-> i, val |-> DefaultVal])
  /\ UNCHANGED <<indexVars, phase, reindexVars, clientVars>>

ClientStep(p) ==
  \/ BeginOnBook(p)
  \/ RewriteEpub(p) \/ RenameBookDir(p) \/ RenameBookFile(p) \/ UpdateMeta(p)
  \/ CommitEdit(p)
  \/ RemoveBook(p) \/ CommitDelete(p)
  \/ BeginIngest(p) \/ PlaceEpub(p) \/ PlaceMeta(p) \/ RecordIngest(p)
  \/ AnnounceIngest(p) \/ UndoIngest(p)

ReindexStep ==
  \/ AcquireReindex \/ ScanStore
  \/ (\E i \in Ids : MoveBookDir(i)) \/ MoveBookFile
  \/ BeginRebuild \/ RebuildIndex \/ FinishReindex

Next ==
  \/ \E p \in Procs, c \in Requests : Call(p, c)
  \/ \E p \in Procs : ClientStep(p)
  \/ RequestReindex
  \/ ReindexStep
  \/ OpenLibrary
  \/ Crash
  \/ Upgrade
  \/ DiscardIndex
  \/ \E kind \in HandEdits : HandEdit(kind)

Spec == Init /\ [][Next]_vars

-----------------------------------------------------------------------------
(* Properties. *)

\* The index says of every directory exactly what a scan of the tree would.
Mirrors ==
  LET readable == {d \in Walk : Sound(d)} IN
  /\ \A d \in readable :
       LET row == index[meta[d].id] IN
       /\ row # None
       /\ row.loc = LocationOf(d) /\ row.bib = epub[d].bib /\ row.val = meta[d].val
  /\ \A i \in Ids : index[i] # None =>
       /\ index[i].loc.dir \in readable
       /\ meta[index[i].loc.dir].id = i
  /\ {s.loc : s \in skipped} = {LocationOf(d) : d \in Walk \ readable}

\* Whatever failed or died, and wherever, an index that has stopped telling the
\* truth about the tree is rebuilt by the next start: a pending row, another
\* schema version or a path that moved says so (Op.MarkPending, storeDrifted).
Healable == Mirrors \/ NeedsReindex \/ Drifted

\* The library is never handed to its frontends with an index that misstates
\* the tree, whichever way Open decided (Open, reindex, moveToCanonical).
OpensTruthful == [][phase # "serving" /\ phase' = "serving" => Mirrors']_vars

\* No two calls are ever at work on one book, though an ingest holds no book lock
\* while it files the id it was just issued (bookMu, NextID, mutateMu).
Working(p) == book[p] # 0 /\ pc[p] \notin {"idle", "book", "announce"}

OneWriterPerBook ==
  \A p, q \in Procs : p # q /\ Working(p) /\ Working(q) => book[p] # book[q]

\* Two uploads of one new book never both get in, whatever fails in either and
\* whatever a restart recovers (ingestMu, Exists and PathTaken in ingestPath).  It
\* is asked where no edit or user gives one book the author and title of another.
NoTwinBooks ==
  \A i, j \in Ids : index[i] # None /\ index[j] # None /\ index[i].bib = index[j].bib
                      => i = j

\* No two directories that a rebuild would read ever claim one id, so the fatal
\* duplicate id error needs a user's copy or backup: ids are not reissued while
\* any directory still claims them (NextID, reserveID, DECISIONS 14).
IdsUnique ==
  touched \intersect {"copy", "restore"} = {} => ~DuplicateIds({d \in Walk : meta[d] # Unreadable})

\* A book on disk is lost only by a delete of that very book, by undoing an
\* ingest that never succeeded, or by a user; renames, rollbacks and rebuilds
\* carry every book along (Move, moveToCanonical, Store.Delete).
OnDiskIds == {meta[d].id : d \in {e \in Walk : meta[e] # Unreadable}}

NothingLost ==
  [][touched' = touched =>
       \A i \in OnDiskIds \ OnDiskIds' :
         \E p \in Procs : book[p] = i /\ pc[p] \in {"remove", "undo"}]_vars

\* An acknowledged Delete has removed the book's directory: what
\* TestDeleteRemovesBook asserts, after any history of the book.
DeleteRemovesDirectory ==
  [][\A p \in Procs : pc[p] = "erase" /\ leftover' = leftover /\ phase' = phase
       /\ pc'[p] = "idle" => book[p] \notin OnDiskIds']_vars

\* A start that finds nothing to rebuild serves an index that is right: the
\* guarantee of DECISIONS 22, that skipping the rebuild loses nothing.
CleanStartTruthful == [][phase = "down" /\ phase' = "serving" => Mirrors]_vars

\* Whatever ended the last run of the process, the next start gets past index.Open,
\* so what stopped a first reindex can be put right and the server restarted
\* (the duplicate id error, checkDuplicateIDs).
CanStartAgain == phase = "down" => SchemaApplies

\* An upload is refused as a duplicate on disk only over a book the indexer
\* skipped, or one that a rebuild is still due for (ErrDuplicateOnDisk).
RefusedOverASkippedBook ==
  \A p \in Procs :
    LET k == call[p].bib IN
    pc[p] = "ingest" /\ IngestLockFree /\ ~Exists(k) /\ PathTaken(k) /\ ~NeedsReindex
      => \E s \in skipped : s.loc.name = k

-----------------------------------------------------------------------------
(* Fairness and progress. *)

\* The scheduler runs every goroutine, and sync.Mutex hands itself to a waiter
\* that has been passed over for long enough.
FairSpec ==
  /\ Spec
  /\ \A p \in Procs : /\ WF_vars(ClientStep(p))
                      /\ SF_vars(BeginOnBook(p))
                      /\ SF_vars(BeginIngest(p))
                      /\ SF_vars(AnnounceIngest(p))
  /\ WF_vars(ReindexStep)
  /\ WF_vars(OpenLibrary)

\* Every call is answered: the three locks never leave clients waiting on one
\* another, and no path out of a call keeps a lock.
EveryCallReturns == \A p \in Procs : pc[p] # "idle" ~> pc[p] = "idle"

\* Reindex gets its turn however many calls keep coming (mutateMu).
ReindexGoesAhead == rpc = "wait" ~> rpc # "wait"

-----------------------------------------------------------------------------
(* The library keeps the promises of Shelf. *)

OnShelf(i) ==
  LET owners == {d \in Walk : Sound(d) /\ meta[d].id = i}
      d      == CHOOSE e \in owners : TRUE IN
  IF Current
    THEN IF index[i] = None THEN None ELSE [bib |-> index[i].bib, val |-> index[i].val]
    ELSE IF owners = {} THEN None ELSE [bib |-> epub[d].bib, val |-> meta[d].val]

Promise == INSTANCE Shelf WITH
  shelf <- [i \in Ids |-> OnShelf(i)],
  doubt <- leftover \union {book[p] : p \in own},
  req   <- [p \in Procs |-> IF pc[p] = "announce" THEN None ELSE call[p]]

\* Every acknowledged edit, delete and ingest is applied whole to the book as it
\* then stands and survives any later failure, crash, upgrade or rebuild; only a
\* call that returned an error, or never returned, may be half done (the claim of
\* the Library type's comment, and what pending_ops and the locks are for).
KeepsPromises == Promise!Spec
=============================================================================
