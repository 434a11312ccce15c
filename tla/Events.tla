------------------------------- MODULE Events -------------------------------
(***************************************************************************)
(* How the library tells its hooks of a change (pkg/library/hooks.go): the *)
(* end of every ingest, edit and delete, from the transaction that makes   *)
(* it visible to the event that announces it.  What happens on disk before *)
(* that transaction is the business of module Library.                     *)
(*                                                                         *)
(* A hook is handed the book's sidecar directory, opened where the caller  *)
(* last saw the book.  If it is not there the event is logged and dropped. *)
(***************************************************************************)
EXTENDS Naturals, FiniteSets

CONSTANTS
  Procs,        \* goroutines serving clients
  MaxId,        \* bound on book ids
  Books,        \* what the index may say of a book
  PlaceOf,      \* author and title of each book, which name its directory
  Uploads,      \* books clients upload
  Changes,      \* the edits clients make, as functions on Books
  None          \* no row, book or lock holder

Ids == 1 .. MaxId

ASSUME EventsAssumption ==
  /\ MaxId \in Nat
  /\ Uploads \subseteq Books
  /\ Changes \subseteq [Books -> Books]
  /\ None \notin Books \union Procs

VARIABLES
  row,          \* the index: what each id's row says, or None
  seq,          \* the last id issued
  pc,           \* each client: what its call has still to announce
  book,         \* each client: the id it works on, or 0
  news,         \* each client: the book its event carries, or None
  bookMu        \* who holds each book's lock, or None

eventVars == <<row, seq, pc, book, news, bookMu>>

EventsTypeOK ==
  /\ row \in [Ids -> Books \union {None}]
  /\ seq \in 0 .. MaxId
  /\ pc \in [Procs -> {"idle", "ingested", "edited", "deleting", "removing", "deleted"}]
  /\ book \in [Procs -> 0 .. MaxId]
  /\ news \in [Procs -> Books \union {None}]
  /\ bookMu \in [Ids -> Procs \union {None}]

NoCalls ==
  /\ pc = [p \in Procs |-> "idle"]
  /\ book = [p \in Procs |-> 0]
  /\ news = [p \in Procs |-> None]
  /\ bookMu = [i \in Ids |-> None]

EventsInit ==
  /\ row = [i \in Ids |-> None]
  /\ seq = 0
  /\ NoCalls

-----------------------------------------------------------------------------
(* Locks. *)

\* Mutant of BookLockFree: no per-book lock.
BookLockIgnored(i) == TRUE

BookLockFree(i) == bookMu[i] = None

Due(p, l, i, b) ==
  /\ pc' = [pc EXCEPT ![p] = l]
  /\ book' = [book EXCEPT ![p] = i]
  /\ news' = [news EXCEPT ![p] = b]

\* The call returns and its deferred unlocks run.
EndCall(p) ==
  /\ Due(p, "idle", 0, None)
  /\ bookMu' = [i \in Ids |-> IF bookMu[i] = p THEN None ELSE bookMu[i]]

-----------------------------------------------------------------------------
(* Transactions. *)

\* op.Put of an ingest.  No book lock is held; ingestMu is, to the end of the call.
CommitIngest(p, b) ==
  /\ pc[p] = "idle" /\ \A q \in Procs : pc[q] # "ingested"
  /\ seq < MaxId
  /\ \A i \in Ids : row[i] # None => PlaceOf[row[i]] # PlaceOf[b]
  /\ seq' = seq + 1
  /\ row' = [row EXCEPT ![seq + 1] = b]
  /\ Due(p, "ingested", seq + 1, b)
  /\ UNCHANGED bookMu

\* op.Put of an edit, under the book's lock from before the row was read.
CommitEdit(p, i, f) ==
  /\ pc[p] = "idle" /\ BookLockFree(i) /\ row[i] # None
  /\ row' = [row EXCEPT ![i] = f[row[i]]]
  /\ Due(p, "edited", i, f[row[i]])
  /\ bookMu' = [bookMu EXCEPT ![i] = p]
  /\ UNCHANGED seq

\* Delete takes the lock and reads the row.
BeginDelete(p, i) ==
  /\ pc[p] = "idle" /\ BookLockFree(i) /\ row[i] # None
  /\ Due(p, "deleting", i, row[i])
  /\ bookMu' = [bookMu EXCEPT ![i] = p]
  /\ UNCHANGED <<row, seq>>

\* OnDeleting has been announced.
Deleting(p) ==
  /\ pc[p] = "deleting"
  /\ pc' = [pc EXCEPT ![p] = "removing"]
  /\ UNCHANGED <<row, seq, book, news, bookMu>>

CommitDelete(p) ==
  /\ pc[p] = "removing"
  /\ row' = [row EXCEPT ![book[p]] = None]
  /\ pc' = [pc EXCEPT ![p] = "deleted"]
  /\ UNCHANGED <<seq, book, news, bookMu>>

\* The files or the row would not go.
FailDelete(p) ==
  /\ pc[p] = "removing"
  /\ EndCall(p)
  /\ UNCHANGED <<row, seq>>

-----------------------------------------------------------------------------
(* Dispatch. *)

\* OpenSidecars makes .sidecar in the book's directory, which must exist.
SidecarsOpen(i, b) == row[i] # None /\ PlaceOf[row[i]] = PlaceOf[b]

\* p's event is due, and its handlers may run: an ingest takes the book's lock for it,
\* edit and delete have had it all along.
MayAnnounce(p, l) ==
  /\ pc[p] = l
  /\ l = "ingested" => BookLockFree(book[p])

\* The process dies; the index survives.
CallsDie ==
  /\ pc' = [p \in Procs |-> "idle"]
  /\ book' = [p \in Procs |-> 0]
  /\ news' = [p \in Procs |-> None]
  /\ bookMu' = [i \in Ids |-> None]
  /\ UNCHANGED <<row, seq>>
=============================================================================
