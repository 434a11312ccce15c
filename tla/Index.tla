------------------------------- MODULE Index -------------------------------
(***************************************************************************)
(* The SQLite index (pkg/library/internal/index): a row per book, a row    *)
(* per directory the last rebuild had to skip, the id sequence, the schema *)
(* version and the pending_ops table.  Every operator below that primes a  *)
(* variable is one transaction, so it happens whole or not at all.         *)
(*                                                                         *)
(* Only the number of pending_ops rows is ever read, and a row is removed  *)
(* by the operation that wrote it or by a rebuild.  So a row is kept as    *)
(* the process whose operation still owns it (own) or, once that operation *)
(* has ended without clearing it, as the book it was about (leftover).  A  *)
(* row a rebuild wrote is unfinished.                                      *)
(***************************************************************************)
EXTENDS Store

CONSTANT Procs          \* goroutines serving clients

VARIABLES
  index,        \* books: a row for each id, or None
  skipped,      \* skipped_books: path and observed state
  seq,          \* book_id_seq: the last id issued
  version,      \* user_version: "unset" (0), "old" or "current" (schemaVersion)
  created,      \* does the file hold the schema's tables?
  own,          \* pending_ops rows of operations still running
  leftover,     \* books whose operation ended and left its row
  unfinished    \* is there a row of a rebuild that has not committed?

schemaVars == <<version, created>>
indexVars  == <<index, skipped, seq, schemaVars, own, leftover, unfinished>>

Rows    == [loc : Locations, bib : Keys, val : Vals, info : PathInfos]
Skipped == [loc : Locations, info : PathInfos]

ASSUME IndexAssumption == None \notin Rows

IndexTypeOK ==
  /\ index \in [Ids -> Rows \union {None}]
  /\ skipped \in SUBSET Skipped
  /\ seq \in 0 .. MaxId
  /\ version \in {"unset", "old", "current"}
  /\ created \in BOOLEAN
  /\ own \in SUBSET Procs
  /\ leftover \in SUBSET Ids
  /\ unfinished \in BOOLEAN

\* There is no index file yet.
IndexInit ==
  /\ index = [i \in Ids |-> None]
  /\ skipped = {}
  /\ seq = 0
  /\ version = "unset"
  /\ created = FALSE
  /\ own = {}
  /\ leftover = {}
  /\ unfinished = FALSE

-----------------------------------------------------------------------------
(* Queries. *)

Exists(k) == \E i \in Ids : index[i] # None /\ index[i].bib = k

Current == version = "current"

\* Mutant of NeedsReindex: the pending rows are not asked.
NeedsReindexByVersion == ~Current

NeedsReindex == ~Current \/ own # {} \/ leftover # {} \/ unfinished

\* index.Open runs the schema on a file of version 0, and its CREATE TABLE
\* fails where the tables are there already.
SchemaApplies == version # "unset" \/ ~created

Indexed == {[loc |-> index[i].loc, info |-> index[i].info] :
              i \in {j \in Ids : index[j] # None}}

\* A path recorded in both tables is an error, and forces the rebuild.
PathInTwice == \E a \in Indexed, b \in skipped : a.loc = b.loc

OnDisk == {[loc |-> LocationOf(d), info |-> Stat(d)] : d \in Walk}

\* Mutant of Drifted: only the number of paths is compared.
DriftedInCount ==
  PathInTwice \/ Cardinality(OnDisk) # Cardinality(Indexed \union skipped)

Drifted == PathInTwice \/ OnDisk # Indexed \union skipped

-----------------------------------------------------------------------------
(* Transactions. *)

MarkPending(p) ==
  /\ own' = own \union {p}
  /\ UNCHANGED <<index, skipped, schemaVars, leftover, unfinished>>

Put(p, i, row) ==
  /\ index' = [index EXCEPT ![i] = row]
  /\ own' = own \ {p}
  /\ UNCHANGED <<skipped, seq, schemaVars, leftover, unfinished>>

Erase(p, i) == Put(p, i, None)

Cancel(p) ==
  /\ own' = own \ {p}
  /\ UNCHANGED <<index, skipped, seq, schemaVars, leftover, unfinished>>

\* Mutant of LeavePending: a failed operation clears its row.
LeaveNothing(p, i) == Cancel(p)

\* No call: the operation returns an error and its row stays in the table.
LeavePending(p, i) ==
  /\ own' = own \ {p}
  /\ leftover' = leftover \union {i}
  /\ UNCHANGED <<index, skipped, seq, schemaVars, unfinished>>

\* index.Open on a file of version 0; on any other it changes nothing.  The
\* version stays unset, so that the first rebuild is due.
ApplySchema ==
  /\ SchemaApplies
  /\ created' = IF version = "unset" THEN TRUE ELSE created
  /\ UNCHANGED <<index, skipped, seq, version, own, leftover, unfinished>>

\* An index without books; dropAllTables takes the id sequence and the pending
\* rows as well.
Emptied ==
  /\ index' = [i \in Ids |-> None]
  /\ skipped' = {}
  /\ seq' = 0
  /\ own' = {}
  /\ leftover' = {}

\* ensureSchema on an index of another version, stopped half way: dropping the
\* tables and creating them again are separate statements.
DropTables ==
  /\ ~Current
  /\ Emptied
  /\ unfinished' = FALSE
  /\ created' \in BOOLEAN
  /\ UNCHANGED version

\* ensureSchema to its end, and the pending row that rebuildTx writes for itself.
PrepareRebuild ==
  /\ IF Current THEN UNCHANGED <<index, skipped, seq, created, own, leftover>>
                ELSE Emptied /\ created' = TRUE
  /\ unfinished' = TRUE
  /\ UNCHANGED version

\* The id sequence only moves forward, and every pending row is cleared.
Rebuild(found, passed, top) ==
  /\ index' = found
  /\ skipped' = passed
  /\ seq' = IF top > seq THEN top ELSE seq
  /\ own' = {}
  /\ leftover' = {}
  /\ unfinished' = FALSE
  /\ UNCHANGED schemaVars

StampVersion ==
  /\ version' = "current"
  /\ UNCHANGED <<index, skipped, seq, created, own, leftover, unfinished>>
=============================================================================
