------------------------------- MODULE Kosync -------------------------------
(***************************************************************************)
(* Reading progress (internal/kosync): the mapping from document ids to    *)
(* books, a sidecar in each book's directory with its ids and progress,    *)
(* the library hook that keeps the two, and PUT /syncs/progress, which     *)
(* writes the sidecar under the book's lock and afterwards, without it,    *)
(* brings the book's status along.                                         *)
(*                                                                         *)
(* A document id is a hash of the epub, so two books may share one: a file *)
(* that is uploaded again after the first copy of it has been retitled.    *)
(* The mapping is saved within each change of it, and survives a crash.    *)
(***************************************************************************)
EXTENDS Events

CONSTANTS
  Docs,         \* document ids
  DocOf,        \* the id of each book's epub
  Percentages,  \* how far devices read, against the two thresholds
  Unreadable    \* the books whose sidecar a delete may fail to read

Statuses == {"unread", "reading", "read", "abandoned"}

\* kosync.json.  Of the ids only the first and the set of all of them are looked at.
Sidecars == [head : Docs \union {None}, ids : SUBSET Docs,
             progress : Percentages \union {None}]
EmptySidecar == [head |-> None, ids |-> {}, progress |-> None]

ASSUME KosyncAssumption ==
  /\ Percentages \subseteq {"below", "some", "all"}
  /\ DocOf \in [Books -> Docs]
  /\ \A b \in Books : "status" \in DOMAIN b /\ b.status \in Statuses
  /\ \A b \in Books, s \in Statuses : [b EXCEPT !.status = s] \in Books
  /\ None \notin Docs /\ None \notin Ids /\ None \notin Sidecars

\* A PUT in progress: where it is, its book, its percentage, the sidecar it read.
Puts == [step : {"open", "write", "decide", "edit"}, id : Ids, percentage : Percentages,
         found : Sidecars]

VARIABLES
  mapping,      \* the book of each document id, or None
  sidecar,      \* each book's kosync.json, or None
  due,          \* each client: the ids its handler has still to map or unmap
  put,          \* each client: its PUT, or None
  astray        \* the ids a delete left mapped to its book, for want of the sidecar

kosyncVars == <<mapping, sidecar, due, put, astray>>
vars == <<eventVars, kosyncVars>>

TypeOK ==
  /\ EventsTypeOK
  /\ mapping \in [Docs -> Ids \union {None}]
  /\ sidecar \in [Ids -> Sidecars \union {None}]
  /\ due \in [Procs -> SUBSET Docs]
  /\ put \in [Procs -> Puts \union {None}]
  /\ astray \subseteq Docs

Init ==
  /\ EventsInit
  /\ mapping = [d \in Docs |-> None]
  /\ sidecar = [i \in Ids |-> None]
  /\ due = [p \in Procs |-> {}]
  /\ put = [p \in Procs |-> None]
  /\ astray = {}

-----------------------------------------------------------------------------
(* Sidecars. *)

\* readSidecar: a sidecar that is not there reads as an empty one.
ReadSidecar(i) == IF sidecar[i] = None THEN EmptySidecar ELSE sidecar[i]

FreshSidecar(d) == [head |-> d, ids |-> {d}, progress |-> None]

\* Mutant of Relabelled: the sidecar is written as for a new book.
RelabelledAfresh(s, d) == [head |-> d, ids |-> s.ids \union {d}, progress |-> None]

Relabelled(s, d) == [head |-> d, ids |-> s.ids \union {d}, progress |-> s.progress]

-----------------------------------------------------------------------------
(* Calls of the library, by clients that do not sync at that moment. *)

Free(p) == put[p] = None

Ingest(p, b) ==
  /\ Free(p)
  /\ CommitIngest(p, b)
  /\ UNCHANGED kosyncVars

\* The tree does not list a book before its ingest is announced; RegistryRace.cfg says
\* what an edit by id may do.
Edit(p, i, f) ==
  /\ Free(p)
  /\ \A q \in Procs : ~ (pc[q] = "ingested" /\ book[q] = i)
  /\ CommitEdit(p, i, f)
  /\ UNCHANGED kosyncVars

\* Mutant of IdsToUnmap: an edited book's earlier ids are forgotten.
HeadToUnmap(i) == {ReadSidecar(i).head} \ {None}

IdsToUnmap(i) == ReadSidecar(i).ids

\* Delete takes the lock, and OnDeleting reads the sidecar.  If that fails, or its
\* directory does not open, nothing is unmapped and the delete goes on.
Delete(p, i) ==
  /\ Free(p)
  /\ BeginDelete(p, i)
  /\ \/ due' = [due EXCEPT ![p] = IdsToUnmap(i)] /\ UNCHANGED astray
     \/ /\ i \in Unreadable
        /\ astray' = astray \union {d \in Docs : mapping[d] = i} /\ UNCHANGED due
  /\ UNCHANGED <<mapping, sidecar, put>>

\* OnDeleting: one entry of the mapping after the other, whichever book it leads to.
Unmap(p, d) ==
  /\ pc[p] = "deleting" /\ d \in due[p]
  /\ mapping' = [mapping EXCEPT ![d] = None]
  /\ due' = [due EXCEPT ![p] = @ \ {d}]
  /\ astray' = astray \ {d}
  /\ UNCHANGED <<eventVars, sidecar, put>>

DeleteGoesOn(p) ==
  /\ due[p] = {}
  /\ Deleting(p)
  /\ UNCHANGED kosyncVars

\* RemoveAll takes the sidecar with the book, or with what it could remove of it.
DeleteEnds(p) ==
  /\ \/ /\ CommitDelete(p)
        /\ sidecar' = [sidecar EXCEPT ![book[p]] = None]
     \/ /\ FailDelete(p)
        /\ sidecar' \in {sidecar, [sidecar EXCEPT ![book[p]] = None]}
  /\ UNCHANGED <<mapping, due, put, astray>>

-----------------------------------------------------------------------------
(* The hook. *)

\* p's handler writes its sidecar and has one id left to map, still under the lock.
Recorded(p, s) ==
  /\ sidecar' = [sidecar EXCEPT ![book[p]] = s]
  /\ due' = [due EXCEPT ![p] = {s.head}]
  /\ bookMu' = [bookMu EXCEPT ![book[p]] = p]
  /\ UNCHANGED <<row, seq, pc, book, news, mapping, put, astray>>

\* The event was dropped, the epub or the sidecar failed, or there was nothing to do.
Unrecorded(p) ==
  /\ EndCall(p)
  /\ UNCHANGED <<row, seq, kosyncVars>>

\* openEpub goes by id: the epub is the one the row has now.
CurrentDoc(p) == DocOf[row[book[p]]]

OnIngested(p) ==
  /\ MayAnnounce(p, "ingested")
  /\ \/ SidecarsOpen(book[p], news[p]) /\ Recorded(p, FreshSidecar(CurrentDoc(p)))
     \/ Unrecorded(p)

OnEdited(p) ==
  /\ MayAnnounce(p, "edited") /\ due[p] = {}
  /\ \/ /\ SidecarsOpen(book[p], news[p])
        /\ ReadSidecar(book[p]).head # CurrentDoc(p)
        /\ Recorded(p, Relabelled(ReadSidecar(book[p]), CurrentDoc(p)))
     \/ Unrecorded(p)

\* setMapping, the end of both.
Map(p, d) ==
  /\ pc[p] \in {"ingested", "edited"} /\ d \in due[p]
  /\ mapping' = [mapping EXCEPT ![d] = book[p]]
  /\ due' = [due EXCEPT ![p] = {}]
  /\ EndCall(p)
  /\ astray' = astray \ {d}
  /\ UNCHANGED <<row, seq, sidecar, put>>

\* kosync does nothing on OnDeleted.
OnDeleted(p) ==
  /\ MayAnnounce(p, "deleted")
  /\ Unrecorded(p)

-----------------------------------------------------------------------------
(* PUT /syncs/progress. *)

At(p, step) == put[p] # None /\ put[p].step = step

\* On to the next step, with the sidecar it read.
Goto(p, step, found) ==
  put' = [put EXCEPT ![p] = [step |-> step, id |-> put[p].id,
                             percentage |-> put[p].percentage, found |-> found]]

\* A document the mapping has; of any other nothing is stored.
Put(p, d, percentage) ==
  /\ pc[p] = "idle" /\ Free(p) /\ mapping[d] # None
  /\ put' = [put EXCEPT ![p] = [step |-> "open", id |-> mapping[d],
                                percentage |-> percentage, found |-> EmptySidecar]]
  /\ UNCHANGED <<eventVars, mapping, sidecar, due, astray>>

\* WithSidecars: the lock, the row and the read.
OpenForProgress(p) ==
  /\ At(p, "open")
  /\ BookLockFree(put[p].id) /\ row[put[p].id] # None
  /\ bookMu' = [bookMu EXCEPT ![put[p].id] = p]
  /\ Goto(p, "write", ReadSidecar(put[p].id))
  /\ UNCHANGED <<row, seq, pc, book, news, mapping, sidecar, due, astray>>

WriteProgress(p) ==
  /\ At(p, "write")
  /\ sidecar' = [sidecar EXCEPT ![put[p].id] =
                   [put[p].found EXCEPT !.progress = put[p].percentage]]
  /\ bookMu' = [bookMu EXCEPT ![put[p].id] = None]
  /\ Goto(p, "decide", EmptySidecar)
  /\ UNCHANGED <<row, seq, pc, book, news, mapping, due, astray>>

TargetStatus(percentage) ==
  CASE percentage = "all"   -> "read"
    [] percentage = "some"  -> "reading"
    [] percentage = "below" -> "unread"

\* Mutant of Wanted: only what has been read is kept.
WantedUnlessRead(status, target) == target # status /\ status # "read"

\* updateBookStatus edits the status: not back to unread, and not down from read.
Wanted(status, target) ==
  /\ target # "unread"
  /\ status # "read"
  /\ target # status

\* lib.Get takes no lock.
DecideStatus(p) ==
  /\ At(p, "decide") /\ row[put[p].id] # None
  /\ IF Wanted(row[put[p].id].status, TargetStatus(put[p].percentage))
       THEN Goto(p, "edit", EmptySidecar)
       ELSE put' = [put EXCEPT ![p] = None]
  /\ UNCHANGED <<eventVars, mapping, sidecar, due, astray>>

\* The edit sets the status that was decided on.
EditStatus(p) ==
  /\ At(p, "edit")
  /\ CommitEdit(p, put[p].id,
                [b \in Books |-> [b EXCEPT !.status = TargetStatus(put[p].percentage)]])
  /\ put' = [put EXCEPT ![p] = None]
  /\ UNCHANGED <<mapping, sidecar, due, astray>>

\* Any step may fail; a book that is gone fails the next.
PutFails(p) ==
  /\ ~ Free(p)
  /\ put' = [put EXCEPT ![p] = None]
  /\ bookMu' = [i \in Ids |-> IF bookMu[i] = p THEN None ELSE bookMu[i]]
  /\ UNCHANGED <<row, seq, pc, book, news, mapping, sidecar, due, astray>>

-----------------------------------------------------------------------------
(* Starting. *)

Holders(d) == {i \in Ids : sidecar[i] # None /\ d \in sidecar[i].ids}

\* Rebuild: sidecars for the books without one, as far as that succeeds, and an entry
\* for each id anywhere, the last book scanned winning.
Rebuild ==
  /\ \E made \in SUBSET {i \in Ids : row[i] # None /\ sidecar[i] = None} :
       sidecar' = [i \in Ids |-> IF i \in made THEN FreshSidecar(DocOf[row[i]])
                                               ELSE sidecar[i]]
  /\ mapping' \in [Docs -> Ids \union {None}]
  /\ \A d \in Docs : IF Holders(d)' = {} THEN mapping'[d] = None
                                         ELSE mapping'[d] \in Holders(d)'
  /\ astray' = {}

\* The process dies or is stopped, and starts.  The mapping is loaded; if the file is
\* lost, damaged or empty it is rebuilt, before any client is served.
Restart(lost) ==
  /\ CallsDie
  /\ due' = [p \in Procs |-> {}]
  /\ put' = [p \in Procs |-> None]
  /\ IF lost \/ \A d \in Docs : mapping[d] = None
       THEN Rebuild
       ELSE UNCHANGED <<mapping, sidecar, astray>>

-----------------------------------------------------------------------------

Sync(p) ==
  \/ \E d \in Docs, percentage \in Percentages : Put(p, d, percentage)
  \/ OpenForProgress(p) \/ WriteProgress(p)
  \/ DecideStatus(p) \/ EditStatus(p)
  \/ PutFails(p)

Hook(p) ==
  \/ OnIngested(p) \/ OnEdited(p) \/ OnDeleted(p)
  \/ \E d \in Docs : Map(p, d) \/ Unmap(p, d)

Next ==
  \/ \E p \in Procs, b \in Uploads : Ingest(p, b)
  \/ \E p \in Procs, i \in Ids, f \in Changes : Edit(p, i, f)
  \/ \E p \in Procs, i \in Ids : Delete(p, i)
  \/ \E p \in Procs : DeleteGoesOn(p) \/ DeleteEnds(p) \/ Hook(p) \/ Sync(p)
  \/ \E lost \in BOOLEAN : Restart(lost)

Spec == Init /\ [][Next]_vars

-----------------------------------------------------------------------------
(* Properties. *)

\* A document id leads to a book whose sidecar has it: a device never syncs with a book
\* it does not hold, and nothing is left of a deleted one (OnDeleting), whatever edits,
\* deletes and syncs of books that share a file do to each other.  The exception are the
\* ids that led to a book when a delete could not read its sidecar, until they are mapped
\* or unmapped again.
MappedBookHasIt ==
  \A d \in Docs : mapping[d] # None => mapping[d] \in Holders(d) \/ d \in astray

\* The progress of a book that stays is changed by a PUT for it and by nothing else: no
\* handler that rewrites the sidecar undoes a sync (WithSidecars, OnEdited).
OnlySyncsMoveProgress ==
  [][\A i \in Ids :
       /\ sidecar[i] # None /\ sidecar'[i] # None
       /\ sidecar'[i].progress # sidecar[i].progress
       => \E p \in Procs : /\ put[p] # None /\ put[p].id = i
                           /\ put[p].percentage = sidecar'[i].progress]_vars

\* "Once a book has left "unread", it never returns to it" (updateBookStatus), however
\* syncs and edits interleave, where no user sets it back.
UnreadIsLeftForGood ==
  [][\A i \in Ids : row[i] # None /\ row'[i] # None /\ row[i].status # "unread"
                    => row'[i].status # "unread"]_vars

\* "Once a book is "read", it stays "read" even if percentage drops" (updateBookStatus),
\* where no user edits the status.
ReadStaysRead ==
  [][\A i \in Ids : row[i] # None /\ row'[i] # None /\ row[i].status = "read"
                    => row'[i].status = "read"]_vars

\* The mapping is "a derived index" (MappingFile): while nothing is under way, each id in
\* a book's sidecar leads to a book.
DocumentsServed ==
  (\A p \in Procs : pc[p] = "idle") =>
    \A i \in Ids : row[i] # None /\ sidecar[i] # None =>
      \A d \in sidecar[i].ids : mapping[d] # None
=============================================================================
