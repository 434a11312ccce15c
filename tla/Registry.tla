------------------------------ MODULE Registry ------------------------------
(***************************************************************************)
(* The served tree (internal/fs): the registry, a library hook, keeps a    *)
(* directory for every book and brings every view along with each event.   *)
(* Each handler runs under the registry's lock and is one step here.       *)
(***************************************************************************)
EXTENDS Views

CONSTANT
  Outsiders     \* calls made by clients that go by id, not through the tree

ASSUME RegistryAssumption == Outsiders \subseteq {"edit", "delete"}

VARIABLE loading \* the books a starting server has still to load

vars == <<eventVars, dirs, viewVars, loading>>

TypeOK ==
  /\ EventsTypeOK
  /\ dirs \in [Ids -> Books \union {None}]
  /\ ViewsTypeOK
  /\ loading \in SUBSET Ids

Init ==
  /\ EventsInit
  /\ dirs = [i \in Ids |-> None]
  /\ ViewsInit
  /\ loading = {}

-----------------------------------------------------------------------------
(* The registry tells every view. *)

\* addLocked: a directory that is there already keeps its snapshot.
AddBook(i, b) ==
  LET snaps == IF dirs[i] = None THEN [dirs EXCEPT ![i] = b] ELSE dirs IN
  /\ dirs' = snaps
  /\ lists' = [g \in Groups |-> IF g \in GroupsOf[snaps[i]] THEN Added(lists[g], i, snaps)
                                                            ELSE lists[g]]
  /\ known' = known \union {i}
  /\ recent' = Refreshed(recent, known, known \union {i}, snaps)

WithoutBook(i) ==
  [g \in Groups |-> IF g \in GroupsOf[dirs[i]] THEN Pruned(g, Removed(lists[g], i, dirs))
                                               ELSE lists[g]]

RemoveBook(i) ==
  IF dirs[i] = None
    THEN UNCHANGED <<dirs, viewVars>>
    ELSE /\ lists' = WithoutBook(i)
         /\ known' = known \ {i}
         /\ recent' = Refreshed(recent, known, known \ {i}, dirs)
         /\ dirs' = [dirs EXCEPT ![i] = None]

\* Mutant of Commit: the snapshot is replaced before the views let go of the book.
CommitEarly(i, b) ==
  LET snaps == [dirs EXCEPT ![i] = b]
      gone  == [g \in Groups |-> IF g \in GroupsOf[b] THEN Pruned(g, Removed(lists[g], i, snaps))
                                                      ELSE lists[g]]
      left  == Refreshed(recent, known, known \ {i}, snaps) IN
  /\ dirs' = snaps
  /\ lists' = [g \in Groups |-> IF g \in GroupsOf[b] THEN Added(gone[g], i, snaps) ELSE gone[g]]
  /\ recent' = Refreshed(left, known \ {i}, known \union {i}, snaps)
  /\ UNCHANGED known

\* Every view lets go of the old snapshot, then takes the new one.
Commit(i, b) ==
  LET snaps == [dirs EXCEPT ![i] = b]
      left  == Refreshed(recent, known, known \ {i}, dirs) IN
  /\ dirs' = snaps
  /\ lists' = [g \in Groups |-> IF g \in GroupsOf[b] THEN Added(WithoutBook(i)[g], i, snaps)
                                                     ELSE WithoutBook(i)[g]]
  /\ recent' = Refreshed(left, known \ {i}, known \union {i}, snaps)
  /\ UNCHANGED known

\* An edit of a book the registry has not been told of is ignored.
CommitKnown(i, b) ==
  IF dirs[i] = None THEN UNCHANGED <<dirs, viewVars>> ELSE Commit(i, b)

-----------------------------------------------------------------------------
(* Calls. *)

Ready == loading = {}

\* A client that goes through the tree can name only what it lists.
Addressable(kind, i) == kind \in Outsiders \/ dirs[i] # None

Ingest(p, b) ==
  /\ Ready
  /\ CommitIngest(p, b)
  /\ UNCHANGED <<dirs, viewVars, loading>>

Edit(p, i, f) ==
  /\ Ready /\ Addressable("edit", i)
  /\ CommitEdit(p, i, f)
  /\ UNCHANGED <<dirs, viewVars, loading>>

Delete(p, i) ==
  /\ Ready /\ Addressable("delete", i)
  /\ BeginDelete(p, i)
  /\ UNCHANGED <<dirs, viewVars, loading>>

\* The registry does nothing on OnDeleting.
DeleteGoesOn(p) ==
  /\ Deleting(p) \/ CommitDelete(p) \/ FailDelete(p)
  /\ UNCHANGED <<dirs, viewVars, loading>>

OnIngested(p) ==
  /\ MayAnnounce(p, "ingested")
  /\ IF SidecarsOpen(book[p], news[p]) THEN AddBook(book[p], news[p])
                                       ELSE UNCHANGED <<dirs, viewVars>>
  /\ EndCall(p)
  /\ UNCHANGED <<row, seq, loading>>

OnEdited(p) ==
  /\ MayAnnounce(p, "edited")
  /\ IF SidecarsOpen(book[p], news[p]) THEN CommitKnown(book[p], news[p])
                                       ELSE UNCHANGED <<dirs, viewVars>>
  /\ EndCall(p)
  /\ UNCHANGED <<row, seq, loading>>

\* OnDeleted is given no sidecars.
OnDeleted(p) ==
  /\ MayAnnounce(p, "deleted")
  /\ RemoveBook(book[p])
  /\ EndCall(p)
  /\ UNCHANGED <<row, seq, loading>>

\* The server is stopped or dies, and starts with an empty registry; no listener
\* is open before Load has added every book, in the order of the search.
Restart ==
  /\ CallsDie
  /\ dirs' = [i \in Ids |-> None]
  /\ lists' = [g \in Groups |-> EmptyList]
  /\ recent' = EmptyList
  /\ known' = {}
  /\ loading' = {i \in Ids : row[i] # None}

Load(i) ==
  /\ i \in loading
  /\ AddBook(i, row[i])
  /\ loading' = loading \ {i}
  /\ UNCHANGED eventVars

Announce(p) == OnIngested(p) \/ OnEdited(p) \/ OnDeleted(p)

Next ==
  \/ \E p \in Procs, b \in Uploads : Ingest(p, b)
  \/ \E p \in Procs, i \in Ids, f \in Changes : Edit(p, i, f)
  \/ \E p \in Procs, i \in Ids : Delete(p, i)
  \/ \E p \in Procs : DeleteGoesOn(p) \/ Announce(p)
  \/ Restart
  \/ \E i \in Ids : Load(i)

Spec == Init /\ [][Next]_vars

-----------------------------------------------------------------------------
(* Properties. *)

\* Nothing is under way for the book.
Settled(i) == i \notin loading /\ \A p \in Procs : book[p] # i

\* Once the last event about a book has been announced, the tree shows what the index
\* says of it, and nothing of a book that is gone: the registry is "the single
\* authority" and events are serialized with later edits and deletes (ingestPath).
TreeFollowsIndex == \A i \in Ids : Settled(i) => dirs[i] = row[i]

\* list shows each of ids once, under names of their own.
Shows(list, ids) ==
  /\ {n.id : n \in list.nodes} = ids
  /\ Cardinality({NameOf(n, dirs) : n \in list.nodes}) = Cardinality(ids)
  /\ Cardinality(list.nodes) = Cardinality(ids)
  /\ \A n \in list.nodes : list.entries[n.id] = NameOf(n, dirs)

\* However books are retitled, refiled, deleted and added, each group lists exactly
\* its books, so none hides another or is left behind (bookListDir, keyedDir).
GroupsShowTheirBooks ==
  \A g \in Groups : Shows(lists[g], {i \in Ids : dirs[i] # None /\ g \in GroupsOf[dirs[i]]})

\* recent shows the newest books there are, no more and no fewer (recentDir).
RecentShowsNewest == Shows(recent, Newest({i \in Ids : dirs[i] # None}))
=============================================================================
