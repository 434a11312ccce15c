# ebookfs: a TLA+ development

ebookfs keeps a library of epubs as plain directories and serves it as a file
system. The directories are the truth; a SQLite file beside them is a cache
that every read is answered from. This development models the code that keeps
the two in step (`src/pkg/library`), the tables of the cache and the edits that
reach them (`src/internal/book`), the served tree that follows them
(`src/internal/fs/registry`, `views`), the files of that tree clients write to
(`vfile`, `book`, `ctl`, `inbox`, the search directory), the reading progress
kept beside the books (`src/internal/kosync`) and the runner of the servers
(`src/internal/frontend`). It states what they promise, checks it with TLC on
small instances and proves what matters most with TLAPS.

## 1. Inventory

| Component | State | Operations | Talks to |
|---|---|---|---|
| library core `pkg/library` | `mutateMu`, `bookMu` (keyed), `ingestMu` | Open, Edit, Delete, ingest, Reindex, reads | store, index, drift, hooks |
| store `pkg/library/internal/store` | the tree `Author/Title (id)/{epub, meta.toml}` | Ingest, Move, Update, Delete, Walk, PathTaken, WithBookSidecars | file system |
| index `pkg/library/internal/index` | books, skipped_books, book_id_seq, user_version, pending_ops; authors, labels and series, shared by books | Open, NextID, MarkPending, Put, Delete, Cancel, Rebuild, NeedsReindex; Search, BookExists, facets, stats | SQLite |
| books and edits `internal/book` | none | Validate, and which edits reach the epub | library |
| drift `pkg/library/internal/drift` | none | Stat, Changed | store, index |
| hooks `pkg/library/hooks.go` | handlers | OnIngested, OnEdited, OnDeleting, OnDeleted under the book lock | kosync, registry |
| kosync `internal/kosync` | mapping file, progress sidecar per book | PUT/GET progress, hook handlers, Rebuild | library, store sidecars |
| registry and views `internal/fs/registry`, `views` | id -> directory and snapshot, keyed views, recent, search handles | hook handlers, lookups | library |
| virtual files `internal/fs/vfile`, `book` | per-fid buffers and snapshots | open, read, write, truncate, clunk | library.Edit |
| search `internal/fs/views` | handles by id, results, the fids of clone | clone, query, close, expiry, eviction | registry |
| inbox `internal/fs/inbox` | uploads by name | create, write, close (ingests), remove | library.ingest |
| ctl `internal/fs/ctl` | command log ring | bulk edits, delete by id | Search, Edit, Delete |
| frontends `internal/frontend`, `opds` | running set, shutdown deadline | start, fail, stop | all of the above |
| epub `pkg/epub` | one document in memory | parse, edit, atomic save | store files |

What is hard, and what makes each right:

- **Library core.** An edit is five file-system calls and two transactions; an
  ingest is as many, and undoes itself; each may fail and the process may die
  between any two. Calls on different books run at once, an ingest takes no
  book lock, and Reindex must have the tree to itself. It is right if every
  acknowledged call is applied whole and stays applied, nothing else is lost,
  the index never misleads a start, ids are never reused, and no call waits for
  ever.
- **Hooks, registry, kosync.** The row is committed before `OnIngested` takes
  the book lock, so events may come in an order nobody wrote a test for.
  Right: after any order of events a client sees each live book once, under its
  last name, and each book's document ids follow it.
- **kosync status.** A status is decided on a book read before the edit.
  Right: "once read, stays read".
- **The tables of the index.** Authors, labels and series are rows shared by
  books, replaced and swept with every edit. Right: whatever happened before,
  they are what the files say, and SQL and snapshots answer a query alike, but for
  letters that SQL does not fold.
- **Virtual files and inbox.** Several fids on one file, several files of one
  name; offsets, truncation; close commits. Right: what is committed is what
  one writer wrote.
- **ctl.** A bulk edit is a search followed by one Edit a book, each writing a
  whole list. Right: a command left to itself does what help says, each book it
  was to visit is reported once, and no concurrent change is lost (which does
  not hold: section 5).
- **Search handles.** Made by a read, reclaimed by age, by number and by
  command, queried while books change. Right: never more than the cap, never
  one handle for two fids, always the results of now.
- **Frontends.** One deadline over all. Right: the first to stop takes the
  others along, the exit status says so, and the library is closed under none, nor
  under a request, that it does not name in its error.

`PROJECT.json` lists every component and every hazard at its line.

## 2. Plan

Order of work; items 1-8 and 10 exist.

1. `Store`, `Index`: the two stores, as operators whose primed forms are single
   system calls and single transactions.
2. `Library`: composes both (EXTENDS), with the three locks, every mutation cut
   at each call, crashes, failures, schema upgrades, hand edits.
3. `Shelf`: the abstract promise. `Library` implements it (`KeepsPromises`).
4. `LibraryProofs`: types and writer exclusion, then each safety property, and
   the simulation of `Shelf`.
5. `Events`, `Views`, `Registry`: hook dispatch against concurrent calls, and
   the tree the registry keeps. `RegistryProofs`: the tree follows the index, and its lists show it.
6. `Kosync`: mapping, sidecars, progress status; extends `Events`, whose
   OnDeleting step is there for it. `KosyncProofs`: types, and where an id leads.
7. `Catalog`: the tables behind a row of `Index`, and the edits that reach them.
   `CatalogProofs`: the tables are what a rebuild would write.
8. `WriteBuffer`, `FieldFiles`, `CommandLog`, `Ctl`, composed by `Files`;
   `Inbox`; `SearchHandles`; `Frontend`; with a proof module each.
9. Left: the names of by-id and by-series; staging and validation in `epub`.
10. A theorem for every invariant and action property of the passing runs.
   Left: the same for the properties of what item 9 adds; weaker hypotheses where
   section 6 says that they are sufficient and not known to be necessary.

## 3. Modules and code

**Store.** `epub` and `meta` give, for each directory `[key, id]`, the epub
(the name it was filed under, and the bibliographic key inside it) and the
`meta.toml` (id and everything else). Authors and title are one element of
`Keys`, since `Layout` reads nothing else; `AuthorOf` gives the author
directory, which `PathTaken` scans. `WriteEpub`, `WriteMeta`, `RenameDir`,
`RenameFile`, `RemoveOne` are one system call each. A directory with neither
file is absent: nothing reads an empty one. `Stat` is the content of both
files when `StampsDiffer`, and a constant otherwise: the worst case, where two
writes fall in one clock tick and leave the same size.

**Index.** One variable per table. `own`, `leftover` and `unfinished` split
the rows of `pending_ops` by who can still clear them. `version` is
`user_version` (0, another, `schemaVersion`), `created` whether the tables are
there. Each operator is one transaction of the code, except `DropTables`, the
statements of `ensureSchema` cut short.

**Library.** `pc[p]` says where each client's call is: `book` (waiting for its
lock), `rewrite`, `dir`, `file`, `meta`, `put` for Edit; `remove`, `erase` for
Delete; `ingest`, `place`, `sidecar`, `record`, `undo`, `announce` for ingest.
`was[p]` is the row read under the book lock. `rpc` does the same for Reindex,
which Open runs too (`phase = "opening"`). `mutateMu` needs no variable: it is
read-held by each busy client and wanted or held by Reindex whenever
`rpc # "idle"`. Every action has its failing alternatives: one that cancels
the pending row where the code cancels it, one that leaves it where it does
not. `Crash` keeps the disk and every committed transaction.

**Shelf.** No disk and no lock: each call takes effect at one instant on the
book as it stands, a call cut short leaves its book in doubt, and recovery may
change books in doubt only. The mapping (`Promise` in `Library`) reads a book
from the index while the index is current and from the tree while an upgrade
or a lost index has emptied it.

**Events.** The end of every mutation: from the transaction that makes it
visible to the event that announces it. What `Library` cuts at each system
call is one step here, since no hook sees in between; a call that fails before
its transaction announces nothing and is not a step at all. `row` is the
index, `pc[p]` what `p` has still to announce, `news[p]` the book the event
carries. `SidecarsOpen` is `dispatchEvent` opening `.sidecar` where the event
says the book is: a book that has moved or gone since drops the event for every
hook.

**Views.** A flat list has `nodes` (what is listed, under a bare or a minted
name) and `entries` (the name remembered for removal), as `bookListDir` has.
`go9p` names a child by its `Stat`, which reads the snapshot of the moment, so
`NameOf` takes the snapshots as an argument. The groups of by-author, by-tag
and by-status are one function, `GroupsOf`; `books` is the group every book is
in. `recent` is such a list over the newest books.

**Registry.** `dirs[i]` is the snapshot in the directory of book `i`. Each
handler holds the registry's lock throughout and is one step. `Restart` and
`Load` are `fs.New`: no listener serves before the load is over. A client that
goes through the tree names only what is in it; `Outsiders` are the calls made
by id (`ctl`: deletes, and the bulk edits that search the index).

**Kosync.** `mapping` is `MappingFile.data`, saved within each change of it.
`sidecar[i]` is the `kosync.json` of book `i`; of its list of ids only the first
and the set of all are read anywhere, and of its progress the properties need
only the percentage. `DocOf` is the hash of a book's epub, which an edit that
rewrites the file changes. A handler is two steps: `OnIngested` or `OnEdited`
writes the sidecar, `Map` the mapping; `Delete` reads the ids under the lock
and `Unmap` takes them out one by one. A delete that cannot read the sidecar takes
none out and goes on (`hook.go:92`, `hooks.go:128`): `Unreadable` are the books this
may happen to, and `astray` the ids it left mapped, until a handler or a
rebuild sees to them. `put[p]` is a PUT: `open` (waiting for
`WithSidecars`), `write` (holding the sidecar it read, in `found`), `decide`
(`lib.Get`, without the lock), `edit`. Every one of these steps may fail
instead. `Restart` loads the mapping, or rebuilds it if it is empty or gone;
books whose sidecar is missing get one then. An edit here waits for the event
of its book's ingest, so that the race of `registry_race` is not found again.

**Catalog.** One variable per table: `books`, `authors` (the sort name of each
name), `credits` (`book_authors`, with places), `series`, and `labels` and
`labelled` for tags, subjects and contributors, which are alike. `Put`, `Erase`
and `Rebuild` are the transactions, with the sweep of `cleanupOrphans` in each.
`file[i]` is what the files of a book say and `served[i]` what the tree was told
of it. `Valid` is `Edit.Validate`, `Storable` what the columns and keys of the
schema refuse beyond it, `Applied` the edit: fields of the epub change what
`Rewrite` reads back from it, the others the record of the index. `Search` and
`Matches` are the two matchers, and `Shown` what the second lists. Either takes
titles exact, as the id-spec of `ctl` asks (`idspec.go:33`), or by phrase, as the
search view always does. Which phrase is in which title is the relation `Like` for
SQL's LIKE, which folds ASCII only, and `Lower` for the snapshots, where Go folds
all; `FoldingAssumption` says what the code gives of them: LIKE finds nothing
that Go does not, and a title is in itself. What `Library` cuts at each system call is one
step here; the files stay changed when the row is refused, since `Edit` writes
them first.

**WriteBuffer, FieldFiles.** A buffer is a sequence of bytes. `Written` is
`WriteBuffer.Write` with its seed, `Fits` the cap without a sum that wraps around
(`Wide` stands for 2^64). `opened`, `reads` and `bufs` are what a fid has: its
file, the snapshot taken at open, the buffer. Three files stand for the fields:
a list, a text, one that is read-only. A close commits through `Set`.
A byte stands for a character; `Unknown` is U+FFFD as one byte. `Edited` is
`Library.Edit`: the value is refused, kept, or valid and yet not kept because the
disk or the index failed (`MaxFailures` times in all). A list of tags is kept as
it was written, but refused if a tag is white space, names no directory (`.`,
`..`, NUL: `NamesNothing`) or repeats another up to spaces at its ends. A title is
kept as it is read back from the epub (`ReadBack`: its words with one space between,
U+FFFD where XML has no character), so the file shows something else than was
written to it. A read-back that holds no usable title would fail the edit; a
title that is not white space has one. `AddBook` is an upload.

**CommandLog, Ctl, Files.** The ring of `log.go` is `entries`, `next`, `full`;
`appended` is the sequence it stands for. A bulk command is `Execute` (the
search), an `EditNext` per book and `Finish` (the log), so that other clients
come between: `found` is the search's snapshot, from which the list a book gets
is computed. Of the ids of a list those the search did not find are reported, also
of a book uploaded since (`exec.go:289`). `before` holds the books at the search
as long as nobody else changed one; the promise of help is stated for that
case, and what a command reports (`CountsEveryBookOnce`) for any. `Files`
composes these over one set of books.

**Inbox.** `entry` is the listing and `children` the files that have a parent,
which differ as soon as a name is created again. `fid[u]` is the handle slot of a
file. `teardown` is four steps, since go9p and other clients come between:
`InboxClose` takes the handle, `FindParent` and `TakeOff` remove the entry by
name, `Ingest` ends it. What go9p does with fids is external.

**SearchHandles.** `lock` is `searchDir.mu`, held from `TakeLock` to `Allocate`
or `Swept` while `Reclaim` removes one victim a step, first the expired
(`stage = "expire"`), then the excess (`"evict"`). The registry's lock is held
within a step. `handles` is ordered by last query, so age is a prefix of it.
`predicate` and `results` belong to listed handles: what a client still has open
of a handle that was removed is left out. `open` are the fids open on clone, and
`cloneFids` the entry of each, which a read that was under way puts back
(`Store`) when a close has removed it; `OpenClone` keeps such an entry, and
`ReadAgain` reads it. `got` notes each read of clone.

**Frontend.** `exits` and `httpServeErr` are the channels, `at` is where `Run`
is: `wait` (first select), `stop http` (the listener closes), `await http` (the
requests it has, `answering`, end or the deadline passes, which is an error),
`stop` (one frontend a step), `drain` (second select), and then `main`: `close`,
`exit`. A frontend's goroutine may return at any time, before, while and after
it is shut down, or never; so may requests end.

**ServedMC** instantiates `Files`, `Inbox` and `SearchHandles` in one run. They
share no state, so `part` says which of them a behaviour is of.

## 4. Runs

| Run | Question | Instance |
|---|---|---|
| `library_faults` | Does any mix of failures, crashes and index versions lose a lock, a promise or a book? | two clients, two keys of one author, two ids, four requests |
| `library_hands` | Does the next start notice what a user did to the tree, and never reissue an id? | one client, Reindex, an author per key, up to two of five hand edits |
| `library_progress` | Do all calls return, and does Reindex get its turn? | two clients, Reindex, one id, late errors |
| `library_hidden_edit` | (violated) Is a user's change of an epub noticed if the book is rated first? | one client, one id, one retitling |
| `library_start_again` | (violated) Can the next start always open the index? | one client, copy and restore |
| `registry_served` | Does the tree show what the index says, each group and recent exactly its books? | two clients, three ids, two titles, two statuses, recent of two, deletes by id |
| `registry_race` | (violated) And when an edit by id may overtake an ingest's event? | the same, edits by id |
| `kosync_sync` | Does an id lead to a book that has it, is progress what a sync wrote, does no book return to unread? | two clients, two books, one file and its rewrite, a user's status edit, syncs below and above the first threshold, failures and restarts, deletes that cannot read the sidecar of book 1 |
| `catalog` | Are the tables what the files say, do both matchers agree, does the duplicate rule hold, can the index always be rebuilt? | two books, two uploads that differ in an author, seven good edits and eight bad ones, a title whose first letter SQL does not fold |
| `catalog_sort_names` | (violated) Do the matchers agree on sort names? | the same, queries by sort name |
| `served_files` | Does a close commit what was written, a command do what help says and report every book once, the log show the last results, an upload stay whole, a search show what there is? | two clients, two books and an upload, one failing edit; two uploads of one name; two requests, two fids of clone and the cleanup worker, one book, a cap of one |
| `frontend_shutdown` | Does the process end, with the right status, after all have stopped? | three frontends and an HTTP listener with requests |

Further instances, each violating its property as section 5 tells; run them by
hand with `tlc -config <cfg> <module>`:

| Instance | Module | Property | Question |
|---|---|---|---|
| `LibraryDeleteLeaves.cfg` | `LibraryMC` | `DeleteRemovesDirectory` | Has an acknowledged Delete removed the directory? |
| `LibraryRefusedUpload.cfg` | `LibraryMC` | `RefusedOverASkippedBook` | Is an upload refused on disk only over a skipped book? |
| `LibraryHiddenBook.cfg` | `LibraryMC` | `CleanStartTruthful` | Is a clean start right? |
| `KosyncRead.cfg` | `KosyncMC` | `ReadStaysRead` | Does a read book stay read when devices sync at once? |
| `KosyncLost.cfg` | `KosyncMC` | `DocumentsServed` | While nothing runs, does each id in a sidecar lead to a book? |
| `CtlRenameSame.cfg` | `FilesMC` | `DoneAsSaid` | Does rename-tag do what help says if both names are one? |
| `CtlLostTag.cfg` | `FilesMC` | `AddedTagsStay` | Is a tag there that the log says was added? |
| `CatalogFolding.cfg` | `CatalogMC` | `MatchersAgreeOnPhrases` | Do the matchers agree on titles by any phrase? |
| `SearchReopened.cfg` | `ServedMC` | `OpensAreNew` | Has a fid of clone that is opened again no handle yet? |

Bounds. `MaxId` ends ingest once ids run out (`seq = MaxId` in `BeginIngest`).
Two ids and two keys suffice for the conflicts there are: a book and its twin,
a book and the place another is to move to, an id reissued to another
directory. Two clients suffice because each lock joins at most a holder and a
waiter; the proofs cover any number. `MaxHands` = 2 hand edits let one undo or
hide the other (damage then copy, restore then copy). `library_hands` uses
`StampsDiffer = TRUE`, since drift detection is only claimed for changes that
show in size or mtime; the other runs take the worst case. Progress is checked
with one id, so that both clients want the same locks all the time; without
crashes, since a crash ends every call.

The served tree needs three ids: two books with one title and a third that
takes or frees the name, and one more than recent shows. Two statuses give a
group to leave and one to enter, and a group that empties and is made anew.
Retitling moves a book on disk as well as in the lists, restatusing in the
lists only. `registry_served` has no liveness property, so clients and titles
are symmetric. `seq < MaxId` in `CommitIngest` ends the uploads.

Two books are enough for progress: the file uploaded again after its first copy
was retitled, which makes two books claim one id. One rewriting edit gives each
book a second id. Three percentages would add nothing to `kosync_sync`, whose
status rule is decided at the lower threshold; the upper one has a run of its
own. The delete that cannot read a sidecar is one of book 1 only (`Unreadable` =
{1}): it leaves ids to a book that is gone, which the other book then has or
takes; with both books the run says no more and takes far longer than its two
million states. `KosyncRead.cfg` and `KosyncLost.cfg` do without. No liveness is
asked, so clients are symmetric.

The tables need two books to share a row and to be left by one of them; the
two uploads have one title, so that the duplicate rule compares authors, one of
whom the other upload has too, with another sort name. Of every field there is a
value the validation takes and one it refuses, and a rating that is no number.
`catalog` asks by author names only, `catalog_sort_names` by sort names. Of the
phrases, `m` is in both titles, `Emi` and `emi` begin `emile` with its letter in the
case of the title and in the other, which LIKE does not find; queries ask for one
phrase or two, with and without other fields. `MatchersAgree` says three things: SQL
and the view select the same books where both take titles exact, or by phrases
that fold alike; for any phrase the view shows all that SQL selects; and all
that `ctl` would touch with the same text, titles exact. The last is what
`query.go:14` and `help.go:40` of `fs` leave to the user to know; the first is
what `search_parity_scenario_test.go` tests, and its skipped cases (lines 66 to 78)
are the phrases that do not fold alike.

For `served_files`: two fids on one field file, each with up to two writes at
offsets 0, 1 and 15 with `Wide` = 16, so that a hole, an overlap, the cap of 3 and
a wrapped sum all occur; three sessions (files opened, commands run and books
uploaded) give every pair of commands with an edit or an upload in between; a ring
of two goes round with the third result. Titles written there begin with a
newline, have one between words, or a hole; the commands add, remove and rename, one
adds a tag that ends in a space, one `.`, and one walks a list with a repeat and the
id of a book that is not there or comes by upload. One edit may fail
(`MaxFailures` = 1); `CtlRenameSame.cfg` and `CtlLostTag.cfg` have two books and
no failing edit. Two fids and one name in the inbox suffice for a file that
takes the place of another, is opened again, and is taken off by the other's
close; `MaxFiles` = 4 is not reached, and one write tells a handle from another.
With a cap of one every clone evicts; three ids are handed out (`MaxIssued`), so
that a fid can be closed during a read, opened again, and read while the other
has one. The run has 420,000 distinct states.
Clients, requests and pairs of a query and its answer are symmetric.
`CHECK_DEADLOCK FALSE` in `served_files`, where
`MaxSessions` and `MaxIssued` stop the clients, and in `frontend_shutdown`, where
the process ends.

Three frontends let one stop by itself, one when it is told to and one never;
requests are one flag, since `Shutdown` waits for all of them.

Deadlock is checked in every other run: a request, a start or a crash is always
possible in the code and is in the model.

Fairness. `WF` on a client's next step and on Reindex's: the Go scheduler runs
every runnable goroutine and a system call returns. `SF` on taking `bookMu`,
`ingestMu`: `sync.Mutex` turns to its starvation mode after a millisecond and
hands itself to the longest waiter, so a lock that is free again and again is
had. `sync.RWMutex` keeps new readers out once a writer waits, which is the
guard `MayRead` and not an assumption. No fairness on requests, failures,
crashes or users. In `Frontend`, `WF` on `Run`'s next step (its goroutine runs,
and what it waits for becomes ready, at the deadline at the latest) and on the
deadline (time passes); none on the frontends, which may ignore their Shutdown, nor
on requests and signals.

`KeepsPromises` is the refinement of `Shelf`: each step of `Library` is a step
of `Shelf` or leaves it be. Healing rests on `Healable`: an index that no
longer mirrors the tree always leaves a trace that the next `Open` looks at
(a pending row, a version, a path or a stat that differs). `OpensTruthful`
says the look was enough. Each of the conditions under which `KeepsPromises` is
checked and proved is needed: on the instance of `library_faults` with one client,
TLC violates it with `LateErrors` alone (a failed move leaves the row at a path
that is gone), with `ScanErrors` alone (a sound book is skipped and vanishes from
the index), and with `ReindexCalls` and `IoErrors` together (a Reindex that moved
a book and fails keeps serving the old row).

`NoTwinBooks` is asked where no request gives a book the author and title of
another that is indexed at the same time under its own row; editing one book
into another is allowed by the code.

## 5. What the runs found

- **A first reindex that fails locks the library** (`CanStartAgain`).
  `index.Open` applies the schema to a version-0 file and leaves the version at
  0 until the first rebuild ends. If that rebuild fails or dies, the tables are
  there and the next start's `CREATE TABLE` fails, for good.
- **A change recorded unseen** (`Healable` in `library_hidden_edit`). An edit of
  `meta.toml` alone takes author and title from the row, without opening the
  epub, and records the file as it is now. If a user has changed the epub since
  the last start, the row now vouches for a file nobody read, and no start
  looks at it again. `library_hands` has no such edit, and the theorem about
  `Healable` none of such users.
- **A Delete that deletes nothing** (`DeleteRemovesDirectory`). After an Edit
  failed past its move, the index names the old path; Delete removes that,
  succeeds, and the book returns at the next start.
- **An upload refused for ever** (`RefusedOverASkippedBook`). A crash between
  placing the epub and its `meta.toml` leaves a file that `Walk` does not see
  and `PathTaken` does.
- **A sound book hidden by a passing error** (`CleanStartTruthful`). A book
  skipped for a transient read error is recorded with its true stat, and every
  later start takes it as settled.
- **An event overtaken** (`TreeFollowsIndex` in `registry_race`). The row of an
  ingest is committed before its book lock is taken for `OnIngested`. A bulk
  edit of `ctl` in that window has its own event ignored, and the late
  `OnIngested` shows the older book, or, when the edit moved the directory, is
  dropped: the book is missing from the tree until a restart.
- **Read, and taken back** (`ReadStaysRead`). The status a sync sets is decided
  on a book read without the lock, so of two syncs at once the one that read
  less can have the last word.
- **An id nobody serves** (`DocumentsServed`). A crash between the sidecar and
  the mapping loses the id for good: the mapping is only rebuilt when it is
  empty, and the next edit finds the id already recorded.
- **Renamed away** (`DoneAsSaid`). `rename-tag a a` finds
  that each book has the new name already and removes the old one: the tag is
  gone, and the log counts the books as renamed.
- **Two answers to one query** (`MatchersAgree` in `catalog_sort_names`). The
  row of an author keeps the first sort name it gets; the snapshots have that of
  each file. SQL and the search view part until a reindex.
- **Added, and taken back** (`AddedTagsStay`). Of two bulk commands on one book
  the second writes the list its own search saw: the log says of both that they
  succeeded, and the tag of the first is gone.
- **Found by one, missed by the other** (`MatchersAgreeOnPhrases`). A phrase with a
  letter that is not of ASCII, in another case than the title has it, is
  found by the search view and missed by SQL, as the comment at
  `index/search.go:10` admits.
- **An old handle for a new open** (`OpensAreNew`). Opening clone "creates a new
  search handle" (`view_search.go:145`). A read whose store comes after the close
  puts the fid's entry back, and the next open of that fid keeps it and reads the
  former handle. No other fid ever gets it (`HandlesAreOfOneFid`).

Those of the runs are quoted against the repository's own words in
`PROJECT.json`; for the others its hazards name the line.

Seen while modelling, and no promise broken: a client that has a file of a
handle open when it is reclaimed reads its old results on; the query text of a
handle may be that of one query and the results those of another that ran at
once (each is set under its own lock); two reads of one fid of clone may
allocate two handles, of which one waits for its expiry; when the deadline has
passed and an exit waits too, the select may say "still running" of a frontend
that has stopped.

## 6. Proofs

`LibraryProofs` proves, for any sets of clients, keys and values, any number
of ids, and any choice of faults:

- `TypeCorrect`: `Spec => []TypeOK`. `TypeOK` is not inductive: that `was[p]`
  is a row where the code dereferences it, that a client at `put` works on an
  edit and one at `erase` on a real id, depends on where each client is. The
  invariant `Typed` adds that, one clause per group of labels, and there is one
  lemma per action.
- `WritersExclude`: `Spec => []OneWriterPerBook`. Edits and deletes exclude one
  another by `bookMu`. An ingest does not take that lock until its row is
  committed, so the argument is another one. `Guarded` has three parts: `Quiet`
  (a serving library that reindexes has no busy client, and the index is
  current while calls run), `Issued` (every id with a row, and every id an
  ingest works on, is at most `seq`, and the latter has no row), `Held` (a
  client between its lock and its return holds `bookMu` or `ingestMu` as its
  label says). So an id being filed has no row, an edit or delete of it stops
  at `get`, and two ingests are kept apart by `ingestMu`.

The others need ever more of the tree, and each invariant is proved from those
before it:

- `BooksAreKept`: `Spec => NothingLost`, unless a user copies a directory (TLC has it
  violated then: an upload may be filed over the copy). `Placed`
  says that a directory's name ends in the id of its sidecar, and that every row,
  in the index and in the hands of Reindex, is of a directory of its own book; so
  whatever a call renames or removes is of the book it works on.
- `NoDuplicateIds`: `Spec => []IdsUnique`. The rename of a directory fails over one
  that is there, but an id might be issued twice, or an ingest file a second
  directory. `Single` gives for every label of every call and of Reindex where
  the one directory of its id may be (`CallAlone`, `FoundAlone`), and says that no
  id on the walk is still to be issued while the index is current (`Covered`),
  which is what the sequence restarted by a rebuild has to see to.
- `SelfHealing`: `Spec => []Healable`, and `ServesTheTruth`: `Spec =>
  OpensTruthful`. `Truthful` says that the row of a settled book (no call has it in
  hand, none has left a pending row) is honest: author, title, value and stat
  are those of the files at its path; and what each call in progress and Reindex
  know is honest up to what they have already written (`CallHonest`,
  `FoundHonest`). If no row is pending, all books are settled, and a row whose
  path is not on the walk is seen by the look of the next start. Stamps may be
  constant, the worst case. Supposed are scans that read what is sound, and users
  who at most remove files: section 5 has a user's change and a passing read error
  that no start notices. `ServesTheTruth` supposes ~`LateErrors` too, since a
  move that failed after its rename is recorded at the wrong path by the very
  rebuild that precedes serving.
- `PromisesKept`: `Spec => KeepsPromises`, the simulation of `Shelf`. `Shelved`
  adds that, while the library serves, a settled book is on the walk exactly if it
  has a row, and that an edit or delete in progress knows where its book is. Then
  each step is a step of `Shelf` on the mapped state or leaves it be: one lemma for
  the calls (`ClientKeepsPromises`), one for what Reindex does before its rebuild,
  one for the rebuild, where the mapping turns from the tree back to the index,
  and one for starts and crashes. `Undisturbed`, the hypothesis, is what section 4
  says of `KeepsPromises`.
- `NeverTwice`: `Spec => []NoTwinBooks`. `Named` says of every author and title that
  no edit gives that one id at most has a claim to it: by a row, by an ingest that
  is filing it, or by an epub on the disk, which is still at the place the ingest
  gave it. An upload that finds the place free and no row therefore has no twin
  anywhere. `NoRivals` is the condition under which section 4 asks the property; users
  may remove and damage files.

`RegistryProofs` proves, for any number of clients, ids, books, groups and
restarts, `TreeFollows`: if edits go through the tree, `Spec =>
[]TreeFollowsIndex`. The property speaks of settled books only and is not
inductive. `Inv` adds: ids not yet issued are nowhere (`Fresh`); every call
but an ingest holds its book's lock and ingests take turns (`Locked`); what a
call wrote is still in the index when it announces it (`Pending`: an ingested
book is as ingested or deleted again, and not in the tree; an edited book is
as edited, and in the tree); and index and tree differ only over a book some
call has still to announce (`Announced`). `Pending` is where the hypothesis is
used, and where the race of section 5 breaks it. One lemma per action.

It also proves `GroupsShow` (`[]GroupsShowTheirBooks`), `RecentShows`
(`[]RecentShowsNewest`) and the types, with no hypothesis: a list shows the
snapshots the tree has, late or not. The invariant is `Listing`, for each group
and for recent: an entry is under the name go9p computes from the snapshot of the
moment, no two entries share a name or a book, and the remembered names are those
and no others. So removal by a remembered name finds its own entry, provided that
a book leaves its lists before its snapshot is replaced (`ListingDrops`,
then `ListingAdds`). For recent, the newest books after an event differ from those
before it by one that enters and one that leaves at most (`NewestAdds`, by
counting).

`KosyncProofs` proves, for any number of clients, books and documents:

- `TypeCorrect`: `Spec => []TypeOK`.
- `MappedHasIt`: `Spec => []MappedBookHasIt`. The property relates mapping and
  sidecars, and both are written by handlers, PUTs and restarts. The invariant
  `Inv` says why they cannot meet: whoever writes a sidecar, maps or unmaps holds
  the book's lock (`Locked`); an id due to be mapped is in the sidecar already,
  every id that leads to a book being deleted is due to be unmapped, and none
  leads to a book whose directory is being removed (`Mapped`); a book whose
  ingest is to be announced is not in the mapping, so nobody syncs it (`Apart`);
  and the sidecar a PUT writes back has the ids it has now (`Found`). Two books
  that share an id need no case of their own: what leads to the other is right
  for the other. One lemma per action.
- `OnlySyncs`: `Spec => OnlySyncsMoveProgress`. Handlers write back a sidecar with
  the progress it has; the one that writes a fresh sidecar does so for a book
  that has none (`Unwritten`).
- `UnreadIsLeft`: `Spec => UnreadIsLeftForGood`, if no edit of a user sets a book
  back to unread. The status is decided without the lock; what saves the rule is
  `Decided`: no PUT ever decides on unread, whatever it read.

`CatalogProofs` proves, for any books, names, edits and orders of calls:

- `Derived`: `Spec => []DerivedFromFiles`, by the invariant `Kept`. A replace
  writes the rows of one book and then sweeps what no book names any more, so
  each table is shown to lose and gain exactly what that book's rows did
  (`PutKeeps`, `EraseKeeps`, `RebuildKeeps`). What an edit writes to the tables
  was read from the tables, and has the sort names of `authors`, not those of the
  file: the two books are `Alike`, equal but for sort names, and no table
  but `authors` tells them apart (`AlikeRows`).
- `ReadBack`: `Spec => []ReadsBack`: the positions in `credits` are an order, and
  the rank of a position is the author's place in the file (`HydratedAlike`).
- `Rebuildable`: `Spec => []CanRebuild`: what `Validate` takes, the columns hold,
  so no file gets ahead of its row. `TypeCorrect`: the types.
- `Duplicates`: `Spec => []DuplicateRule`. The check compares the number of a book's
  credits and asks for one that is not wanted; with no author twice in a book
  (`Distinct`) that says that the sets are equal.
- `OneAnswer`: `Spec => []MatchersAgree` for queries that ask for authors by name
  (`AskedByName`), with `FoldingAssumption` for what titles and phrases have to do
  with each other, and `Counts`: `Spec => []CountsAddUp`. Both follow from the tables
  being those of the files, and the tree having been told of each book what the
  file says but for sort names, over which the matchers part (section 5).

`FilesProofs` proves, for any clients, books, bytes, offsets, commands and length
of the log:

- `LogShows`: `Spec => []LogShowsTheLast`. The invariant `Ring` says which slot holds
  which of the results, and that the ring is full once as many were appended as
  it has slots.
- `TypeCorrect`: `Spec => []TypeOK`, of which the hard part is that the tags of every
  book remain a list of names, none twice and none empty: splitting, trimming and
  what `Without`, `Replaced` and adding make of such a list are shown to be such
  lists or to be refused, and a title that is read back not to be empty.
- `BuffersWithinCap`: `Spec => []WithinCap`, and `CommitsWritten`: `Spec =>
  CommitsWhatWasWritten`: a close whose edit does not fail commits what the
  library makes of the bytes written, for a title their words. `Kept` says of each
  open fid that its buffer is `Intended`, the overlay of all its writes on the seed
  with zeros in the holes. That each
  `Written` keeps it so is `WriteFirst` and `WriteNext`: the length is the largest end
  of a write, and a byte is that of the last write over it.
- `CountsAll`: `Spec => []CountsEveryBookOnce`, whatever others upload, edit and
  delete meanwhile. `Tally`: the ids still to visit are named once each, and the
  counts and reports so far are of the others. That a list with repeats is walked
  without them is `VisitedOnce`.
- `DoesAsSaid`: `Spec => []DoneAsSaid`. `Coursed` says what a command nobody interferes
  with has done half way: books it has been to have the tags help promises, unless
  it reports them, the others those they had, its counts are the numbers of books
  so far, and a report is of a book that is not there, of a list that is refused or
  of an edit that failed.
  `RenamesDiffer` is needed, as `rename-tag a a` shows (section 5).

`InboxProofs` proves, for any number of clients, names and files, `KeepApart`
(`[]UploadsKeepApart`) and `EndedGone` (`[]EndedIsUnlisted`). `Apart` says that a
file and the fid its handle is open for name one another, so the handle a close
takes is its own; `Parented` and `Delisted`, that a file is listed only if its
parent is the directory, and that one whose ingest is due has none, although
`DeleteChild` goes by a name that may be another file's by then.

`SearchProofs` proves, for any cap, any number of requests and any queries,
`Capped`, `ShowsWhatThereIs` and `HandlesOfOneFid`. `Handed` has five parts:
`Roll` (no id is listed twice, all were issued), `Exclusive` (who is between its
two locks holds `lock`, and its victims are listed), `Room` (victims and listed
handles leave room for one more, though queries reorder the list meanwhile),
`Current` (results follow predicate and shelf), `Fresh` (an id is on its way
through one read, or has been read; the entry of a fid, put back by a late store
or not, is an id this fid has read).

`FrontendProofs` proves, for any number of frontends, `TypeCorrect`, `ExitCode` and
`NobodyServed`. `Ends` says where `Run` has been, and counts: those that serve
and the exits not yet received are what `Run` believes is running (`Counted`),
until it gives up at the deadline (`GivenUp`). Once the listener was asked to shut
down, requests that go on have outlasted the deadline and the error says so
(`Outlasted`).

Assumptions are the named ones (`StoreAssumption`, `IndexAssumption`,
`LibraryAssumption`, `EventsAssumption`, `ViewsAssumption`,
`RegistryAssumption`, `KosyncAssumption`, `CatalogAssumption`, `QueriesAssumption`,
`FoldingAssumption`, `UploadsAssumption`, `WriteBufferAssumption`, `FieldFilesAssumption`,
`LogSizeAssumption`, `CtlAssumption`, `FilesAssumption`, `InboxAssumption`, `SearchAssumption`,
`FrontendAssumption`): `None` and its like are no file, row, key or call,
requests are calls, a minted name is no title, a book with another status is a
book, an upload names nobody twice, a ring has a slot, no query asks for the series None. TLC evaluates them on
every run of their modules.

Model-checked only: the three liveness properties `EveryCallReturns`,
`ReindexGoesAhead` and `AllGoDown`, which rest on fairness and ENABLED. Every
invariant and action property of the passing runs is a theorem, under the
hypotheses named above. Beyond these, `library_hands` checks `Healable` and
`OpensTruthful` with users who retitle, damage, copy and restore, where stamps
differ and no edit is of `meta.toml` alone. Nothing is proved by recursion; where the length of a list or a number matters
(`Ascending`, the overlay of writes), the proofs argue by a least
counterexample (`NatLessThanWellFounded`, `WFMin`).

## 7. Not modelled

- Power loss. `synchronous(NORMAL)` may drop the last transactions, a pending
  row among them; `Crash` is the death of the process only.
- Hand edits while a call runs: the code claims nothing there.
- The query language and the order of results; the
  normalisation of names; dates, identifiers, languages and covers in an edit;
  contributors as a table with roles; export; cleaning of the inbox directory;
  log messages.
- In the files of the tree: the fields not named in section 3 (they differ in
  their setters), the epub, cover and opf files, reads by pieces; `set-status`,
  `set-rating`, `rename-author` and `rename-series`, which are the loop of
  `Ctl` with another edit; the parsing of a command line; a search or a delete of
  `ctl` that fails in the index, which the log says and changes nothing; characters
  of more than one byte.
- At most one epub per directory: `findEpub` takes the first and the naming
  convention never makes a second.
- `moveToCanonical` takes books in the order of the scan; the model takes any.
- In the served tree: the padded names of by-id and by-series; stats; panics in a handler; books with one `DateAdded` (the model ranks
  by id); a title equal to a name minted for another book, a case
  `booklist.go` names as unsolved; a failed edit, which announces nothing but
  may leave the row at a path that is gone (section 5).
- In reading progress: sidecars that stay unreadable: a delete may fail to read
  one (`Delete`), and a PUT or an edit's handler may fail at any step, but a rebuild
  reads every sidecar there is; a mapping that could not be saved and so differs on disk
  and in memory; a library that changes while kosync is off, a limit
  `kosync.go` states itself; GET, authentication and the hash.
- A move that failed after its rename is indexed by `moveToCanonical` at the path
  it left; the next start sees the drift (`Healable`, which is proved with
  `LateErrors`), and nothing more is said of it.
- `epub`, `opds`, the text formats, configuration and wiring hold no state of
  their own that outlives a call.
