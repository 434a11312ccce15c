------------------------------- MODULE Store -------------------------------
(***************************************************************************)
(* The library tree on disk (pkg/library/internal/store).                  *)
(*                                                                         *)
(* A book directory is named "Author/Title (id)".  Author and title        *)
(* together are one element of Keys, and AuthorOf gives the directory a    *)
(* key is filed under.  A directory holds at most one epub, named after    *)
(* the key it was last filed as, and at most one meta.toml.  A directory   *)
(* holding neither is taken as absent, as are empty author directories,    *)
(* which nothing reads.                                                    *)
(*                                                                         *)
(* The operators whose right-hand sides prime epub and meta are the file   *)
(* system calls; each is one atomic call (rename, unlink), so a crash can  *)
(* fall between any two of them.                                           *)
(***************************************************************************)
EXTENDS Naturals, FiniteSets

CONSTANTS
  Keys,         \* author list and title, all that the naming convention reads
  AuthorOf,     \* the author directory of each key
  MaxId,        \* bound on book ids
  Vals,         \* what meta.toml holds besides the id: status, rating, tags
  StampsDiffer, \* does a file's size and mtime change whenever it is written?
  None,         \* no such file, row, book or request
  Unreadable    \* the content of a file that will not parse

Ids       == 1 .. MaxId
Dirs      == [key : Keys, id : Ids]
EpubFiles == [name : Keys, bib : Keys \union {Unreadable}]
MetaFiles == [id : Ids, val : Vals]
Locations == [dir : Dirs, name : Keys]

ASSUME StoreAssumption ==
  /\ MaxId \in Nat
  /\ StampsDiffer \in BOOLEAN
  /\ None \notin EpubFiles \union MetaFiles \union Keys \union Vals
  /\ Unreadable \notin MetaFiles \union Keys
  /\ None # Unreadable

VARIABLES
  epub,         \* the epub in each directory
  meta          \* the meta.toml in each directory

storeVars == <<epub, meta>>

StoreTypeOK ==
  /\ epub \in [Dirs -> EpubFiles \union {None}]
  /\ meta \in [Dirs -> MetaFiles \union {None, Unreadable}]

StoreInit ==
  /\ epub = [d \in Dirs |-> None]
  /\ meta = [d \in Dirs |-> None]

-----------------------------------------------------------------------------
(* What the tree says. *)

\* The one naming convention, which ingest, edit and reindex all file under.
Layout(k, i) == [dir |-> [key |-> k, id |-> i], name |-> k]

DirExists(d) == epub[d] # None \/ meta[d] # None

FileAt(loc) == epub[loc.dir] # None /\ epub[loc.dir].name = loc.name

\* A book directory holds a meta.toml; one without an epub is passed over.
Walk == {d \in Dirs : meta[d] # None /\ epub[d] # None}

LocationOf(d) == [dir |-> d, name |-> epub[d].name]

\* Size and mtime of both files.  When stamps need not differ the two writes
\* fell in one clock tick and left the same size, so every stat looks alike.
PathInfos == [epub : Keys \union {Unreadable}, meta : MetaFiles \union {Unreadable}]

CanStat(loc) == FileAt(loc) /\ meta[loc.dir] # None

Stat(d) == [epub |-> IF StampsDiffer THEN epub[d].bib ELSE Unreadable,
            meta |-> IF StampsDiffer THEN meta[d] ELSE Unreadable]

\* Some directory of k's author holds an epub under k's file name.
PathTaken(k) ==
  \E d \in Dirs : /\ AuthorOf[d.key] = AuthorOf[k]
                  /\ epub[d] # None
                  /\ epub[d].name = k

-----------------------------------------------------------------------------
(* The file system calls. *)

\* os.Rename of the epub's replacement over the epub, or of an upload into a
\* new directory.
WriteEpub(loc, k) ==
  /\ epub' = [epub EXCEPT ![loc.dir] = [name |-> loc.name, bib |-> k]]
  /\ UNCHANGED meta

\* The sidecar is written aside and renamed over the old one.
WriteMeta(loc, m) ==
  /\ meta' = [meta EXCEPT ![loc.dir] = m]
  /\ UNCHANGED epub

MoveTo(f, from, to) == [f EXCEPT ![to] = f[from], ![from] = None]

\* Mutant of RenameDir: the epub is moved and its sidecar is not.
RenameEpubAlone(from, to) ==
  /\ epub' = MoveTo(epub, from, to)
  /\ UNCHANGED meta

RenameDir(from, to) ==
  /\ epub' = MoveTo(epub, from, to)
  /\ meta' = MoveTo(meta, from, to)

\* renameDir refuses a destination that exists.
CanRenameDir(from, to) == DirExists(from) /\ ~DirExists(to)

RenameFile(d, k) ==
  /\ epub' = [epub EXCEPT ![d] = [name |-> k, bib |-> epub[d].bib]]
  /\ UNCHANGED meta

\* No call: a user copies a whole directory into place.
PutDir(d, e, m) ==
  /\ epub' = [epub EXCEPT ![d] = e]
  /\ meta' = [meta EXCEPT ![d] = m]

\* os.RemoveAll unlinks one entry at a time, in directory order, which is
\* arbitrary.
RemoveOne(d) ==
  \/ /\ epub[d] # None
     /\ epub' = [epub EXCEPT ![d] = None]
     /\ UNCHANGED meta
  \/ /\ meta[d] # None
     /\ meta' = [meta EXCEPT ![d] = None]
     /\ UNCHANGED epub
=============================================================================
