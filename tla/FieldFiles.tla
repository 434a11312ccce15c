---------------------------- MODULE FieldFiles ----------------------------
(***************************************************************************)
(* The files of a book directory a client edits (internal/fs/book), made   *)
(* of a snapshot taken at open and a write buffer committed at close, and  *)
(* what the library makes of the edit.  A value is text, a list of tags    *)
(* one line each.  Library.Edit and the registry event are one step, as    *)
(* an edit through the tree: see Registry.                                 *)
(***************************************************************************)
EXTENDS WriteBuffer, FiniteSets, SequencesExt

CONSTANTS
  Fids,         \* the fids of clients
  BookIds,
  Newline,      \* the byte between lines
  Spaces,       \* the bytes that are white space
  Space,        \* the one that stands for a run of them in an epub
  Edges,        \* the bytes no name begins or ends with: ".", " " and tab
  Unknown,      \* U+FFFD, as one byte: what XML has in place of NUL
  Cap,          \* maxFieldFileSize
  FirstTitle, Pubdate,  \* what a book begins with
  FirstIssued,  \* the ids up to this one are of books from the start
  MaxFailures,  \* bound: the edits that fail on disk or in the index in all
  MaxSessions,  \* bound: the files opened, commands run and books uploaded in all
  MaxWrites     \* bound: the writes of one open file

ASSUME FieldFilesAssumption ==
  /\ {Newline, Space} \subseteq Spaces /\ Spaces \subseteq Byte \ {Zero}
  /\ Unknown \in Byte \ Spaces
  /\ Cap \in Nat /\ FirstIssued \in Nat /\ MaxFailures \in Nat
  /\ FirstTitle \in Text \ {<<>>} /\ Pubdate \in Text
  /\ IsFiniteSet(BookIds) /\ BookIds \subseteq Nat
  /\ None \notin Seq(Text) \union [title : Text, tags : Seq(Text)]

Fields == {"tags", "title", "pubdate"}

VARIABLES
  book,         \* the snapshot of each book: title and tags, or None
  opened,       \* what each fid has open: book, field, truncated; or None
  reads,        \* the snapshot of the file each fid took when it opened it
  bufs,         \* the write buffer of each fid, or None
  writes,       \* the writes of each fid the buffer took; not in the code
  issued,       \* the last id a book was given
  failures,     \* how many edits have failed; not in the code
  sessions      \* how many there have been; not in the code

fidvars == <<opened, reads, bufs, writes>>
libvars == <<issued, failures>>

\* The numbers of S in order, and what is at these places of a list.
Ascending(S) ==
  [n \in 1 .. Cardinality(S) |-> CHOOSE k \in S : Cardinality({j \in S : j <= k}) = n]

Picked(list, S) == [n \in DOMAIN Ascending(S) |-> list[Ascending(S)[n]]]

Line == {l \in Text : Newline \notin Range(l)}

\* TrimSpace leaves nothing of it.
White(t) == Range(t) \subseteq Spaces

\* naming.NamesNothing: without its NULs and trimmed it is empty.
NamesNothing(l) == Range(l) \subseteq Edges \union {Zero}

\* TrimSpace.
Stripped(l) ==
  Picked(l, {k \in DOMAIN l : /\ \E i \in 1 .. k : l[i] \notin Spaces
                              /\ \E j \in k .. Len(l) : l[j] \notin Spaces})

InXML(c) == IF c \in Spaces THEN Space ELSE IF c = Zero THEN Unknown ELSE c

\* What an epub has of a text written to it: its words, with one space between.
ReadBack(t) ==
  LET kept == {k \in DOMAIN t : \/ t[k] \notin Spaces
                                \/ /\ k > 1 /\ t[k - 1] \notin Spaces
                                   /\ \E j \in k .. Len(t) : t[j] \notin Spaces} IN
  [n \in DOMAIN Picked(t, kept) |-> InXML(Picked(t, kept)[n])]

\* TrimRight of newlines.
Trimmed(s) ==
  LET last == {k \in DOMAIN s : \A j \in k .. Len(s) : s[j] = Newline} IN
  SubSeq(s, 1, Len(s) - Cardinality(last))

\* FieldsFunc: the lines of s that have something in them.
Lines(s) ==
  LET starts == {k \in DOMAIN s : s[k] # Newline /\ (k = 1 \/ s[k - 1] = Newline)}
      from   == Ascending(starts)
      to(k)  == CHOOSE j \in k .. Len(s) : /\ j = Len(s) \/ s[j + 1] = Newline
                                           /\ \A i \in k .. j : s[i] # Newline IN
  [n \in DOMAIN from |-> SubSeq(s, from[n], to(from[n]))]

Joined(list) ==
  FlattenSeq([n \in DOMAIN list |-> IF n = 1 THEN list[n] ELSE <<Newline>> \o list[n]])

\* What is read from a file: the value and a newline.
Shown(b, field) ==
  CASE field = "tags"    -> Joined(book[b].tags) \o <<Newline>>
    [] field = "title"   -> book[b].title \o <<Newline>>
    [] field = "pubdate" -> Pubdate \o <<Newline>>

\* validateTags: every tag is a name, and no two are one up to white space.
ValidTags(list) ==
  /\ \A n \in DOMAIN list : ~White(list[n]) /\ ~NamesNothing(list[n])
  /\ IsInjective([n \in DOMAIN list |-> Stripped(list[n])])

\* Library.Edit of one field, if the book is there and the value valid; it may
\* still fail on disk or in the index, and then says so.
Edited(valid, new) ==
  \/ ~valid /\ UNCHANGED <<book, failures>>
  \/ valid /\ book' = new /\ UNCHANGED failures
  \/ /\ valid /\ failures < MaxFailures
     /\ failures' = failures + 1
     /\ UNCHANGED book

Editable(b) == book[b] # None

\* Mutant of SetTags: the list is taken as it comes.
SetTagsUnchecked(b, list) == Edited(Editable(b), [book EXCEPT ![b].tags = list])

SetTags(b, list) == Edited(Editable(b) /\ ValidTags(list), [book EXCEPT ![b].tags = list])

\* The title kept is the one read back from the epub.
SetTitle(b, t) == Edited(Editable(b) /\ ~White(t), [book EXCEPT ![b].title = ReadBack(t)])

\* field.edits and the edit callback; a file without one is read-only.
Set(b, field, s) ==
  CASE field = "tags"    -> SetTags(b, Lines(s))
    [] field = "title"   -> SetTitle(b, s)
    [] field = "pubdate" -> UNCHANGED <<book, failures>>

NewBook == [title |-> FirstTitle, tags |-> <<>>]

FieldsInit ==
  /\ book = [b \in BookIds |-> IF b <= FirstIssued THEN NewBook ELSE None]
  /\ issued = FirstIssued
  /\ failures = 0
  /\ opened = [f \in Fids |-> None]
  /\ reads = [f \in Fids |-> <<>>]
  /\ bufs = [f \in Fids |-> None]
  /\ writes = [f \in Fids |-> <<>>]
  /\ sessions = 0

\* An upload, of a book with the next id.
AddBook ==
  /\ issued + 1 \in BookIds
  /\ issued' = issued + 1
  /\ sessions < MaxSessions /\ sessions' = sessions + 1
  /\ book' = [book EXCEPT ![issued + 1] = NewBook]
  /\ UNCHANGED <<fidvars, failures>>

OpenField(f, b, field, truncated) ==
  /\ opened[f] = None
  /\ book[b] # None
  /\ sessions < MaxSessions /\ sessions' = sessions + 1
  /\ opened' = [opened EXCEPT ![f] = [book |-> b, field |-> field, truncated |-> truncated]]
  /\ reads' = [reads EXCEPT ![f] = Shown(b, field)]
  /\ UNCHANGED <<book, libvars, bufs, writes>>

Seed(f) == IF opened[f].truncated THEN <<>> ELSE reads[f]

\* A write of nothing, or past the cap, leaves the buffer as it is.
WriteField(f, off, data) ==
  /\ opened[f] # None
  /\ data # <<>>
  /\ Fits(off, data, Cap)
  /\ Len(writes[f]) < MaxWrites
  /\ bufs' = [bufs EXCEPT ![f] = Written(bufs[f], Seed(f), off, data)]
  /\ writes' = [writes EXCEPT ![f] = Append(@, [at |-> off, data |-> data])]
  /\ UNCHANGED <<book, libvars, opened, reads, sessions>>

\* Mutant of Clunked: the buffer of a file opened again goes on.
ClunkedKeeping(f) ==
  /\ opened' = [opened EXCEPT ![f] = None]
  /\ reads' = [reads EXCEPT ![f] = <<>>]
  /\ writes' = [writes EXCEPT ![f] = <<>>]
  /\ UNCHANGED bufs

Clunked(f) ==
  /\ opened' = [opened EXCEPT ![f] = None]
  /\ reads' = [reads EXCEPT ![f] = <<>>]
  /\ writes' = [writes EXCEPT ![f] = <<>>]
  /\ bufs' = [bufs EXCEPT ![f] = None]

CloseField(f) ==
  /\ opened[f] # None
  /\ Clunked(f)
  /\ UNCHANGED <<issued, sessions>>
  /\ IF bufs[f] = None THEN UNCHANGED <<book, failures>>
     ELSE Set(opened[f].book, opened[f].field, Trimmed(bufs[f]))

-----------------------------------------------------------------------------
\* The value a client meant f to have: its writes over what it opened.
Meant(f) == Trimmed(Intended(Seed(f), writes[f]))

ValueAfter(f, b) ==
  CASE opened[f].field = "tags" ->
         IF ValidTags(Lines(Meant(f))) THEN [book[b] EXCEPT !.tags = Lines(Meant(f))] ELSE book[b]
    [] opened[f].field = "title" ->
         IF White(Meant(f)) THEN book[b] ELSE [book[b] EXCEPT !.title = ReadBack(Meant(f))]
    [] opened[f].field = "pubdate" -> book[b]

\* A close whose edit does not fail commits what this client's bytes, written over
\* those it opened, make of the field, a title as the epub gives it back, or if
\* that is no value of the field nothing; not a byte of another fid, of an earlier
\* open or past a hole, and to no other book (fieldFile.Close).
CommitsWhatWasWritten ==
  [][\A f \in Fids :
       opened[f] # None /\ opened'[f] = None =>
         \A b \in BookIds :
           book'[b] = IF /\ book[b] # None /\ b = opened[f].book
                         /\ writes[f] # <<>> /\ failures' = failures
                      THEN ValueAfter(f, b) ELSE book[b]]_<<book, opened>>

\* No client makes the server hold more for a fid than the cap or what the file
\* had when it was opened, at whatever offset it writes (WriteBuffer.Write).
WithinCap ==
  \A f \in Fids : bufs[f] # None =>
    Len(bufs[f]) <= IF Len(reads[f]) < Cap THEN Cap ELSE Len(reads[f])
=============================================================================
