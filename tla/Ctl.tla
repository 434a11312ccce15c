-------------------------------- MODULE Ctl --------------------------------
(***************************************************************************)
(* The ctl file (internal/fs/ctl): a command runs when its fid is closed.  *)
(* A bulk command searches, then edits one book after the other from what  *)
(* the search found, and logs a result.  Each search and each Library.Edit *)
(* is one step; between them other clients go on.                          *)
(***************************************************************************)
EXTENDS FieldFiles, CommandLog

CONSTANTS Commands   \* the commands clients write

\* splitWords drops a word with nothing in it.
Word == Line \ {<<>>}

\* op, two arguments (None where the op takes one) and the books: None for "*",
\* or a list of ids as the client gave them, which may name no book.
ASSUME CtlAssumption ==
  /\ None \notin BookIds /\ None \notin Commands /\ None \notin Seq(Nat)
  /\ \A c \in Commands :
       \/ c.op \in {"add-tag", "remove-tag"} /\ c.tag \in Word /\ c.ids \in Seq(Nat) \union {None}
       \/ c.op = "rename-tag" /\ c.tag \in Word /\ c.new \in Word
       \/ c.op = "delete" /\ c.id \in Nat

VARIABLES
  running,     \* the command each fid's close is busy with, or None
  found,       \* the books its search returned, as they were
  visit,       \* the ids still to visit
  result,      \* how many books were affected and skipped, and which failed
  before       \* the books at the search while nobody else has changed one, or
               \* None; not in the code

ctlvars == <<running, found, visit, result, before>>

NoResult == [affected |-> 0, skipped |-> 0, errs |-> {}]

CtlInit ==
  /\ running = [f \in Fids |-> None]
  /\ found = [f \in Fids |-> <<>>]
  /\ visit = [f \in Fids |-> <<>>]
  /\ result = [f \in Fids |-> NoResult]
  /\ before = [f \in Fids |-> None]

Has(list, tag) == tag \in Range(list)

Without(list, tag) == Picked(list, {n \in DOMAIN list : list[n] # tag})

Replaced(list, old, new) == [n \in DOMAIN list |-> IF list[n] = old THEN new ELSE list[n]]

\* renameTag: a book that has both loses the old one.
Renamed(list, old, new) ==
  IF Has(list, new) THEN Without(list, old) ELSE Replaced(list, old, new)

\* The list a command wants a book to have, or None if it is as asked for.
Wanted(c, list) ==
  CASE c.op = "add-tag"    -> IF Has(list, c.tag) THEN None ELSE Append(list, c.tag)
    [] c.op = "remove-tag" -> IF Has(list, c.tag) THEN Without(list, c.tag) ELSE None
    [] c.op = "rename-tag" -> Renamed(list, c.tag, c.new)

\* Query.IDs is a bare list, or the tag of rename-tag, or nothing for "*".
Matching(c) ==
  {b \in BookIds : /\ book[b] # None
                   /\ c.op = "rename-tag" => Has(book[b].tags, c.tag)
                   /\ c.op # "rename-tag" => c.ids = None \/ b \in Range(c.ids)}

\* The command names its books by a bare list of ids.
ByList(c) == c.op # "rename-tag" /\ c.ids # None

\* Mutant of Visited: a list of ids is walked with its repeats.
VisitedAsGiven(c) == IF ByList(c) THEN c.ids ELSE SetToSeq(Matching(c))

\* A list of ids is walked as given, without its repeats; else what was found.
Visited(c) ==
  IF ByList(c) THEN Picked(c.ids, {n \in DOMAIN c.ids : \A m \in 1 .. n - 1 : c.ids[m] # c.ids[n]})
               ELSE SetToSeq(Matching(c))

\* Some client changes a book: of the commands under way only f's is by itself.
Disturb(f) == before' = [g \in Fids |-> IF g = f THEN before[g] ELSE None]

Begun(f) ==
  /\ opened[f] = None /\ running[f] = None
  /\ sessions < MaxSessions /\ sessions' = sessions + 1

Execute(f, c) ==
  /\ Begun(f)
  /\ c.op # "delete"
  /\ running' = [running EXCEPT ![f] = c]
  /\ found' = [found EXCEPT ![f] = [b \in Matching(c) |-> book[b].tags]]
  /\ visit' = [visit EXCEPT ![f] = Visited(c)]
  /\ result' = [result EXCEPT ![f] = NoResult]
  /\ before' = [before EXCEPT ![f] = book]
  /\ UNCHANGED <<book, libvars, fidvars, logvars>>

\* Mutant of EditNext: a book it did not find counts as skipped.
EditNextSkippingMissing(f) ==
  /\ running[f] # None /\ visit[f] # <<>>
  /\ LET b == Head(visit[f]) IN
     IF b \notin DOMAIN found[f] \/ Wanted(running[f], found[f][b]) = None
     THEN /\ result' = [result EXCEPT ![f].skipped = @ + 1]
          /\ UNCHANGED <<book, before, failures>>
     ELSE /\ SetTags(b, Wanted(running[f], found[f][b]))
          /\ result' = [result EXCEPT ![f].affected = @ + 1]
          /\ Disturb(f)
  /\ visit' = [visit EXCEPT ![f] = Tail(@)]
  /\ UNCHANGED <<running, found, issued, fidvars, sessions, logvars>>

\* One round of the loop of editSelection: the list comes from the search, and
\* Library.Edit puts it in place of whatever the book has by now.
EditNext(f) ==
  /\ running[f] # None /\ visit[f] # <<>>
  /\ LET b == Head(visit[f]) IN
     \/ /\ b \notin DOMAIN found[f]
        /\ result' = [result EXCEPT ![f].errs = @ \union {b}]
        /\ UNCHANGED <<book, before, failures>>
     \/ /\ b \in DOMAIN found[f]
        /\ Wanted(running[f], found[f][b]) = None
        /\ result' = [result EXCEPT ![f].skipped = @ + 1]
        /\ UNCHANGED <<book, before, failures>>
     \/ /\ b \in DOMAIN found[f]
        /\ LET list == Wanted(running[f], found[f][b]) IN
           /\ list # None
           /\ SetTags(b, list)
           /\ result' = IF Editable(b) /\ ValidTags(list) /\ failures' = failures
                        THEN [result EXCEPT ![f].affected = @ + 1]
                        ELSE [result EXCEPT ![f].errs = @ \union {b}]
        /\ Disturb(f)
  /\ visit' = [visit EXCEPT ![f] = Tail(@)]
  /\ UNCHANGED <<running, found, issued, fidvars, sessions, logvars>>

Finish(f) ==
  /\ running[f] # None /\ visit[f] = <<>>
  /\ Logged([command |-> running[f], result |-> result[f]])
  /\ running' = [running EXCEPT ![f] = None]
  /\ found' = [found EXCEPT ![f] = <<>>]
  /\ result' = [result EXCEPT ![f] = NoResult]
  /\ before' = [before EXCEPT ![f] = None]
  /\ UNCHANGED <<book, libvars, visit, fidvars, sessions>>

\* deleteBook: one call of the library, and its result in the log.
DeleteBook(f, c) ==
  /\ Begun(f)
  /\ c.op = "delete"
  /\ LET known == c.id \in BookIds /\ book[c.id] # None IN
     /\ book' = IF known THEN [book EXCEPT ![c.id] = None] ELSE book
     /\ Logged([command |-> c, result |->
                  IF known THEN [NoResult EXCEPT !.affected = 1] ELSE [NoResult EXCEPT !.errs = {c.id}]])
  /\ Disturb(f)
  /\ UNCHANGED <<running, found, visit, result, libvars, fidvars>>

-----------------------------------------------------------------------------
\* The tags a book with these has once the command has run over it.
Asked(c, tags) ==
  CASE c.op = "add-tag"    -> tags \union {c.tag}
    [] c.op = "remove-tag" -> tags \ {c.tag}
    [] c.op = "rename-tag" -> IF c.tag \in tags THEN (tags \ {c.tag}) \union {c.new} ELSE tags

Named(c) == {b \in BookIds : c.op = "rename-tag" \/ c.ids = None \/ b \in Range(c.ids)}

\* A command nobody interfered with has done what help says to every book it names
\* but those it reports as failed, which are as they were, and to no other; its
\* counts say so.  It reports the books that are not there and those whose list
\* the library refuses, and others only if an edit failed (exec.go:editSelection).
DoneAsSaid ==
  \A f \in Fids :
    running[f] # None /\ visit[f] = <<>> /\ before[f] # None =>
      LET c == running[f]
          errs == result[f].errs
          old(b) == Range(before[f][b].tags)
          new(b) == IF b \in Named(c) THEN Asked(c, old(b)) ELSE old(b)
          there == {b \in BookIds : before[f][b] # None}
          refused == {b \in there : new(b) # old(b) /\ ~ValidTags(Wanted(c, before[f][b].tags))} IN
      /\ \A b \in BookIds : IF b \in there
                            THEN Range(book[b].tags) = IF b \in errs THEN old(b) ELSE new(b)
                            ELSE book[b] = None
      /\ result[f].affected = Cardinality({b \in there \ errs : new(b) # old(b)})
      /\ errs \ there = IF ByList(c) THEN Range(c.ids) \ there ELSE {}
      /\ refused \subseteq errs
      /\ failures = 0 => errs \intersect there = refused

\* Whatever others upload, edit and delete in between, every book a bulk command
\* names or its search found is counted once: as affected, as skipped, or as
\* failed, which one the search did not find always is (exec.go:editSelection).
CountsEveryBookOnce ==
  \A f \in Fids :
    running[f] # None /\ visit[f] = <<>> =>
      LET chosen == IF ByList(running[f]) THEN Range(running[f].ids) ELSE DOMAIN found[f] IN
      /\ result[f].affected + result[f].skipped + Cardinality(result[f].errs) = Cardinality(chosen)
      /\ chosen \ DOMAIN found[f] \subseteq result[f].errs /\ result[f].errs \subseteq chosen

\* "Add a tag to matching books" (help): where nothing takes tags away, the tags
\* the log says were added are there, on every book that was to get one.
AddedTagsStay ==
  \A n \in DOMAIN appended :
    LET c == appended[n].command IN
    c.op = "add-tag" /\ appended[n].result.errs = {} =>
      \A b \in Named(c) : book[b] # None => Has(book[b].tags, c.tag)
=============================================================================
