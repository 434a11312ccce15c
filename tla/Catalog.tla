------------------------------ MODULE Catalog ------------------------------
(***************************************************************************)
(* What is behind one row of Index: the relation tables of the index       *)
(* (pkg/library/internal/index), the edits that reach them                 *)
(* (internal/book/edits.go) and the queries answered from them.  Authors,  *)
(* labels (tags, subjects, contributors) and series are rows of their own, *)
(* shared by the books that name them and swept when none does.            *)
(*                                                                         *)
(* Each call is one step: Library says what its parts may run into.  Here  *)
(* the question is whether the tables, after any history of calls, are     *)
(* what the files say, and whether two matchers answer one query alike.    *)
(***************************************************************************)
EXTENDS Naturals, Sequences, FiniteSets, Functions

CONSTANTS
  Ids,          \* book ids
  Titles,       \* titles as an epub has them, white space collapsed
  AuthorNames, SortNames, SeriesNames, Positions, Statuses, Ratings,
  Kinds,        \* the kinds of label: "tag" is one of them
  Labels,
  FirstPosition,\* the position of a volume whose file gives none that is valid
  NaN,          \* a rating that is no number
  Blank,        \* a string that names nothing
  None,         \* no value; a field an edit leaves alone
  Absent,       \* no row of authors
  Uploads,      \* the books clients upload, as they are parsed
  Asked,        \* the edits clients ask for
  Queries,      \* the queries clients ask, Limit and Order aside
  Phrases,      \* what they ask of a title
  Like,         \* the phrases within a title for SQLite's LIKE, <<phrase, title>>
  Lower         \* and those for Go, once strings.ToLower is through with both

Authors == [name : AuthorNames, sort : SortNames \union {None}]
Volumes == [name : SeriesNames, position : Positions] \union {None}
Books   == [title : Titles, authors : Seq(Authors), series : Volumes,
            labels : [Kinds -> SUBSET Labels], status : Statuses,
            rating : Ratings \union {NaN}]
Rows    == [title : Titles, series : SeriesNames \union {None},
            position : Positions \union {None}, status : Statuses,
            rating : Ratings]
Edits   == [title : Titles \union {Blank, None},
            authors : Seq([name : AuthorNames \union {Blank},
                           sort : SortNames \union {None}]) \union {None},
            series : SeriesNames \union {Blank, None},
            position : Positions \union {Blank, None},
            labels : [Kinds -> Seq(Labels \union {Blank}) \union {None}],
            status : Statuses \union {Blank, None},
            rating : Ratings \union {NaN, None}]

Names(list) == {list[k].name : k \in DOMAIN list}

\* firstRepeat finds nothing: no two entries have one name.
DistinctNames(list) == IsInjective([k \in DOMAIN list |-> list[k].name])

ASSUME CatalogAssumption ==
  /\ {Blank, None} \cap (Titles \union AuthorNames \union SortNames \union
        SeriesNames \union Positions \union Labels \union Statuses \union
        Ratings) = {}
  /\ Blank # None
  /\ Absent \notin SortNames \union {None}
  /\ NaN \notin Ratings \union {None}
  /\ FirstPosition \in Positions
  /\ "tag" \in Kinds
  /\ None \notin Books /\ None \notin Rows /\ None \notin Authors
  /\ None \notin [name : SeriesNames, position : Positions]
  /\ None \notin Seq([name : AuthorNames \union {Blank}, sort : SortNames \union {None}])
  /\ None \notin Seq(Labels \union {Blank})
  /\ Asked \subseteq Edits

\* What parsing returns: a list names nobody twice, and a book has an author.
ASSUME UploadsAssumption ==
  /\ Uploads \subseteq Books
  /\ \A u \in Uploads : u.rating \in Ratings /\ u.authors # <<>>
                        /\ DistinctNames(u.authors)

\* A query asks for strings: no NULL among them.
ASSUME QueriesAssumption ==
  \A q \in Queries : None \notin q.series /\ q.titles \subseteq Phrases

\* LIKE takes letters of ASCII for one whatever their case, ToLower those of every
\* script: what the first finds, the second does.  A title is within itself.
ASSUME FoldingAssumption ==
  /\ Like \subseteq Lower
  /\ \A t \in Titles \cap Phrases : <<t, t>> \in Like

VARIABLES
  file,         \* what the epub and meta.toml of each book say, or None
  served,       \* the snapshot the served tree has of each book, or None
  books,        \* table books
  authors,      \* table authors: the sort_name of each name, or Absent
  credits,      \* table book_authors
  series,       \* table series
  labels,       \* tables tags, subjects and contributors
  labelled      \* tables book_tags, book_subjects and book_contributors

tables == <<books, authors, credits, series, labels, labelled>>
vars   == <<file, served, tables>>

Known == {i \in Ids : books[i] # None}

-----------------------------------------------------------------------------
(* Writes: putBook and deleteBook, a transaction each. *)

RowOf(b) ==
  [title |-> b.title, status |-> b.status, rating |-> b.rating,
   series |-> IF b.series = None THEN None ELSE b.series.name,
   position |-> IF b.series = None THEN None ELSE b.series.position]

CreditsOf(i, b) ==
  {[book |-> i, name |-> b.authors[k].name, place |-> k] : k \in DOMAIN b.authors}

LabelledAs(k, i, b) == {<<i, l>> : l \in b.labels[k]}

SortIn(b, n) == b.authors[CHOOSE k \in DOMAIN b.authors : b.authors[k].name = n].sort

\* InsertAuthor: a sort name is filled in where there is none, never replaced.
WithAuthors(b) ==
  [n \in AuthorNames |->
     IF n \in Names(b.authors) /\ authors[n] \in {Absent, None} THEN SortIn(b, n) ELSE authors[n]]

\* The rows of others.
CreditsBut(i) == {c \in credits : c.book # i}

\* Mutant of LabelledBut: the old links of the book stay.
LabelledAll(k, i) == labelled[k]

LabelledBut(k, i) == {x \in labelled[k] : x[1] # i}

\* Mutant of SweptAuthors: the statement is missing.
AuthorsUnswept(all, cs) == all

\* cleanupOrphans: what no book names any more goes.
SweptAuthors(all, cs) ==
  [n \in AuthorNames |-> IF \E c \in cs : c.name = n THEN all[n] ELSE Absent]

SweptLabels(all, xs) == {l \in all : \E x \in xs : x[2] = l}

\* Mutant of SweptSeries: the statement is missing.
SeriesUnswept(all, rs) == all

SweptSeries(all, rs) == {s \in all : \E i \in Ids : rs[i] # None /\ rs[i].series = s}

SeriesNamed(b) == IF b.series = None THEN {} ELSE {b.series.name}

\* The lists of a book are replaced whole.
Recredited(i, b) == CreditsBut(i) \union CreditsOf(i, b)

Relabelled(k, i, b) == LabelledBut(k, i) \union LabelledAs(k, i, b)

WithLabels(k, b) == labels[k] \union b.labels[k]

WithSeries(b) == series \union SeriesNamed(b)

Put(i, b) ==
  LET cs == Recredited(i, b)
      ls == [k \in Kinds |-> Relabelled(k, i, b)]
      rs == [books EXCEPT ![i] = RowOf(b)] IN
  /\ books' = rs
  /\ credits' = cs
  /\ labelled' = ls
  /\ authors' = SweptAuthors(WithAuthors(b), cs)
  /\ labels' = [k \in Kinds |-> SweptLabels(WithLabels(k, b), ls[k])]
  /\ series' = SweptSeries(WithSeries(b), rs)

\* ON DELETE CASCADE takes the links.
Erase(i) ==
  LET ls == [k \in Kinds |-> LabelledBut(k, i)]
      rs == [books EXCEPT ![i] = None] IN
  /\ books' = rs
  /\ credits' = CreditsBut(i)
  /\ labelled' = ls
  /\ authors' = SweptAuthors(authors, CreditsBut(i))
  /\ labels' = [k \in Kinds |-> SweptLabels(labels[k], ls[k])]
  /\ series' = SweptSeries(series, rs)

\* Of the sort names the files give an author a rebuild keeps the first it meets.
SortsOf(n) == {s \in SortNames : \E i \in Ids : file[i] # None /\
                 \E k \in DOMAIN file[i].authors : file[i].authors[k] = [name |-> n, sort |-> s]}

OnShelf == {i \in Ids : file[i] # None}

\* rebuildTx: every table is emptied and every book inserted.
Rebuild ==
  LET cs == UNION {CreditsOf(i, file[i]) : i \in OnShelf} IN
  /\ books' = [i \in Ids |-> IF file[i] = None THEN None ELSE RowOf(file[i])]
  /\ credits' = cs
  /\ labelled' = [k \in Kinds |-> UNION {LabelledAs(k, i, file[i]) : i \in OnShelf}]
  /\ \E sort \in [AuthorNames -> SortNames \union {None}] :
       /\ \A n \in AuthorNames :
            IF SortsOf(n) = {} THEN sort[n] = None ELSE sort[n] \in SortsOf(n)
       /\ authors' = SweptAuthors(sort, cs)
  /\ labels' = [k \in Kinds |-> UNION {file[i].labels[k] : i \in OnShelf}]
  /\ series' = UNION {SeriesNamed(file[i]) : i \in OnShelf}

-----------------------------------------------------------------------------
(* Reads. *)

\* The credits of a book in the order of their places.
AuthorsOf(i) ==
  LET mine == {c \in credits : c.book = i}
      nth(k) == CHOOSE c \in mine : Cardinality({d \in mine : d.place < c.place}) = k - 1 IN
  [k \in 1 .. Cardinality(mine) |-> [name |-> nth(k).name, sort |-> authors[nth(k).name]]]

LabelsOf(k, i) == {x[2] : x \in {y \in labelled[k] : y[1] = i}}

VolumeOf(r) ==
  IF r.series = None THEN None ELSE [name |-> r.series, position |-> r.position]

\* A row of books with the lists hydrateBooks loads for it.
Hydrated(i) ==
  [title |-> books[i].title, authors |-> AuthorsOf(i), series |-> VolumeOf(books[i]),
   labels |-> [k \in Kinds |-> LabelsOf(k, i)],
   status |-> books[i].status, rating |-> books[i].rating]

\* index.Search: values of one field are alternatives, an empty field asks nothing.
WhereAuthors(q) ==
  {i \in Known : \E c \in credits :
     c.book = i /\ (c.name \in q.authors \/ authors[c.name] \in q.authors)}

\* Mutant of WhereTags: every tag asked for has to be there.
WhereAllTags(q) == {i \in Known : \A t \in q.tags : <<i, t>> \in labelled["tag"]}

WhereTags(q) == {i \in Known : \E t \in q.tags : <<i, t>> \in labelled["tag"]}

\* A title is asked for whole, or by a phrase that is somewhere in it.
TitleAsked(q, exact, within, title) ==
  IF exact THEN title \in q.titles ELSE \E p \in q.titles : <<p, title>> \in within

\* ctl has every title exact, the catalogue of a program may have either.
Search(q, exact) ==
  {i \in Known :
     /\ q.authors # {} => i \in WhereAuthors(q)
     /\ q.tags # {} => i \in WhereTags(q)
     /\ q.series # {} => books[i].series \in q.series
     /\ q.status # {} => books[i].status \in q.status
     /\ q.ids # {} => i \in q.ids
     /\ q.titles # {} => TitleAsked(q, exact, Like, books[i].title)}

\* The same query in Go, over a snapshot (views/match.go); the search view takes
\* titles by phrases.
Matches(q, exact, i, b) ==
  /\ q.authors # {} => \E k \in DOMAIN b.authors :
       b.authors[k].name \in q.authors \/ b.authors[k].sort \in q.authors
  /\ q.tags # {} => q.tags \cap b.labels["tag"] # {}
  /\ q.series # {} => b.series # None /\ b.series.name \in q.series
  /\ q.status # {} => b.status \in q.status
  /\ q.ids # {} => i \in q.ids
  /\ q.titles # {} => TitleAsked(q, exact, Lower, b.title)

\* The books of the served tree that match.
Shown(q, exact) == {i \in Ids : served[i] # None /\ Matches(q, exact, i, served[i])}

\* Case in the phrases asked is a matter of ASCII letters only.
FoldAlike(q) == \A p \in q.titles, t \in Titles : <<p, t>> \in Lower => <<p, t>> \in Like

\* Mutant of BookExists: the number of authors is not compared.
BookExistsAmong(title, names) ==
  \E i \in Known : /\ books[i].title = title
                   /\ ~ \E c \in credits : c.book = i /\ c.name \notin names

\* The duplicate rule of ingest: as many authors, and none outside the names.
BookExists(title, names) ==
  \E i \in Known :
    /\ books[i].title = title
    /\ Cardinality({c \in credits : c.book = i}) = Cardinality(names)
    /\ ~ \E c \in credits : c.book = i /\ c.name \notin names

\* ListAuthors, ListTags and ListSeries: each name with the number of its books.
AuthorFacet(n) == Cardinality({c \in credits : c.name = n})
TagFacet(t)    == Cardinality({x \in labelled["tag"] : x[2] = t})
SeriesFacet(s) == Cardinality({i \in Known : books[i].series = s})

\* GetStats counts the rows of each table.
Stats == [authors |-> Cardinality({n \in AuthorNames : authors[n] # Absent}),
          series |-> Cardinality(series), tags |-> Cardinality(labels["tag"])]

-----------------------------------------------------------------------------
(* Calls. *)

\* Mutant of ValidRating: the bounds are compared, and NaN is below neither.
RatingInBounds(e) == TRUE

ValidRating(e) == e.rating # NaN

ValidAuthors(e) ==
  e.authors # None =>
    /\ e.authors # <<>>
    /\ \A k \in DOMAIN e.authors : e.authors[k].name # Blank
    /\ DistinctNames(e.authors)

\* A tag names a directory; subjects and contributors need not.
ValidLabels(e) ==
  \A k \in Kinds : e.labels[k] # None =>
    IsInjective(e.labels[k]) /\ (k = "tag" => Blank \notin Range(e.labels[k]))

ValidPosition(e, b) ==
  e.position # None =>
    /\ e.position # Blank
    /\ e.series # Blank
    /\ e.series = None => b.series # None

Valid(e, b) ==
  /\ e.status # Blank
  /\ ValidRating(e)
  /\ e.title # Blank
  /\ ValidAuthors(e)
  /\ ValidLabels(e)
  /\ ValidPosition(e, b)

\* NULL is refused by a column, a second link of one pair by the key.  Lists the
\* epub carries are read back from it, each entry once.
Storable(e) ==
  /\ e.rating # NaN
  /\ e.labels["tag"] # None => IsInjective(e.labels["tag"])

OrElse(new, old) == IF new = None THEN old ELSE new

\* Mutant of SeriesAfter: a series without a name is kept.
SeriesUncleared(cur, e) ==
  [name |-> IF e.series # None THEN e.series ELSE IF cur = None THEN Blank ELSE cur.name,
   position |-> IF e.position # None THEN e.position
                ELSE IF cur = None THEN FirstPosition ELSE cur.position]

\* The series of an edit: name and position may change apart, no name clears it.
SeriesAfter(cur, e) ==
  LET name == IF e.series # None THEN e.series ELSE IF cur = None THEN Blank ELSE cur.name
      pos  == IF e.position # None THEN e.position
              ELSE IF cur = None THEN FirstPosition ELSE cur.position IN
  IF name = Blank THEN None ELSE [name |-> name, position |-> pos]

\* What the epub carries is changed in the file, the rest in what the index has.
Applied(e, f, b) ==
  [title   |-> OrElse(e.title, f.title),
   authors |-> OrElse(e.authors, f.authors),
   series  |-> SeriesAfter(f.series, e),
   labels  |-> [k \in Kinds |->
                  IF e.labels[k] # None THEN Range(e.labels[k]) \ {Blank}
                  ELSE IF k = "tag" THEN b.labels[k] ELSE f.labels[k]],
   status  |-> OrElse(e.status, b.status),
   rating  |-> OrElse(e.rating, b.rating)]

Init ==
  /\ file = [i \in Ids |-> None]
  /\ served = [i \in Ids |-> None]
  /\ books = [i \in Ids |-> None]
  /\ authors = [n \in AuthorNames |-> Absent]
  /\ credits = {}
  /\ series = {}
  /\ labels = [k \in Kinds |-> {}]
  /\ labelled = [k \in Kinds |-> {}]

Ingest(i, u) ==
  /\ file[i] = None
  /\ ~BookExists(u.title, Names(u.authors))
  /\ file' = [file EXCEPT ![i] = u]
  /\ served' = [served EXCEPT ![i] = u]
  /\ Put(i, u)

HasBibEdits(e) ==
  \/ e.title # None \/ e.authors # None \/ e.series # None \/ e.position # None
  \/ \E k \in Kinds \ {"tag"} : e.labels[k] # None

\* Rewrite returns what it reads back from the epub, or, if the edit is not for
\* the epub, what the index has.
Recorded(i, e) ==
  Applied(e, IF HasBibEdits(e) THEN file[i] ELSE Hydrated(i), Hydrated(i))

\* A Put that fails leaves the files changed, the index and the tree as they were.
Edit(i, e) ==
  /\ books[i] # None
  /\ Valid(e, Hydrated(i))
  /\ file' = [file EXCEPT ![i] = Applied(e, file[i], Hydrated(i))]
  /\ IF Storable(e)
     THEN Put(i, Recorded(i, e)) /\ served' = [served EXCEPT ![i] = Recorded(i, e)]
     ELSE UNCHANGED <<tables, served>>

Delete(i) ==
  /\ books[i] # None
  /\ Erase(i)
  /\ file' = [file EXCEPT ![i] = None]
  /\ served' = [served EXCEPT ![i] = None]

\* The rebuild is one transaction: a book it cannot insert undoes it.
Reindex ==
  /\ IF \E i \in OnShelf : file[i].rating = NaN THEN UNCHANGED tables ELSE Rebuild
  /\ UNCHANGED <<file, served>>

\* A start loads the tree from the index.
Restart ==
  /\ served' = [i \in Ids |-> IF books[i] = None THEN None ELSE Hydrated(i)]
  /\ UNCHANGED <<file, tables>>

Next ==
  \/ \E i \in Ids, u \in Uploads : Ingest(i, u)
  \/ \E i \in Ids, e \in Asked : Edit(i, e)
  \/ \E i \in Ids : Delete(i)
  \/ Reindex
  \/ Restart

Spec == Init /\ [][Next]_vars

-----------------------------------------------------------------------------
(* Properties. *)

\* Each table holds rows of its columns' types; a rating that is no number
\* never reaches the index.
TypeOK ==
  /\ file \in [Ids -> Books \union {None}]
  /\ served \in [Ids -> Books \union {None}]
  /\ books \in [Ids -> Rows \union {None}]
  /\ authors \in [AuthorNames -> SortNames \union {None, Absent}]
  /\ credits \subseteq [book : Ids, name : AuthorNames, place : Nat]
  /\ series \subseteq SeriesNames
  /\ labels \in [Kinds -> SUBSET Labels]
  /\ labelled \in [Kinds -> SUBSET (Ids \X Labels)]

\* The index is derived: whatever was put, replaced and deleted before, its
\* tables are those a rebuild from the files would write, with no row missing,
\* none left over and no name without a book (putRelations, cleanupOrphans).
\* Only the sort names depend on the past: see MatchersAgree.
DerivedFromFiles ==
  /\ books = [i \in Ids |-> IF file[i] = None THEN None ELSE RowOf(file[i])]
  /\ credits = UNION {CreditsOf(i, file[i]) : i \in OnShelf}
  /\ labelled = [k \in Kinds |-> UNION {LabelledAs(k, i, file[i]) : i \in OnShelf}]
  /\ \A n \in AuthorNames :
       authors[n] # Absent <=> \E i \in OnShelf : n \in Names(file[i].authors)
  /\ labels = [k \in Kinds |-> UNION {file[i].labels[k] : i \in OnShelf}]
  /\ series = UNION {SeriesNamed(file[i]) : i \in OnShelf}

NamesInOrder(b) == [b EXCEPT !.authors = [k \in DOMAIN @ |-> @[k].name]]

\* What hydrateBooks puts together for a book is what its files say, the
\* authors in their order, but for sort names.
ReadsBack ==
  \A i \in OnShelf : NamesInOrder(Hydrated(i)) = NamesInOrder(file[i])

\* One query, two matchers: the SQL of index.Search and the predicate of the search
\* view select the same books (views/match.go:14), for whole titles as for phrases
\* that fold alike.  Other phrases the view finds in more titles, never in fewer
\* (index/search.go:10-13).  And a bulk edit, for which ctl makes the titles of the
\* text exact (idspec.go:33), touches no book the view does not show for that text.
MatchersAgree ==
  \A q \in Queries :
    /\ \A exact \in BOOLEAN : exact \/ FoldAlike(q) => Search(q, exact) = Shown(q, exact)
    /\ Search(q, FALSE) \subseteq Shown(q, FALSE)
    /\ Search(q, TRUE) \subseteq Shown(q, FALSE)

\* What the parity test skips: phrases whose case is not ASCII's.  The code does not
\* keep it; CatalogFolding.cfg shows how, by hand.
MatchersAgreeOnPhrases == \A q \in Queries : Search(q, FALSE) = Shown(q, FALSE)

\* Ingest takes a book for a duplicate exactly if one of the same title has the
\* same set of authors (BookExists compares a number and a difference).
DuplicateRule ==
  \A t \in Titles, ns \in {ns \in SUBSET AuthorNames : IsFiniteSet(ns)} :
    BookExists(t, ns) <=> \E i \in OnShelf : file[i].title = t /\ Names(file[i].authors) = ns

\* The facets count the books of each name, and the numbers of GetStats, which
\* counts rows, are the numbers of facets that have a book.
CountsAddUp ==
  /\ \A n \in AuthorNames :
       AuthorFacet(n) = Cardinality({i \in OnShelf : n \in Names(file[i].authors)})
  /\ \A t \in Labels : TagFacet(t) = Cardinality({i \in OnShelf : t \in file[i].labels["tag"]})
  /\ Stats = [authors |-> Cardinality({n \in AuthorNames : AuthorFacet(n) > 0}),
              series |-> Cardinality({s \in SeriesNames : SeriesFacet(s) > 0}),
              tags |-> Cardinality({t \in Labels : TagFacet(t) > 0})]

\* No edit leaves files behind that a rebuild cannot insert: one of them would
\* undo the rebuild of every book (validateRating).
CanRebuild == \A i \in OnShelf : file[i].rating # NaN
=============================================================================
