--------------------------- MODULE CatalogProofs ---------------------------
(* What the tables of the index hold for any books, edits and queries: by    *)
(* Kept what a rebuild would write, and by Told what the tree was told too.  *)
EXTENDS Catalog, FiniteSetTheorems, TLAPS

\* What TypeOK says of the files and the tree, and the tables as they are kept.
Kept ==
  /\ file \in [Ids -> Books \union {None}]
  /\ served \in [Ids -> Books \union {None}]
  /\ authors \in [AuthorNames -> SortNames \union {None, Absent}]
  /\ CanRebuild
  /\ DerivedFromFiles

\* Two books that differ in sort names only.
Alike(b, c) == NamesInOrder(b) = NamesInOrder(c)

\* What each table has of the books of some files.
AllCredits(fl)     == UNION {CreditsOf(i, fl[i]) : i \in {j \in Ids : fl[j] # None}}
AllLabelled(k, fl) == UNION {LabelledAs(k, i, fl[i]) : i \in {j \in Ids : fl[j] # None}}
AllLabels(k, fl)   == UNION {fl[i].labels[k] : i \in {j \in Ids : fl[j] # None}}
AllSeries(fl)      == UNION {SeriesNamed(fl[i]) : i \in {j \in Ids : fl[j] # None}}

BookOf(x) == x[1]

InSeries(rs, i, s) == rs[i] # None /\ rs[i].series = s

Named(n, fl) == \E i \in Ids : fl[i] # None /\ n \in Names(fl[i].authors)

-----------------------------------------------------------------------------
(* Books and their parts. *)

LEMMA InAllCredits ==
  ASSUME NEW fl, NEW c
  PROVE  c \in AllCredits(fl) <=> \E i \in Ids : fl[i] # None /\ c \in CreditsOf(i, fl[i])
  BY DEF AllCredits

LEMMA InAllLabelled ==
  ASSUME NEW fl, NEW k, NEW x
  PROVE  x \in AllLabelled(k, fl) <=> \E i \in Ids : fl[i] # None /\ x \in LabelledAs(k, i, fl[i])
  BY DEF AllLabelled

LEMMA InAllLabels ==
  ASSUME NEW fl, NEW k, NEW l
  PROVE  l \in AllLabels(k, fl) <=> \E i \in Ids : fl[i] # None /\ l \in fl[i].labels[k]
  BY DEF AllLabels

LEMMA InAllSeries ==
  ASSUME NEW fl, NEW s
  PROVE  s \in AllSeries(fl) <=> \E i \in Ids : fl[i] # None /\ s \in SeriesNamed(fl[i])
  BY DEF AllSeries

\* DerivedFromFiles, in these words.
LEMMA DerivedMeans ==
  DerivedFromFiles <=>
    /\ books = [i \in Ids |-> IF file[i] = None THEN None ELSE RowOf(file[i])]
    /\ credits = AllCredits(file)
    /\ labelled = [k \in Kinds |-> AllLabelled(k, file)]
    /\ \A n \in AuthorNames : authors[n] # Absent <=> Named(n, file)
    /\ labels = [k \in Kinds |-> AllLabels(k, file)]
    /\ series = AllSeries(file)
  BY DEF DerivedFromFiles, OnShelf, AllCredits, AllLabelled, AllLabels, AllSeries, Named

LEMMA BookFields ==
  ASSUME NEW b \in Books
  PROVE  /\ b.title \in Titles /\ b.authors \in Seq(Authors) /\ b.series \in Volumes
         /\ b.labels \in [Kinds -> SUBSET Labels] /\ b.status \in Statuses
         /\ b.rating \in Ratings \union {NaN} /\ b # None
  BY CatalogAssumption DEF Books

LEMMA CreditFields ==
  ASSUME NEW b, NEW i, NEW c
  PROVE  c \in CreditsOf(i, b) <=>
           \E k \in DOMAIN b.authors : c = [book |-> i, name |-> b.authors[k].name, place |-> k]
  BY DEF CreditsOf

LEMMA CreditNames ==
  ASSUME NEW b, NEW i, NEW n
  PROVE  (\E c \in CreditsOf(i, b) : c.name = n) <=> n \in Names(b.authors)
<1>1. \A c \in CreditsOf(i, b) : c.name \in Names(b.authors)
  BY DEF CreditsOf, Names
<1>2. ASSUME n \in Names(b.authors) PROVE \E c \in CreditsOf(i, b) : c.name = n
  <2>1. PICK k \in DOMAIN b.authors : n = b.authors[k].name
    BY <1>2 DEF Names
  <2> DEFINE c == [book |-> i, name |-> b.authors[k].name, place |-> k]
  <2>2. c \in CreditsOf(i, b) /\ c.name = n
    BY <2>1 DEF CreditsOf
  <2> QED
    BY <2>2
<1> QED
  BY <1>1, <1>2

LEMMA CreditBook ==
  ASSUME NEW b, NEW i, NEW c \in CreditsOf(i, b)
  PROVE  c.book = i
  BY DEF CreditsOf

LEMMA InOrder ==
  ASSUME NEW x \in Books
  PROVE  /\ NamesInOrder(x).authors = [k \in DOMAIN x.authors |-> x.authors[k].name]
         /\ NamesInOrder(x).title = x.title
         /\ NamesInOrder(x).series = x.series
         /\ NamesInOrder(x).labels = x.labels
         /\ NamesInOrder(x).status = x.status
         /\ NamesInOrder(x).rating = x.rating
<1> DEFINE ns == [k \in DOMAIN x.authors |-> x.authors[k].name]
<1>1. NamesInOrder(x) = [x EXCEPT !.authors = ns]
  BY DEF NamesInOrder
<1> HIDE DEF ns
<1>2. /\ NamesInOrder(x).authors = ns
      /\ NamesInOrder(x).title = x.title
      /\ NamesInOrder(x).series = x.series
      /\ NamesInOrder(x).labels = x.labels
      /\ NamesInOrder(x).status = x.status
      /\ NamesInOrder(x).rating = x.rating
  BY <1>1 DEF Books
<1> QED
  BY <1>2 DEF ns

\* Books that differ in sort names only have the same rows but for those.
LEMMA AlikeRows ==
  ASSUME NEW b \in Books, NEW c \in Books, Alike(b, c)
  PROVE  /\ RowOf(b) = RowOf(c)
         /\ \A i \in Ids : CreditsOf(i, b) = CreditsOf(i, c)
         /\ Names(b.authors) = Names(c.authors)
         /\ b.labels = c.labels
         /\ SeriesNamed(b) = SeriesNamed(c)
         /\ b.rating = c.rating
<1>1. NamesInOrder(b) = NamesInOrder(c)
  BY DEF Alike
<1>2. /\ b.title = c.title /\ b.series = c.series /\ b.labels = c.labels
      /\ b.status = c.status /\ b.rating = c.rating
  <2> DEFINE p == NamesInOrder(b)
             q == NamesInOrder(c)
  <2>1. /\ p.title = b.title /\ p.series = b.series /\ p.labels = b.labels
        /\ p.status = b.status /\ p.rating = b.rating
    BY InOrder
  <2>2. /\ q.title = c.title /\ q.series = c.series /\ q.labels = c.labels
        /\ q.status = c.status /\ q.rating = c.rating
    BY InOrder
  <2>3. p = q
    BY <1>1
  <2> HIDE DEF p, q
  <2> QED
    BY <2>1, <2>2, <2>3
<1>3. [k \in DOMAIN b.authors |-> b.authors[k].name] = [k \in DOMAIN c.authors |-> c.authors[k].name]
  <2>1. NamesInOrder(b).authors = [k \in DOMAIN b.authors |-> b.authors[k].name]
    BY InOrder
  <2>2. NamesInOrder(c).authors = [k \in DOMAIN c.authors |-> c.authors[k].name]
    BY InOrder
  <2> QED
    BY <1>1, <2>1, <2>2, Zenon
<1>4. DOMAIN b.authors = DOMAIN c.authors /\ \A k \in DOMAIN b.authors : b.authors[k].name = c.authors[k].name
  BY <1>3
<1>5. RowOf(b) = RowOf(c)
  BY <1>2 DEF RowOf
<1>6. ASSUME NEW i \in Ids PROVE CreditsOf(i, b) = CreditsOf(i, c)
  <2>1. ASSUME NEW x \in CreditsOf(i, b) PROVE x \in CreditsOf(i, c)
    <3>1. PICK k \in DOMAIN b.authors : x = [book |-> i, name |-> b.authors[k].name, place |-> k]
      BY DEF CreditsOf
    <3>2. k \in DOMAIN c.authors /\ x = [book |-> i, name |-> c.authors[k].name, place |-> k]
      BY <1>4, <3>1
    <3> QED
      BY <3>2 DEF CreditsOf
  <2>2. ASSUME NEW x \in CreditsOf(i, c) PROVE x \in CreditsOf(i, b)
    <3>1. PICK k \in DOMAIN c.authors : x = [book |-> i, name |-> c.authors[k].name, place |-> k]
      BY DEF CreditsOf
    <3>2. k \in DOMAIN b.authors /\ x = [book |-> i, name |-> b.authors[k].name, place |-> k]
      BY <1>4, <3>1
    <3> QED
      BY <3>2 DEF CreditsOf
  <2> QED
    BY <2>1, <2>2
<1>7. Names(b.authors) = Names(c.authors)
  <2>1. \A n : n \in Names(b.authors) <=> \E k \in DOMAIN b.authors : n = b.authors[k].name
    BY DEF Names
  <2>2. \A n : n \in Names(c.authors) <=> \E k \in DOMAIN c.authors : n = c.authors[k].name
    BY DEF Names
  <2>3. \A n : n \in Names(b.authors) <=> n \in Names(c.authors)
    BY <1>4, <2>1, <2>2
  <2> QED
    BY <2>3
<1>8. SeriesNamed(b) = SeriesNamed(c)
  BY <1>2 DEF SeriesNamed
<1> QED
  BY <1>2, <1>5, <1>6, <1>7, <1>8

-----------------------------------------------------------------------------
(* The transactions.  fl is what the files say after one. *)

LEMMA ShelfBooks ==
  ASSUME Kept, NEW i \in Ids, file[i] # None
  PROVE  file[i] \in Books
  BY DEF Kept

\* The credits and links of all books after those of i have been replaced.
LEMMA ReplacedCredits ==
  ASSUME NEW fl, NEW new, NEW i \in Ids, NEW b, b # None,
         new[i] = b, \A j \in Ids \ {i} : new[j] = fl[j], NEW c
  PROVE  c \in AllCredits(new) <=> (c \in AllCredits(fl) /\ c.book # i) \/ c \in CreditsOf(i, b)
<1>1. c \in AllCredits(new) <=> \E j \in Ids : new[j] # None /\ c \in CreditsOf(j, new[j])
  BY InAllCredits
<1>2. c \in AllCredits(fl) <=> \E j \in Ids : fl[j] # None /\ c \in CreditsOf(j, fl[j])
  BY InAllCredits
<1>3. \A j \in Ids : c \in CreditsOf(j, fl[j]) => c.book = j
  BY CreditBook
<1>4. ASSUME c \in AllCredits(new), c \notin CreditsOf(i, b)
      PROVE  c \in AllCredits(fl) /\ c.book # i
  BY <1>1, <1>2, <1>3, <1>4
<1>5. ASSUME c \in AllCredits(fl), c.book # i PROVE c \in AllCredits(new)
  BY <1>1, <1>2, <1>3, <1>5
<1>6. ASSUME c \in CreditsOf(i, b) PROVE c \in AllCredits(new)
  BY <1>1, <1>6
<1> QED
  BY <1>4, <1>5, <1>6

LEMMA ReplacedLinks ==
  ASSUME NEW fl, NEW new, NEW i \in Ids, NEW b, b # None,
         new[i] = b, \A j \in Ids \ {i} : new[j] = fl[j], NEW k, NEW x
  PROVE  x \in AllLabelled(k, new) <=> (x \in AllLabelled(k, fl) /\ BookOf(x) # i) \/ x \in LabelledAs(k, i, b)
<1>1. x \in AllLabelled(k, new) <=> \E j \in Ids : new[j] # None /\ x \in LabelledAs(k, j, new[j])
  BY InAllLabelled
<1>2. x \in AllLabelled(k, fl) <=> \E j \in Ids : fl[j] # None /\ x \in LabelledAs(k, j, fl[j])
  BY InAllLabelled
<1>3. \A j \in Ids : x \in LabelledAs(k, j, fl[j]) => BookOf(x) = j
  BY DEF LabelledAs, BookOf
<1>4. ASSUME x \in AllLabelled(k, new), x \notin LabelledAs(k, i, b)
      PROVE  x \in AllLabelled(k, fl) /\ BookOf(x) # i
  BY <1>1, <1>2, <1>3, <1>4
<1>5. ASSUME x \in AllLabelled(k, fl), BookOf(x) # i PROVE x \in AllLabelled(k, new)
  BY <1>1, <1>2, <1>3, <1>5
<1>6. ASSUME x \in LabelledAs(k, i, b) PROVE x \in AllLabelled(k, new)
  BY <1>1, <1>6
<1> QED
  BY <1>4, <1>5, <1>6

\* And after those of i have been removed.
LEMMA RemovedCredits ==
  ASSUME NEW fl, NEW new, NEW i \in Ids,
         new[i] = None, \A j \in Ids \ {i} : new[j] = fl[j], NEW c
  PROVE  c \in AllCredits(new) <=> c \in AllCredits(fl) /\ c.book # i
<1>1. c \in AllCredits(new) <=> \E j \in Ids : new[j] # None /\ c \in CreditsOf(j, new[j])
  BY InAllCredits
<1>2. c \in AllCredits(fl) <=> \E j \in Ids : fl[j] # None /\ c \in CreditsOf(j, fl[j])
  BY InAllCredits
<1>3. \A j \in Ids : c \in CreditsOf(j, fl[j]) => c.book = j
  BY CreditBook
<1>4. ASSUME c \in AllCredits(new) PROVE c \in AllCredits(fl) /\ c.book # i
  BY <1>1, <1>2, <1>3, <1>4
<1>5. ASSUME c \in AllCredits(fl), c.book # i PROVE c \in AllCredits(new)
  BY <1>1, <1>2, <1>3, <1>5
<1> QED
  BY <1>4, <1>5

LEMMA RemovedLinks ==
  ASSUME NEW fl, NEW new, NEW i \in Ids,
         new[i] = None, \A j \in Ids \ {i} : new[j] = fl[j], NEW k, NEW x
  PROVE  x \in AllLabelled(k, new) <=> x \in AllLabelled(k, fl) /\ BookOf(x) # i
<1>1. x \in AllLabelled(k, new) <=> \E j \in Ids : new[j] # None /\ x \in LabelledAs(k, j, new[j])
  BY InAllLabelled
<1>2. x \in AllLabelled(k, fl) <=> \E j \in Ids : fl[j] # None /\ x \in LabelledAs(k, j, fl[j])
  BY InAllLabelled
<1>3. \A j \in Ids : x \in LabelledAs(k, j, fl[j]) => BookOf(x) = j
  BY DEF LabelledAs, BookOf
<1>4. ASSUME x \in AllLabelled(k, new) PROVE x \in AllLabelled(k, fl) /\ BookOf(x) # i
  BY <1>1, <1>2, <1>3, <1>4
<1>5. ASSUME x \in AllLabelled(k, fl), BookOf(x) # i PROVE x \in AllLabelled(k, new)
  BY <1>1, <1>2, <1>3, <1>5
<1> QED
  BY <1>4, <1>5

\* Whose names are credited are the authors of the books.
LEMMA CreditedNames ==
  ASSUME NEW fl, NEW n
  PROVE  (\E c \in AllCredits(fl) : c.name = n) <=> Named(n, fl)
<1>1. ASSUME NEW c \in AllCredits(fl), c.name = n PROVE Named(n, fl)
  <2>1. PICK i \in Ids : fl[i] # None /\ c \in CreditsOf(i, fl[i])
    BY InAllCredits
  <2> QED
    BY <1>1, <2>1, CreditNames DEF Named
<1>2. ASSUME Named(n, fl) PROVE \E c \in AllCredits(fl) : c.name = n
  <2>1. PICK i \in Ids : fl[i] # None /\ n \in Names(fl[i].authors)
    BY <1>2 DEF Named
  <2>2. PICK c \in CreditsOf(i, fl[i]) : c.name = n
    BY <2>1, CreditNames
  <2> QED
    BY <2>1, <2>2, InAllCredits
<1> QED
  BY <1>1, <1>2

\* A label survives the sweep if a book has it.
LEMMA LinkedLabels ==
  ASSUME NEW fl, NEW k, NEW l
  PROVE  (\E x \in AllLabelled(k, fl) : x[2] = l) <=> l \in AllLabels(k, fl)
<1>1. ASSUME NEW x \in AllLabelled(k, fl), x[2] = l PROVE l \in AllLabels(k, fl)
  <2>1. PICK i \in Ids : fl[i] # None /\ x \in LabelledAs(k, i, fl[i])
    BY InAllLabelled
  <2>2. l \in fl[i].labels[k]
    BY <1>1, <2>1 DEF LabelledAs
  <2> QED
    BY <2>1, <2>2, InAllLabels
<1>2. ASSUME l \in AllLabels(k, fl) PROVE \E x \in AllLabelled(k, fl) : x[2] = l
  <2>1. PICK i \in Ids : fl[i] # None /\ l \in fl[i].labels[k]
    BY <1>2, InAllLabels
  <2>2. <<i, l>> \in LabelledAs(k, i, fl[i])
    BY <2>1 DEF LabelledAs
  <2>3. <<i, l>> \in AllLabelled(k, fl) /\ <<i, l>>[2] = l
    BY <2>1, <2>2, InAllLabelled
  <2> QED
    BY <2>3
<1> QED
  BY <1>1, <1>2

LEMMA RowTypes ==
  ASSUME NEW b \in Books, b.rating # NaN
  PROVE  RowOf(b) \in Rows /\ RowOf(b) # None
<1>1. b.series \in Volumes /\ b.title \in Titles /\ b.status \in Statuses /\ b.rating \in Ratings
  BY BookFields
<1>2. b.series = None \/ (b.series.name \in SeriesNames /\ b.series.position \in Positions)
  BY <1>1 DEF Volumes
<1> QED
  BY <1>1, <1>2, CatalogAssumption DEF RowOf, Rows

\* What the files name, and what the rows do.
LEMMA SeriesLinked ==
  ASSUME NEW fl, fl \in [Ids -> Books \union {None}],
         \A i \in Ids : fl[i] # None => fl[i].rating # NaN,
         NEW rs, \A i \in Ids : rs[i] = IF fl[i] = None THEN None ELSE RowOf(fl[i]),
         NEW s
  PROVE  s \in AllSeries(fl) <=>
           s \in SeriesNames /\ \E i \in Ids : InSeries(rs, i, s)
<1>1. ASSUME NEW i \in Ids
      PROVE  fl[i] # None /\ s \in SeriesNamed(fl[i]) <=>
               s \in SeriesNames /\ rs[i] # None /\ rs[i].series = s
  <2>1. CASE fl[i] = None
    BY <2>1
  <2>2. CASE fl[i] # None
    <3>1. fl[i] \in Books /\ fl[i].rating # NaN /\ rs[i] = RowOf(fl[i])
      BY <2>2
    <3>2. rs[i] # None /\ fl[i].series \in Volumes
      BY <3>1, RowTypes, BookFields
    <3>3. CASE fl[i].series = None
      <4>1. rs[i].series = None /\ SeriesNamed(fl[i]) = {}
        BY <3>1, <3>3 DEF RowOf, SeriesNamed
      <4>2. None \notin SeriesNames
        BY CatalogAssumption
      <4> QED
        BY <4>1, <4>2
    <3>4. CASE fl[i].series # None
      <4>1. rs[i].series = fl[i].series.name /\ SeriesNamed(fl[i]) = {fl[i].series.name}
        BY <3>1, <3>4 DEF RowOf, SeriesNamed
      <4>2. fl[i].series.name \in SeriesNames
        BY <3>2, <3>4 DEF Volumes
      <4> QED
        BY <2>2, <3>2, <4>1, <4>2
    <3> QED
      BY <3>3, <3>4
  <2> QED
    BY <2>1, <2>2
<1> QED
  BY <1>1, InAllSeries DEF InSeries

LEMMA IsSeq ==
  ASSUME NEW S, NEW n \in Nat, NEW s \in [1 .. n -> S]
  PROVE  s \in Seq(S)
  OBVIOUS

LEMMA InSeq ==
  ASSUME NEW S, NEW s \in Seq(S), NEW j \in DOMAIN s
  PROVE  s[j] \in S /\ j \in Nat
<1>1. DOMAIN s = 1 .. Len(s) /\ Len(s) \in Nat
  OBVIOUS
<1> QED
  BY <1>1

LEMMA SortInTypes ==
  ASSUME NEW b \in Books, NEW n \in Names(b.authors)
  PROVE  SortIn(b, n) \in SortNames \union {None} /\ SortIn(b, n) # Absent
<1>1. b.authors \in Seq(Authors)
  BY BookFields
<1>2. \E k \in DOMAIN b.authors : b.authors[k].name = n
  BY DEF Names
<1> DEFINE k == CHOOSE k \in DOMAIN b.authors : b.authors[k].name = n
<1>3. k \in DOMAIN b.authors
  BY <1>2
<1>4. SortIn(b, n) = b.authors[k].sort
  BY DEF SortIn
<1> HIDE DEF k
<1>5. b.authors[k] \in Authors
  BY <1>1, <1>3, InSeq
<1> QED
  BY <1>4, <1>5, CatalogAssumption DEF Authors

\* putBook, with a record of the book that may have other sort names.
LEMMA PutKeeps ==
  ASSUME Kept, NEW i \in Ids, NEW b \in Books, NEW c \in Books, Alike(b, c),
         b.rating # NaN, file' = [file EXCEPT ![i] = b],
         served' \in [Ids -> Books \union {None}], Put(i, c)
  PROVE  Kept'
<1>1. /\ file \in [Ids -> Books \union {None}] /\ file' \in [Ids -> Books \union {None}]
      /\ b # None /\ file'[i] = b /\ \A j \in Ids \ {i} : file'[j] = file[j]
  BY BookFields DEF Kept
<1>2. /\ \A j \in Ids : file[j] # None => file[j].rating # NaN
      /\ \A j \in Ids : file'[j] # None => file'[j].rating # NaN
  BY DEF Kept, CanRebuild, OnShelf
<1>3. /\ books = [j \in Ids |-> IF file[j] = None THEN None ELSE RowOf(file[j])]
      /\ credits = AllCredits(file)
      /\ labelled = [k \in Kinds |-> AllLabelled(k, file)]
      /\ \A n \in AuthorNames : authors[n] # Absent <=> Named(n, file)
      /\ labels = [k \in Kinds |-> AllLabels(k, file)]
      /\ series = AllSeries(file)
  BY DerivedMeans DEF Kept
<1>4. /\ RowOf(b) = RowOf(c) /\ CreditsOf(i, b) = CreditsOf(i, c)
      /\ b.labels = c.labels /\ SeriesNamed(b) = SeriesNamed(c)
      /\ Names(b.authors) = Names(c.authors)
  BY AlikeRows
<1>5. books' = [j \in Ids |-> IF file'[j] = None THEN None ELSE RowOf(file'[j])]
  <2>1. books' = [books EXCEPT ![i] = RowOf(c)]
    BY DEF Put
  <2> QED
    BY <1>1, <1>3, <1>4, <2>1
<1>6. credits' = AllCredits(file')
  <2>1. credits' = Recredited(i, c)
    BY DEF Put
  <2>2. ASSUME NEW x
        PROVE  x \in AllCredits(file') <=> (x \in AllCredits(file) /\ x.book # i) \/ x \in CreditsOf(i, b)
    BY <1>1, ReplacedCredits, ZenonT(40)
  <2> QED
    BY <1>3, <1>4, <2>1, <2>2 DEF Recredited, CreditsBut
<1>7. labelled' = [k \in Kinds |-> AllLabelled(k, file')]
  <2>1. labelled' = [k \in Kinds |-> Relabelled(k, i, c)]
    BY DEF Put
  <2>2. ASSUME NEW k \in Kinds PROVE Relabelled(k, i, c) = AllLabelled(k, file')
    <3>1. LabelledAs(k, i, b) = LabelledAs(k, i, c)
      BY <1>4 DEF LabelledAs
    <3>2. ASSUME NEW x
          PROVE  x \in AllLabelled(k, file') <=>
                   (x \in AllLabelled(k, file) /\ BookOf(x) # i) \/ x \in LabelledAs(k, i, b)
      BY <1>1, ReplacedLinks, ZenonT(40)
    <3> QED
      BY <1>3, <3>1, <3>2 DEF Relabelled, LabelledBut, BookOf
  <2> QED
    BY <2>1, <2>2
<1>8. authors' = SweptAuthors(WithAuthors(c), credits')
  BY DEF Put
<1>9. authors' \in [AuthorNames -> SortNames \union {None, Absent}]
  <2>1. ASSUME NEW n \in AuthorNames PROVE WithAuthors(c)[n] \in SortNames \union {None, Absent}
    BY SortInTypes DEF WithAuthors, Kept
  <2> QED
    BY <1>8, <2>1 DEF SweptAuthors
<1>10. ASSUME NEW n \in AuthorNames PROVE authors'[n] # Absent <=> Named(n, file')
  <2>1. authors'[n] = IF Named(n, file') THEN WithAuthors(c)[n] ELSE Absent
    BY <1>6, <1>8, CreditedNames DEF SweptAuthors
  <2>2. ASSUME Named(n, file') PROVE WithAuthors(c)[n] # Absent
    <3>1. CASE n \in Names(c.authors)
      BY <3>1, SortInTypes DEF WithAuthors
    <3>2. CASE n \notin Names(c.authors)
      <4>1. Named(n, file)
        BY <1>1, <1>4, <2>2, <3>2 DEF Named
      <4> QED
        BY <1>3, <3>2, <4>1 DEF WithAuthors
    <3> QED
      BY <3>1, <3>2
  <2> QED
    BY <2>1, <2>2
<1>11. labels' = [k \in Kinds |-> AllLabels(k, file')]
  <2>1. labels' = [k \in Kinds |-> SweptLabels(WithLabels(k, c), labelled'[k])]
    BY <1>7 DEF Put
  <2>2. ASSUME NEW k \in Kinds PROVE SweptLabels(WithLabels(k, c), labelled'[k]) = AllLabels(k, file')
    <3>1. ASSUME NEW l PROVE (\E x \in labelled'[k] : x[2] = l) <=> l \in AllLabels(k, file')
      BY <1>7, LinkedLabels
    <3>2. ASSUME NEW l \in AllLabels(k, file') PROVE l \in labels[k] \union c.labels[k]
      <4>1. PICK j \in Ids : file'[j] # None /\ l \in file'[j].labels[k]
        BY InAllLabels
      <4>2. CASE j = i
        BY <1>1, <1>4, <4>1, <4>2
      <4>3. CASE j # i
        BY <1>1, <1>3, <4>1, <4>3, InAllLabels
      <4> QED
        BY <4>2, <4>3
    <3> QED
      BY <3>1, <3>2 DEF SweptLabels, WithLabels
  <2> QED
    BY <2>1, <2>2
<1>12. series' = AllSeries(file')
  <2>1. series' = {s \in series \union SeriesNamed(c) : \E j \in Ids : books'[j] # None /\ books'[j].series = s}
    <3>1. series' = SweptSeries(WithSeries(c), books')
      BY DEF Put
    <3> QED
      BY <3>1 DEF SweptSeries, WithSeries
  <2>2. ASSUME NEW s PROVE s \in AllSeries(file') <=>
            s \in SeriesNames /\ \E j \in Ids : books'[j] # None /\ books'[j].series = s
    <3>1. \A j \in Ids : books'[j] = IF file'[j] = None THEN None ELSE RowOf(file'[j])
      BY <1>5
    <3>2. s \in AllSeries(file') <=> s \in SeriesNames /\ \E j \in Ids : InSeries(books', j, s)
      BY <1>1, <1>2, <3>1, SeriesLinked
    <3> QED
      BY <3>2 DEF InSeries
  <2>3. ASSUME NEW s \in AllSeries(file') PROVE s \in series \union SeriesNamed(c)
    <3>1. PICK j \in Ids : file'[j] # None /\ s \in SeriesNamed(file'[j])
      BY InAllSeries
    <3>2. CASE j = i
      BY <1>1, <1>4, <3>1, <3>2
    <3>3. CASE j # i
      BY <1>1, <1>3, <3>1, <3>3, InAllSeries
    <3> QED
      BY <3>2, <3>3
  <2>4. ASSUME NEW s \in series \union SeriesNamed(c) PROVE s \in SeriesNames
    <3>1. CASE s \in series
      BY <1>1, <1>2, <1>3, <3>1, SeriesLinked
    <3>2. CASE s \in SeriesNamed(c)
      <4>1. c.series \in Volumes /\ c.series # None /\ s = c.series.name
        BY <3>2, BookFields DEF SeriesNamed
      <4> QED
        BY <4>1 DEF Volumes
    <3> QED
      BY <2>4, <3>1, <3>2
  <2> QED
    BY <2>1, <2>2, <2>3, <2>4
<1>13. DerivedFromFiles'
  BY <1>5, <1>6, <1>7, <1>10, <1>11, <1>12
     DEF DerivedFromFiles, OnShelf, AllCredits, AllLabelled, AllLabels, AllSeries, Named
<1> QED
  BY <1>1, <1>2, <1>9, <1>13 DEF Kept, CanRebuild, OnShelf

\* deleteBook.
LEMMA EraseKeeps ==
  ASSUME Kept, NEW i \in Ids, file' = [file EXCEPT ![i] = None],
         served' \in [Ids -> Books \union {None}], Erase(i)
  PROVE  Kept'
<1>1. /\ file \in [Ids -> Books \union {None}] /\ file' \in [Ids -> Books \union {None}]
      /\ file'[i] = None /\ \A j \in Ids \ {i} : file'[j] = file[j]
  BY DEF Kept
<1>2. /\ \A j \in Ids : file[j] # None => file[j].rating # NaN
      /\ \A j \in Ids : file'[j] # None => file'[j].rating # NaN
  BY DEF Kept, CanRebuild, OnShelf
<1>3. /\ books = [j \in Ids |-> IF file[j] = None THEN None ELSE RowOf(file[j])]
      /\ credits = AllCredits(file)
      /\ labelled = [k \in Kinds |-> AllLabelled(k, file)]
      /\ \A n \in AuthorNames : authors[n] # Absent <=> Named(n, file)
      /\ labels = [k \in Kinds |-> AllLabels(k, file)]
      /\ series = AllSeries(file)
  BY DerivedMeans DEF Kept
<1>4. books' = [j \in Ids |-> IF file'[j] = None THEN None ELSE RowOf(file'[j])]
  <2>1. books' = [books EXCEPT ![i] = None]
    BY DEF Erase
  <2> QED
    BY <1>1, <1>3, <2>1
<1>5. credits' = CreditsBut(i) /\ credits' = AllCredits(file')
  <2>1. credits' = CreditsBut(i)
    BY DEF Erase
  <2>2. ASSUME NEW x
        PROVE  x \in AllCredits(file') <=> x \in AllCredits(file) /\ x.book # i
    BY <1>1, RemovedCredits, ZenonT(40)
  <2> QED
    BY <1>3, <2>1, <2>2 DEF CreditsBut
<1>6. labelled' = [k \in Kinds |-> AllLabelled(k, file')]
  <2>1. labelled' = [k \in Kinds |-> LabelledBut(k, i)]
    BY DEF Erase
  <2>2. ASSUME NEW k \in Kinds PROVE LabelledBut(k, i) = AllLabelled(k, file')
    <3>1. ASSUME NEW x
          PROVE  x \in AllLabelled(k, file') <=> x \in AllLabelled(k, file) /\ BookOf(x) # i
      BY <1>1, RemovedLinks, ZenonT(40)
    <3> QED
      BY <1>3, <3>1 DEF LabelledBut, BookOf
  <2> QED
    BY <2>1, <2>2
<1>7. authors' = SweptAuthors(authors, credits')
  BY <1>5 DEF Erase
<1>8. authors' \in [AuthorNames -> SortNames \union {None, Absent}]
  BY <1>7 DEF SweptAuthors, Kept
<1>9. ASSUME NEW n \in AuthorNames PROVE authors'[n] # Absent <=> Named(n, file')
  <2>1. authors'[n] = IF Named(n, file') THEN authors[n] ELSE Absent
    BY <1>5, <1>7, CreditedNames DEF SweptAuthors
  <2>2. Named(n, file') => Named(n, file)
    BY <1>1 DEF Named
  <2> QED
    BY <1>3, <2>1, <2>2
<1>10. labels' = [k \in Kinds |-> AllLabels(k, file')]
  <2>1. labels' = [k \in Kinds |-> SweptLabels(labels[k], labelled'[k])]
    BY <1>6 DEF Erase
  <2>2. ASSUME NEW k \in Kinds PROVE SweptLabels(labels[k], labelled'[k]) = AllLabels(k, file')
    <3>1. ASSUME NEW l PROVE (\E x \in labelled'[k] : x[2] = l) <=> l \in AllLabels(k, file')
      BY <1>6, LinkedLabels
    <3>2. ASSUME NEW l \in AllLabels(k, file') PROVE l \in labels[k]
      <4>1. PICK j \in Ids : file'[j] # None /\ l \in file'[j].labels[k]
        BY InAllLabels
      <4> QED
        BY <1>1, <1>3, <4>1, InAllLabels
    <3> QED
      BY <3>1, <3>2 DEF SweptLabels
  <2> QED
    BY <2>1, <2>2
<1>11. series' = AllSeries(file')
  <2>1. series' = {s \in series : \E j \in Ids : books'[j] # None /\ books'[j].series = s}
    <3>1. series' = SweptSeries(series, books')
      BY DEF Erase
    <3> QED
      BY <3>1 DEF SweptSeries
  <2>2. ASSUME NEW s PROVE s \in AllSeries(file') <=>
            s \in SeriesNames /\ \E j \in Ids : books'[j] # None /\ books'[j].series = s
    <3>1. \A j \in Ids : books'[j] = IF file'[j] = None THEN None ELSE RowOf(file'[j])
      BY <1>4
    <3>2. s \in AllSeries(file') <=> s \in SeriesNames /\ \E j \in Ids : InSeries(books', j, s)
      BY <1>1, <1>2, <3>1, SeriesLinked
    <3> QED
      BY <3>2 DEF InSeries
  <2>3. ASSUME NEW s \in AllSeries(file') PROVE s \in series
    <3>1. PICK j \in Ids : file'[j] # None /\ s \in SeriesNamed(file'[j])
      BY InAllSeries
    <3> QED
      BY <1>1, <1>3, <3>1, InAllSeries
  <2>4. ASSUME NEW s \in series PROVE s \in SeriesNames
    BY <1>1, <1>2, <1>3, SeriesLinked
  <2> QED
    BY <2>1, <2>2, <2>3, <2>4
<1>12. DerivedFromFiles'
  BY <1>4, <1>5, <1>6, <1>9, <1>10, <1>11
     DEF DerivedFromFiles, OnShelf, AllCredits, AllLabelled, AllLabels, AllSeries, Named
<1> QED
  BY <1>1, <1>2, <1>8, <1>12 DEF Kept, CanRebuild, OnShelf

\* rebuildTx leaves what is derived as it is, but for sort names.
LEMMA RebuildKeeps ==
  ASSUME Kept, Rebuild, UNCHANGED <<file, served>>
  PROVE  Kept'
<1>1. PICK sort \in [AuthorNames -> SortNames \union {None}] : authors' = SweptAuthors(sort, AllCredits(file))
  BY DEF Rebuild, AllCredits, OnShelf
<1>2. authors' \in [AuthorNames -> SortNames \union {None, Absent}]
  BY <1>1 DEF SweptAuthors
<1>3. ASSUME NEW n \in AuthorNames PROVE authors'[n] # Absent <=> Named(n, file)
  <2>1. authors'[n] = IF Named(n, file) THEN sort[n] ELSE Absent
    BY <1>1, CreditedNames DEF SweptAuthors
  <2> QED
    BY <2>1, CatalogAssumption
<1>4. /\ books' = [j \in Ids |-> IF file[j] = None THEN None ELSE RowOf(file[j])]
      /\ credits' = AllCredits(file)
      /\ labelled' = [k \in Kinds |-> AllLabelled(k, file)]
      /\ labels' = [k \in Kinds |-> AllLabels(k, file)]
      /\ series' = AllSeries(file)
  BY DEF Rebuild, OnShelf, AllCredits, AllLabelled, AllLabels, AllSeries
<1>5. DerivedFromFiles'
  BY <1>3, <1>4 DEF DerivedFromFiles, OnShelf, AllCredits, AllLabelled, AllLabels, AllSeries, Named
<1> QED
  BY <1>2, <1>5 DEF Kept, CanRebuild, OnShelf

-----------------------------------------------------------------------------
(* Reads. *)

CreditAt(i, b, k) == [book |-> i, name |-> b.authors[k].name, place |-> k]

UpTo(i, b, n) == {d \in CreditsOf(i, b) : d.place <= n}

LEMMA CreditsUpTo ==
  ASSUME NEW i, NEW b, b.authors \in Seq(Authors), NEW n \in Nat, n <= Len(b.authors)
  PROVE  IsFiniteSet(UpTo(i, b, n)) /\ Cardinality(UpTo(i, b, n)) = n
<1> DEFINE upto == {d \in CreditsOf(i, b) : d.place <= n}
           nth == [k \in 1 .. n |-> CreditAt(i, b, k)]
<1>1. DOMAIN b.authors = 1 .. Len(b.authors) /\ Len(b.authors) \in Nat
  OBVIOUS
<1>2. ASSUME NEW k \in 1 .. n PROVE nth[k] \in upto /\ nth[k].place = k
  <2>1. nth[k] = CreditAt(i, b, k) /\ k \in DOMAIN b.authors
    BY <1>1
  <2> HIDE DEF nth
  <2> QED
    BY <2>1 DEF CreditAt, CreditsOf
<1>3. ASSUME NEW d \in upto PROVE \E k \in 1 .. n : nth[k] = d
  <2>1. PICK k \in DOMAIN b.authors : d = CreditAt(i, b, k)
    BY DEF CreditsOf, CreditAt
  <2>2. d.place = k /\ k <= n
    BY <2>1 DEF CreditAt
  <2> QED
    BY <1>1, <2>1, <2>2
<1>4. DOMAIN nth = 1 .. n /\ nth = [k \in 1 .. n |-> nth[k]]
  OBVIOUS
<1> HIDE DEF upto, nth
<1>5. nth \in [1 .. n -> upto]
  BY <1>2, <1>4
<1>6. \A k, l \in 1 .. n : nth[k] = nth[l] => k = l
  BY <1>2
<1>7. nth \in Bijection(1 .. n, upto)
  BY <1>3, <1>4, <1>5, <1>6 DEF Bijection, Injection, Surjection, IsInjective
<1>8. ExistsBijection(1 .. n, upto)
  BY <1>7 DEF ExistsBijection
<1>9. IsFiniteSet(1 .. n) /\ Cardinality(1 .. n) = n
  BY FS_Interval
<1> QED
  BY <1>8, <1>9, FS_Bijection DEF upto, UpTo

\* The credits of a book are read back in their order.
LEMMA AuthorsRead ==
  ASSUME Kept, NEW i \in Ids, file[i] # None
  PROVE  AuthorsOf(i) = [k \in 1 .. Len(file[i].authors) |->
                          [name |-> file[i].authors[k].name, sort |-> authors[file[i].authors[k].name]]]
<1> DEFINE b == file[i]
           n == Len(b.authors)
           mine == {c \in credits : c.book = i}
           nth(k) == CHOOSE c \in mine : Cardinality({d \in mine : d.place < c.place}) = k - 1
<1>1. b \in Books /\ b.authors \in Seq(Authors) /\ n \in Nat /\ DOMAIN b.authors = 1 .. n
  BY ShelfBooks, BookFields
<1>2. mine = CreditsOf(i, b)
  <2>1. credits = AllCredits(file)
    BY DerivedMeans DEF Kept
  <2>2. ASSUME NEW c PROVE c \in AllCredits(file) <=> \E j \in Ids : file[j] # None /\ c \in CreditsOf(j, file[j])
    BY InAllCredits
  <2>3. \A j \in Ids : \A c : c \in CreditsOf(j, file[j]) => c.book = j
    BY CreditBook
  <2> QED
    BY <2>1, <2>2, <2>3
<1> HIDE DEF b
<1>3. ASSUME NEW c \in mine
      PROVE  /\ c.place \in 1 .. n /\ c = CreditAt(i, b, c.place)
             /\ Cardinality({d \in mine : d.place < c.place}) = c.place - 1
  <2>1. PICK k \in 1 .. n : c = CreditAt(i, b, k)
    BY <1>1, <1>2 DEF CreditsOf, CreditAt
  <2>2. c.place = k
    BY <2>1 DEF CreditAt
  <2>3. \A d \in mine : d.place \in 1 .. n
    BY <1>1, <1>2 DEF CreditsOf
  <2>4. {d \in mine : d.place < c.place} = UpTo(i, b, k - 1)
    BY <1>2, <2>2, <2>3 DEF UpTo
  <2>5. k - 1 \in Nat /\ k - 1 <= Len(b.authors)
    BY <1>1
  <2>6. Cardinality(UpTo(i, b, k - 1)) = k - 1
    BY <1>1, <2>5, CreditsUpTo
  <2> QED
    BY <2>1, <2>2, <2>4, <2>6
<1>4. ASSUME NEW k \in 1 .. n PROVE nth(k) = CreditAt(i, b, k)
  <2>1. CreditAt(i, b, k) \in mine /\ CreditAt(i, b, k).place = k
    BY <1>1, <1>2 DEF CreditsOf, CreditAt
  <2>2. \E c \in mine : Cardinality({d \in mine : d.place < c.place}) = k - 1
    BY <1>3, <2>1
  <2>3. nth(k) \in mine /\ Cardinality({d \in mine : d.place < nth(k).place}) = k - 1
    BY <2>2
  <2> HIDE DEF nth
  <2>4. nth(k).place - 1 = k - 1 /\ nth(k).place \in 1 .. n /\ nth(k) = CreditAt(i, b, nth(k).place)
    BY <1>3, <2>3
  <2>5. nth(k).place = k
    BY <2>4
  <2> QED
    BY <2>4, <2>5
<1>5. Cardinality(mine) = n
  <2>1. \A d \in mine : d.place <= n
    <3>1. ASSUME NEW d \in mine PROVE d.place \in 1 .. n
      BY <1>3
    <3> QED
      BY <1>1, <3>1
  <2>2. mine = UpTo(i, b, n)
    BY <1>2, <2>1 DEF UpTo
  <2>3. n <= Len(b.authors)
    BY <1>1
  <2>4. Cardinality(UpTo(i, b, n)) = n
    BY <1>1, <2>3, CreditsUpTo
  <2> QED
    BY <2>2, <2>4
<1>6. AuthorsOf(i) = [k \in 1 .. n |-> [name |-> nth(k).name, sort |-> authors[nth(k).name]]]
  <2>1. AuthorsOf(i) = [k \in 1 .. Cardinality(mine) |-> [name |-> nth(k).name, sort |-> authors[nth(k).name]]]
    BY DEF AuthorsOf
  <2> QED
    BY <1>5, <2>1
<1>7. ASSUME NEW k \in 1 .. n PROVE nth(k).name = b.authors[k].name
  <2>1. nth(k) = CreditAt(i, b, k)
    BY <1>4
  <2> HIDE DEF nth
  <2> QED
    BY <2>1 DEF CreditAt
<1> HIDE DEF nth, mine
<1> QED
  BY <1>6, <1>7 DEF b

\* hydrateBooks gives the book its files give, but for sort names.
LEMMA HydratedAlike ==
  ASSUME Kept, NEW i \in Ids, file[i] # None
  PROVE  Hydrated(i) \in Books /\ Alike(Hydrated(i), file[i]) /\ Hydrated(i).rating # NaN
<1> DEFINE b == file[i]
           n == Len(b.authors)
           as == AuthorsOf(i)
           ls == [k \in Kinds |-> LabelsOf(k, i)]
<1>1. /\ b \in Books /\ b.rating # NaN /\ n \in Nat /\ DOMAIN b.authors = 1 .. n
      /\ b.title \in Titles /\ b.authors \in Seq(Authors) /\ b.series \in Volumes
      /\ b.labels \in [Kinds -> SUBSET Labels] /\ b.status \in Statuses
      /\ b.rating \in Ratings \union {NaN}
  BY ShelfBooks, BookFields DEF Kept, CanRebuild, OnShelf
<1>2. as = [k \in 1 .. n |-> [name |-> b.authors[k].name, sort |-> authors[b.authors[k].name]]]
  BY AuthorsRead
<1>3. books[i] = RowOf(b)
  BY DerivedMeans DEF Kept
<1>4. VolumeOf(books[i]) = b.series
  <2>1. None \notin SeriesNames
    BY CatalogAssumption
  <2> HIDE DEF b
  <2>2. b.series = None \/ b.series = [name |-> b.series.name, position |-> b.series.position]
    BY <1>1 DEF Volumes
  <2>3. b.series = None \/ b.series.name \in SeriesNames
    BY <1>1 DEF Volumes
  <2> QED
    BY <1>3, <2>1, <2>2, <2>3 DEF VolumeOf, RowOf
<1>5. ls = b.labels
  <2>1. ASSUME NEW k \in Kinds PROVE LabelsOf(k, i) = b.labels[k]
    <3>1. ASSUME NEW x PROVE x \in labelled[k] <=> \E j \in Ids : file[j] # None /\ x \in LabelledAs(k, j, file[j])
      BY InAllLabelled, DerivedMeans DEF Kept
    <3>2. ASSUME NEW l PROVE l \in LabelsOf(k, i) <=> l \in b.labels[k]
      <4>1. l \in LabelsOf(k, i) <=> \E x \in labelled[k] : x[1] = i /\ x[2] = l
        BY DEF LabelsOf
      <4>2. ASSUME NEW x \in labelled[k], x[1] = i, x[2] = l PROVE l \in b.labels[k]
        BY <3>1, <4>2 DEF LabelledAs
      <4>3. ASSUME l \in b.labels[k] PROVE \E x \in labelled[k] : x[1] = i /\ x[2] = l
        <5>1. <<i, l>> \in labelled[k]
          BY <3>1, <4>3 DEF LabelledAs
        <5> QED
          BY <5>1
      <4> QED
        BY <4>1, <4>2, <4>3
    <3> QED
      BY <3>2
  <2> QED
    BY <1>1, <2>1
<1>6. books[i].title = b.title /\ books[i].status = b.status /\ books[i].rating = b.rating
  BY <1>3 DEF RowOf
<1>7. Hydrated(i) = [title |-> b.title, authors |-> as, series |-> b.series, labels |-> b.labels,
                     status |-> b.status, rating |-> b.rating]
  BY <1>4, <1>5, <1>6 DEF Hydrated
<1>8. as \in Seq(Authors)
  <2>1. ASSUME NEW k \in 1 .. n
        PROVE  b.authors[k].name \in AuthorNames /\ authors[b.authors[k].name] \in SortNames \union {None}
    <3>1. b.authors[k] \in Authors
      BY <1>1, InSeq
    <3>2. b.authors[k].name \in AuthorNames
      BY <3>1 DEF Authors
    <3>3. Named(b.authors[k].name, file)
      BY <1>1 DEF Named, Names
    <3>4. authors[b.authors[k].name] # Absent
      BY <3>2, <3>3, DerivedMeans DEF Kept
    <3> QED
      BY <3>2, <3>4 DEF Kept
  <2>2. \A k \in 1 .. n : as[k] \in Authors
    BY <1>2, <2>1 DEF Authors
  <2>3. as = [k \in 1 .. n |-> as[k]]
    BY <1>2
  <2> HIDE DEF as
  <2>4. as \in [1 .. n -> Authors]
    BY <2>2, <2>3
  <2> QED
    BY <1>1, <2>4, IsSeq
<1> HIDE DEF b, as, ls
<1>9. Hydrated(i) \in Books
  <2>1. /\ b.title \in Titles /\ as \in Seq(Authors) /\ b.series \in Volumes
        /\ b.labels \in [Kinds -> SUBSET Labels] /\ b.status \in Statuses
        /\ b.rating \in Ratings \union {NaN}
    BY <1>1, <1>8
  <2> DEFINE t == b.title
             v == b.series
             l == b.labels
             st == b.status
             r == b.rating
  <2> HIDE DEF t, v, l, st, r
  <2>2. [title |-> t, authors |-> as, series |-> v, labels |-> l, status |-> st, rating |-> r] \in Books
    BY <2>1 DEF Books, t, v, l, st, r
  <2> QED
    BY <1>7, <2>2 DEF t, v, l, st, r
<1>10. NamesInOrder(Hydrated(i)) = NamesInOrder(b)
  <2> DEFINE p == [k \in DOMAIN as |-> as[k].name]
             q == [k \in DOMAIN b.authors |-> b.authors[k].name]
  <2>1. p = q
    BY <1>1, <1>2
  <2>2. NamesInOrder(Hydrated(i)) = [Hydrated(i) EXCEPT !.authors = p]
    BY <1>7 DEF NamesInOrder
  <2>3. NamesInOrder(b) = [b EXCEPT !.authors = q]
    BY DEF NamesInOrder
  <2> HIDE DEF p, q
  <2>4. b = [title |-> b.title, authors |-> b.authors, series |-> b.series, labels |-> b.labels,
             status |-> b.status, rating |-> b.rating]
    BY <1>1 DEF Books
  <2>5. [Hydrated(i) EXCEPT !.authors = p] = [title |-> b.title, authors |-> p, series |-> b.series,
             labels |-> b.labels, status |-> b.status, rating |-> b.rating]
    BY <1>7
  <2>6. [b EXCEPT !.authors = q] = [title |-> b.title, authors |-> q, series |-> b.series,
             labels |-> b.labels, status |-> b.status, rating |-> b.rating]
    BY <2>4
  <2> QED
    BY <2>1, <2>2, <2>3, <2>5, <2>6
<1> QED
  BY <1>1, <1>7, <1>9, <1>10 DEF Alike, b

-----------------------------------------------------------------------------
(* Edits. *)

LEMMA MakesBook ==
  ASSUME NEW t \in Titles, NEW as \in Seq(Authors), NEW v \in Volumes,
         NEW l \in [Kinds -> SUBSET Labels], NEW st \in Statuses, NEW r \in Ratings \union {NaN}
  PROVE  [title |-> t, authors |-> as, series |-> v, labels |-> l, status |-> st, rating |-> r] \in Books
  BY DEF Books

LEMMA SeriesTypes ==
  ASSUME NEW cur \in Volumes, NEW e \in Edits, e.position # Blank
  PROVE  SeriesAfter(cur, e) \in Volumes
<1>1. /\ e.series \in SeriesNames \union {Blank, None}
      /\ e.position \in Positions \union {None}
  BY DEF Edits
<1>2. cur = None \/ (cur.name \in SeriesNames /\ cur.position \in Positions)
  BY DEF Volumes
<1>3. FirstPosition \in Positions
  BY CatalogAssumption
<1> DEFINE name == IF e.series # None THEN e.series ELSE IF cur = None THEN Blank ELSE cur.name
           pos == IF e.position # None THEN e.position
                  ELSE IF cur = None THEN FirstPosition ELSE cur.position
<1>4. name \in SeriesNames \union {Blank} /\ pos \in Positions
  BY <1>1, <1>2, <1>3
<1>5. SeriesAfter(cur, e) = IF name = Blank THEN None ELSE [name |-> name, position |-> pos]
  BY DEF SeriesAfter
<1> HIDE DEF name, pos
<1> QED
  BY <1>4, <1>5 DEF Volumes

\* What Validate lets through makes a book of a book, which the schema takes.
LEMMA AppliedTypes ==
  ASSUME NEW e \in Edits, NEW f \in Books, NEW b \in Books, Valid(e, b), b.rating # NaN
  PROVE  Applied(e, f, b) \in Books /\ Applied(e, f, b).rating # NaN /\ Storable(e)
<1>1. /\ e.title \in Titles \union {Blank, None}
      /\ e.authors \in Seq([name : AuthorNames \union {Blank}, sort : SortNames \union {None}]) \union {None}
      /\ e.labels \in [Kinds -> Seq(Labels \union {Blank}) \union {None}]
      /\ e.status \in Statuses \union {Blank, None}
      /\ e.rating \in Ratings \union {NaN, None}
  BY DEF Edits
<1>2. e.status # Blank /\ e.rating # NaN /\ e.title # Blank
  BY DEF Valid, ValidRating
<1>3. f.title \in Titles /\ f.authors \in Seq(Authors) /\ f.series \in Volumes
      /\ f.labels \in [Kinds -> SUBSET Labels]
  BY BookFields
<1>4. b.labels \in [Kinds -> SUBSET Labels] /\ b.status \in Statuses /\ b.rating \in Ratings
  BY BookFields
<1> DEFINE t == OrElse(e.title, f.title)
           as == OrElse(e.authors, f.authors)
           v == SeriesAfter(f.series, e)
           l == [k \in Kinds |->
                   IF e.labels[k] # None THEN Range(e.labels[k]) \ {Blank}
                   ELSE IF k = "tag" THEN b.labels[k] ELSE f.labels[k]]
           st == OrElse(e.status, b.status)
           r == OrElse(e.rating, b.rating)
<1>5. t \in Titles /\ st \in Statuses /\ r \in Ratings
  BY <1>1, <1>2, <1>3, <1>4 DEF OrElse
<1>6. as \in Seq(Authors)
  <2>1. CASE e.authors = None
    BY <1>3, <2>1 DEF OrElse
  <2>2. CASE e.authors # None
    <3> DEFINE list == e.authors
               W == [name : AuthorNames \union {Blank}, sort : SortNames \union {None}]
    <3>1. list \in Seq(W)
      BY <1>1, <2>2
    <3>2. \A k \in DOMAIN list : list[k].name # Blank
      BY <2>2 DEF Valid, ValidAuthors
    <3> HIDE DEF list, W
    <3>3. DOMAIN list = 1 .. Len(list) /\ Len(list) \in Nat /\ list = [k \in 1 .. Len(list) |-> list[k]]
      BY <3>1
    <3>4. ASSUME NEW k \in 1 .. Len(list) PROVE list[k] \in Authors
      <4>1. list[k] \in W /\ list[k].name # Blank
        BY <3>1, <3>2, <3>3, InSeq
      <4> QED
        BY <4>1 DEF W, Authors
    <3>5. list \in [1 .. Len(list) -> Authors]
      BY <3>3, <3>4
    <3>6. list \in Seq(Authors)
      BY <3>3, <3>5, IsSeq
    <3> QED
      BY <2>2, <3>6 DEF OrElse, list
  <2> QED
    BY <2>1, <2>2
<1>7. v \in Volumes
  BY <1>3, SeriesTypes, CatalogAssumption DEF Valid, ValidPosition
<1>8. l \in [Kinds -> SUBSET Labels]
  <2>1. ASSUME NEW k \in Kinds PROVE l[k] \subseteq Labels
    <3>1. CASE e.labels[k] = None
      BY <1>3, <1>4, <3>1
    <3>2. CASE e.labels[k] # None
      <4> DEFINE list == e.labels[k]
      <4>1. list \in Seq(Labels \union {Blank})
        BY <1>1, <3>2
      <4>2. l[k] = Range(list) \ {Blank}
        BY <3>2
      <4> HIDE DEF list, l
      <4>3. \A j \in DOMAIN list : list[j] \in Labels \union {Blank}
        BY <4>1, InSeq
      <4> QED
        BY <4>2, <4>3 DEF Range
    <3> QED
      BY <3>1, <3>2
  <2> QED
    BY <2>1
<1>9. Applied(e, f, b) = [title |-> t, authors |-> as, series |-> v, labels |-> l, status |-> st, rating |-> r]
  BY DEF Applied
<1>10. Storable(e)
  BY <1>2, CatalogAssumption DEF Storable, Valid, ValidLabels
<1> HIDE DEF t, as, v, l, st, r
<1>11. Applied(e, f, b) \in Books
  <2>1. r \in Ratings \union {NaN}
    BY <1>5
  <2>2. [title |-> t, authors |-> as, series |-> v, labels |-> l, status |-> st, rating |-> r] \in Books
    BY <1>5, <1>6, <1>7, <1>8, <2>1, MakesBook
  <2> QED
    BY <1>9, <2>2
<1>12. Applied(e, f, b).rating = r
  BY <1>9
<1> QED
  BY <1>5, <1>10, <1>11, <1>12, CatalogAssumption

\* Sort names go no further than sort names.
LEMMA AppliedAlike ==
  ASSUME NEW e \in Edits, NEW f \in Books, NEW g \in Books, NEW b \in Books, Alike(f, g),
         Applied(e, f, b) \in Books, Applied(e, g, b) \in Books
  PROVE  Alike(Applied(e, f, b), Applied(e, g, b))
<1>1. /\ f.title = g.title /\ f.series = g.series /\ f.labels = g.labels
      /\ [k \in DOMAIN f.authors |-> f.authors[k].name] = [k \in DOMAIN g.authors |-> g.authors[k].name]
  <2> DEFINE p == NamesInOrder(f)
             q == NamesInOrder(g)
  <2>1. /\ p.authors = [k \in DOMAIN f.authors |-> f.authors[k].name]
        /\ p.title = f.title /\ p.series = f.series /\ p.labels = f.labels
    BY InOrder
  <2>2. /\ q.authors = [k \in DOMAIN g.authors |-> g.authors[k].name]
        /\ q.title = g.title /\ q.series = g.series /\ q.labels = g.labels
    BY InOrder
  <2>3. p = q
    BY DEF Alike
  <2> HIDE DEF p, q
  <2> QED
    BY <2>1, <2>2, <2>3, Zenon
<1> DEFINE t == OrElse(e.title, f.title)
           v == SeriesAfter(f.series, e)
           l == [k \in Kinds |->
                   IF e.labels[k] # None THEN Range(e.labels[k]) \ {Blank}
                   ELSE IF k = "tag" THEN b.labels[k] ELSE f.labels[k]]
           st == OrElse(e.status, b.status)
           r == OrElse(e.rating, b.rating)
           p == OrElse(e.authors, f.authors)
           q == OrElse(e.authors, g.authors)
           ps == [k \in DOMAIN p |-> p[k].name]
           qs == [k \in DOMAIN q |-> q[k].name]
<1>2. Applied(e, f, b) = [title |-> t, authors |-> p, series |-> v, labels |-> l, status |-> st, rating |-> r]
  BY DEF Applied
<1>3. Applied(e, g, b) = [title |-> t, authors |-> q, series |-> v, labels |-> l, status |-> st, rating |-> r]
  BY <1>1 DEF Applied
<1>4. ps = qs
  BY <1>1 DEF OrElse
<1> HIDE DEF t, v, l, st, r, p, q
<1>5. NamesInOrder(Applied(e, f, b)) = [Applied(e, f, b) EXCEPT !.authors = ps]
  BY <1>2 DEF NamesInOrder
<1>6. NamesInOrder(Applied(e, g, b)) = [Applied(e, g, b) EXCEPT !.authors = qs]
  BY <1>3 DEF NamesInOrder
<1> HIDE DEF ps, qs
<1> QED
  BY <1>2, <1>3, <1>4, <1>5, <1>6 DEF Alike

-----------------------------------------------------------------------------
(* Every call keeps what is derived. *)

LEMMA InitKept == Init => Kept
<1> SUFFICES ASSUME Init PROVE Kept
  OBVIOUS
<1>1. file = [i \in Ids |-> None] /\ authors = [n \in AuthorNames |-> Absent]
  BY DEF Init
<1>2. \A i \in Ids : file[i] = None
  BY <1>1
<1>3. /\ books = [i \in Ids |-> IF file[i] = None THEN None ELSE RowOf(file[i])]
      /\ \A n \in AuthorNames : authors[n] # Absent <=> Named(n, file)
  BY <1>1, <1>2 DEF Init, Named
<1>4. credits = AllCredits(file) /\ series = AllSeries(file)
  BY <1>2, InAllCredits, InAllSeries DEF Init
<1>5. /\ labels = [k \in Kinds |-> AllLabels(k, file)]
      /\ labelled = [k \in Kinds |-> AllLabelled(k, file)]
  <2>1. ASSUME NEW k \in Kinds PROVE AllLabels(k, file) = {} /\ AllLabelled(k, file) = {}
    BY <1>2, InAllLabels, InAllLabelled
  <2> QED
    BY <2>1 DEF Init
<1>6. DerivedFromFiles
  BY <1>3, <1>4, <1>5, DerivedMeans
<1> QED
  BY <1>1, <1>2, <1>6 DEF Init, Kept, CanRebuild, OnShelf

LEMMA IngestKeeps ==
  ASSUME Kept, NEW i \in Ids, NEW u \in Uploads, Ingest(i, u)
  PROVE  Kept'
<1>1. u \in Books /\ u.rating # NaN
  BY UploadsAssumption, CatalogAssumption
<1>2. file' = [file EXCEPT ![i] = u] /\ served' = [served EXCEPT ![i] = u] /\ Put(i, u)
  BY DEF Ingest
<1>3. served' \in [Ids -> Books \union {None}]
  BY <1>1, <1>2 DEF Kept
<1> QED
  BY <1>1, <1>2, <1>3, PutKeeps DEF Alike

\* A valid edit leaves files behind the row is like.
LEMMA EditMakes ==
  ASSUME Kept, NEW i \in Ids, NEW e \in Asked, Edit(i, e)
  PROVE  /\ file[i] # None
         /\ Applied(e, file[i], Hydrated(i)) \in Books
         /\ Applied(e, file[i], Hydrated(i)).rating # NaN
         /\ Recorded(i, e) \in Books
         /\ Alike(Applied(e, file[i], Hydrated(i)), Recorded(i, e))
         /\ Valid(e, Hydrated(i))
         /\ file' = [file EXCEPT ![i] = Applied(e, file[i], Hydrated(i))]
         /\ served' = [served EXCEPT ![i] = Recorded(i, e)]
         /\ Put(i, Recorded(i, e))
<1>1. e \in Edits
  BY CatalogAssumption
<1>2. file[i] # None /\ file[i] \in Books
  <2>1. books[i] = IF file[i] = None THEN None ELSE RowOf(file[i])
    BY DerivedMeans DEF Kept
  <2> QED
    BY <2>1, ShelfBooks DEF Edit
<1> DEFINE h == Hydrated(i)
           b == Applied(e, file[i], h)
           c == Recorded(i, e)
<1>3. h \in Books /\ Alike(h, file[i]) /\ h.rating # NaN
  BY <1>2, HydratedAlike
<1>4. Valid(e, h) /\ file' = [file EXCEPT ![i] = b]
  BY DEF Edit
<1>5. b \in Books /\ b.rating # NaN /\ Storable(e)
  BY <1>1, <1>2, <1>3, <1>4, AppliedTypes
<1>6. c \in Books /\ Alike(b, c)
  <2>1. Applied(e, h, h) \in Books
    BY <1>1, <1>3, <1>4, AppliedTypes
  <2>2. Alike(file[i], h)
    BY <1>3 DEF Alike
  <2>3. Alike(b, Applied(e, h, h))
    BY <1>1, <1>2, <1>3, <1>5, <2>1, <2>2, AppliedAlike
  <2>4. CASE HasBibEdits(e)
    <3>1. c = b
      BY <2>4 DEF Recorded
    <3> QED
      BY <1>5, <3>1 DEF Alike
  <2>5. CASE ~HasBibEdits(e)
    <3>1. c = Applied(e, h, h)
      BY <2>5 DEF Recorded
    <3> QED
      BY <2>1, <2>3, <3>1
  <2> QED
    BY <2>4, <2>5
<1>7. Put(i, c) /\ served' = [served EXCEPT ![i] = c]
  BY <1>5 DEF Edit
<1> QED
  BY <1>2, <1>4, <1>5, <1>6, <1>7

LEMMA EditKeeps ==
  ASSUME Kept, NEW i \in Ids, NEW e \in Asked, Edit(i, e)
  PROVE  Kept'
<1> DEFINE b == Applied(e, file[i], Hydrated(i))
           c == Recorded(i, e)
<1>1. /\ b \in Books /\ b.rating # NaN /\ c \in Books /\ Alike(b, c)
      /\ file' = [file EXCEPT ![i] = b] /\ served' = [served EXCEPT ![i] = c] /\ Put(i, c)
  BY EditMakes
<1> HIDE DEF b, c
<1>2. served' \in [Ids -> Books \union {None}]
  BY <1>1 DEF Kept
<1> QED
  BY <1>1, <1>2, PutKeeps

LEMMA DeleteKeeps ==
  ASSUME Kept, NEW i \in Ids, Delete(i)
  PROVE  Kept'
<1>1. /\ file' = [file EXCEPT ![i] = None] /\ served' = [served EXCEPT ![i] = None]
      /\ Erase(i)
  BY DEF Delete
<1>2. served' \in [Ids -> Books \union {None}]
  BY <1>1 DEF Kept
<1> QED
  BY <1>1, <1>2, EraseKeeps

LEMMA ReindexKeeps ==
  ASSUME Kept, Reindex
  PROVE  Kept'
<1>1. \A i \in OnShelf : file[i].rating # NaN
  BY DEF Kept, CanRebuild
<1>2. Rebuild /\ UNCHANGED <<file, served>>
  BY <1>1 DEF Reindex
<1> QED
  BY <1>2, RebuildKeeps

LEMMA UnchangedKeeps ==
  ASSUME Kept, UNCHANGED <<file, tables>>, served' \in [Ids -> Books \union {None}]
  PROVE  Kept'
<1>1. DerivedFromFiles'
  BY DEF Kept, DerivedFromFiles, OnShelf, tables
<1> QED
  BY <1>1 DEF Kept, CanRebuild, OnShelf, tables

LEMMA RestartKeeps ==
  ASSUME Kept, Restart
  PROVE  Kept'
<1>1. ASSUME NEW i \in Ids, books[i] # None PROVE Hydrated(i) \in Books
  <2>1. books[i] = IF file[i] = None THEN None ELSE RowOf(file[i])
    BY DerivedMeans DEF Kept
  <2> QED
    BY <1>1, <2>1, HydratedAlike
<1>2. served' = [i \in Ids |-> IF books[i] = None THEN None ELSE Hydrated(i)]
  BY DEF Restart
<1>3. served' \in [Ids -> Books \union {None}]
  BY <1>1, <1>2
<1> QED
  BY <1>3, UnchangedKeeps DEF Restart

LEMMA NextKept == Kept /\ [Next]_vars => Kept'
<1> SUFFICES ASSUME Kept, [Next]_vars PROVE Kept'
  OBVIOUS
<1>1. CASE \E i \in Ids, u \in Uploads : Ingest(i, u)
  BY <1>1, IngestKeeps
<1>2. CASE \E i \in Ids, e \in Asked : Edit(i, e)
  BY <1>2, EditKeeps
<1>3. CASE \E i \in Ids : Delete(i)
  BY <1>3, DeleteKeeps
<1>4. CASE Reindex
  BY <1>4, ReindexKeeps
<1>5. CASE Restart
  BY <1>5, RestartKeeps
<1>6. CASE UNCHANGED vars
  BY <1>6, UnchangedKeeps DEF vars, Kept
<1> QED
  BY <1>1, <1>2, <1>3, <1>4, <1>5, <1>6 DEF Next

LEMMA KeptTypes == Kept => TypeOK
<1> SUFFICES ASSUME Kept PROVE TypeOK
  OBVIOUS
<1>1. /\ books = [i \in Ids |-> IF file[i] = None THEN None ELSE RowOf(file[i])]
      /\ credits = AllCredits(file)
      /\ labelled = [k \in Kinds |-> AllLabelled(k, file)]
      /\ labels = [k \in Kinds |-> AllLabels(k, file)]
      /\ series = AllSeries(file)
  BY DerivedMeans DEF Kept
<1>2. ASSUME NEW i \in Ids, file[i] # None
      PROVE  file[i] \in Books /\ file[i].rating # NaN
  BY <1>2, ShelfBooks DEF Kept, CanRebuild, OnShelf
<1>3. books \in [Ids -> Rows \union {None}]
  <2>1. ASSUME NEW i \in Ids, file[i] # None PROVE RowOf(file[i]) \in Rows
    BY <1>2, <2>1, RowTypes
  <2> QED
    BY <1>1, <2>1
<1>4. credits \subseteq [book : Ids, name : AuthorNames, place : Nat]
  <2> SUFFICES ASSUME NEW c \in credits PROVE c \in [book : Ids, name : AuthorNames, place : Nat]
    OBVIOUS
  <2>1. PICK i \in Ids : file[i] # None /\ c \in CreditsOf(i, file[i])
    BY <1>1, InAllCredits
  <2> DEFINE as == file[i].authors
  <2>2. as \in Seq(Authors)
    BY <1>2, <2>1, BookFields
  <2>3. PICK k \in DOMAIN as : c = [book |-> i, name |-> as[k].name, place |-> k]
    BY <2>1 DEF CreditsOf
  <2> HIDE DEF as
  <2>4. as[k] \in Authors /\ k \in Nat
    BY <2>2, InSeq
  <2> QED
    BY <2>3, <2>4 DEF Authors
<1>5. ASSUME NEW k \in Kinds PROVE labels[k] \subseteq Labels /\ labelled[k] \subseteq Ids \X Labels
  <2>1. ASSUME NEW i \in Ids, file[i] # None PROVE file[i].labels[k] \subseteq Labels
    BY <1>2, <2>1, BookFields
  <2>2. ASSUME NEW l \in labels[k] PROVE l \in Labels
    BY <1>1, <2>1, InAllLabels
  <2>3. ASSUME NEW x \in labelled[k] PROVE x \in Ids \X Labels
    <3>1. PICK i \in Ids : file[i] # None /\ x \in LabelledAs(k, i, file[i])
      BY <1>1, InAllLabelled
    <3> QED
      BY <2>1, <3>1 DEF LabelledAs
  <2> QED
    BY <2>2, <2>3
<1>6. series \subseteq SeriesNames
  <2> SUFFICES ASSUME NEW s \in series PROVE s \in SeriesNames
    OBVIOUS
  <2>1. PICK i \in Ids : file[i] # None /\ s \in SeriesNamed(file[i])
    BY <1>1, InAllSeries
  <2>2. file[i].series \in Volumes
    BY <1>2, <2>1, BookFields
  <2> QED
    BY <2>1, <2>2 DEF SeriesNamed, Volumes
<1>7. labels \in [Kinds -> SUBSET Labels] /\ labelled \in [Kinds -> SUBSET (Ids \X Labels)]
  BY <1>1, <1>5
<1> QED
  BY <1>3, <1>4, <1>6, <1>7 DEF TypeOK, Kept

LEMMA KeptReads == Kept => ReadsBack
  BY HydratedAlike DEF ReadsBack, OnShelf, Alike

LEMMA AlwaysKept == Spec => []Kept
<1>1. Init => Kept
  BY InitKept
<1>2. Kept /\ [Next]_vars => Kept'
  BY NextKept
<1> QED
  BY <1>1, <1>2, PTL DEF Spec

\* Whatever books, edits and orders of calls there are, the tables hold what
\* their columns allow (schema.sql).
THEOREM TypeCorrect == Spec => []TypeOK
  BY AlwaysKept, KeptTypes, PTL

\* The tables are those a rebuild would write (putBook, deleteBook, rebuildTx).
THEOREM Derived == Spec => []DerivedFromFiles
<1>1. Kept => DerivedFromFiles
  BY DEF Kept
<1> QED
  BY <1>1, AlwaysKept, PTL

\* What hydrateBooks reads is what the files say, authors in their order.
THEOREM ReadBack == Spec => []ReadsBack
  BY AlwaysKept, KeptReads, PTL

\* What Validate takes, a rebuild can insert.
THEOREM Rebuildable == Spec => []CanRebuild
<1>1. Kept => CanRebuild
  BY DEF Kept
<1> QED
  BY <1>1, AlwaysKept, PTL

-----------------------------------------------------------------------------
(* The duplicate rule, the counts and the two matchers. *)

\* No book names an author twice, the tree shows what the files say but for sort
\* names, and the shelf is finite.
Distinct == \A i \in Ids : file[i] # None => DistinctNames(file[i].authors)

InTree ==
  \A i \in Ids : /\ served[i] = None <=> file[i] = None
                 /\ file[i] # None => Alike(served[i], file[i])

Told == Distinct /\ InTree /\ IsFiniteSet(OnShelf)

LEMMA KnownOnShelf ==
  ASSUME Kept
  PROVE  /\ Known = OnShelf
         /\ \A i \in Ids : books[i] = IF file[i] = None THEN None ELSE RowOf(file[i])
<1>1. \A i \in Ids : books[i] = IF file[i] = None THEN None ELSE RowOf(file[i])
  BY DerivedMeans DEF Kept
<1>2. ASSUME NEW i \in Ids, file[i] # None PROVE RowOf(file[i]) # None
  <2>1. file[i] \in Books /\ file[i].rating # NaN
    BY <1>2, ShelfBooks DEF Kept, CanRebuild, OnShelf
  <2> QED
    BY <2>1, RowTypes
<1> QED
  BY <1>1, <1>2 DEF Known, OnShelf

LEMMA ToldFirst == Init => Told
<1> SUFFICES ASSUME Init PROVE Told
  OBVIOUS
<1>1. /\ file = [i \in Ids |-> None] /\ served = [i \in Ids |-> None]
  BY DEF Init
<1>2. OnShelf = {}
  BY <1>1 DEF OnShelf
<1>3. IsFiniteSet({})
  BY FS_EmptySet
<1> QED
  BY <1>1, <1>2, <1>3 DEF Told, Distinct, InTree

\* A book put in place of another, or of none.
LEMMA ToldPut ==
  ASSUME Kept, Told, NEW i \in Ids, NEW b \in Books, NEW c \in Books, Alike(b, c),
         DistinctNames(b.authors),
         file' = [file EXCEPT ![i] = b], served' = [served EXCEPT ![i] = c]
  PROVE  Told'
<1>1. /\ file'[i] = b /\ served'[i] = c
      /\ \A j \in Ids \ {i} : file'[j] = file[j] /\ served'[j] = served[j]
  BY DEF Kept
<1>2. b # None /\ c # None
  BY BookFields
<1>3. Distinct'
  BY <1>1 DEF Told, Distinct
<1>4. InTree'
  BY <1>1, <1>2 DEF Told, InTree, Alike
<1>5. OnShelf' = OnShelf \union {i}
  BY <1>1, <1>2 DEF OnShelf
<1>6. IsFiniteSet(OnShelf')
  BY <1>5, FS_AddElement DEF Told
<1> QED
  BY <1>3, <1>4, <1>6 DEF Told

LEMMA ToldNext ==
  ASSUME Kept, Told, [Next]_vars
  PROVE  Told'
<1>1. ASSUME NEW i \in Ids, NEW u \in Uploads, Ingest(i, u) PROVE Told'
  <2>1. u \in Books /\ DistinctNames(u.authors) /\ Alike(u, u)
    BY UploadsAssumption DEF Alike
  <2> QED
    BY <1>1, <2>1, ToldPut DEF Ingest
<1>2. ASSUME NEW i \in Ids, NEW e \in Asked, Edit(i, e) PROVE Told'
  <2> DEFINE b == Applied(e, file[i], Hydrated(i))
             c == Recorded(i, e)
  <2>1. /\ file[i] # None /\ b \in Books /\ c \in Books /\ Alike(b, c) /\ Valid(e, Hydrated(i))
        /\ file' = [file EXCEPT ![i] = b] /\ served' = [served EXCEPT ![i] = c]
    BY <1>2, EditMakes
  <2>2. b.authors = OrElse(e.authors, file[i].authors)
    BY DEF Applied
  <2>3. DistinctNames(b.authors)
    BY <2>1, <2>2 DEF OrElse, Valid, ValidAuthors, Told, Distinct
  <2> HIDE DEF b, c
  <2> QED
    BY <2>1, <2>3, ToldPut
<1>3. ASSUME NEW i \in Ids, Delete(i) PROVE Told'
  <2>1. file' = [file EXCEPT ![i] = None] /\ served' = [served EXCEPT ![i] = None]
    BY <1>3 DEF Delete
  <2>2. /\ file'[i] = None /\ served'[i] = None
        /\ \A j \in Ids \ {i} : file'[j] = file[j] /\ served'[j] = served[j]
    BY <2>1 DEF Kept
  <2>3. OnShelf' \subseteq OnShelf
    BY <2>2 DEF OnShelf
  <2>4. IsFiniteSet(OnShelf')
    BY <2>3, FS_Subset DEF Told
  <2> QED
    BY <2>2, <2>4 DEF Told, Distinct, InTree, Alike
<1>4. CASE UNCHANGED <<file, served>>
  BY <1>4 DEF Told, Distinct, InTree, Alike, OnShelf
<1>5. CASE Restart
  <2>1. file' = file /\ served' = [i \in Ids |-> IF books[i] = None THEN None ELSE Hydrated(i)]
    BY <1>5 DEF Restart
  <2>2. ASSUME NEW i \in Ids
        PROVE  /\ served'[i] = None <=> file[i] = None
               /\ file[i] # None => Alike(served'[i], file[i])
    <3>1. books[i] = None <=> file[i] = None
      BY KnownOnShelf DEF Known, OnShelf
    <3>2. CASE file[i] = None
      BY <2>1, <3>1, <3>2
    <3>3. CASE file[i] # None
      <4>1. Hydrated(i) \in Books /\ Alike(Hydrated(i), file[i])
        BY <3>3, HydratedAlike
      <4> QED
        BY <2>1, <3>1, <3>3, <4>1, BookFields
    <3> QED
      BY <3>2, <3>3
  <2> QED
    BY <2>1, <2>2 DEF Told, Distinct, InTree, Alike, OnShelf
<1> QED
  BY <1>1, <1>2, <1>3, <1>4, <1>5 DEF Next, vars, Reindex

LEMMA AlwaysTold == Spec => [](Kept /\ Told)
<1>1. Init => Kept /\ Told
  BY InitKept, ToldFirst
<1>2. (Kept /\ Told) /\ [Next]_vars => (Kept /\ Told)'
  BY NextKept, ToldNext
<1> QED
  BY <1>1, <1>2, PTL DEF Spec

\* The credits of one book are those of its file, one for each of its authors.
LEMMA CreditsHere ==
  ASSUME Kept, Told, NEW i \in OnShelf
  PROVE  /\ {c \in credits : c.book = i} = CreditsOf(i, file[i])
         /\ {c.name : c \in {c \in credits : c.book = i}} = Names(file[i].authors)
         /\ IsFiniteSet(Names(file[i].authors))
         /\ Names(file[i].authors) \subseteq AuthorNames
         /\ Cardinality({c \in credits : c.book = i}) = Cardinality(Names(file[i].authors))
<1> DEFINE as == file[i].authors
           n == Len(as)
           f == [k \in 1 .. n |-> as[k].name]
<1>1. i \in Ids /\ file[i] # None /\ file[i] \in Books
  BY ShelfBooks DEF OnShelf
<1>2. as \in Seq(Authors)
  BY <1>1, BookFields
<1>3. n \in Nat /\ DOMAIN as = 1 .. n
  BY <1>2
<1>4. {c \in credits : c.book = i} = CreditsOf(i, file[i])
  <2>1. credits = AllCredits(file)
    BY DerivedMeans DEF Kept
  <2>2. ASSUME NEW c \in credits, c.book = i PROVE c \in CreditsOf(i, file[i])
    <3>1. PICK j \in Ids : file[j] # None /\ c \in CreditsOf(j, file[j])
      BY <2>1, InAllCredits
    <3>2. j = i
      BY <2>2, <3>1, CreditBook
    <3> QED
      BY <3>1, <3>2
  <2>3. ASSUME NEW c \in CreditsOf(i, file[i]) PROVE c \in credits /\ c.book = i
    BY <1>1, <2>1, InAllCredits, CreditBook
  <2> QED
    BY <2>2, <2>3
<1>5. {c.name : c \in CreditsOf(i, file[i])} = Names(as)
  <2>1. ASSUME NEW m PROVE (\E c \in CreditsOf(i, file[i]) : c.name = m) <=> m \in Names(as)
    BY CreditNames
  <2> HIDE DEF as
  <2> QED
    BY <2>1
<1>6. Names(as) = {as[k].name : k \in 1 .. n} /\ \A k \in 1 .. n : as[k].name \in AuthorNames
  <2>1. \A k \in 1 .. n : as[k] \in Authors
    BY <1>2, <1>3
  <2> QED
    BY <1>3, <2>1 DEF Names, Authors
<1>7. IsInjective([k \in DOMAIN as |-> as[k].name])
  BY <1>1 DEF Told, Distinct, DistinctNames
<1>8. f \in Bijection(1 .. n, Names(as))
  <2>1. \A k, l \in 1 .. n : f[k] = f[l] => k = l
    BY <1>3, <1>7 DEF IsInjective
  <2> HIDE DEF as, n
  <2> QED
    BY <1>6, <2>1 DEF Bijection, Injection, Surjection, IsInjective
<1>9. IsFiniteSet(1 .. n) /\ Cardinality(1 .. n) = n
  BY <1>3, FS_Interval
<1>10. IsFiniteSet(Names(as)) /\ Cardinality(Names(as)) = n
  <2> HIDE DEF as, n, f
  <2>1. ExistsBijection(1 .. n, Names(as))
    BY <1>8 DEF ExistsBijection
  <2> QED
    BY <1>9, <2>1, FS_Bijection
<1>11. Cardinality(CreditsOf(i, file[i])) = n
  <2>1. UpTo(i, file[i], n) = CreditsOf(i, file[i])
    <3>1. \A d \in CreditsOf(i, file[i]) : d.place \in 1 .. n
      BY <1>3 DEF CreditsOf
    <3> QED
      BY <1>3, <3>1 DEF UpTo
  <2>2. n <= Len(file[i].authors)
    BY <1>3
  <2> QED
    BY <1>2, <1>3, <2>1, <2>2, CreditsUpTo
<1> QED
  BY <1>4, <1>5, <1>6, <1>10, <1>11

\* The number of authors and the difference decide whether two sets are the same.
LEMMA SameAuthors ==
  ASSUME Kept, Told, NEW i \in OnShelf, NEW ns, IsFiniteSet(ns)
  PROVE  (/\ Cardinality({c \in credits : c.book = i}) = Cardinality(ns)
          /\ ~ \E c \in credits : c.book = i /\ c.name \notin ns)
         <=> Names(file[i].authors) = ns
<1> DEFINE ms == Names(file[i].authors)
<1>1. /\ {c.name : c \in {c \in credits : c.book = i}} = ms
      /\ IsFiniteSet(ms)
      /\ Cardinality({c \in credits : c.book = i}) = Cardinality(ms)
  BY CreditsHere
<1>2. (~ \E c \in credits : c.book = i /\ c.name \notin ns) <=> ms \subseteq ns
  BY <1>1
<1> HIDE DEF ms
<1>3. ms \subseteq ns /\ Cardinality(ms) = Cardinality(ns) => ms = ns
  BY FS_Subset
<1> QED
  BY <1>1, <1>2, <1>3 DEF ms

\* Whatever was put, edited and deleted before, ingest refuses a book exactly if
\* the shelf has one of its title by the same authors, for no book names one of
\* them twice (index.BookExists).
THEOREM Duplicates == Spec => []DuplicateRule
<1>1. Kept /\ Told => DuplicateRule
  <2> SUFFICES ASSUME Kept, Told, NEW t \in Titles, NEW ns \in SUBSET AuthorNames, IsFiniteSet(ns)
               PROVE  BookExists(t, ns) <=>
                        \E i \in OnShelf : file[i].title = t /\ Names(file[i].authors) = ns
    BY DEF DuplicateRule
  <2>1. ASSUME NEW i \in OnShelf PROVE books[i].title = file[i].title
    <3>1. books[i] = RowOf(file[i])
      BY KnownOnShelf DEF OnShelf
    <3>2. RowOf(file[i]).title = file[i].title
      BY DEF RowOf
    <3> QED
      BY <3>1, <3>2
  <2> DEFINE Credited(i) == /\ Cardinality({c \in credits : c.book = i}) = Cardinality(ns)
                            /\ ~ \E c \in credits : c.book = i /\ c.name \notin ns
  <2>2. BookExists(t, ns) <=> \E i \in OnShelf : books[i].title = t /\ Credited(i)
    BY KnownOnShelf DEF BookExists
  <2>3. ASSUME NEW i \in OnShelf
        PROVE  Credited(i) <=> Names(file[i].authors) = ns
    BY SameAuthors
  <2> HIDE DEF Credited
  <2> QED
    BY <2>1, <2>2, <2>3
<1> QED
  BY <1>1, AlwaysTold, PTL

\* What a book in the tree has in common with its files.
LEMMA TreeShows ==
  ASSUME Kept, Told, NEW i \in OnShelf
  PROVE  /\ served[i] \in Books /\ file[i] \in Books /\ books[i] = RowOf(file[i])
         /\ served[i].title = file[i].title /\ served[i].series = file[i].series
         /\ served[i].labels = file[i].labels /\ served[i].status = file[i].status
         /\ Names(served[i].authors) = Names(file[i].authors)
<1>1. i \in Ids /\ file[i] # None /\ file[i] \in Books /\ books[i] = RowOf(file[i])
  BY ShelfBooks, KnownOnShelf DEF OnShelf
<1>2. served[i] # None /\ Alike(served[i], file[i]) /\ served[i] \in Books
  BY <1>1 DEF Kept, Told, InTree
<1> DEFINE p == NamesInOrder(served[i])
           q == NamesInOrder(file[i])
           ss == served[i].authors
           fs == file[i].authors
<1>3. /\ p.authors = [k \in DOMAIN ss |-> ss[k].name]
      /\ p.title = served[i].title /\ p.series = served[i].series
      /\ p.labels = served[i].labels /\ p.status = served[i].status
  BY <1>2, InOrder
<1>4. /\ q.authors = [k \in DOMAIN fs |-> fs[k].name]
      /\ q.title = file[i].title /\ q.series = file[i].series
      /\ q.labels = file[i].labels /\ q.status = file[i].status
  BY <1>1, InOrder
<1>5. p = q
  BY <1>2 DEF Alike
<1> HIDE DEF p, q, ss, fs
<1>6. [k \in DOMAIN ss |-> ss[k].name] = [k \in DOMAIN fs |-> fs[k].name]
  BY <1>3, <1>4, <1>5
<1>7. Names(ss) = Names(fs)
  <2>1. DOMAIN ss = DOMAIN fs
    BY <1>6
  <2>2. \A k \in DOMAIN ss : ss[k].name = fs[k].name
    BY <1>6, <2>1
  <2> QED
    BY <2>1, <2>2 DEF Names
<1> QED
  BY <1>1, <1>2, <1>3, <1>4, <1>5, <1>7 DEF ss, fs

LEMMA LinksHere ==
  ASSUME Kept, NEW i \in OnShelf, NEW k \in Kinds, NEW l
  PROVE  <<i, l>> \in labelled[k] <=> l \in file[i].labels[k]
<1>1. labelled[k] = AllLabelled(k, file)
  BY DerivedMeans DEF Kept
<1>2. i \in Ids /\ file[i] # None
  BY DEF OnShelf
<1>3. \A j : <<i, l>> \in LabelledAs(k, j, file[j]) <=> j = i /\ l \in file[j].labels[k]
  BY DEF LabelledAs
<1> QED
  BY <1>1, <1>2, <1>3, InAllLabelled

\* A query asks for authors by their names.
AskedByName ==
  \A q \in Queries : q.authors \cap (SortNames \union {None, Absent}) = {}

\* For one book the two matchers say the same but for its title.
LEMMA OneBook ==
  ASSUME AskedByName, Kept, Told, NEW q \in Queries, NEW i \in OnShelf, NEW exact, NEW whole,
         q.titles # {} => (TitleAsked(q, exact, Like, served[i].title)
                             => TitleAsked(q, whole, Lower, served[i].title))
  PROVE  /\ i \in Search(q, exact) => Matches(q, whole, i, served[i])
         /\ (q.titles # {} => (TitleAsked(q, whole, Lower, served[i].title)
                                 => TitleAsked(q, exact, Like, served[i].title)))
              => (Matches(q, whole, i, served[i]) => i \in Search(q, exact))
<1> DEFINE b == served[i]
           there == TitleAsked(q, exact, Like, b.title)
           here == TitleAsked(q, whole, Lower, b.title)
<1>1. /\ b \in Books /\ file[i] \in Books /\ books[i] = RowOf(file[i])
      /\ b.title = file[i].title /\ b.series = file[i].series
      /\ b.labels = file[i].labels /\ b.status = file[i].status
      /\ Names(b.authors) = Names(file[i].authors)
  BY TreeShows
<1>2. i \in Ids /\ i \in Known
  BY KnownOnShelf DEF OnShelf
<1> HIDE DEF b
<1>3. /\ books[i].title = b.title /\ books[i].status = b.status
      /\ books[i].series = IF b.series = None THEN None ELSE b.series.name
  BY <1>1 DEF RowOf
<1>4. i \in WhereAuthors(q) <=> \E k \in DOMAIN b.authors :
                                  b.authors[k].name \in q.authors \/ b.authors[k].sort \in q.authors
  <2>1. \A n \in AuthorNames : authors[n] \notin q.authors
    BY DEF AskedByName, Kept
  <2>2. {c.name : c \in {c \in credits : c.book = i}} = Names(b.authors) /\ Names(b.authors) \subseteq AuthorNames
    BY <1>1, CreditsHere
  <2>3. b.authors \in Seq(Authors)
    BY <1>1, BookFields
  <2>4. \A k \in DOMAIN b.authors : b.authors[k].sort \notin q.authors
    <3> SUFFICES ASSUME NEW k \in DOMAIN b.authors PROVE b.authors[k].sort \notin q.authors
      OBVIOUS
    <3>1. b.authors[k] \in Authors
      BY <2>3, InSeq
    <3>2. b.authors[k].sort \in SortNames \union {None}
      BY <3>1 DEF Authors
    <3> QED
      BY <3>2 DEF AskedByName
  <2>5. i \in WhereAuthors(q) <=> \E c \in credits : c.book = i /\ c.name \in q.authors
    <3>1. \A c \in credits : c.book = i => c.name \in AuthorNames
      BY <2>2
    <3>2. \A c \in credits : c.book = i => authors[c.name] \notin q.authors
      BY <2>1, <3>1
    <3> QED
      BY <1>2, <3>2 DEF WhereAuthors
  <2>6. (\E c \in credits : c.book = i /\ c.name \in q.authors) <=> \E n \in Names(b.authors) : n \in q.authors
    BY <2>2
  <2>7. (\E n \in Names(b.authors) : n \in q.authors) <=> \E k \in DOMAIN b.authors : b.authors[k].name \in q.authors
    BY DEF Names
  <2> QED
    BY <2>4, <2>5, <2>6, <2>7
<1>5. i \in WhereTags(q) <=> q.tags \cap b.labels["tag"] # {}
  <2>1. \A t : <<i, t>> \in labelled["tag"] <=> t \in b.labels["tag"]
    BY <1>1, LinksHere, CatalogAssumption
  <2> QED
    BY <1>2, <2>1 DEF WhereTags
<1>6. books[i].series \in q.series <=> b.series # None /\ b.series.name \in q.series
  BY <1>3, QueriesAssumption
<1>7. i \in Search(q, exact) <=>
        /\ q.authors # {} => i \in WhereAuthors(q)
        /\ q.tags # {} => i \in WhereTags(q)
        /\ q.series # {} => books[i].series \in q.series
        /\ q.status # {} => books[i].status \in q.status
        /\ q.ids # {} => i \in q.ids
        /\ q.titles # {} => there
  BY <1>2, <1>3 DEF Search
<1>8. Matches(q, whole, i, b) <=>
        /\ q.authors # {} => \E k \in DOMAIN b.authors :
             b.authors[k].name \in q.authors \/ b.authors[k].sort \in q.authors
        /\ q.tags # {} => q.tags \cap b.labels["tag"] # {}
        /\ q.series # {} => b.series # None /\ b.series.name \in q.series
        /\ q.status # {} => b.status \in q.status
        /\ q.ids # {} => i \in q.ids
        /\ q.titles # {} => here
  BY DEF Matches
<1>9. q.titles # {} => (there => here)
  BY DEF b
<1> HIDE DEF there, here
<1>10. i \in Search(q, exact) => Matches(q, whole, i, b)
  BY <1>3, <1>4, <1>5, <1>6, <1>7, <1>8, <1>9
<1>11. (q.titles # {} => (here => there)) => (Matches(q, whole, i, b) => i \in Search(q, exact))
  BY <1>3, <1>4, <1>5, <1>6, <1>7, <1>8
<1> QED
  BY <1>10, <1>11 DEF b, there, here

\* Where one finds the title and the other does.
LEMMA TitleFolds ==
  ASSUME NEW q \in Queries, NEW t \in Titles
  PROVE  /\ TitleAsked(q, TRUE, Like, t) <=> TitleAsked(q, TRUE, Lower, t)
         /\ TitleAsked(q, FALSE, Like, t) => TitleAsked(q, FALSE, Lower, t)
         /\ TitleAsked(q, TRUE, Like, t) => TitleAsked(q, FALSE, Lower, t)
         /\ FoldAlike(q) => (TitleAsked(q, FALSE, Lower, t) => TitleAsked(q, FALSE, Like, t))
<1>1. TitleAsked(q, TRUE, Like, t) => <<t, t>> \in Lower /\ t \in q.titles
  BY QueriesAssumption, FoldingAssumption DEF TitleAsked
<1> QED
  BY <1>1, FoldingAssumption DEF TitleAsked, FoldAlike

\* The SQL and the predicate of a search view select the same books after any calls,
\* edits, rebuilds and restarts, for queries by name and titles whose phrases fold
\* alike; the view shows the more for other phrases, and all that a bulk edit with the
\* same text would touch.  By a sort name they may part: the run catalog_sort_names
\* (index.Search, views/match.go).
THEOREM OneAnswer ==
  ASSUME AskedByName
  PROVE  Spec => []MatchersAgree
<1>1. Kept /\ Told => MatchersAgree
  <2> SUFFICES ASSUME Kept, Told, NEW q \in Queries
               PROVE  /\ \A exact \in BOOLEAN : exact \/ FoldAlike(q) => Search(q, exact) = Shown(q, exact)
                      /\ Search(q, FALSE) \subseteq Shown(q, FALSE)
                      /\ Search(q, TRUE) \subseteq Shown(q, FALSE)
    BY DEF MatchersAgree
  <2>1. \A exact : Search(q, exact) \subseteq OnShelf
    BY KnownOnShelf DEF Search
  <2>2. \A exact : Shown(q, exact) \subseteq OnShelf
    BY DEF Shown, Told, InTree, OnShelf
  <2>3. \A exact : \A i \in OnShelf : i \in Shown(q, exact) <=> Matches(q, exact, i, served[i])
    BY DEF Shown, Told, InTree, OnShelf
  <2>4. \A i \in OnShelf : served[i].title \in Titles
    <3> TAKE i \in OnShelf
    <3>1. served[i] \in Books
      BY TreeShows
    <3> QED
      BY <3>1, BookFields
  <2>5. ASSUME NEW exact \in BOOLEAN, exact \/ FoldAlike(q)
        PROVE  Search(q, exact) = Shown(q, exact)
    <3>1. \A i \in OnShelf : TitleAsked(q, exact, Like, served[i].title)
                              <=> TitleAsked(q, exact, Lower, served[i].title)
      BY <2>4, <2>5, TitleFolds
    <3>2. \A i \in OnShelf : i \in Search(q, exact) <=> Matches(q, exact, i, served[i])
      BY <3>1, OneBook
    <3> QED
      BY <2>1, <2>2, <2>3, <3>2
  <2>6. ASSUME NEW exact \in BOOLEAN
        PROVE  Search(q, exact) \subseteq Shown(q, FALSE)
    <3>1. \A i \in OnShelf : TitleAsked(q, exact, Like, served[i].title)
                              => TitleAsked(q, FALSE, Lower, served[i].title)
      BY <2>4, TitleFolds
    <3>2. \A i \in OnShelf : i \in Search(q, exact) => Matches(q, FALSE, i, served[i])
      BY <3>1, OneBook
    <3> QED
      BY <2>1, <2>3, <3>2
  <2> QED
    BY <2>5, <2>6
<1> QED
  BY <1>1, AlwaysTold, PTL

\* A set of things that each belong to one book, no two to the same one.
LEMMA CountBooks ==
  ASSUME NEW X, NEW I, NEW f \in [X -> I], IsFiniteSet(I),
         \A x, y \in X : f[x] = f[y] => x = y, \A i \in I : \E x \in X : f[x] = i
  PROVE  IsFiniteSet(X) /\ Cardinality(X) = Cardinality(I)
<1>1. f \in Injection(X, I) /\ f \in Surjection(X, I)
  BY DEF Injection, Surjection, IsInjective
<1> QED
  BY <1>1, FS_Injection

LEMMA AuthorCount ==
  ASSUME Kept, Told, NEW n \in AuthorNames
  PROVE  /\ AuthorFacet(n) = Cardinality({i \in OnShelf : n \in Names(file[i].authors)})
         /\ IsFiniteSet({i \in OnShelf : n \in Names(file[i].authors)})
<1> DEFINE X == {c \in credits : c.name = n}
           I == {i \in OnShelf : n \in Names(file[i].authors)}
           f == [c \in X |-> c.book]
<1>1. IsFiniteSet(I)
  BY FS_Subset DEF Told
<1>2. credits = AllCredits(file)
  BY DerivedMeans DEF Kept
<1>3. ASSUME NEW c \in X
      PROVE  c.book \in OnShelf /\ c \in CreditsOf(c.book, file[c.book]) /\ n \in Names(file[c.book].authors)
  <2>1. PICK i \in Ids : file[i] # None /\ c \in CreditsOf(i, file[i])
    BY <1>2, InAllCredits
  <2>2. c.book = i /\ i \in OnShelf
    BY <2>1, CreditBook DEF OnShelf
  <2>3. n \in Names(file[i].authors)
    BY <2>1, CreditNames
  <2> QED
    BY <2>1, <2>2, <2>3
<1>4. f \in [X -> I]
  BY <1>3
<1>5. ASSUME NEW c \in X, NEW d \in X, c.book = d.book PROVE c = d
  <2> DEFINE i == c.book
  <2>1. i \in OnShelf /\ c \in CreditsOf(i, file[i]) /\ d \in CreditsOf(i, file[i]) /\ c.name = n /\ d.name = n
    BY <1>3, <1>5
  <2> HIDE DEF i, X
  <2>2. IsInjective([k \in DOMAIN file[i].authors |-> file[i].authors[k].name])
    BY <2>1 DEF Told, Distinct, DistinctNames, OnShelf
  <2>3. PICK k \in DOMAIN file[i].authors : c = [book |-> i, name |-> file[i].authors[k].name, place |-> k]
    BY <2>1, CreditFields
  <2>4. PICK m \in DOMAIN file[i].authors : d = [book |-> i, name |-> file[i].authors[m].name, place |-> m]
    BY <2>1, CreditFields
  <2>5. file[i].authors[k].name = file[i].authors[m].name
    BY <2>1, <2>3, <2>4
  <2>6. k = m
    BY <2>2, <2>5 DEF IsInjective
  <2> QED
    BY <2>3, <2>4, <2>6
<1>6. ASSUME NEW i \in I PROVE \E c \in X : f[c] = i
  <2>1. i \in Ids /\ file[i] # None
    BY DEF OnShelf
  <2>2. PICK c \in CreditsOf(i, file[i]) : c.name = n
    BY CreditNames
  <2>3. c \in X /\ c.book = i
    BY <1>2, <2>1, <2>2, InAllCredits, CreditBook
  <2> QED
    BY <2>3
<1>7. \A c \in X : f[c] = c.book
  OBVIOUS
<1> HIDE DEF X, I, f
<1>8. Cardinality(X) = Cardinality(I)
  BY <1>1, <1>4, <1>5, <1>6, <1>7, CountBooks
<1> QED
  BY <1>1, <1>8 DEF AuthorFacet, X, I

LEMMA TagCount ==
  ASSUME Kept, Told, NEW t
  PROVE  /\ TagFacet(t) = Cardinality({i \in OnShelf : t \in file[i].labels["tag"]})
         /\ IsFiniteSet({i \in OnShelf : t \in file[i].labels["tag"]})
<1> DEFINE X == {x \in labelled["tag"] : x[2] = t}
           I == {i \in OnShelf : t \in file[i].labels["tag"]}
           f == [x \in X |-> x[1]]
<1>1. IsFiniteSet(I)
  BY FS_Subset DEF Told
<1>2. labelled["tag"] = AllLabelled("tag", file)
  BY DerivedMeans, CatalogAssumption DEF Kept
<1>3. ASSUME NEW x \in X PROVE x[1] \in I /\ x = <<x[1], t>>
  <2>1. PICK i \in Ids : file[i] # None /\ x \in LabelledAs("tag", i, file[i])
    BY <1>2, InAllLabelled
  <2>2. PICK l \in file[i].labels["tag"] : x = <<i, l>>
    BY <2>1 DEF LabelledAs
  <2> QED
    BY <2>1, <2>2 DEF OnShelf
<1>4. f \in [X -> I]
  BY <1>3
<1>5. \A x, y \in X : x[1] = y[1] => x = y
  BY <1>3
<1>6. ASSUME NEW i \in I PROVE \E x \in X : f[x] = i
  <2>1. <<i, t>> \in X
    BY LinksHere, CatalogAssumption
  <2> QED
    BY <2>1
<1>7. \A x \in X : f[x] = x[1]
  OBVIOUS
<1> HIDE DEF X, I, f
<1>8. Cardinality(X) = Cardinality(I)
  BY <1>1, <1>4, <1>5, <1>6, <1>7, CountBooks
<1> QED
  BY <1>1, <1>8 DEF TagFacet, X, I

LEMMA SomeCounted ==
  ASSUME NEW S, IsFiniteSet(S)
  PROVE  Cardinality(S) > 0 <=> S # {}
<1>1. Cardinality(S) \in Nat /\ (Cardinality(S) = 0 <=> S = {})
  BY FS_CardinalityType, FS_EmptySet
<1> QED
  BY <1>1

\* The facets count books and GetStats the facets that have any, whatever rows
\* came and went before (ListAuthors, ListTags, ListSeries, GetStats).
THEOREM Counts == Spec => []CountsAddUp
<1>1. Kept /\ Told => CountsAddUp
  <2> SUFFICES ASSUME Kept, Told PROVE CountsAddUp
    OBVIOUS
  <2>1. /\ \A n \in AuthorNames : authors[n] # Absent <=> Named(n, file)
        /\ labels["tag"] = AllLabels("tag", file)
        /\ series = AllSeries(file)
    BY DerivedMeans, CatalogAssumption DEF Kept
  <2>2. \A n \in AuthorNames : authors[n] # Absent <=> AuthorFacet(n) > 0
    <3> SUFFICES ASSUME NEW n \in AuthorNames PROVE Named(n, file) <=> AuthorFacet(n) > 0
      BY <2>1
    <3>1. Named(n, file) <=> {i \in OnShelf : n \in Names(file[i].authors)} # {}
      BY DEF Named, OnShelf
    <3> QED
      BY <3>1, AuthorCount, SomeCounted
  <2>3. \A t : t \in labels["tag"] <=> TagFacet(t) > 0
    <3> SUFFICES ASSUME NEW t PROVE t \in AllLabels("tag", file) <=> TagFacet(t) > 0
      BY <2>1
    <3>1. t \in AllLabels("tag", file) <=> {i \in OnShelf : t \in file[i].labels["tag"]} # {}
      BY InAllLabels DEF OnShelf
    <3> QED
      BY <3>1, TagCount, SomeCounted
  <2>4. \A s \in SeriesNames : s \in series <=> SeriesFacet(s) > 0
    <3> SUFFICES ASSUME NEW s \in SeriesNames PROVE s \in AllSeries(file) <=> SeriesFacet(s) > 0
      BY <2>1
    <3> DEFINE S == {i \in Known : books[i].series = s}
    <3>0. s # None
      BY CatalogAssumption
    <3>1. \A i \in OnShelf : books[i].series = s <=> s \in SeriesNamed(file[i])
      <4> SUFFICES ASSUME NEW i \in OnShelf PROVE books[i].series = s <=> s \in SeriesNamed(file[i])
        OBVIOUS
      <4>1. books[i] = RowOf(file[i])
        BY KnownOnShelf DEF OnShelf
      <4>2. books[i].series = IF file[i].series = None THEN None ELSE file[i].series.name
        BY <4>1 DEF RowOf
      <4> QED
        BY <3>0, <4>2 DEF SeriesNamed
    <3>2. s \in AllSeries(file) <=> S # {}
      BY <3>1, KnownOnShelf, InAllSeries DEF OnShelf
    <3>3. IsFiniteSet(S)
      BY KnownOnShelf, FS_Subset DEF Told
    <3> HIDE DEF S
    <3>4. s \in AllSeries(file) <=> Cardinality(S) > 0
      BY <3>2, <3>3, SomeCounted
    <3> QED
      BY <3>4 DEF SeriesFacet, S
  <2>5. labels["tag"] \subseteq Labels /\ series \subseteq SeriesNames
    BY KeptTypes, CatalogAssumption DEF TypeOK
  <2>6. /\ {n \in AuthorNames : authors[n] # Absent} = {n \in AuthorNames : AuthorFacet(n) > 0}
        /\ labels["tag"] = {t \in Labels : TagFacet(t) > 0}
        /\ series = {s \in SeriesNames : SeriesFacet(s) > 0}
    BY <2>2, <2>3, <2>4, <2>5
  <2>7. \A n \in AuthorNames :
          AuthorFacet(n) = Cardinality({i \in OnShelf : n \in Names(file[i].authors)})
    BY AuthorCount
  <2>8. \A t \in Labels : TagFacet(t) = Cardinality({i \in OnShelf : t \in file[i].labels["tag"]})
    BY TagCount
  <2>9. Stats = [authors |-> Cardinality({n \in AuthorNames : AuthorFacet(n) > 0}),
                 series |-> Cardinality({s \in SeriesNames : SeriesFacet(s) > 0}),
                 tags |-> Cardinality({t \in Labels : TagFacet(t) > 0})]
    BY <2>6 DEF Stats
  <2> QED
    BY <2>7, <2>8, <2>9 DEF CountsAddUp
<1> QED
  BY <1>1, AlwaysTold, PTL
=============================================================================
