----------------------------- MODULE CatalogMC -----------------------------
(***************************************************************************)
(* Instances of Catalog: two books and two uploads that differ in an       *)
(* author; edits of every field, good and bad; a title with a letter that  *)
(* is not of ASCII, and phrases with that letter in either case.           *)
(***************************************************************************)
EXTENDS Catalog

CONSTANTS
  ann, bob,       \* authors
  annSort, bobSort, otherSort,
  emma, emile,    \* titles
  saga,           \* a series
  one, two,       \* positions
  unread, read, low,
  red, blue,      \* labels
  m, Emi, emi,    \* phrases, the last two with that letter as in emile or not
  Terms           \* what a client asks of an author

By(n, s) == [name |-> n, sort |-> s]

NoLabels == [k \in Kinds |-> {}]

TwoUploads ==
  {[title |-> emma, authors |-> <<By(ann, None)>>, series |-> None,
    labels |-> NoLabels, status |-> unread, rating |-> low],
   [title |-> emma, authors |-> <<By(bob, bobSort), By(ann, annSort)>>,
    series |-> [name |-> saga, position |-> one],
    labels |-> [NoLabels EXCEPT !["subject"] = {red}], status |-> unread, rating |-> low]}

Untouched ==
  [title |-> None, authors |-> None, series |-> None, position |-> None,
   labels |-> [k \in Kinds |-> None], status |-> None, rating |-> None]

Relabel(k, list) == [Untouched EXCEPT !.labels = [@ EXCEPT ![k] = list]]

GoodEdits ==
  {[Untouched EXCEPT !.title = emile],
   [Untouched EXCEPT !.authors = <<By(ann, otherSort)>>],
   [Untouched EXCEPT !.authors = <<By(ann, None), By(bob, None)>>],
   [Untouched EXCEPT !.series = Blank], [Untouched EXCEPT !.position = two],
   Relabel("tag", <<red, blue>>), Relabel("tag", <<blue>>)}

BadEdits ==
  {[Untouched EXCEPT !.title = Blank], [Untouched EXCEPT !.status = Blank],
   [Untouched EXCEPT !.rating = NaN],
   [Untouched EXCEPT !.authors = <<>>],
   [Untouched EXCEPT !.authors = <<By(ann, None), By(ann, annSort)>>],
   [Untouched EXCEPT !.series = Blank, !.position = two],
   Relabel("tag", <<red, red>>), Relabel("tag", <<Blank>>)}

SomeEdits == GoodEdits \union BadEdits

Anything ==
  [authors |-> {}, tags |-> {}, series |-> {}, status |-> {}, ids |-> {}, titles |-> {}]

SomePhrases == {emma, emile, m, Emi, emi}

LikeFinds == {<<emma, emma>>, <<emile, emile>>, <<m, emma>>, <<m, emile>>, <<Emi, emile>>}

LowerFinds == LikeFinds \union {<<emi, emile>>}

SomeQueries ==
  {[Anything EXCEPT !.authors = as] : as \in SUBSET Terms} \union
  {[Anything EXCEPT !.titles = {p, emma}] : p \in SomePhrases} \union
  {[Anything EXCEPT !.tags = {red, blue}, !.titles = ts] : ts \in {{}, {m}, {Emi}, {emi}}} \union
  {[Anything EXCEPT !.series = {saga}, !.tags = {red}],
   [Anything EXCEPT !.status = {unread}, !.ids = {1}],
   [Anything EXCEPT !.authors = {bob}, !.tags = {blue}, !.series = {saga},
                    !.status = {unread}, !.ids = {1, 2}, !.titles = {Emi}]}
=============================================================================
