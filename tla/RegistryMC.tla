----------------------------- MODULE RegistryMC -----------------------------
(* Instances of Registry for TLC. *)
EXTENDS Registry, TLC

CONSTANTS t1, t2, s1, s2, p1, p2

Book(t, s) == [title |-> t, status |-> s]

\* Two titles by one author, and two statuses.
AllBooksThereAre == {Book(t, s) : t \in {t1, t2}, s \in {s1, s2}}

Title       == [b \in AllBooksThereAre |-> b.title]
ByStatus    == [b \in AllBooksThereAre |-> {"books", b.status}]
TitleAndId  == [x \in {t1, t2} \X (1 .. MaxId) |-> x]
NewBooks    == {Book(t1, s1), Book(t2, s1)}

\* An edit that moves the book and may give it another's title, and one that leaves
\* it where it is on disk but not in the tree.
Retitle  == [b \in AllBooksThereAre |-> Book(IF b.title = t1 THEN t2 ELSE t1, b.status)]
Restatus == [b \in AllBooksThereAre |-> Book(b.title, IF b.status = s1 THEN s2 ELSE s1)]
Edits    == {Retitle, Restatus}

\* Clients and titles are interchangeable.
Symmetry == Permutations({p1, p2}) \union Permutations({t1, t2})
=============================================================================
