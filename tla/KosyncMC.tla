------------------------------ MODULE KosyncMC ------------------------------
(* Instances of Kosync for TLC. *)
EXTENDS Kosync, TLC

CONSTANTS t1, t2, p1, p2

Book(t, s) == [title |-> t, status |-> s]

\* One epub, as uploaded and as rewritten under another title.
AllBooksThereAre == {Book(t, s) : t \in {t1, t2}, s \in Statuses}

Title    == [b \in AllBooksThereAre |-> b.title]
NewBooks == {Book(t1, "unread")}

\* The edit that rewrites the file.
Retitle == [b \in AllBooksThereAre |-> Book(t2, b.status)]
Edits   == {Retitle}

\* A user who gives up on a book, which the next sync may bring back to reading.
Abandon == [b \in AllBooksThereAre |-> Book(b.title, "abandoned")]
EditsAndStatus == {Retitle, Abandon}

Symmetry == Permutations({p1, p2})
=============================================================================
