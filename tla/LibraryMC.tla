----------------------------- MODULE LibraryMC -----------------------------
(* Instances of Library for TLC. *)
EXTENDS Library

CONSTANTS k1, k2, v1, v2, p1, p2

\* One author for every key, or an author each.
OneAuthor == [k \in Keys |-> 1]
OwnAuthor == [k \in Keys |-> k]

Edit(i, k, v) == [kind |-> "edit", id |-> i, bib |-> k, val |-> v]
Delete(i)     == [kind |-> "delete", id |-> i]
Ingest(k)     == [kind |-> "ingest", bib |-> k]

\* One book under every kind of call: two field edits, a delete and a re-upload.
MixedRequests == {Edit(1, k2, None), Edit(1, None, v2), Delete(1), Ingest(k1)}

\* What makes clients wait for each other.
ContendedRequests == {Edit(1, k2, None), Ingest(k1), Delete(1)}

\* A book is uploaded, then left to its user.
HandRequests == {Ingest(k1), Ingest(k2), Delete(1), Edit(1, k2, None)}

\* A book is uploaded and given another rating, which leaves the epub alone.
RatedRequests == {Ingest(k1), Edit(1, None, v2)}
=============================================================================
