------------------------------- MODULE Shelf -------------------------------
(***************************************************************************)
(* What the library promises its callers, with no disk, index or lock: a   *)
(* shelf of books on which each call takes effect at one instant, applied  *)
(* to the state it finds there.  A call that is cut short by an error or   *)
(* a crash leaves its book in doubt; only a rebuild may then change what   *)
(* the shelf says of it, and it never touches a book that is not in doubt. *)
(***************************************************************************)
CONSTANTS Procs, Ids, Keys, Vals, DefaultVal, Requests, None

VARIABLES
  shelf,        \* what the library says each book is, or None
  doubt,        \* books a call was, or is, in the middle of changing
  req           \* each client's request that has not taken effect

shelfVars == <<shelf, doubt, req>>

ShelfBooks == [bib : Keys, val : Vals]

Init ==
  /\ shelf = [i \in Ids |-> None]
  /\ doubt = {}
  /\ req = [p \in Procs |-> None]

Request(p, c) ==
  /\ req[p] = None
  /\ req' = [req EXCEPT ![p] = c]
  /\ UNCHANGED <<shelf, doubt>>

\* An error or a crash, or an answer that changes nothing.
Refuse(P) ==
  /\ req' = [p \in Procs |-> IF p \in P THEN None ELSE req[p]]
  /\ doubt' \subseteq doubt
  /\ UNCHANGED shelf

StartTouching(p, i) ==
  /\ req[p] # None
  /\ doubt' = doubt \union {i}
  /\ UNCHANGED <<shelf, req>>

Amended(b, c) == [bib |-> IF c.bib = None THEN b.bib ELSE c.bib,
                  val |-> IF c.val = None THEN b.val ELSE c.val]

\* The change is made to the book as it stands, so no other change is undone.
TakeEffect(p, i) ==
  /\ req[p] # None /\ i \in doubt
  /\ \/ /\ req[p].kind = "edit" /\ req[p].id = i /\ shelf[i] # None
        /\ shelf' = [shelf EXCEPT ![i] = Amended(shelf[i], req[p])]
     \/ /\ req[p].kind = "delete" /\ req[p].id = i
        /\ shelf' = [shelf EXCEPT ![i] = None]
     \/ /\ req[p].kind = "ingest" /\ shelf[i] = None
        /\ shelf' = [shelf EXCEPT ![i] = [bib |-> req[p].bib, val |-> DefaultVal]]
  /\ req' = [req EXCEPT ![p] = None]
  /\ doubt' \in {doubt, doubt \ {i}}

Recover ==
  /\ \A p \in Procs : req[p] = None
  /\ shelf' \in [Ids -> ShelfBooks \union {None}]
  /\ \A i \in Ids \ doubt : shelf'[i] = shelf[i]
  /\ doubt' \subseteq doubt
  /\ UNCHANGED req

Next ==
  \/ \E p \in Procs, c \in Requests : Request(p, c)
  \/ \E P \in SUBSET Procs : Refuse(P)
  \/ \E p \in Procs, i \in Ids : StartTouching(p, i) \/ TakeEffect(p, i)
  \/ Recover

Spec == Init /\ [][Next]_shelfVars
=============================================================================
