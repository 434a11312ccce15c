------------------------------- MODULE Views -------------------------------
(***************************************************************************)
(* The listings of the served tree (internal/fs/views): flat lists of      *)
(* books by title, the by-author, by-tag and by-status groups made of such *)
(* lists, and recent.                                                      *)
(*                                                                         *)
(* A listing names each child by its Stat, which reads the book's present  *)
(* snapshot: a book directory by its title, one that had to make way for   *)
(* an equal title by title and id.  AddChild refuses a name that is taken. *)
(***************************************************************************)
EXTENDS Events

CONSTANTS
  Groups,       \* books and every by-x directory a book can be filed in
  AllBooks,     \* the one of them that is always there
  GroupsOf,     \* the groups of each book
  TitleOf,      \* the PathSafe title of each book
  MintedName,   \* title and id as an entry name
  RecentLimit   \* how many books recent shows

Titles == {TitleOf[b] : b \in Books}

\* A minted name is nobody's title: disambiguatedName says what happens otherwise.
ASSUME ViewsAssumption ==
  /\ GroupsOf \in [Books -> SUBSET Groups]
  /\ \A b \in Books : AllBooks \in GroupsOf[b]
  /\ DOMAIN TitleOf = Books
  /\ \A t, u \in Titles, i, j \in Ids :
       /\ MintedName[<<t, i>>] \notin Titles \union {None}
       /\ MintedName[<<t, i>>] = MintedName[<<u, j>>] => t = u /\ i = j
  /\ None \notin Titles
  /\ RecentLimit \in Nat

Names == Titles \union {MintedName[<<t, i>>] : t \in Titles, i \in Ids}
Nodes == [id : Ids, minted : BOOLEAN]
Lists == [nodes : SUBSET Nodes, entries : [Ids -> Names \union {None}]]

VARIABLES
  dirs,         \* the registry: the snapshot in each id's BookDir, or None
  lists,        \* the list of each group
  recent,       \* the list of recent
  known         \* the books recent ranks

viewVars == <<lists, recent, known>>

EmptyList == [nodes |-> {}, entries |-> [i \in Ids |-> None]]

ViewsTypeOK ==
  /\ lists \in [Groups -> Lists]
  /\ recent \in Lists
  /\ known \in SUBSET Ids

ViewsInit ==
  /\ lists = [g \in Groups |-> EmptyList]
  /\ recent = EmptyList
  /\ known = {}

-----------------------------------------------------------------------------
(* bookListDir, where snaps says what each BookDir's snapshot is. *)

NameOf(n, snaps) ==
  LET t == TitleOf[snaps[n.id]] IN IF n.minted THEN MintedName[<<t, n.id>>] ELSE t

Taken(list, name, snaps) == \E n \in list.nodes : NameOf(n, snaps) = name

Added(list, i, snaps) ==
  LET bare  == [id |-> i, minted |-> FALSE]
      clash == \E n \in list.nodes \ {bare} : NameOf(n, snaps) = TitleOf[snaps[i]]
      node  == [id |-> i, minted |-> clash]
      name  == NameOf(node, snaps) IN
  [nodes |-> IF Taken(list, name, snaps) THEN list.nodes ELSE list.nodes \union {node},
   entries |-> [list.entries EXCEPT ![i] = name]]

\* What was added is removed, under the name it was given then.
Removed(list, i, snaps) ==
  IF list.entries[i] = None THEN list
  ELSE [nodes |-> {n \in list.nodes : NameOf(n, snaps) # list.entries[i]},
        entries |-> [list.entries EXCEPT ![i] = None]]

\* A by-x group that has lost its last child is dropped, and made anew for its next.
Pruned(g, list) == IF g # AllBooks /\ list.nodes = {} THEN EmptyList ELSE list

-----------------------------------------------------------------------------
(* recent.  DateAdded grows with the id. *)

Newest(S) == {i \in S : Cardinality({j \in S : j > i}) < RecentLimit}

AddedOneOf(list, S, snaps) ==
  IF S = {} THEN list ELSE Added(list, CHOOSE i \in S : TRUE, snaps)

RemovedOneOf(list, S, snaps) ==
  IF S = {} THEN list ELSE Removed(list, CHOOSE i \in S : TRUE, snaps)

\* Mutant of Refreshed: a book that is gone leaves its place empty.
RefreshedOnAdd(list, was, now, snaps) ==
  LET entered == IF was \subseteq now THEN Newest(now) \ Newest(was) ELSE {} IN
  RemovedOneOf(AddedOneOf(list, entered, snaps), Newest(was) \ Newest(now), snaps)

\* refresh: one book at most enters, and one at most leaves, in this order.
Refreshed(list, was, now, snaps) ==
  RemovedOneOf(AddedOneOf(list, Newest(now) \ Newest(was), snaps),
               Newest(was) \ Newest(now), snaps)
=============================================================================
