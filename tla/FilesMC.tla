------------------------------ MODULE FilesMC ------------------------------
(***************************************************************************)
(* Instances of Files: two clients and two books, bytes that make tags of  *)
(* one letter, and a field file that is read-only.                         *)
(***************************************************************************)
EXTENDS Files
CONSTANTS fid1, fid2

AnyId == None
TagA == <<"a">>
TagB == <<"b">>
Spaced == <<"a", "sp">>
Dot == <<"dot">>

SomeOpens ==
  {[book |-> 1, field |-> "tags", truncated |-> FALSE],
   [book |-> 1, field |-> "title", truncated |-> TRUE],
   [book |-> 1, field |-> "pubdate", truncated |-> FALSE]}

SomeChunks == {<<"a">>, <<"nl", "b">>}

SomeTitle == <<"b">>
SomeDate == <<"a", "a">>

SomeCommands ==
  {[op |-> "add-tag", tag |-> TagA, ids |-> AnyId],
   [op |-> "add-tag", tag |-> TagB, ids |-> <<2, 3, 2>>],
   [op |-> "add-tag", tag |-> Spaced, ids |-> <<1>>],
   [op |-> "add-tag", tag |-> Dot, ids |-> <<1>>],
   [op |-> "remove-tag", tag |-> TagA, ids |-> <<1>>],
   [op |-> "rename-tag", tag |-> TagA, new |-> TagB],
   [op |-> "delete", id |-> 2]}

\* Without the files of tags, only commands change tags.
OtherOpens == {o \in SomeOpens : o.field # "tags"}

AddCommands == {c \in SomeCommands : c.op = "add-tag"}

SameName == AddCommands \union {[op |-> "rename-tag", tag |-> TagA, new |-> TagA]}
=============================================================================
