------------------------------- MODULE Files -------------------------------
(***************************************************************************)
(* The files of the served tree through which clients change books: field  *)
(* files and ctl.  A step is of one client, on one file.                   *)
(***************************************************************************)
EXTENDS Ctl

CONSTANTS
  Opens,       \* the files clients open: book, field, truncated
  Offsets,     \* where they write
  Chunks       \* and what

ASSUME FilesAssumption ==
  /\ Opens \subseteq [book : BookIds, field : Fields, truncated : BOOLEAN]
  /\ None \notin Opens
  /\ Offsets \subseteq Nat
  /\ Chunks \subseteq Text

vars == <<book, libvars, fidvars, sessions, ctlvars, logvars>>

Init == FieldsInit /\ CtlInit /\ LogInit

Open(f, o) ==
  /\ running[f] = None
  /\ OpenField(f, o.book, o.field, o.truncated)
  /\ UNCHANGED <<ctlvars, logvars>>

Write(f, off, data) ==
  /\ WriteField(f, off, data)
  /\ UNCHANGED <<ctlvars, logvars>>

Close(f) ==
  /\ CloseField(f)
  /\ IF book' = book THEN UNCHANGED before ELSE Disturb(f)
  /\ UNCHANGED <<running, found, visit, result, logvars>>

\* A book comes: no command under way is by itself any more.
Upload ==
  /\ AddBook
  /\ before' = [f \in Fids |-> None]
  /\ UNCHANGED <<running, found, visit, result, logvars>>

Next ==
  \/ Upload
  \/ \E f \in Fids :
    \/ \E o \in Opens : Open(f, o)
    \/ \E off \in Offsets, data \in Chunks : Write(f, off, data)
    \/ Close(f)
    \/ \E c \in Commands : Execute(f, c) \/ DeleteBook(f, c)
    \/ EditNext(f)
    \/ Finish(f)

Spec == Init /\ [][Next]_vars

-----------------------------------------------------------------------------
(* Every variable holds what the code's types allow; a list of tags names   *)
(* nothing twice and nothing that is no name, whatever bytes were written.  *)
TypeOK ==
  /\ \A b \in BookIds : book[b] # None =>
       /\ book[b].title \in Text \ {<<>>}
       /\ book[b].tags \in Seq(Line \ {<<>>}) /\ ValidTags(book[b].tags)
  /\ opened \in [Fids -> Opens \union {None}]
  /\ \A f \in Fids :
       /\ reads[f] \in Text
       /\ bufs[f] \in (Text \ {<<>>}) \union {None}
       /\ running[f] \in Commands \union {None}
       /\ visit[f] \in Seq(Nat)
       /\ DOMAIN found[f] \subseteq BookIds
       /\ result[f] \in [affected : Nat, skipped : Nat, errs : SUBSET Nat]
  /\ failures \in 0 .. MaxFailures /\ issued \in Nat
  /\ next \in 0 .. LogSize - 1
  /\ full \in BOOLEAN
=============================================================================
