------------------------------- MODULE Inbox -------------------------------
(***************************************************************************)
(* The inbox directory (internal/fs/inbox): a client creates a file and    *)
(* writes it, and the close ingests what the library's handle has staged.  *)
(* The 9P library (go9p) opens a created file for the fid that created it, *)
(* passes on writes and closes of open fids only, and clears the parent of *)
(* a file it takes off a directory.                                        *)
(***************************************************************************)
EXTENDS Naturals, Sequences

CONSTANTS
  Clients,      \* the fids clients hold
  Names,        \* the names they create
  Data,         \* what they write
  MaxFiles,     \* how many files there are at a time
  MaxData,      \* how many writes one handle takes
  Nil           \* no file, no handle, no fid

ASSUME InboxAssumption ==
  /\ MaxFiles \in Nat /\ MaxData \in Nat
  /\ Nil \notin Clients /\ Nil \notin 1 .. MaxFiles /\ Nil \notin Seq(Data)

Uploads == 1 .. MaxFiles

VARIABLES
  entry,        \* the listing: the file of each name, or Nil
  named,        \* the name of each file
  children,     \* the files whose parent is the directory
  fid,          \* the fid the handle of each file is open for, or Nil
  at,           \* the file each fid was walked to or created, or Nil
  isOpen,       \* the fids that are open
  staged,       \* what the handle opened for each fid has been written, or Nil
  closing,      \* how far the close of each fid has come
  held,         \* the handle the close of each fid took, by the fid it is for
  wrote,        \* what each fid wrote since it was opened; not in the code
  ended         \* the files an upload of which has been ingested; not in the code

inboxvars == <<entry, named, children, fid, at, isOpen, staged, closing, held, wrote, ended>>

InboxInit ==
  /\ entry = [n \in Names |-> Nil]
  /\ named = [u \in Uploads |-> Nil]
  /\ children = {}
  /\ fid = [u \in Uploads |-> Nil]
  /\ at = [f \in Clients |-> Nil]
  /\ isOpen = [f \in Clients |-> FALSE]
  /\ staged = [f \in Clients |-> Nil]
  /\ closing = [f \in Clients |-> "no"]
  /\ held = [f \in Clients |-> Nil]
  /\ wrote = [f \in Clients |-> <<>>]
  /\ ended = {}

\* Mutant of MayOpen: the handle of an open file is replaced.
MayOpenAlways(fids, u) == TRUE

MayOpen(fids, u) == fids[u] = Nil

\* Open: refused while the file has a handle; and CreateIngest may fail.
Opened(fids, u, f) ==
  \/ /\ MayOpen(fids, u)
     /\ fid' = [fids EXCEPT ![u] = f]
     /\ isOpen' = [isOpen EXCEPT ![f] = TRUE]
     /\ staged' = [staged EXCEPT ![f] = <<>>]
     /\ wrote' = [wrote EXCEPT ![f] = <<>>]
  \/ fid' = fids /\ UNCHANGED <<isOpen, staged, wrote>>

\* Neither listed nor held by a fid: there is no such file.
Gone(u) == (\A n \in Names : entry[n] # u) /\ (\A f \in Clients : at[f] # u)

\* The file is listed before it is opened, in place of one of its name: DeleteChild
\* goes by name, and whichever file has it loses its parent.
Create(f, n) ==
  /\ at[f] = Nil
  /\ \E u \in Uploads :
       /\ Gone(u) /\ \A v \in 1 .. u - 1 : ~Gone(v)
       /\ Opened([fid EXCEPT ![u] = Nil], u, f)
       /\ named' = [named EXCEPT ![u] = n]
       /\ children' = (children \ {entry[n]}) \union {u}
       /\ entry' = [entry EXCEPT ![n] = u]
       /\ at' = [at EXCEPT ![f] = u]
       /\ ended' = ended \ {u}
  /\ UNCHANGED <<closing, held>>

Walk(f, n) ==
  /\ at[f] = Nil /\ entry[n] # Nil
  /\ at' = [at EXCEPT ![f] = entry[n]]
  /\ UNCHANGED <<entry, named, children, fid, isOpen, staged, closing, held, wrote, ended>>

Idle(f) == at[f] # Nil /\ ~isOpen[f] /\ closing[f] = "no"

InboxOpen(f) ==
  /\ Idle(f)
  /\ Opened(fid, at[f], f)
  /\ UNCHANGED <<entry, named, children, at, closing, held, ended>>

\* A fid that is not open goes without the file hearing of it.
Forget(f) ==
  /\ Idle(f)
  /\ at' = [at EXCEPT ![f] = Nil]
  /\ UNCHANGED <<entry, named, children, fid, isOpen, staged, closing, held, wrote, ended>>

InboxWrite(f, d) ==
  /\ isOpen[f] /\ fid[at[f]] = f /\ Len(staged[f]) < MaxData
  /\ staged' = [staged EXCEPT ![f] = Append(@, d)]
  /\ wrote' = [wrote EXCEPT ![f] = Append(@, d)]
  /\ UNCHANGED <<entry, named, children, fid, at, isOpen, closing, held, ended>>

\* teardown takes the handle off the file, whichever fid it is for.
InboxClose(f) ==
  LET h == fid[at[f]] IN
  /\ isOpen[f]
  /\ isOpen' = [isOpen EXCEPT ![f] = FALSE]
  /\ fid' = [fid EXCEPT ![at[f]] = Nil]
  /\ held' = [held EXCEPT ![f] = h]
  /\ closing' = [closing EXCEPT ![f] = IF h = Nil THEN "no" ELSE "parent"]
  /\ UNCHANGED <<entry, named, children, at, staged, wrote, ended>>

\* Mutant of FindParent: the entry is left to a later close.
FindParentNot(f) ==
  /\ closing[f] = "parent"
  /\ closing' = [closing EXCEPT ![f] = "ingest"]
  /\ UNCHANGED <<entry, named, children, fid, at, isOpen, staged, held, wrote, ended>>

FindParent(f) ==
  /\ closing[f] = "parent"
  /\ closing' = [closing EXCEPT ![f] = IF at[f] \in children THEN "delete" ELSE "ingest"]
  /\ UNCHANGED <<entry, named, children, fid, at, isOpen, staged, held, wrote, ended>>

\* DeleteChild of its own name, which by now may be another file's.
TakeOff(f) ==
  LET n == named[at[f]] IN
  /\ closing[f] = "delete"
  /\ children' = children \ {entry[n]}
  /\ entry' = [entry EXCEPT ![n] = Nil]
  /\ closing' = [closing EXCEPT ![f] = "ingest"]
  /\ UNCHANGED <<named, fid, at, isOpen, staged, held, wrote, ended>>

\* Ingest files the book, or fails; either way the temporary file is gone.
Ingest(f) ==
  /\ closing[f] = "ingest"
  /\ closing' = [closing EXCEPT ![f] = "no"]
  /\ staged' = [staged EXCEPT ![held[f]] = Nil]
  /\ held' = [held EXCEPT ![f] = Nil]
  /\ ended' = ended \union {at[f]}
  /\ at' = [at EXCEPT ![f] = Nil]
  /\ wrote' = [wrote EXCEPT ![f] = <<>>]
  /\ UNCHANGED <<entry, named, children, fid, isOpen>>

InboxNext ==
  \E f \in Clients :
    \/ \E n \in Names : Create(f, n) \/ Walk(f, n)
    \/ InboxOpen(f) \/ Forget(f)
    \/ \E d \in Data : InboxWrite(f, d)
    \/ InboxClose(f) \/ FindParent(f) \/ TakeOff(f) \/ Ingest(f)

InboxSpec == InboxInit /\ [][InboxNext]_inboxvars

-----------------------------------------------------------------------------
\* Whatever names clients share and files they open again, a close ingests what
\* its own fid wrote since it was opened, all of it and in order, and no
\* temporary file is left that no close will ingest (InboxFile.teardown).
UploadsKeepApart ==
  \A f \in Clients :
    /\ isOpen[f] \/ closing[f] # "no" => staged[f] = wrote[f]
    /\ closing[f] # "no" => held[f] = f
    /\ staged[f] # Nil => isOpen[f] \/ closing[f] # "no"

\* The entry of an upload that is over is gone, whether or not the library took
\* the book, and whoever has created files of its name since (InboxFile.Close).
EndedIsUnlisted == \A n \in Names : entry[n] \notin ended
=============================================================================
