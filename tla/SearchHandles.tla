--------------------------- MODULE SearchHandles ---------------------------
(***************************************************************************)
(* The search directory (internal/fs/views): clone gives out handles, a    *)
(* query written to one fills its results, and handles are reclaimed when  *)
(* too many, too old or closed.  searchDir.mu is held from the first       *)
(* reclaiming to the last; the registry's lock is held within a step.  The *)
(* results of a handle that is listed are a view of the registry.          *)
(***************************************************************************)
EXTENDS Integers, Sequences, FiniteSets, FiniteSetsExt, SequencesExt

CONSTANTS
  Readers,      \* the requests of clients that may be under way at once
  Sweeper,      \* the cleanup worker
  CloneFids,    \* the fids clients have for clone
  Shelved,      \* the ids of books
  Snaps,        \* what a book may be
  Queries,      \* what clients search for
  Answers,      \* the books each query is for
  MaxHandles,   \* the cap on handles, 0 for none
  Expires,      \* whether handles expire
  MaxIssued,    \* bound: how many handles are ever given out
  Nobody        \* no book, query, handle or holder of the lock

HandleIds == 1 .. MaxIssued
Workers == Readers \union {Sweeper}

ASSUME SearchAssumption ==
  /\ MaxHandles \in Nat
  /\ MaxIssued \in Nat
  /\ Expires \in BOOLEAN
  /\ Sweeper \notin Readers /\ Nobody \notin Workers
  /\ Answers \in [Queries -> SUBSET Snaps]
  /\ Nobody \notin Queries /\ Nobody \notin Snaps

VARIABLES
  shelf,        \* the registry's books
  handles,      \* the handles that are listed, least recently queried first
  nextID,       \* the next id
  lock,         \* who has searchDir.mu
  stage,        \* where each worker is
  victims,      \* the handles each has still to remove
  target,       \* the fid or handle each is about, and the query
  predicate,    \* what the results of each listed handle are filtered by
  results,      \* the books each listed handle lists
  open,         \* the fids of clone the server has open; of go9p
  cloneFids,    \* the handle clone keeps for each fid, 0 for none yet
  got           \* the handles ever read through each fid; not in the code

searchvars == <<shelf, handles, nextID, lock, stage, victims, target,
                predicate, results, open, cloneFids, got>>

SearchInit ==
  /\ shelf = [i \in Shelved |-> Nobody]
  /\ handles = <<>>
  /\ nextID = 1
  /\ lock = Nobody
  /\ stage = [w \in Workers |-> "idle"]
  /\ victims = [w \in Workers |-> {}]
  /\ target = [w \in Workers |-> Nobody]
  /\ predicate = [h \in HandleIds |-> Nobody]
  /\ results = [h \in HandleIds |-> {}]
  /\ open = {}
  /\ cloneFids = [f \in CloneFids |-> Nobody]
  /\ got = {}

-----------------------------------------------------------------------------
(* The views. *)

Listed(h) == h \in ToSet(handles)

\* searchResultsDir.Add: a handle that was never queried lists nothing.
Lists(q, s) == q # Nobody /\ s # Nobody /\ s \in Answers[q]

Found(q) == {i \in Shelved : Lists(q, shelf[i])}

\* Mutant of Refiled: a book that is listed stays.
RefiledOnly(h, i, s) == IF Lists(predicate[h], s) THEN results[h] \union {i} ELSE results[h]

\* A book's event: the old snapshot leaves every view, the new one is added.
Refiled(h, i, s) == IF Lists(predicate[h], s) THEN results[h] \union {i} ELSE results[h] \ {i}

\* OnIngested, OnEdited, OnDeleted.
Event(i, s) ==
  /\ s # shelf[i]
  /\ shelf' = [shelf EXCEPT ![i] = s]
  /\ results' = [h \in HandleIds |-> IF Listed(h) THEN Refiled(h, i, s) ELSE results[h]]
  /\ UNCHANGED <<handles, nextID, lock, stage, victims, target, predicate, open, cloneFids, got>>

-----------------------------------------------------------------------------
(* Reclaiming: removeHandleLocked, cleanupLocked. *)

\* The n handles least recently queried.
Oldest(n) == {handles[k] : k \in 1 .. n}

\* Mutant of Excess: a handle about to be added is not counted.
ExcessBarely(w) ==
  IF MaxHandles > 0 /\ Len(handles) > MaxHandles THEN Len(handles) - MaxHandles ELSE 0

Headroom(w) == IF w = Sweeper THEN 0 ELSE 1

Excess(w) ==
  IF MaxHandles > 0 /\ Len(handles) + Headroom(w) > MaxHandles
    THEN Len(handles) + Headroom(w) - MaxHandles ELSE 0

\* A tick of the worker may come at any time.
Waits(w) == stage[w] = IF w = Sweeper THEN "idle" ELSE "lock"

\* The handles idle too long are the first so many.
TakeLock(w) ==
  /\ Waits(w) /\ lock = Nobody
  /\ lock' = w
  /\ stage' = [stage EXCEPT ![w] = "expire"]
  /\ \E n \in IF Expires THEN 0 .. Len(handles) ELSE {0} : victims' = [victims EXCEPT ![w] = Oldest(n)]
  /\ UNCHANGED <<shelf, handles, nextID, target, predicate, results, open, cloneFids, got>>

HandlesBut(h) == RemoveAt(handles, CHOOSE k \in DOMAIN handles : handles[k] = h)

\* What a client that has it open still reads of an unlisted handle is left out.
Unlist(h) ==
  /\ handles' = HandlesBut(h)
  /\ predicate' = [predicate EXCEPT ![h] = Nobody]
  /\ results' = [results EXCEPT ![h] = {}]

Reclaim(w) ==
  \E h \in victims[w] :
    /\ Unlist(h)
    /\ victims' = [victims EXCEPT ![w] = @ \ {h}]
    /\ UNCHANGED <<shelf, nextID, lock, stage, target, open, cloneFids, got>>

Sort(w) ==
  /\ stage[w] = "expire" /\ victims[w] = {}
  /\ stage' = [stage EXCEPT ![w] = "evict"]
  /\ victims' = [victims EXCEPT ![w] = Oldest(Excess(w))]
  /\ UNCHANGED <<shelf, handles, nextID, lock, target, predicate, results, open, cloneFids, got>>

Swept ==
  /\ stage[Sweeper] = "evict" /\ victims[Sweeper] = {}
  /\ stage' = [stage EXCEPT ![Sweeper] = "idle"]
  /\ lock' = Nobody
  /\ UNCHANGED <<shelf, handles, nextID, victims, target, predicate, results, open, cloneFids, got>>

-----------------------------------------------------------------------------
(* The clone file. *)

\* An entry that is there stays: one a read put back after the last close.
OpenClone(f) ==
  /\ f \notin open
  /\ open' = open \union {f}
  /\ cloneFids' = [cloneFids EXCEPT ![f] = IF @ = Nobody THEN 0 ELSE @]
  /\ UNCHANGED <<shelf, handles, nextID, lock, stage, victims, target, predicate, results, got>>

\* Reads through the fid may still be under way.
CloseClone(f) ==
  /\ f \in open
  /\ open' = open \ {f}
  /\ cloneFids' = [cloneFids EXCEPT ![f] = Nobody]
  /\ UNCHANGED <<shelf, handles, nextID, lock, stage, victims, target, predicate, results, got>>

\* A fid that has an id reads it again, whatever became of the handle.
ReadAgain(f) ==
  /\ f \in open /\ cloneFids[f] \notin {Nobody, 0}
  /\ got' = got \union {[fid |-> f, handle |-> cloneFids[f]]}
  /\ UNCHANGED <<shelf, handles, nextID, lock, stage, victims, target, predicate, results,
                 open, cloneFids>>

ReadClone(r, f) ==
  /\ f \in open /\ cloneFids[f] = 0
  /\ stage[r] = "idle" /\ nextID <= MaxIssued
  /\ stage' = [stage EXCEPT ![r] = "lock"]
  /\ target' = [target EXCEPT ![r] = [fid |-> f]]
  /\ UNCHANGED <<shelf, handles, nextID, lock, victims, predicate, results, open, cloneFids, got>>

\* Mutant of NextId: the first number that is not listed.
NextFree == CHOOSE h \in HandleIds : ~Listed(h) /\ \A k \in 1 .. h - 1 : Listed(k)

NextId == nextID

Allocate(r) ==
  /\ stage[r] = "evict" /\ victims[r] = {} /\ nextID <= MaxIssued
  /\ handles' = Append(handles, NextId)
  /\ nextID' = nextID + 1
  /\ target' = [target EXCEPT ![r] = [fid |-> @.fid, handle |-> NextId]]
  /\ stage' = [stage EXCEPT ![r] = "store"]
  /\ lock' = Nobody
  /\ UNCHANGED <<shelf, victims, predicate, results, open, cloneFids, got>>

Store(r) ==
  LET f == target[r].fid
      h == target[r].handle IN
  /\ stage[r] = "store"
  /\ cloneFids' = [cloneFids EXCEPT ![f] = h]
  /\ got' = got \union {[fid |-> f, handle |-> h]}
  /\ stage' = [stage EXCEPT ![r] = "idle"]
  /\ target' = [target EXCEPT ![r] = Nobody]
  /\ UNCHANGED <<shelf, handles, nextID, lock, victims, predicate, results, open>>

-----------------------------------------------------------------------------
(* A handle's ctl file, which a client may have open when the handle is gone. *)

Issued == 1 .. nextID - 1

\* executeSearch notes the time of the query; the results come later.
Query(r, h, q) ==
  /\ stage[r] = "idle" /\ h \in Issued
  /\ handles' = IF Listed(h) THEN Append(HandlesBut(h), h) ELSE handles
  /\ stage' = [stage EXCEPT ![r] = "resync"]
  /\ target' = [target EXCEPT ![r] = [handle |-> h, query |-> q]]
  /\ UNCHANGED <<shelf, nextID, lock, victims, predicate, results, open, cloneFids, got>>

Resync(r) ==
  LET h == target[r].handle
      q == target[r].query IN
  /\ stage[r] = "resync"
  /\ IF Listed(h) THEN /\ predicate' = [predicate EXCEPT ![h] = q]
                       /\ results' = [results EXCEPT ![h] = Found(q)]
                  ELSE UNCHANGED <<predicate, results>>
  /\ stage' = [stage EXCEPT ![r] = "idle"]
  /\ target' = [target EXCEPT ![r] = Nobody]
  /\ UNCHANGED <<shelf, handles, nextID, lock, victims, open, cloneFids, got>>

\* "close" waits for searchDir.mu.
CloseHandle(h) ==
  /\ lock = Nobody /\ Listed(h)
  /\ Unlist(h)
  /\ UNCHANGED <<shelf, nextID, lock, stage, victims, target, open, cloneFids, got>>

SearchNext ==
  \/ \E i \in Shelved, s \in Snaps \union {Nobody} : Event(i, s)
  \/ \E w \in Workers : TakeLock(w) \/ Reclaim(w) \/ Sort(w)
  \/ Swept
  \/ \E f \in CloneFids : OpenClone(f) \/ CloseClone(f) \/ ReadAgain(f)
  \/ \E f \in CloneFids, r \in Readers : ReadClone(r, f)
  \/ \E r \in Readers : Allocate(r) \/ Store(r) \/ Resync(r)
  \/ \E h \in HandleIds : CloseHandle(h) \/ \E r \in Readers, q \in Queries : Query(r, h, q)

SearchSpec == SearchInit /\ [][SearchNext]_searchvars

-----------------------------------------------------------------------------
\* Whatever clients clone, query and close at once, no more handles are listed
\* than the cap: "Counting only what is already in the map would leave the cap
\* admitting maxHandles+1" (cleanupLocked).
CapHolds == MaxHandles > 0 => Len(handles) <= MaxHandles

\* A listed handle's results are the books there are now that its last query is
\* for, in any order of queries and events: "No window leaves an event evaluated
\* against the wrong query" (executeSearch).
ResultsAreCurrent == \A h \in HandleIds : Listed(h) => results[h] = Found(predicate[h])

\* No handle is given to two fids, at once or one after the other, reclaimed
\* handles included: whoever still has an old id finds no search of another
\* fid's (allocateHandle, cloneFile.Read).
HandlesAreOfOneFid ==
  \A g, k \in got : g.handle = k.handle => g.fid = k.fid

\* "Opening it creates a new search handle" (cloneFile): a fid opened again has
\* none of an earlier open.  A read whose store comes after the close breaks it.
OpensAreNew ==
  [][\A f \in CloneFids : f \notin open /\ f \in open' => cloneFids'[f] = 0]_<<open, cloneFids>>
=============================================================================
