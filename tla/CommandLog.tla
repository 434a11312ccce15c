---------------------------- MODULE CommandLog ----------------------------
(***************************************************************************)
(* The log of ctl commands (internal/fs/ctl/log.go): a ring of the last    *)
(* results, shared by every client.                                        *)
(***************************************************************************)
EXTENDS Integers, Sequences

CONSTANTS
  LogSize,     \* the length of the ring
  Nothing      \* a slot that was never written

ASSUME LogSizeAssumption == LogSize \in Nat \ {0}

VARIABLES
  entries,     \* the ring
  next,        \* the slot written next
  full,        \* the ring has gone round
  appended     \* every result so far; not in the code

logvars == <<entries, next, full, appended>>

LogInit ==
  /\ entries = [k \in 0 .. LogSize - 1 |-> Nothing]
  /\ next = 0
  /\ full = FALSE
  /\ appended = <<>>

\* Mutant of Logged: the ring is full when the last slot is next.
LoggedFullEarly(e) ==
  /\ entries' = [entries EXCEPT ![next] = e]
  /\ next' = (next + 1) % LogSize
  /\ full' = (full \/ next' = LogSize - 1)
  /\ appended' = appended \o <<e>>

Logged(e) ==
  /\ entries' = [entries EXCEPT ![next] = e]
  /\ next' = (next + 1) % LogSize
  /\ full' = (full \/ next' = 0)
  /\ appended' = appended \o <<e>>

\* Entries: what a reader of the log file gets, oldest first.
LogEntries ==
  IF full THEN [k \in 1 .. LogSize |-> IF k <= LogSize - next THEN entries[next + k - 1]
                                       ELSE entries[k - (LogSize - next) - 1]]
  ELSE [k \in 1 .. next |-> entries[k - 1]]

-----------------------------------------------------------------------------
\* However often the ring has gone round, a reader gets the last LogSize
\* results, or all of them if there were fewer, in order (CommandLog.Entries).
LogShowsTheLast ==
  LogEntries = LET n == Len(appended) IN
               SubSeq(appended, IF n <= LogSize THEN 1 ELSE n - LogSize + 1, n)
=============================================================================
