------------------------------ MODULE Frontend ------------------------------
(***************************************************************************)
(* The runner (internal/frontend) and the end of main: every frontend      *)
(* serves in a goroutine of its own, the HTTP listener in one more, until  *)
(* a signal comes or one of them stops; then all are shut down against one *)
(* deadline, and the library is closed.                                    *)
(***************************************************************************)
EXTENDS Integers, Sequences, FiniteSets

CONSTANTS
  Count,        \* how many frontends are registered
  HasHTTP       \* whether there are HTTP frontends

Frontends == 1 .. Count

ASSUME FrontendAssumption == Count \in Nat /\ HasHTTP \in BOOLEAN

Reasons == {"none", "fault"}

Exit == [name : Frontends, reason : Reasons]

\* What Run joins into its error.
Errors == {"stopped early", "fault", "http", "http shutdown", "stopping", "still running"}

VARIABLES
  serving,      \* where each frontend's goroutine is: in Serve, or returned
  http,         \* the listener: "off", "serving", "failed" or "closed"
  answering,    \* whether an HTTP request is being answered
  exits,        \* the channel of exits, in the order they came: name and reason
  httpServeErr, \* the channel of the listener: "empty", "fault" or "closed"
  cancelled,    \* a signal has come
  deadline,     \* of stopCtx: "unset", "running" or "passed"
  at,           \* where Run, and main after it, are
  next,         \* the frontend to shut down next
  asked,        \* the frontends whose Shutdown was called
  running,      \* how many Run believes are serving
  errs          \* the errors collected

chans == <<exits, httpServeErr>>
vars == <<serving, http, answering, chans, cancelled, deadline, at, next, asked, running, errs>>

TypeOK ==
  /\ serving \in [Frontends -> BOOLEAN]
  /\ http \in {"off", "serving", "failed", "closed"}
  /\ answering \in BOOLEAN
  /\ exits \in Seq(Exit)
  /\ httpServeErr \in {"empty", "fault", "closed"}
  /\ cancelled \in BOOLEAN
  /\ deadline \in {"unset", "running", "passed"}
  /\ at \in {"wait", "stop http", "await http", "stop", "drain", "close", "exit"}
  /\ next \in 1 .. Count + 1
  /\ asked \subseteq Frontends
  /\ running \in 0 .. Count
  /\ errs \subseteq Errors

Init ==
  /\ serving = [f \in Frontends |-> TRUE]
  /\ http = IF HasHTTP THEN "serving" ELSE "off"
  /\ answering = FALSE
  /\ exits = <<>> /\ httpServeErr = "empty"
  /\ cancelled = FALSE /\ deadline = "unset"
  /\ at = "wait" /\ next = 1 /\ asked = {}
  /\ running = Count /\ errs = {}

-----------------------------------------------------------------------------
(* The goroutines.  The channel of exits has room for all of them. *)

Return(f, reason) ==
  /\ serving[f]
  /\ serving' = [serving EXCEPT ![f] = FALSE]
  /\ exits' = Append(exits, [name |-> f, reason |-> reason])
  /\ UNCHANGED <<http, answering, httpServeErr, cancelled, deadline, at, next, asked, running,
                 errs>>

\* Of itself: the port is taken, the listener dies, or no reason is given.
ServeStops(f) == at # "exit" /\ \E reason \in Reasons : Return(f, reason)

\* Because it was shut down: this may take for ever.
ServeEnds(f) == at # "exit" /\ f \in asked /\ Return(f, "none")

HTTPFails ==
  /\ at # "exit" /\ http = "serving"
  /\ http' = "failed" /\ httpServeErr' = "fault"
  /\ UNCHANGED <<serving, answering, exits, cancelled, deadline, at, next, asked, running, errs>>

\* A connection outlives a listener that fails, until Shutdown.
RequestComes ==
  /\ HasHTTP /\ at \in {"wait", "stop http"} /\ answering' = TRUE
  /\ UNCHANGED <<serving, http, chans, cancelled, deadline, at, next, asked, running, errs>>

\* Nothing is left that HTTP frontends answer.
RequestsEnd ==
  /\ at # "exit" /\ answering /\ answering' = FALSE
  /\ UNCHANGED <<serving, http, chans, cancelled, deadline, at, next, asked, running, errs>>

Signal ==
  /\ ~cancelled /\ cancelled' = TRUE
  /\ UNCHANGED <<serving, http, answering, chans, deadline, at, next, asked, running, errs>>

\* The shared deadline runs from the moment the shutdown starts.
DeadlinePasses ==
  /\ deadline = "running" /\ deadline' = "passed"
  /\ UNCHANGED <<serving, http, answering, chans, cancelled, at, next, asked, running, errs>>

-----------------------------------------------------------------------------
(* Run. *)

Received == exits # <<>> /\ exits' = Tail(exits)

\* Mutant of Early: to stop without a reason is no error.
EarlyIfFault(reason) == IF reason = "fault" THEN {"fault"} ELSE {}

\* exit.early and exit.wrapped.
Early(reason) == IF reason = "fault" THEN {"fault"} ELSE {"stopped early"}
Wrapped(reason) == IF reason = "fault" THEN {"fault"} ELSE {}

\* The first select: whichever is ready, any if several are.
Wait ==
  /\ at = "wait"
  /\ \/ cancelled /\ UNCHANGED <<chans, running, errs>>
     \/ Received /\ running' = running - 1 /\ errs' = Early(Head(exits).reason)
                 /\ UNCHANGED httpServeErr
     \/ httpServeErr = "fault" /\ httpServeErr' = "closed" /\ errs' = {"http"}
                               /\ UNCHANGED <<exits, running>>
  /\ deadline' = "running"
  /\ at' = "stop http"
  /\ UNCHANGED <<serving, http, answering, cancelled, next, asked>>

\* Shutdown closes the listener.
StopHTTP ==
  /\ at = "stop http"
  /\ http' = IF http = "serving" THEN "closed" ELSE http
  /\ httpServeErr' = IF http = "serving" THEN "closed" ELSE httpServeErr
  /\ at' = "await http"
  /\ UNCHANGED <<serving, answering, exits, cancelled, deadline, next, asked, running, errs>>

\* It waits until the deadline for what is being answered, and closing the listener may
\* have failed; the HTTP frontends' own Shutdown does nothing.
AwaitHTTP ==
  /\ at = "await http"
  /\ \/ ~answering /\ UNCHANGED errs
     \/ HasHTTP /\ ~answering /\ errs' = errs \union {"http shutdown"}
     \/ answering /\ deadline = "passed" /\ errs' = errs \union {"http shutdown"}
  /\ at' = "stop"
  /\ UNCHANGED <<serving, http, answering, chans, cancelled, deadline, next, asked, running>>

\* Whether it has stopped already or not, and whether or not this succeeds; it
\* takes until the deadline at most.
Stop ==
  /\ at = "stop" /\ next <= Count
  /\ asked' = asked \union {next}
  /\ next' = next + 1
  /\ errs' \in {errs, errs \union {"stopping"}}
  /\ UNCHANGED <<serving, http, answering, chans, cancelled, deadline, at, running>>

AllStopped ==
  /\ at = "stop" /\ next > Count
  /\ at' = "drain"
  /\ UNCHANGED <<serving, http, answering, chans, cancelled, deadline, next, asked, running, errs>>

\* Mutant of Drain: the deadline is not looked at.
DrainForEver ==
  /\ at = "drain" /\ running > 0
  /\ Received /\ running' = running - 1
  /\ errs' = errs \union Wrapped(Head(exits).reason)
  /\ UNCHANGED <<serving, http, answering, httpServeErr, cancelled, deadline, at, next, asked>>

\* Mutant of Drain: it goes on receiving when there is none left.
DrainOn ==
  /\ at = "drain"
  /\ \/ /\ Received /\ running' = running - 1
        /\ errs' = errs \union Wrapped(Head(exits).reason)
     \/ /\ deadline = "passed" /\ running' = 0
        /\ errs' = errs \union {"still running"}
        /\ UNCHANGED exits
  /\ UNCHANGED <<serving, http, answering, httpServeErr, cancelled, deadline, at, next, asked>>

\* The second select: an exit that is there may lose against the deadline.
Drain ==
  /\ at = "drain" /\ running > 0
  /\ \/ /\ Received /\ running' = running - 1
        /\ errs' = errs \union Wrapped(Head(exits).reason)
     \/ /\ deadline = "passed" /\ running' = 0
        /\ errs' = errs \union {"still running"}
        /\ UNCHANGED exits
  /\ UNCHANGED <<serving, http, answering, httpServeErr, cancelled, deadline, at, next, asked>>

\* Mutant of Drained: the last one is not waited for.
DrainedEarly ==
  /\ at = "drain" /\ running <= 1
  /\ at' = "close"
  /\ UNCHANGED <<serving, http, answering, chans, cancelled, deadline, next, asked, running, errs>>

\* Run returns.
Drained ==
  /\ at = "drain" /\ running = 0
  /\ at' = "close"
  /\ UNCHANGED <<serving, http, answering, chans, cancelled, deadline, next, asked, running, errs>>

\* main closes the library and exits, with an error if Run returned one.
CloseLibrary ==
  /\ at = "close" /\ at' = "exit"
  /\ UNCHANGED <<serving, http, answering, chans, cancelled, deadline, next, asked, running, errs>>

RunStep == Wait \/ StopHTTP \/ AwaitHTTP \/ Stop \/ AllStopped \/ Drain \/ Drained \/ CloseLibrary

Next ==
  \/ RunStep
  \/ \E f \in Frontends : ServeStops(f) \/ ServeEnds(f)
  \/ HTTPFails \/ RequestComes \/ RequestsEnd \/ Signal \/ DeadlinePasses

\* Run's goroutine runs and time passes; of frontends and requests nothing is assumed.
Fairness == WF_vars(RunStep) /\ WF_vars(DeadlinePasses)

Spec == Init /\ [][Next]_vars /\ Fairness

-----------------------------------------------------------------------------
\* Without a signal the process ends only with an error, "whether the cause was a
\* port already bound, a listener dying, or a server returning cleanly for no
\* stated reason" (DECISIONS.md #26, Runner.Run).
ExitsNonZero == at \in {"close", "exit"} /\ ~cancelled => errs # {}

\* The library is not closed under a listener, nor under a frontend that still serves
\* or a request being answered, unless the deadline has passed and the exit status is
\* that of an error for each of the two (main, Runner.Run).
ClosedUnderNobody ==
  at = "exit" =>
    /\ http # "serving"
    /\ answering => deadline = "passed" /\ "http shutdown" \in errs
    /\ (\E f \in Frontends : serving[f]) => deadline = "passed" /\ "still running" \in errs

\* The first to stop takes all the others with it: once anything has stopped, or
\* a signal has come, the process ends, though a frontend may ignore being shut
\* down: "a listener that will not return delays the exit by seconds rather than
\* holding it open" (DECISIONS.md #26).
AllGoDown ==
  cancelled \/ http = "failed" \/ (\E f \in Frontends : ~serving[f]) ~> at = "exit"
=============================================================================
