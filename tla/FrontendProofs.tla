--------------------------- MODULE FrontendProofs ---------------------------
(* What holds at the end of the process for any number of frontends.         *)
EXTENDS Frontend, FiniteSetTheorems, TLAPS

Serving == {f \in Frontends : serving[f]}

\* Run's count is of the goroutines that have not been heard of, until it gives
\* up on those that are left.
Counted == running = Cardinality(Serving) + Len(exits)

GivenUp ==
  /\ at \in {"drain", "close", "exit"}
  /\ deadline = "passed" /\ "still running" \in errs /\ running = 0

\* Past the listener's Shutdown a request is being answered only if it outlasted that.
Outlasted ==
  answering /\ at \notin {"wait", "stop http", "await http"} =>
    deadline = "passed" /\ "http shutdown" \in errs

Ends ==
  /\ TypeOK
  /\ at # "wait" => cancelled \/ errs # {}
  /\ at \notin {"wait", "stop http"} => http # "serving"
  /\ at \in {"close", "exit"} => running = 0
  /\ Counted \/ GivenUp
  /\ Outlasted

\* What TypeOK says of the state that is counted with.
LEMMA Counters ==
  ASSUME TypeOK
  PROVE  exits \in Seq(Exit) /\ running \in 0 .. Count /\ next \in 1 .. Count + 1
  BY Zenon DEF TypeOK

LEMMA CountedFacts ==
  ASSUME TypeOK
  PROVE  /\ IsFiniteSet(Serving) /\ Cardinality(Serving) \in Nat
         /\ Len(exits) \in Nat
         /\ Cardinality(Serving) = 0 => \A f \in Frontends : ~serving[f]
<1>1. IsFiniteSet(Frontends)
  BY FrontendAssumption, FS_Interval DEF Frontends
<1>2. IsFiniteSet(Serving)
  BY <1>1, FS_Subset DEF Serving
<1>3. Cardinality(Serving) \in Nat
  BY <1>2, FS_CardinalityType
<1>4. Cardinality(Serving) = 0 => Serving = {}
  BY <1>2, FS_EmptySet
<1>5. Len(exits) \in Nat
  BY Counters
<1> QED
  BY <1>2, <1>3, <1>4, <1>5 DEF Serving

\* At first all of them serve.
LEMMA InitEnds == Init => Ends
<1> SUFFICES ASSUME Init PROVE Ends
  OBVIOUS
<1>1. TypeOK
  <2>1. exits \in Seq(Exit) /\ running \in 0 .. Count /\ next \in 1 .. Count + 1
    BY FrontendAssumption DEF Init
  <2> QED
    BY <2>1 DEF Init, TypeOK
<1>2. Serving = Frontends
  BY DEF Init, Serving
<1>3. Cardinality(Frontends) = Count
  BY FrontendAssumption, FS_Interval DEF Frontends
<1>4. Len(exits) = 0
  BY DEF Init
<1>5. Counted
  BY <1>2, <1>3, <1>4, FrontendAssumption DEF Init, Counted
<1> QED
  BY <1>1, <1>5 DEF Init, Ends, Outlasted

\* A goroutine that returns is one fewer and its exit one more.
LEMMA ReturnEnds ==
  ASSUME Ends, NEW f \in Frontends, NEW reason \in Reasons, Return(f, reason)
  PROVE  Ends'
<1> DEFINE exit == [name |-> f, reason |-> reason]
<1>1. exit \in Exit /\ exits' = Append(exits, exit)
  BY DEF Return, Exit
<1>2. /\ serving[f] /\ serving' = [serving EXCEPT ![f] = FALSE]
      /\ UNCHANGED <<http, answering, httpServeErr, cancelled, deadline, at, next, asked, running,
                     errs>>
  BY DEF Return
<1>3. exits \in Seq(Exit)
  BY DEF Ends, TypeOK
<1> HIDE DEF exit
<1>4. /\ exits' \in Seq(Exit)
      /\ Len(exits') = Len(exits) + 1
  BY <1>1, <1>3
<1>5. serving' \in [Frontends -> BOOLEAN]
  BY <1>2 DEF Ends, TypeOK
<1>6. TypeOK'
  BY <1>2, <1>4, <1>5 DEF Ends, TypeOK
<1>7. Serving' = Serving \ {f} /\ f \in Serving
  BY <1>2 DEF Serving, Ends, TypeOK
<1>8. Cardinality(Serving') = Cardinality(Serving) - 1
  BY <1>7, CountedFacts, FS_RemoveElement DEF Ends
<1>9. Counted => Counted'
  <2>1. TypeOK
    BY DEF Ends
  <2> QED
    BY <1>2, <1>4, <1>8, <2>1, CountedFacts, Counters DEF Counted
<1>10. GivenUp => GivenUp'
  BY <1>2 DEF GivenUp
<1> QED
  BY <1>2, <1>6, <1>9, <1>10 DEF Ends, Outlasted

\* What is received is no longer in the channel.
LEMMA ReceivedCounts ==
  ASSUME TypeOK, Received, running' = running - 1, Counted, UNCHANGED serving
  PROVE  /\ exits' \in Seq(Exit)
         /\ Head(exits).reason \in Reasons
         /\ running > 0 /\ Counted'
<1>1. exits \in Seq(Exit) /\ exits # <<>> /\ exits' = Tail(exits)
  BY DEF TypeOK, Received
<1>2. exits' \in Seq(Exit) /\ Len(exits') = Len(exits) - 1
  BY <1>1
<1>3. Head(exits) \in Exit
  BY <1>1
<1>4. Len(exits) > 0
  BY <1>1
<1>6. Head(exits).reason \in Reasons
  BY <1>3 DEF Exit
<1>5. Serving' = Serving
  BY DEF Serving
<1> QED
  BY <1>2, <1>4, <1>5, <1>6, CountedFacts DEF Counted

LEMMA WaitEnds ==
  ASSUME Ends, Wait
  PROVE  Ends'
<1>1. Counted /\ TypeOK
  BY DEF Ends, GivenUp, Wait
<1>2. /\ deadline' = "running" /\ at' = "stop http" /\ at = "wait"
      /\ UNCHANGED <<serving, http, answering, cancelled, next, asked>>
      /\ Outlasted'
  BY DEF Wait, Ends, Outlasted
<1>3. CASE cancelled /\ UNCHANGED <<chans, running, errs>>
  BY <1>1, <1>2, <1>3 DEF Ends, TypeOK, Counted, Serving, chans
<1>4. CASE /\ Received /\ running' = running - 1 /\ errs' = Early(Head(exits).reason)
           /\ UNCHANGED httpServeErr
  <2>1. /\ exits' \in Seq(Exit)
        /\ Head(exits).reason \in Reasons
        /\ running > 0 /\ Counted'
    BY <1>1, <1>2, <1>4, ReceivedCounts
  <2>2. errs' \subseteq Errors /\ errs' # {}
    BY <1>4, <2>1 DEF Early, Errors, Reasons
  <2>3. running' \in 0 .. Count
    BY <1>1, <1>4, <2>1, Counters, FrontendAssumption
  <2>4. TypeOK'
    BY <1>1, <1>2, <1>4, <2>1, <2>2, <2>3 DEF TypeOK
  <2> QED
    BY <1>2, <2>1, <2>2, <2>4 DEF Ends
<1>5. CASE /\ httpServeErr = "fault" /\ httpServeErr' = "closed" /\ errs' = {"http"}
           /\ UNCHANGED <<exits, running>>
  BY <1>1, <1>2, <1>5 DEF Ends, TypeOK, Counted, Serving, Errors
<1> QED
  BY <1>3, <1>4, <1>5 DEF Wait

LEMMA StopHTTPEnds ==
  ASSUME Ends, StopHTTP
  PROVE  Ends'
<1>1. Counted /\ TypeOK /\ (cancelled \/ errs # {})
  BY DEF Ends, GivenUp, StopHTTP
<1>2. /\ at' = "await http" /\ http' # "serving"
      /\ UNCHANGED <<serving, answering, exits, cancelled, deadline, next, asked, running, errs>>
      /\ Outlasted'
  BY DEF StopHTTP, Ends, Outlasted
<1>3. /\ http' \in {"off", "serving", "failed", "closed"}
      /\ httpServeErr' \in {"empty", "fault", "closed"}
  BY <1>1 DEF StopHTTP, TypeOK
<1>4. TypeOK'
  BY <1>1, <1>2, <1>3 DEF TypeOK
<1>5. Counted'
  BY <1>1, <1>2 DEF Counted, Serving
<1> QED
  BY <1>1, <1>2, <1>3, <1>4, <1>5 DEF Ends

\* Shutdown returns when nothing is being answered, or with an error at the deadline.
LEMMA AwaitHTTPEnds ==
  ASSUME Ends, AwaitHTTP
  PROVE  Ends'
<1>1. Counted /\ TypeOK /\ (cancelled \/ errs # {}) /\ http # "serving" /\ Outlasted
  BY DEF Ends, GivenUp, AwaitHTTP
<1>2. /\ at = "await http" /\ at' = "stop"
      /\ UNCHANGED <<serving, http, answering, chans, cancelled, deadline, next, asked, running>>
      /\ errs' \subseteq Errors /\ errs \subseteq errs'
      /\ answering => deadline = "passed" /\ "http shutdown" \in errs'
  BY <1>1 DEF AwaitHTTP, TypeOK, Errors
<1>3. TypeOK'
  BY <1>1, <1>2 DEF TypeOK, chans
<1>4. Counted' /\ Outlasted'
  BY <1>1, <1>2 DEF Counted, Serving, chans, Outlasted
<1> QED
  BY <1>1, <1>2, <1>3, <1>4 DEF Ends

LEMMA StopEnds ==
  ASSUME Ends, Stop
  PROVE  Ends'
<1>1. Counted /\ TypeOK /\ (cancelled \/ errs # {}) /\ http # "serving" /\ Outlasted
  BY DEF Ends, GivenUp, Stop
<1>2. /\ at = "stop" /\ next <= Count
      /\ UNCHANGED <<serving, http, answering, chans, cancelled, deadline, at, running>>
      /\ asked' = asked \union {next} /\ next' = next + 1
      /\ errs' \subseteq Errors /\ errs \subseteq errs'
  BY <1>1 DEF Stop, TypeOK, Errors
<1>3. next \in Frontends /\ next' \in 1 .. Count + 1
  BY <1>1, <1>2, FrontendAssumption DEF TypeOK, Frontends
<1>4. TypeOK'
  BY <1>1, <1>2, <1>3 DEF TypeOK, chans
<1>5. Counted' /\ Outlasted'
  BY <1>1, <1>2 DEF Counted, Serving, chans, Outlasted
<1> QED
  BY <1>1, <1>2, <1>4, <1>5 DEF Ends

LEMMA DrainEnds ==
  ASSUME Ends, Drain
  PROVE  Ends'
<1>1. Counted /\ TypeOK /\ (cancelled \/ errs # {}) /\ http # "serving" /\ Outlasted
  <2>1. running > 0 /\ at = "drain"
    BY DEF Drain
  <2>2. running # 0
    BY <2>1
  <2> QED
    BY <2>1, <2>2, Zenon DEF Ends, GivenUp
<1>2. /\ at = "drain"
      /\ UNCHANGED <<serving, http, answering, httpServeErr, cancelled, deadline, at, next, asked>>
      /\ errs \subseteq errs'
  BY DEF Drain
<1>5. Outlasted'
  BY <1>1, <1>2 DEF Outlasted
<1>3. CASE /\ Received /\ running' = running - 1
           /\ errs' = errs \union Wrapped(Head(exits).reason)
  <2>1. /\ exits' \in Seq(Exit)
        /\ Head(exits).reason \in Reasons
        /\ running > 0 /\ Counted'
    BY <1>1, <1>2, <1>3, ReceivedCounts
  <2>2. errs' \subseteq Errors /\ errs \subseteq errs'
    BY <1>1, <1>3, <2>1 DEF Wrapped, Errors, Reasons, TypeOK
  <2>3. running' \in 0 .. Count
    BY <1>1, <1>3, <2>1, Counters, FrontendAssumption
  <2>4. TypeOK'
    BY <1>1, <1>2, <2>1, <2>2, <2>3 DEF TypeOK
  <2> QED
    BY <1>1, <1>2, <1>5, <2>1, <2>2, <2>4 DEF Ends
<1>4. CASE /\ deadline = "passed" /\ running' = 0
           /\ errs' = errs \union {"still running"}
           /\ UNCHANGED exits
  <2>1. TypeOK'
    <3>0. running' = 0
      BY <1>4, Zenon
    <3>1. running' \in 0 .. Count
      BY <3>0, FrontendAssumption
    <3>2. errs' \subseteq Errors
      <4>1. errs \subseteq Errors
        BY <1>1, Zenon DEF TypeOK
      <4>2. "still running" \in Errors
        BY DEF Errors
      <4> QED
        BY <1>4, <4>1, <4>2
    <3>3. exits' = exits
      BY <1>4
    <3> QED
      BY <1>1, <1>2, <3>1, <3>2, <3>3, Zenon DEF TypeOK
  <2>2. GivenUp'
    BY <1>2, <1>4 DEF GivenUp
  <2> QED
    BY <1>1, <1>2, <1>4, <1>5, <2>1, <2>2 DEF Ends
<1> QED
  BY <1>3, <1>4 DEF Drain

\* The steps that only go on, and those that touch neither exits nor serving.
LEMMA RestEnds ==
  ASSUME Ends,
         \/ AllStopped \/ Drained \/ CloseLibrary
         \/ HTTPFails \/ RequestComes \/ RequestsEnd \/ Signal \/ DeadlinePasses
  PROVE  Ends'
<1>1. UNCHANGED <<serving, exits, next, asked, running, errs>>
  BY DEF AllStopped, Drained, CloseLibrary, HTTPFails, RequestComes, RequestsEnd, Signal,
     DeadlinePasses, chans
<1>2. Counted => Counted'
  BY <1>1 DEF Counted, Serving
<1>3. GivenUp => GivenUp'
  BY <1>1 DEF GivenUp, AllStopped, Drained, CloseLibrary, HTTPFails, RequestComes,
     RequestsEnd, Signal, DeadlinePasses
<1>4. TypeOK'
  <2>1. /\ http' \in {"off", "serving", "failed", "closed"}
        /\ httpServeErr' \in {"empty", "fault", "closed"}
    BY DEF Ends, TypeOK, AllStopped, Drained, CloseLibrary, HTTPFails, RequestComes,
       RequestsEnd, Signal, DeadlinePasses, chans
  <2>2. /\ answering' \in BOOLEAN /\ cancelled' \in BOOLEAN
        /\ deadline' \in {"unset", "running", "passed"}
    BY DEF Ends, TypeOK, AllStopped, Drained, CloseLibrary, HTTPFails, RequestComes,
       RequestsEnd, Signal, DeadlinePasses
  <2>3. at' \in {"wait", "stop http", "await http", "stop", "drain", "close", "exit"}
    BY DEF Ends, TypeOK, AllStopped, Drained, CloseLibrary, HTTPFails, RequestComes,
       RequestsEnd, Signal, DeadlinePasses
  <2> QED
    BY <1>1, <2>1, <2>2, <2>3 DEF Ends, TypeOK
<1>5. /\ at' # "wait" => cancelled' \/ errs' # {}
      /\ at' \notin {"wait", "stop http"} => http' # "serving"
      /\ at' \in {"close", "exit"} => running' = 0
  BY DEF Ends, AllStopped, Drained, CloseLibrary, HTTPFails, RequestComes,
     RequestsEnd, Signal, DeadlinePasses, chans
<1>6. Outlasted'
  <2>1. CASE RequestComes
    BY <2>1, Zenon DEF RequestComes, Outlasted
  <2>2. CASE RequestsEnd
    BY <2>2, Zenon DEF RequestsEnd, Outlasted
  <2>3. CASE AllStopped \/ Drained \/ CloseLibrary \/ HTTPFails \/ Signal \/ DeadlinePasses
    BY <2>3 DEF Ends, Outlasted, AllStopped, Drained, CloseLibrary, HTTPFails, Signal,
       DeadlinePasses
  <2> QED
    BY <2>1, <2>2, <2>3
<1> QED
  BY <1>2, <1>3, <1>4, <1>5, <1>6 DEF Ends

LEMMA NextEnds == Ends /\ [Next]_vars => Ends'
<1> SUFFICES ASSUME Ends, [Next]_vars PROVE Ends'
  OBVIOUS
<1>1. CASE UNCHANGED vars
  <2>1. UNCHANGED <<serving, http, answering, exits, httpServeErr, cancelled, deadline, at,
                    next, asked, running, errs>>
    BY <1>1 DEF vars, chans
  <2>2. TypeOK'
    BY <2>1 DEF Ends, TypeOK
  <2> QED
    BY <2>1, <2>2 DEF Ends, Counted, GivenUp, Serving, Outlasted
<1>2. CASE RunStep
  BY <1>2, WaitEnds, StopHTTPEnds, AwaitHTTPEnds, StopEnds, DrainEnds, RestEnds DEF RunStep
<1>3. ASSUME NEW f \in Frontends, ServeStops(f) PROVE Ends'
  BY <1>3, ReturnEnds DEF ServeStops
<1>4. ASSUME NEW f \in Frontends, ServeEnds(f) PROVE Ends'
  BY <1>4, ReturnEnds DEF ServeEnds, Reasons
<1>5. CASE HTTPFails \/ RequestComes \/ RequestsEnd \/ Signal \/ DeadlinePasses
  BY <1>5, RestEnds
<1> QED
  BY <1>1, <1>2, <1>3, <1>4, <1>5 DEF Next

\* Run counts down no further than to 0 and asks nobody who is not there: the state stays
\* in its domain however the exits, the signal and the deadline come (Runner.Run).
THEOREM TypeCorrect == Spec => []TypeOK
<1>1. Ends => TypeOK
  BY DEF Ends
<1> QED
  BY InitEnds, NextEnds, <1>1, PTL DEF Spec

\* Without a signal the process ends only with an error (Runner.Run).
THEOREM ExitCode == Spec => []ExitsNonZero
<1>1. Ends => ExitsNonZero
  BY DEF Ends, ExitsNonZero
<1> QED
  BY InitEnds, NextEnds, <1>1, PTL DEF Spec

\* The library is closed under no frontend that serves and no request being answered,
\* whatever order they stop in, unless the deadline has passed and the error says so
\* (main, Runner.Run).
THEOREM NobodyServed == Spec => []ClosedUnderNobody
<1>1. Ends => ClosedUnderNobody
  <2> SUFFICES ASSUME Ends, at = "exit" PROVE ClosedUnderNobody
    BY DEF ClosedUnderNobody
  <2>0. running = 0
    BY DEF Ends
  <2>1. /\ http # "serving"
        /\ answering => deadline = "passed" /\ "http shutdown" \in errs
    BY DEF Ends, Outlasted
  <2>2. CASE GivenUp
    BY <2>1, <2>2 DEF GivenUp, ClosedUnderNobody
  <2>3. CASE Counted
    <3>1. Cardinality(Serving) \in Nat /\ Len(exits) \in Nat
      BY CountedFacts DEF Ends
    <3>2. Cardinality(Serving) = 0
      BY <2>0, <2>3, <3>1 DEF Counted
    <3>3. \A f \in Frontends : ~serving[f]
      BY <3>2, CountedFacts DEF Ends
    <3> QED
      BY <2>1, <3>3 DEF ClosedUnderNobody
  <2> QED
    BY <2>2, <2>3 DEF Ends
<1> QED
  BY InitEnds, NextEnds, <1>1, PTL DEF Spec
=============================================================================
