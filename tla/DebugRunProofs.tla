--------------------------- MODULE DebugRunProofs ---------------------------
(***************************************************************************)
(* Proofs about DebugRun, for any timeouts, codes, images and bounds.      *)
(***************************************************************************)
EXTENDS DebugRun, FiniteSetTheorems, TLAPS

\* TypeOK with what its induction needs: a delivered event exists, the exit
\* code of a target that is going or gone is known, and a target that was not
\* created has posted nothing.
Typed ==
  /\ TypeOK
  /\ attempt = 1 => life[2] = "none"
  /\ pc = "start" => life[attempt] = "none"
  /\ \A p \in Attempts : life[p] = "none" => cur[p] = 0 /\ hist[p] = <<>>
  /\ pc = "event" => ev \in Attempts /\ Pending(ev)
  /\ \A p \in Attempts : life[p] \in {"ending", "exited"} => code[p] \in Codes

\* What a posted event changes: the queue grows at its end only.
LEMMA PostAppends ==
  ASSUME hist \in [Attempts -> Seq(Events)], NEW p \in Attempts,
         NEW e \in Events, Post(p, e)
  PROVE  /\ hist' \in [Attempts -> Seq(Events)]
         /\ Len(hist'[p]) = Len(hist[p]) + 1
         /\ hist'[p][Len(hist[p]) + 1] = e
         /\ \A i \in 1..Len(hist[p]) : hist'[p][i] = hist[p][i]
         /\ \A q \in Attempts \ {p} : hist'[q] = hist[q]
  <1>1. hist' = [hist EXCEPT ![p] = Append(hist[p], e)]
    BY DEF Post
  <1>2. hist'[p] = Append(hist[p], e)
    BY <1>1
  <1>3. Append(hist[p], e) \in Seq(Events)
    OBVIOUS
  <1> QED
    BY <1>1, <1>2, <1>3

\* The members of Events, by kind.
LEMMA EventTypes ==
  /\ \A k \in {"CREATE_PROCESS", "OUTPUT_DEBUG_STRING", "BREAKPOINT"} :
       Event(k, None) \in Events
  /\ \A m \in Modules : Event("LOAD_DLL", m) \in Events
  /\ \A k \in {"FIRST_CHANCE", "SECOND_CHANCE", "EXIT_PROCESS"}, c \in Codes :
       Event(k, c) \in Events
  /\ \A e \in Events :
       e.kind \in {"FIRST_CHANCE", "SECOND_CHANCE", "EXIT_PROCESS"} => e.arg \in Codes
  <1>1. ASSUME NEW e \in Events,
               e.kind \in {"FIRST_CHANCE", "SECOND_CHANCE", "EXIT_PROCESS"}
        PROVE  e.arg \in Codes
    <2>1. CASE e \in {Event(k, None) : k \in {"CREATE_PROCESS", "OUTPUT_DEBUG_STRING",
                                             "BREAKPOINT"}}
      BY <1>1, <2>1 DEF Event
    <2>2. CASE e \in {Event("LOAD_DLL", m) : m \in Modules}
      BY <1>1, <2>2 DEF Event
    <2>3. CASE e \in {Event(k, c) : k \in {"FIRST_CHANCE", "SECOND_CHANCE", "EXIT_PROCESS"},
                                   c \in Codes}
      BY <2>3 DEF Event
    <2> QED
      BY <2>1, <2>2, <2>3 DEF Events
  <1> QED
    BY <1>1 DEF Events

\* What a step of a target leaves alone, and what it adds to its queue.
LEMMA TargetStep ==
  ASSUME Typed, NEW p \in Attempts, Target(p)
  PROVE  /\ UNCHANGED <<debuggerVars, cur>>
         /\ hist' \in [Attempts -> Seq(Events)]
         /\ life' \in [Attempts -> {"none", "alive", "ending", "exited"}]
         /\ cause' \in [Attempts -> {"none", "self", "exception", "terminated"}]
         /\ code' \in [Attempts -> Codes \cup {None}]
         /\ fault' \in [Attempts -> Codes \cup {None}]
         /\ \A q \in Attempts : /\ Len(hist[q]) <= Len(hist'[q])
                                /\ \A i \in 1..Len(hist[q]) : hist'[q][i] = hist[q][i]
         /\ \A q \in Attempts : life'[q] \in {"ending", "exited"} => code'[q] \in Codes
         /\ \A q \in Attempts : life[q] = "none" => life'[q] = "none" /\ hist'[q] = hist[q]
         /\ \A q \in Attempts : life'[q] = "none" => life[q] = "none"
  <1> DEFINE Grown ==
        /\ hist' \in [Attempts -> Seq(Events)]
        /\ \A q \in Attempts : /\ Len(hist[q]) <= Len(hist'[q])
                               /\ \A i \in 1..Len(hist[q]) : hist'[q][i] = hist[q][i]
                               /\ life[q] = "none" => hist'[q] = hist[q]
  <1> USE DEF Typed, TypeOK
  <1>0. \A q \in Attempts : hist[q] \in Seq(Events) /\ Len(hist[q]) \in Nat
    OBVIOUS
  <1>1. ASSUME NEW e \in Events, Post(p, e), life[p] # "none" PROVE Grown
    <2>1. /\ hist' \in [Attempts -> Seq(Events)]
          /\ Len(hist'[p]) = Len(hist[p]) + 1
          /\ \A i \in 1..Len(hist[p]) : hist'[p][i] = hist[p][i]
          /\ \A q \in Attempts \ {p} : hist'[q] = hist[q]
      BY <1>1, PostAppends
    <2>2. \A q \in Attempts : q = p \/ hist'[q] = hist[q]
      BY <2>1
    <2>3. ASSUME NEW q \in Attempts PROVE Len(hist[q]) <= Len(hist'[q])
      <3>1. CASE q = p
        BY <1>0, <2>1, <3>1
      <3>2. CASE hist'[q] = hist[q]
        <4>1. Len(hist'[q]) = Len(hist[q])
          BY <3>2
        <4> QED
          BY <1>0, <4>1
      <3> QED
        BY <2>2, <3>1, <3>2
    <2>4. \A q \in Attempts : \A i \in 1..Len(hist[q]) : hist'[q][i] = hist[q][i]
      BY <2>1, <2>2
    <2> QED
      BY <1>1, <2>1, <2>2, <2>3, <2>4
  <1>2. CASE Act(p)
    <2>1. Grown
      BY <1>1, <1>2, EventTypes DEF Act, CanPost
    <2> QED
      BY <1>2, <2>1 DEF Act
  <1>3. CASE Raise(p)
    <2>1. Grown
      BY <1>1, <1>3, EventTypes, CodesAssumption DEF Raise, CanPost
    <2> QED
      BY <1>3, <2>1 DEF Raise
  <1>4. CASE Unhandled(p)
    <2>1. Grown
      BY <1>1, <1>4, EventTypes DEF Unhandled
    <2> QED
      BY <1>4, <2>1 DEF Unhandled
  <1>5. CASE Recovers(p)
    BY <1>0, <1>5 DEF Recovers
  <1>6. CASE Exits(p)
    <2>1. PICK c \in Codes : code' = [code EXCEPT ![p] = c] /\ Post(p, Event("EXIT_PROCESS", c))
      BY <1>6 DEF Exits
    <2>2. Grown
      BY <1>1, <1>6, <2>1, EventTypes DEF Exits
    <2> QED
      BY <1>6, <2>1, <2>2 DEF Exits
  <1>7. CASE RunsDown(p)
    <2>1. Grown
      BY <1>1, <1>7, EventTypes DEF RunsDown
    <2> QED
      BY <1>7, <2>1 DEF RunsDown
  <1> QED
    BY <1>2, <1>3, <1>4, <1>5, <1>6, <1>7 DEF Target

\* What TerminateProcess can do to the targets.
LEMMA TerminateStep ==
  ASSUME Typed, NEW p \in Attempts, NEW c \in Codes, NEW ok, Terminate(p, c, ok)
  PROVE  /\ life' \in [Attempts -> {"none", "alive", "ending", "exited"}]
         /\ cause' \in [Attempts -> {"none", "self", "exception", "terminated"}]
         /\ code' \in [Attempts -> Codes \cup {None}]
         /\ \A q \in Attempts : life'[q] \in {"ending", "exited"} => code'[q] \in Codes
         /\ \A q \in Attempts : life'[q] = "none" <=> life[q] = "none"
         /\ \A q \in Attempts : life[q] # "alive" => life'[q] = life[q] /\ code'[q] = code[q]
         /\ life'[p] \in {"ending", "exited"}
  <1> USE DEF Typed, TypeOK
  <1>1. CASE UNCHANGED <<life, cause, code>> /\ life[p] \in {"ending", "exited"}
    BY <1>1
  <1>2. CASE /\ life[p] = "alive"
             /\ life' = [life EXCEPT ![p] = "ending"]
             /\ cause' = [cause EXCEPT ![p] = "terminated"]
             /\ code' = [code EXCEPT ![p] = c]
    <2>1. \A q \in Attempts : /\ life'[q] = IF q = p THEN "ending" ELSE life[q]
                              /\ code'[q] = IF q = p THEN c ELSE code[q]
      BY <1>2
    <2> QED
      BY <1>2, <2>1
  <1> QED
    BY <1>1, <1>2 DEF Terminate

\* The wait of one turn of the loop is a positive number of ticks.
LEMMA WaitMsType ==
  ASSUME TypeOK, ~TimeoutDue
  PROVE  /\ WaitMs \in Nat \ {0} /\ WaitMs <= POLL
         /\ ~timeout_hit /\ timeout_ms # 0 => elapsed + WaitMs <= timeout_ms
  <1>1. timeout_ms \in Nat /\ elapsed \in Nat /\ POLL \in Nat \ {0}
    BY TimeAssumption DEF TypeOK
  <1>2. ~timeout_hit /\ timeout_ms # 0 => elapsed < timeout_ms
    BY <1>1 DEF TypeOK, TimeoutDue
  <1> QED
    BY <1>1, <1>2 DEF WaitMs, TypeOK
-----------------------------------------------------------------------------
\* TypeOK with what is known of the codes of targets that are over is
\* inductive.
LEMMA TypedInvariant == Spec => []Typed
  <1>1. Init => Typed
    <2> SUFFICES ASSUME Init PROVE Typed
      OBVIOUS
    <2>1. NoResult \in Results
      BY DEF NoResult, Results
    <2>2. <<>> \in Seq(Events) /\ Len(<<>>) = 0
      OBVIOUS
    <2>3. 1 \in Attempts /\ 2 \in Attempts
      BY DEF Attempts
    <2>4. \A p \in Attempts : cur[p] = 0 /\ hist[p] = <<>> /\ life[p] = "none"
      BY DEF Init
    <2>5. /\ life \in [Attempts -> {"none", "alive", "ending", "exited"}]
          /\ cause \in [Attempts -> {"none", "self", "exception", "terminated"}]
          /\ code \in [Attempts -> Codes \cup {None}]
          /\ fault \in [Attempts -> Codes \cup {None}]
          /\ cur \in [Attempts -> Nat]
      BY DEF Init
    <2>6. hist \in [Attempts -> Seq(Events)]
      BY <2>2 DEF Init
    <2>7. TypeOK
      <3>1. handles \subseteq {"h_process", "h_thread", "h_file"} \X Attempts
        BY DEF Init
      <3>2. \A p \in Attempts : cur[p] <= Len(hist[p])
        BY <2>2, <2>4
      <3>3. runtime_events \in Seq(Events) /\ result \in Results
        BY <2>1, <2>2 DEF Init
      <3>4. /\ termination_started \in Nat \cup {None} /\ ev \in Attempts \cup {None}
            /\ exit_code \in Codes \cup {None} /\ exception_code \in Codes \cup {None}
        BY DEF Init
      <3>5. /\ pc \in {"start", "peb", "head", "wait", "event", "returned", "done"}
            /\ attempt \in Attempts /\ timeout_ms \in Timeouts
            /\ elapsed \in Nat /\ deadline \in Nat /\ timeout_hit \in BOOLEAN
            /\ saw_terminal_exception \in BOOLEAN
        BY <2>3 DEF Init
      <3> QED
        BY <2>5, <2>6, <3>1, <3>2, <3>3, <3>4, <3>5 DEF TypeOK
    <2> QED
      BY <2>3, <2>4, <2>7 DEF Init, Typed
  <1>2. Typed /\ [Next]_vars => Typed'
    <2> SUFFICES ASSUME Typed, [Next]_vars PROVE Typed'
      OBVIOUS
    <2>13. ASSUME NEW p \in Attempts, Target(p) PROVE Typed'
      <3>1. /\ UNCHANGED <<debuggerVars, cur>>
            /\ hist' \in [Attempts -> Seq(Events)]
            /\ life' \in [Attempts -> {"none", "alive", "ending", "exited"}]
            /\ cause' \in [Attempts -> {"none", "self", "exception", "terminated"}]
            /\ code' \in [Attempts -> Codes \cup {None}]
            /\ fault' \in [Attempts -> Codes \cup {None}]
            /\ \A q \in Attempts : Len(hist[q]) <= Len(hist'[q])
            /\ \A q \in Attempts : life'[q] \in {"ending", "exited"} => code'[q] \in Codes
            /\ \A q \in Attempts :
                 life[q] = "none" <=> life'[q] = "none" /\ hist'[q] = hist[q] /\ life[q] = "none"
            /\ \A q \in Attempts : life'[q] = "none" => life[q] = "none"
        BY <2>13, TargetStep
      <3>2. /\ \A q \in Attempts : Len(hist'[q]) \in Nat /\ Len(hist[q]) \in Nat
            /\ \A q \in Attempts : cur[q] <= Len(hist[q]) /\ cur[q] \in Nat
        BY <3>1 DEF Typed, TypeOK
      <3>3. \A q \in Attempts : cur'[q] = cur[q] /\ cur'[q] <= Len(hist'[q])
        BY <3>1, <3>2
      <3>4. TypeOK'
        BY <3>1, <3>3 DEF Typed, TypeOK, debuggerVars
      <3>5. pc' = "event" => ev' \in Attempts /\ cur'[ev'] < Len(hist'[ev'])
        BY <3>1, <3>2, <3>3 DEF Typed, Pending, debuggerVars
      <3>6. 2 \in Attempts
        BY DEF Attempts
      <3> QED
        BY <3>1, <3>3, <3>4, <3>5, <3>6 DEF Typed, TypeOK, Pending, debuggerVars
    <2> USE DEF Typed, TypeOK, Pending
    <2>0. /\ \A q \in Attempts : hist[q] \in Seq(Events) /\ Len(hist[q]) \in Nat
          /\ attempt \in Attempts /\ 2 \in Attempts
      BY DEF Attempts
    <2>1. CASE NotStarted
      BY <2>1 DEF NotStarted, Outcome, Results, targetVars
    <2>2. CASE Create
      <3>1. Event("CREATE_PROCESS", None) \in Events
        BY EventTypes
      <3>2. <<Event("CREATE_PROCESS", None)>> \in Seq(Events)
        BY <3>1
      <3>3. cur[attempt] = 0
        BY <2>2 DEF Create
      <3> QED
        BY <2>0, <2>2, <3>2, <3>3 DEF Create, Attempts
    <2>3. CASE PebEnabled \/ Finish
      BY <2>3 DEF PebEnabled, Finish, targetVars
    <2>4. CASE PebFails
      <3>1. PICK k \in {"PebLoaderSnapsEnableFailed", "UnsupportedWow64Target"},
                 c \in Codes : PebFailed(k, c)
        BY <2>4, CodesAssumption DEF PebFails
      <3>2. PICK ok \in BOOLEAN : Terminate(attempt, c, ok)
        BY <3>1 DEF PebFailed
      <3>3. result' \in Results
        BY <3>1 DEF PebFailed, Outcome, Results
      <3> QED
        BY <2>0, <3>1, <3>2, <3>3, TerminateStep DEF PebFailed, CloseBoth
    <2>5. CASE EnterWait
      <3>1. WaitMs \in Nat
        BY <2>5, WaitMsType DEF EnterWait
      <3> QED
        BY <2>5, <3>1 DEF EnterWait, targetVars
    <2>6. CASE TimeoutTerminates
      <3>1. POLL \in Nat
        BY TimeAssumption
      <3>2. SemTimeout \in Codes /\ Terminate(attempt, SemTimeout, TRUE)
        BY <2>6, CodesAssumption DEF TimeoutTerminates
      <3>3. /\ life' \in [Attempts -> {"none", "alive", "ending", "exited"}]
            /\ cause' \in [Attempts -> {"none", "self", "exception", "terminated"}]
            /\ code' \in [Attempts -> Codes \cup {None}]
            /\ \A q \in Attempts : life'[q] \in {"ending", "exited"} => code'[q] \in Codes
            /\ \A q \in Attempts : life'[q] = "none" <=> life[q] = "none"
        BY <2>0, <3>2, TerminateStep
      <3>4. elapsed + POLL \in Nat
        BY <3>1
      <3> QED
        BY <2>0, <2>6, <3>3, <3>4 DEF TimeoutTerminates
    <2>7. CASE TerminateFails
      BY <2>7 DEF TerminateFails, Terminate, FailLoop, CloseBoth, Outcome, Results
    <2>8. CASE DrainExpires \/ WaitFails
      BY <2>8 DEF DrainExpires, WaitFails, FailLoop, CloseBoth, Outcome, Results, targetVars
    <2>9. CASE WaitTimesOut
      BY <2>9 DEF WaitTimesOut, targetVars
    <2>10. ASSUME NEW p \in Attempts, Deliver(p) PROVE Typed'
      BY <2>10 DEF Deliver, targetVars
    <2>11. CASE HandleEvent
      <3> DEFINE e == hist[ev][cur[ev] + 1]
      <3>1. ev \in Attempts /\ cur[ev] \in Nat /\ cur[ev] < Len(hist[ev])
        BY <2>11 DEF HandleEvent
      <3>2. e \in Events
        BY <2>0, <3>1
      <3>3. ExceptionCode(e) \in Codes \cup {None}
        BY <3>2, EventTypes DEF ExceptionCode
      <3>4. e.kind \in {"FIRST_CHANCE", "SECOND_CHANCE", "EXIT_PROCESS"} => e.arg \in Codes
        BY <3>2, EventTypes
      <3> HIDE DEF e
      <3>5. /\ exit_code' \in Codes \cup {None}
            /\ exception_code' \in Codes \cup {None}
            /\ runtime_events' \in Seq(Events)
            /\ saw_terminal_exception' \in BOOLEAN
        BY <2>11, <3>2, <3>3, <3>4 DEF HandleEvent, e, SawExit
      <3>6. /\ cur' = [cur EXCEPT ![ev] = @ + 1]
            /\ fault' \in [Attempts -> Codes \cup {None}]
            /\ life' \in [Attempts -> {"none", "alive", "ending", "exited"}]
            /\ cause' \in [Attempts -> {"none", "self", "exception", "terminated"}]
            /\ code' \in [Attempts -> Codes \cup {None}]
            /\ hist' = hist
            /\ \A q \in Attempts : life'[q] \in {"ending", "exited"} => code'[q] \in Codes
            /\ \A q \in Attempts : life'[q] = "none" <=> life[q] = "none"
        <4>0. Continued(ev, e, ContinueStatus(e))
          BY <2>11, Zenon DEF HandleEvent, e
        <4>1. Continued(ev, e, ContinueStatus(e)) /\ hist' = hist
          BY <4>0 DEF Continued
        <4>2. /\ cur' = [cur EXCEPT ![ev] = @ + 1]
              /\ fault' \in [Attempts -> Codes \cup {None}]
          BY <4>1, <3>1, <3>4 DEF Continued
        <4>3. /\ life' \in [Attempts -> {"none", "alive", "ending", "exited"}]
              /\ \A q \in Attempts : life'[q] = "none" <=> life[q] = "none"
          BY <4>1, <3>1, <3>4 DEF Continued
        <4>4. /\ cause' \in [Attempts -> {"none", "self", "exception", "terminated"}]
              /\ code' \in [Attempts -> Codes \cup {None}]
          BY <4>1, <3>1, <3>4 DEF Continued
        <4>5. \A q \in Attempts : life'[q] \in {"ending", "exited"} => code'[q] \in Codes
          BY <4>1, <3>1, <3>4 DEF Continued
        <4> QED
          BY <4>1, <4>2, <4>3, <4>4, <4>5
      <3>7. /\ cur' \in [Attempts -> Nat]
            /\ \A q \in Attempts : cur'[q] <= Len(hist'[q])
            /\ \A q \in Attempts : life'[q] = "none" => cur'[q] = 0 /\ hist'[q] = <<>>
        BY <2>0, <3>1, <3>6
      <3>8. /\ pc' \in {"returned", "head"} /\ ev' = None
            /\ handles' \subseteq handles
            /\ result' \in Results
            /\ UNCHANGED <<attempt, timeout_ms, elapsed, deadline, timeout_hit,
                           termination_started>>
        BY <2>11, <3>5 DEF HandleEvent, CloseBoth, Outcome, Results, EndKind, EndKinds
      <3> QED
        BY <2>0, <3>5, <3>6, <3>7, <3>8
    <2>12. CASE Fallback
      BY <2>12 DEF Fallback, targetVars, Results, NoResult, Attempts
    <2>14. CASE Tick
      BY <2>14 DEF Tick, targetVars
    <2>15. CASE UNCHANGED vars
      BY <2>15 DEF vars, debuggerVars, targetVars
    <2> QED
      BY <2>1, <2>2, <2>3, <2>4, <2>5, <2>6, <2>7, <2>8, <2>9, <2>10, <2>11,
         <2>12, <2>13, <2>14, <2>15 DEF Next, Caller, Loop, Done
  <1> QED
    BY <1>1, <1>2, PTL DEF Spec

\* Type correctness of the debug loop and its targets, for both attempts: no
\* event is taken from an empty queue, and every exit has a code.
THEOREM TypeCorrect == Spec => []TypeOK
  <1>1. Typed => TypeOK
    BY DEF Typed
  <1> QED
    BY <1>1, TypedInvariant, PTL
-----------------------------------------------------------------------------
\* A termination has a tick, and only a hit timeout has one.
WaitInv ==
  /\ WaitsAreBounded
  /\ timeout_hit <=> termination_started # None

\* With a timeout loadwhat never waits beyond it, nor more than one poll
\* beyond the drain limit, whatever the targets do.
THEOREM BoundedWaits == Spec => []WaitsAreBounded
  <1>1. Init => WaitInv
    BY DEF Init, WaitInv, WaitsAreBounded
  <1>2. Typed /\ WaitInv /\ [Next]_vars => WaitInv'
    <2> SUFFICES ASSUME Typed, WaitInv, [Next]_vars PROVE WaitInv'
      OBVIOUS
    <2>0. /\ POLL \in Nat \ {0} /\ DRAIN \in Nat \ {0} /\ None \notin Nat
          /\ elapsed \in Nat /\ deadline \in Nat /\ timeout_ms \in Nat
          /\ termination_started \in Nat \cup {None} /\ timeout_hit \in BOOLEAN
      BY TimeAssumption, CodesAssumption DEF Typed, TypeOK
    <2> USE DEF WaitInv, WaitsAreBounded
    <2>1. CASE EnterWait
      <3>1. /\ WaitMs \in Nat /\ WaitMs <= POLL
            /\ ~timeout_hit /\ timeout_ms # 0 => elapsed + WaitMs <= timeout_ms
        BY <2>1, WaitMsType DEF EnterWait, Typed
      <3>2. timeout_hit => elapsed - termination_started < DRAIN
        BY <2>0, <2>1 DEF EnterWait, DrainOver
      <3> QED
        BY <2>0, <2>1, <3>1, <3>2 DEF EnterWait
    <2>2. CASE TimeoutTerminates
      BY <2>0, <2>2 DEF TimeoutTerminates
    <2>3. CASE NotStarted \/ Create \/ PebEnabled \/ PebFails \/ Finish
      BY <2>3 DEF NotStarted, Create, PebEnabled, PebFails, PebFailed, Finish
    <2>4. CASE TerminateFails \/ DrainExpires \/ WaitFails
      <3>1. pc' = "returned" /\ UNCHANGED <<timeout_hit, termination_started>>
        BY <2>4 DEF TerminateFails, DrainExpires, WaitFails, FailLoop
      <3> QED
        BY <3>1
    <2>5. CASE WaitTimesOut \/ HandleEvent
      BY <2>5 DEF WaitTimesOut, HandleEvent
    <2>6. ASSUME NEW p \in Attempts, Deliver(p) PROVE WaitInv'
      BY <2>6 DEF Deliver
    <2>7. CASE Fallback
      BY <2>7 DEF Fallback
    <2>8. CASE Tick
      BY <2>8 DEF Tick
    <2>9. ASSUME NEW p \in Attempts, Target(p) PROVE WaitInv'
      <3>1. UNCHANGED debuggerVars
        BY <2>9, TargetStep
      <3> QED
        BY <3>1 DEF debuggerVars
    <2>10. CASE UNCHANGED vars
      BY <2>10 DEF vars, debuggerVars
    <2> QED
      BY <2>1, <2>2, <2>3, <2>4, <2>5, <2>6, <2>7, <2>8, <2>9, <2>10
         DEF Next, Caller, Loop, Done
  <1>3. WaitInv => WaitsAreBounded
    BY DEF WaitInv
  <1> QED
    BY <1>1, <1>2, <1>3, TypedInvariant, PTL DEF Spec

\* The drain limit is counted from the one termination: nothing restarts or
\* clears its clock while the attempt lasts.
DrainClockFixed ==
  [][termination_started # None /\ attempt' = attempt
       => termination_started' = termination_started]_vars

\* Nothing restarts or clears the clock of the drain limit while an attempt
\* lasts: TimeoutTerminates needs a timeout that was not hit yet.
THEOREM DrainClockNeverRestarts == Spec => DrainClockFixed
  <1> DEFINE HitInv == termination_started # None => timeout_hit
  <1>1. Init => HitInv
    BY DEF Init
  <1>2. HitInv /\ Typed /\ [Next]_vars =>
          /\ HitInv'
          /\ [termination_started # None /\ attempt' = attempt
                => termination_started' = termination_started]_vars
    <2> SUFFICES ASSUME HitInv, Typed, [Next]_vars
                 PROVE  /\ HitInv'
                        /\ (termination_started # None /\ attempt' = attempt
                              => termination_started' = termination_started)
      OBVIOUS
    <2>1. CASE UNCHANGED <<attempt, timeout_hit, termination_started>>
      BY <2>1
    <2>2. CASE TimeoutTerminates
      BY <2>2 DEF TimeoutTerminates, TimeoutDue
    <2>3. CASE Fallback
      BY <2>3 DEF Fallback, Typed, TypeOK
    <2>4. CASE NotStarted \/ Create \/ PebEnabled \/ PebFails \/ Finish
      BY <2>1, <2>4 DEF NotStarted, Create, PebEnabled, PebFails, PebFailed, Finish
    <2>5. CASE TerminateFails \/ DrainExpires \/ WaitFails
      BY <2>1, <2>5 DEF TerminateFails, DrainExpires, WaitFails, FailLoop
    <2>6. CASE EnterWait \/ WaitTimesOut \/ HandleEvent \/ Tick
      BY <2>1, <2>6 DEF EnterWait, WaitTimesOut, HandleEvent, Tick
    <2>7. ASSUME NEW p \in Attempts, Deliver(p)
          PROVE  UNCHANGED <<attempt, timeout_hit, termination_started>>
      BY <2>7 DEF Deliver
    <2>8. ASSUME NEW p \in Attempts, Target(p)
          PROVE  UNCHANGED <<attempt, timeout_hit, termination_started>>
      <3>1. UNCHANGED debuggerVars
        BY <2>8, TargetStep
      <3> QED
        BY <3>1 DEF debuggerVars
    <2>9. CASE UNCHANGED vars
      BY <2>1, <2>9 DEF vars, debuggerVars
    <2> QED
      BY <2>1, <2>2, <2>3, <2>4, <2>5, <2>6, <2>7, <2>8, <2>9
         DEF Next, Caller, Loop, Done
  <1> QED
    BY <1>1, <1>2, TypedInvariant, PTL DEF Spec, DrainClockFixed
-----------------------------------------------------------------------------
\* Once the failed attempt has its result its target is no longer alive, and
\* there is a result only after the return.
EndedInv ==
  /\ FirstTargetEnded
  /\ pc \notin {"returned", "done"} => result.kind = "none"
  /\ result.kind = "PebLoaderSnapsEnableFailed" => life[1] # "alive"

LEMMA EndedInvariant == Spec => []EndedInv
  <1>1. Init => EndedInv
    BY DEF Init, EndedInv, FirstTargetEnded, NoResult
  <1>2. EndedInv /\ Typed /\ [Next]_vars => EndedInv'
    <2> SUFFICES ASSUME EndedInv, Typed, [Next]_vars PROVE EndedInv'
      OBVIOUS
    <2>0. /\ 1 \in Attempts /\ attempt \in Attempts /\ (attempt = 1 \/ attempt = 2)
          /\ life \in [Attempts -> {"none", "alive", "ending", "exited"}]
      BY DEF Attempts, Typed, TypeOK
    <2> USE DEF EndedInv, FirstTargetEnded
    <2>a. ASSUME life'[1] = "alive" => life[1] = "alive",
                 attempt' = attempt,
                 pc' \notin {"returned", "done"} => result'.kind = "none",
                 result'.kind = "PebLoaderSnapsEnableFailed" => result' = result
          PROVE  EndedInv'
      BY <2>a
    <2>1. CASE NotStarted
      BY <2>a, <2>1 DEF NotStarted, Outcome, targetVars
    <2>2. CASE Create
      <3>1. result' = result /\ attempt' = attempt /\ result.kind = "none"
        BY <2>2 DEF Create
      <3>2. attempt = 2 => life'[1] = life[1]
        BY <2>0, <2>2 DEF Create
      <3> QED
        BY <2>0, <3>1, <3>2
    <2>3. CASE PebEnabled \/ Finish
      BY <2>3 DEF PebEnabled, Finish, targetVars
    <2>4. CASE PebFails
      <3>1. PICK k \in {"PebLoaderSnapsEnableFailed", "UnsupportedWow64Target"},
                 c \in Codes : PebFailed(k, c)
        BY <2>4, CodesAssumption DEF PebFails
      <3>2. PICK ok \in BOOLEAN : Terminate(attempt, c, ok)
        BY <3>1 DEF PebFailed
      <3>3. life'[attempt] \in {"ending", "exited"} /\ (life[1] # "alive" => life'[1] # "alive")
        BY <2>0, <3>2, TerminateStep
      <3>4. pc' = "returned" /\ attempt' = attempt
        BY <3>1 DEF PebFailed
      <3> QED
        BY <2>0, <3>3, <3>4
    <2>5. CASE EnterWait \/ WaitTimesOut \/ Tick
      BY <2>5 DEF EnterWait, WaitTimesOut, Tick, targetVars
    <2>6. CASE TimeoutTerminates
      <3>1. SemTimeout \in Codes /\ Terminate(attempt, SemTimeout, TRUE)
        BY <2>6, CodesAssumption DEF TimeoutTerminates
      <3>2. life[1] # "alive" => life'[1] # "alive"
        BY <2>0, <3>1, TerminateStep
      <3> QED
        BY <2>6, <3>2 DEF TimeoutTerminates
    <2>7. CASE TerminateFails \/ DrainExpires \/ WaitFails
      <3>1. FailLoop
        BY <2>7 DEF TerminateFails, DrainExpires, WaitFails
      <3>2. life' = life
        BY <2>7 DEF TerminateFails, Terminate, DrainExpires, WaitFails, targetVars
      <3>3. pc' = "returned" /\ attempt' = attempt /\ result'.kind = "Message"
        BY <3>1 DEF FailLoop, Outcome
      <3> QED
        BY <3>2, <3>3
    <2>8. ASSUME NEW p \in Attempts, Deliver(p) PROVE EndedInv'
      BY <2>8 DEF Deliver, targetVars
    <2>9. CASE HandleEvent
      <3>1. ev \in Attempts
        BY <2>9 DEF HandleEvent, Typed
      <3>2. life' = life \/ life' = [life EXCEPT ![ev] = "ending"]
        BY <2>9 DEF HandleEvent, Continued
      <3>3. life[1] # "alive" => life'[1] # "alive"
        BY <2>0, <3>1, <3>2
      <3>4. /\ attempt' = attempt
            /\ \/ pc' = "returned" /\ result'.kind = "Ok"
               \/ pc' = "head" /\ result' = result
        BY <2>9 DEF HandleEvent, Outcome
      <3>5. result.kind = "none"
        BY <2>9 DEF HandleEvent
      <3> QED
        BY <3>3, <3>4, <3>5
    <2>10. CASE Fallback
      BY <2>10 DEF Fallback, NoResult, targetVars
    <2>11. ASSUME NEW p \in Attempts, Target(p) PROVE EndedInv'
      <3>1. UNCHANGED debuggerVars
        BY <2>11, TargetStep
      <3>2. life[1] # "alive" => life'[1] # "alive"
        BY <2>0, <2>11 DEF Target, Act, Raise, Unhandled, Recovers, Exits, RunsDown
      <3> QED
        BY <3>1, <3>2 DEF debuggerVars
    <2>12. CASE UNCHANGED vars
      BY <2>12 DEF vars, debuggerVars, targetVars
    <2> QED
      BY <2>1, <2>2, <2>3, <2>4, <2>5, <2>6, <2>7, <2>8, <2>9, <2>10, <2>11, <2>12
         DEF Next, Caller, Loop, Done
  <1> QED
    BY <1>1, <1>2, TypedInvariant, PTL DEF Spec

\* The second attempt is made only after the target of the first was
\* terminated, so two copies of the program never run at once.
THEOREM FirstTargetIsEnded == Spec => []FirstTargetEnded
  BY EndedInvariant, PTL DEF EndedInv

-----------------------------------------------------------------------------
(* What is observed.                                                       *)

LEMMA CountFacts ==
  ASSUME NEW q, NEW n \in Nat
  PROVE  /\ RuntimeCount(q, n) \in Nat /\ RuntimeCount(q, 0) = 0
         /\ RuntimeCount(q, n + 1) =
              RuntimeCount(q, n) + (IF IsRuntimeEvent(q[n + 1]) THEN 1 ELSE 0)
  <1>. DEFINE S(k) == {j \in 1..k : IsRuntimeEvent(q[j])}
  <1>1. ASSUME NEW k \in Nat PROVE IsFiniteSet(S(k)) /\ Cardinality(S(k)) \in Nat
    <2>1. IsFiniteSet(1..k) /\ S(k) \subseteq 1..k
      BY FS_Interval
    <2>. QED
      BY <2>1, FS_Subset, FS_CardinalityType
  <1>2. S(0) = {}
    OBVIOUS
  <1>3. CASE IsRuntimeEvent(q[n + 1])
    <2>1. S(n + 1) = S(n) \cup {n + 1} /\ n + 1 \notin S(n)
      BY <1>3
    <2>. HIDE DEF S
    <2>2. Cardinality(S(n + 1)) = Cardinality(S(n)) + 1
      BY <1>1, <2>1, FS_AddElement
    <2>3. Cardinality(S(0)) = 0
      BY <1>2, FS_EmptySet
    <2>. QED
      BY <1>1, <1>3, <2>2, <2>3 DEF S, RuntimeCount
  <1>4. CASE ~IsRuntimeEvent(q[n + 1])
    <2>1. S(n + 1) = S(n)
      BY <1>4
    <2>. HIDE DEF S
    <2>2. Cardinality(S(n + 1)) = Cardinality(S(n)) + 0
      BY <1>1, <2>1
    <2>3. Cardinality(S(0)) = 0
      BY <1>2, FS_EmptySet
    <2>. QED
      BY <1>1, <1>4, <2>2, <2>3 DEF S, RuntimeCount
  <1>. QED
    BY <1>3, <1>4

\* A longer prefix has no fewer runtime events.
LEMMA CountGrows ==
  ASSUME NEW q, NEW n \in Nat, NEW i \in 1..n, IsRuntimeEvent(q[i])
  PROVE  RuntimeCount(q, i) \in 1..RuntimeCount(q, n)
  <1>. DEFINE S(k) == {j \in 1..k : IsRuntimeEvent(q[j])}
  <1>1. ASSUME NEW k \in Nat PROVE IsFiniteSet(S(k)) /\ Cardinality(S(k)) \in Nat
    <2>1. IsFiniteSet(1..k) /\ S(k) \subseteq 1..k
      BY FS_Interval
    <2>. QED
      BY <2>1, FS_Subset, FS_CardinalityType
  <1>2. i \in Nat /\ S(i) \subseteq S(n) /\ i \in S(i)
    OBVIOUS
  <1>. HIDE DEF S
  <1>3. Cardinality(S(i)) <= Cardinality(S(n))
    BY <1>1, <1>2, FS_Subset
  <1>4. Cardinality(S(i)) # 0
    BY <1>1, <1>2, FS_EmptySet
  <1>. QED
    BY <1>1, <1>2, <1>3, <1>4 DEF S, RuntimeCount

\* What was observed stays so when the queue only grows at its end.
LEMMA OrderStays ==
  ASSUME NEW events, NEW q, NEW r, NEW n \in Nat, InOrder(events, q, n),
         \A i \in 1..n : r[i] = q[i]
  PROVE  InOrder(events, r, n)
  <1>1. ASSUME NEW i \in 0..n PROVE RuntimeCount(r, i) = RuntimeCount(q, i)
    <2>1. {j \in 1..i : IsRuntimeEvent(r[j])} = {j \in 1..i : IsRuntimeEvent(q[j])}
      OBVIOUS
    <2>. QED
      BY <2>1 DEF RuntimeCount
  <1>2. n \in 0..n /\ \A i \in 1..n : i \in 0..n
    OBVIOUS
  <1>. QED
    BY <1>1, <1>2 DEF InOrder

\* The next event is appended if it is a runtime event, and dropped if not.
LEMMA OrderExtends ==
  ASSUME NEW events \in Seq(Events), NEW q, NEW n \in Nat, InOrder(events, q, n),
         q[n + 1] \in Events
  PROVE  /\ IsRuntimeEvent(q[n + 1]) => InOrder(Append(events, q[n + 1]), q, n + 1)
         /\ ~IsRuntimeEvent(q[n + 1]) => InOrder(events, q, n + 1)
  <1>1. /\ RuntimeCount(q, n) \in Nat /\ Len(events) = RuntimeCount(q, n)
        /\ RuntimeCount(q, n + 1) =
             RuntimeCount(q, n) + (IF IsRuntimeEvent(q[n + 1]) THEN 1 ELSE 0)
    BY CountFacts DEF InOrder
  <1>2. \A i \in 1..(n + 1) : i \in 1..n \/ i = n + 1
    OBVIOUS
  <1>3. ASSUME NEW i \in 1..n, IsRuntimeEvent(q[i])
        PROVE  /\ RuntimeCount(q, i) \in 1..Len(events)
               /\ events[RuntimeCount(q, i)] = q[i]
    BY <1>1, <1>3, CountGrows DEF InOrder
  <1>4. CASE IsRuntimeEvent(q[n + 1])
    <2>. DEFINE more == Append(events, q[n + 1])
    <2>1. /\ Len(more) = Len(events) + 1 /\ more[Len(events) + 1] = q[n + 1]
          /\ \A k \in 1..Len(events) : more[k] = events[k]
      OBVIOUS
    <2>. HIDE DEF more
    <2>2. Len(more) = RuntimeCount(q, n + 1) /\ RuntimeCount(q, n + 1) = Len(events) + 1
      BY <1>1, <1>4, <2>1
    <2>3. ASSUME NEW i \in 1..(n + 1), IsRuntimeEvent(q[i])
          PROVE  more[RuntimeCount(q, i)] = q[i]
      <3>1. CASE i \in 1..n
        BY <1>3, <2>1, <2>3, <3>1
      <3>2. CASE i = n + 1
        BY <2>1, <2>2, <3>2
      <3>. QED
        BY <1>2, <3>1, <3>2
    <2>4. InOrder(more, q, n + 1)
      BY <2>2, <2>3 DEF InOrder
    <2>. QED
      BY <1>4, <2>4 DEF more
  <1>5. CASE ~IsRuntimeEvent(q[n + 1])
    <2>1. Len(events) = RuntimeCount(q, n + 1)
      BY <1>1, <1>5
    <2>2. \A i \in 1..(n + 1) : IsRuntimeEvent(q[i]) => events[RuntimeCount(q, i)] = q[i]
      BY <1>2, <1>3, <1>5
    <2>. QED
      BY <1>5, <2>1, <2>2 DEF InOrder
  <1>. QED
    BY <1>4, <1>5

\* Nothing in the queue of target 1 is a runtime event.
Quiet == \A i \in 1..Len(hist[1]) : ~IsRuntimeEvent(hist[1][i])

\* What makes ObservedInOrder inductive: a target whose attempt failed before
\* the loop has posted its creation and will post its exit, but nothing that
\* the second attempt could take for its own.
ObservedInv ==
  /\ ObservedInOrder
  /\ pc = "peb" => attempt = 1 /\ cur[1] = 0
  /\ pc = "peb" \/ result.kind = "PebLoaderSnapsEnableFailed" \/ attempt = 2 => Quiet

\* A step of target 1 that may not load modules any more.
LEMMA QuietStays ==
  ASSUME Typed, Quiet, NEW p \in Attempts, Target(p), cur[1] = 0 \/ life[1] # "alive"
  PROVE  Quiet'
  <1>0. hist \in [Attempts -> Seq(Events)] /\ hist[1] \in Seq(Events) /\ 1 \in Attempts
    BY DEF Typed, TypeOK, Attempts
  <1>1. hist'[1] = hist[1] \/ \E e \in Events : hist'[1] = Append(hist[1], e) /\ ~IsRuntimeEvent(e)
    <2>1. CASE p # 1 \/ Recovers(p)
      BY <1>0, <2>1 DEF Target, Act, Raise, Unhandled, Recovers, Exits, RunsDown, Post
    <2>2. CASE p = 1 /\ ~Recovers(p)
      <3>1. \/ \E c \in Codes : Post(1, Event("EXIT_PROCESS", c))
            \/ \E c \in Codes : Post(1, Event("SECOND_CHANCE", c))
        <4>1. ~CanPost(1)
          BY DEF CanPost, Typed, TypeOK
        <4>. QED
          BY <1>0, <2>2, <4>1 DEF Target, Act, Raise, Unhandled, Exits, RunsDown, Typed, TypeOK
      <3>2. PICK e \in Events : Post(1, e) /\ ~IsRuntimeEvent(e)
        BY <3>1, EventTypes DEF IsRuntimeEvent, Event
      <3>. QED
        BY <1>0, <3>2 DEF Post
    <2>. QED
      BY <2>1, <2>2
  <1>2. CASE hist'[1] = hist[1]
    BY <1>2 DEF Quiet
  <1>3. ASSUME NEW e \in Events, hist'[1] = Append(hist[1], e), ~IsRuntimeEvent(e)
        PROVE  Quiet'
    <2>1. \A i \in 1..Len(hist'[1]) : hist'[1][i] = e \/ (i \in 1..Len(hist[1]) /\ hist'[1][i] = hist[1][i])
      BY <1>0, <1>3
    <2>. QED
      BY <1>3, <2>1 DEF Quiet
  <1>. QED
    BY <1>1, <1>2, <1>3

\* The events observed are those of the attempt's own target, in its order,
\* each once.
THEOREM EventsAreObservedInOrder == Spec => []ObservedInOrder
  <1>1. Init => ObservedInv
    <2>. SUFFICES ASSUME Init PROVE ObservedInv
      OBVIOUS
    <2>1. /\ attempt = 1 /\ pc = "start" /\ result.kind = "none"
          /\ runtime_events = <<>> /\ cur[attempt] = 0
      BY DEF Init, NoResult, Attempts
    <2>2. InOrder(runtime_events, hist[attempt], 0)
      BY <2>1, CountFacts DEF InOrder
    <2>. QED
      BY <2>1, <2>2 DEF ObservedInv, ObservedInOrder
  <1>2. ObservedInv /\ EndedInv /\ EndedInv' /\ Typed /\ Typed' /\ [Next]_vars => ObservedInv'
    <2>. SUFFICES ASSUME ObservedInv, EndedInv, EndedInv', Typed, Typed', [Next]_vars
                  PROVE  ObservedInv'
      OBVIOUS
    <2>0. /\ 1 \in Attempts /\ attempt \in Attempts /\ (attempt = 1 \/ attempt = 2)
          /\ \A p \in Attempts : /\ hist[p] \in Seq(Events) /\ Len(hist[p]) \in Nat
                                 /\ cur[p] \in Nat /\ cur[p] <= Len(hist[p])
          /\ runtime_events \in Seq(Events)
      BY DEF Attempts, Typed, TypeOK
    <2>. USE DEF ObservedInv
    \* A step that observes nothing: the queue of the attempt only grows.
    <2>a. ASSUME runtime_events' = runtime_events, attempt' = attempt,
                 cur'[attempt] = cur[attempt],
                 \A i \in 1..cur[attempt] : hist'[attempt][i] = hist[attempt][i]
          PROVE  ObservedInOrder'
      <3>1. InOrder(runtime_events, hist'[attempt], cur[attempt])
        BY <2>0, <2>a, OrderStays DEF ObservedInOrder
      <3>. QED
        BY <2>a, <3>1 DEF ObservedInOrder
    \* One that leaves the targets' queues alone and fails no attempt before
    \* its loop.
    <2>b. ASSUME runtime_events' = runtime_events, attempt' = attempt, cur' = cur, hist' = hist,
                 pc' # "peb",
                 result' = result \/ result'.kind # "PebLoaderSnapsEnableFailed"
          PROVE  ObservedInv'
      <3>1. ObservedInOrder'
        BY <2>a, <2>b
      <3>. QED
        BY <2>b, <3>1 DEF Quiet
    <2>1. CASE NotStarted
      BY <2>b, <2>1 DEF NotStarted, Outcome, targetVars
    <2>2. CASE Create
      <3>1. /\ runtime_events' = runtime_events /\ attempt' = attempt /\ cur' = cur
            /\ result' = result /\ result.kind = "none"
            /\ hist' = [hist EXCEPT ![attempt] = <<Event("CREATE_PROCESS", None)>>]
            /\ pc' = "peb" => attempt = 1
        BY <2>2 DEF Create, EndedInv
      <3>2. cur[attempt] = 0
        BY <2>0, <2>2 DEF Create, Typed
      <3>3. ObservedInOrder'
        BY <2>0, <2>a, <3>1, <3>2
      <3>4. CASE attempt = 1
        <4>1. hist'[1] = <<Event("CREATE_PROCESS", None)>>
          BY <2>0, <3>1, <3>4 DEF Typed, TypeOK
        <4>2. Quiet'
          BY <4>1 DEF Quiet, IsRuntimeEvent, Event
        <4>. QED
          BY <3>1, <3>2, <3>3, <3>4, <4>2
      <3>5. CASE attempt = 2
        <4>1. hist'[1] = hist[1]
          BY <2>0, <3>1, <3>5 DEF Typed, TypeOK
        <4>2. Quiet'
          BY <3>5, <4>1 DEF Quiet
        <4>. QED
          BY <3>1, <3>3, <3>5, <4>2
      <3>. QED
        BY <2>0, <3>4, <3>5
    <2>3. CASE PebEnabled \/ Finish
      BY <2>b, <2>3 DEF PebEnabled, Finish, targetVars
    <2>4. CASE PebFails
      <3>1. PICK k \in {"PebLoaderSnapsEnableFailed", "UnsupportedWow64Target"},
                 c \in Codes : PebFailed(k, c)
        BY <2>4, CodesAssumption DEF PebFails
      <3>2. /\ runtime_events' = runtime_events /\ attempt' = attempt /\ cur' = cur
            /\ hist' = hist /\ pc = "peb" /\ pc' = "returned"
        BY <3>1 DEF PebFailed
      <3>3. ObservedInOrder' /\ Quiet'
        BY <2>a, <3>2 DEF Quiet
      <3>. QED
        BY <3>2, <3>3
    <2>5. CASE EnterWait \/ WaitTimesOut \/ Tick
      BY <2>b, <2>5 DEF EnterWait, WaitTimesOut, Tick, targetVars
    <2>6. CASE TimeoutTerminates
      BY <2>b, <2>6 DEF TimeoutTerminates
    <2>7. CASE TerminateFails \/ DrainExpires \/ WaitFails
      <3>1. FailLoop
        BY <2>7 DEF TerminateFails, DrainExpires, WaitFails
      <3>2. cur' = cur /\ hist' = hist
        BY <2>7 DEF TerminateFails, DrainExpires, WaitFails, targetVars
      <3>. QED
        BY <2>b, <3>1, <3>2 DEF FailLoop, Outcome
    <2>8. ASSUME NEW p \in Attempts, Deliver(p) PROVE ObservedInv'
      BY <2>b, <2>8 DEF Deliver, targetVars
    <2>9. CASE HandleEvent
      <3>. DEFINE e == hist[ev][cur[ev] + 1]
      <3>1. ev \in Attempts /\ Pending(ev)
        BY <2>9 DEF HandleEvent, Typed
      <3>2. e \in Events
        BY <2>0, <3>1 DEF Pending
      <3>3. /\ attempt' = attempt /\ hist' = hist
            /\ cur' = [cur EXCEPT ![ev] = cur[ev] + 1]
            /\ runtime_events' = IF IsRuntimeEvent(e) THEN Append(runtime_events, e)
                                 ELSE runtime_events
            /\ pc' # "peb"
            /\ result' = result \/ result'.kind = "Ok"
        BY <2>9 DEF HandleEvent, Continued, Observed, IsRuntimeEvent, Outcome
      <3>4. CASE ev = attempt
        <4>1. InOrder(runtime_events, hist[attempt], cur[attempt])
          BY DEF ObservedInOrder
        <4>2. InOrder(runtime_events', hist[attempt], cur[attempt] + 1)
          BY <2>0, <3>2, <3>3, <3>4, <4>1, OrderExtends
        <4>3. cur'[attempt] = cur[attempt] + 1
          BY <2>0, <3>3, <3>4 DEF Typed, TypeOK
        <4>. QED
          BY <3>3, <4>2, <4>3 DEF ObservedInOrder, Quiet
      <3>5. CASE ev # attempt
        <4>1. attempt = 2 /\ ev = 1
          <5>1. ASSUME attempt = 1 PROVE FALSE
            <6>1. ev = 2
              BY <3>1, <3>5, <5>1 DEF Attempts
            <6>2. hist[2] = <<>> /\ cur[2] = 0
              BY <5>1 DEF Typed, Attempts
            <6>. QED
              BY <3>1, <6>1, <6>2 DEF Pending
          <5>. QED
            BY <2>0, <3>1, <3>5, <5>1 DEF Attempts
        <4>2. ~IsRuntimeEvent(e)
          <5>1. cur[1] + 1 \in 1..Len(hist[1])
            BY <2>0, <3>1, <4>1 DEF Pending
          <5>. QED
            BY <4>1, <5>1 DEF Quiet
        <4>3. cur'[attempt] = cur[attempt]
          BY <2>0, <3>3, <3>5 DEF Typed, TypeOK
        <4>4. ObservedInOrder'
          BY <2>a, <3>3, <4>2, <4>3
        <4>. QED
          BY <3>3, <4>4 DEF Quiet
      <3>. QED
        BY <3>4, <3>5
    <2>10. CASE Fallback
      <3>1. /\ attempt' = 2 /\ runtime_events' = <<>> /\ cur' = cur /\ hist' = hist
            /\ pc' = "start" /\ attempt = 1 /\ result.kind = "PebLoaderSnapsEnableFailed"
        BY <2>10 DEF Fallback, targetVars
      <3>2. cur[2] = 0
        BY <3>1 DEF Typed, Attempts
      <3>3. InOrder(<<>>, hist[2], 0)
        BY CountFacts DEF InOrder
      <3>4. ObservedInOrder'
        BY <3>1, <3>2, <3>3 DEF ObservedInOrder
      <3>. QED
        BY <3>1, <3>4 DEF Quiet
    <2>11. ASSUME NEW p \in Attempts, Target(p) PROVE ObservedInv'
      <3>1. /\ runtime_events' = runtime_events /\ attempt' = attempt /\ cur' = cur
            /\ pc' = pc /\ result' = result
            /\ \A i \in 1..Len(hist[attempt]) : hist'[attempt][i] = hist[attempt][i]
        BY <2>0, <2>11, TargetStep DEF debuggerVars
      <3>2. ObservedInOrder'
        <4>1. \A i \in 1..cur[attempt] : i \in 1..Len(hist[attempt])
          BY <2>0
        <4>. QED
          BY <2>a, <3>1, <4>1
      <3>3. ASSUME pc = "peb" \/ result.kind = "PebLoaderSnapsEnableFailed" \/ attempt = 2
            PROVE  Quiet'
        <4>1. cur[1] = 0 \/ life[1] # "alive"
          BY <3>3 DEF EndedInv, FirstTargetEnded
        <4>. QED
          BY <2>11, <3>3, <4>1, QuietStays
      <3>. QED
        BY <3>1, <3>2, <3>3
    <2>12. CASE UNCHANGED vars
      <3>1. /\ runtime_events' = runtime_events /\ attempt' = attempt /\ cur' = cur
            /\ hist' = hist /\ pc' = pc /\ result' = result
        BY <2>12 DEF vars, debuggerVars, targetVars
      <3>2. ObservedInOrder'
        BY <2>a, <3>1
      <3>. QED
        BY <3>1, <3>2 DEF Quiet
    <2>. QED
      BY <2>1, <2>2, <2>3, <2>4, <2>5, <2>6, <2>7, <2>8, <2>9, <2>10, <2>11, <2>12
         DEF Next, Caller, Loop, Done
  <1>3. ObservedInv => ObservedInOrder
    BY DEF ObservedInv
  <1>. QED
    BY <1>1, <1>2, <1>3, TypedInvariant, EndedInvariant, PTL DEF Spec

-----------------------------------------------------------------------------
\* Only the last event of a target is its exit, posted once it has exited,
\* with its code; and an Ok result has drained it.
DrainedInv ==
  attempt = 1 =>
    /\ TargetExitDrained
    /\ result.kind = "Ok" => pc \in {"returned", "done"}
    /\ \A i \in 1..Len(hist[1]) :
         hist[1][i].kind = "EXIT_PROCESS" =>
           life[1] = "exited" /\ i = Len(hist[1]) /\ hist[1][i].arg = code[1]

\* A step of target 1 keeps its exit event the last one.
LEMMA ExitStaysLast ==
  ASSUME Typed, DrainedInv, attempt = 1, NEW p \in Attempts, Target(p)
  PROVE  DrainedInv'
  <1>0. /\ 1 \in Attempts /\ hist[1] \in Seq(Events) /\ Len(hist[1]) \in Nat
        /\ life[2] = "none" /\ (p = 1 \/ p = 2)
        /\ life \in [Attempts -> {"none", "alive", "ending", "exited"}]
        /\ code \in [Attempts -> Codes \cup {None}]
    BY DEF Typed, TypeOK, Attempts
  <1>1. p = 1 /\ life[1] # "exited"
    <2>1. life[p] \in {"alive", "ending"}
      BY DEF Target, Act, CanPost, Raise, Unhandled, Recovers, Exits, RunsDown
    <2> QED
      BY <1>0, <2>1
  <1>2. /\ \A i \in 1..Len(hist[1]) : hist[1][i].kind # "EXIT_PROCESS"
        /\ result.kind # "Ok"
    BY <1>1 DEF DrainedInv, TargetExitDrained
  <1>3. UNCHANGED debuggerVars
    BY TargetStep
  <1>a. ASSUME NEW e \in Events, Post(1, e),
               e.kind = "EXIT_PROCESS" => life'[1] = "exited" /\ e.arg = code'[1]
        PROVE  DrainedInv'
    <2>1. /\ Len(hist'[1]) = Len(hist[1]) + 1
          /\ hist'[1][Len(hist[1]) + 1] = e
          /\ \A i \in 1..Len(hist[1]) : hist'[1][i] = hist[1][i]
      BY <1>0, <1>a, PostAppends DEF Typed, TypeOK
    <2>2. result'.kind # "Ok" /\ attempt' = 1
      BY <1>2, <1>3 DEF debuggerVars
    <2>3. \A i \in 1..Len(hist'[1]) :
            hist'[1][i].kind = "EXIT_PROCESS" => i = Len(hist'[1]) /\ hist'[1][i] = e
      BY <1>0, <1>2, <2>1
    <2> QED
      BY <1>a, <2>2, <2>3 DEF DrainedInv, TargetExitDrained
  <1>4. CASE Act(1) \/ Raise(1)
    <2>1. \E e \in Events : Post(1, e) /\ e.kind # "EXIT_PROCESS"
      BY <1>4, EventTypes, CodesAssumption DEF Act, Raise, Event
    <2> QED
      BY <1>a, <2>1
  <1>5. CASE Unhandled(1)
    <2>1. fault[1] \in Codes
      BY <1>0, <1>5 DEF Unhandled, Typed, TypeOK
    <2>2. \E e \in Events : Post(1, e) /\ e.kind # "EXIT_PROCESS"
      BY <1>5, <2>1, EventTypes DEF Unhandled, Event
    <2> QED
      BY <1>a, <2>2
  <1>6. CASE Recovers(1)
    BY <1>2, <1>3, <1>6 DEF Recovers, DrainedInv, TargetExitDrained, debuggerVars
  <1>7. CASE Exits(1)
    <2>1. PICK c \in Codes : code' = [code EXCEPT ![1] = c] /\ Post(1, Event("EXIT_PROCESS", c))
      BY <1>7 DEF Exits
    <2>2. life'[1] = "exited" /\ code'[1] = c
      BY <1>0, <1>7, <2>1 DEF Exits
    <2> QED
      BY <1>a, <2>1, <2>2, EventTypes DEF Event
  <1>8. CASE RunsDown(1)
    <2>1. /\ life'[1] = "exited" /\ code'[1] = code[1] /\ code[1] \in Codes
          /\ Post(1, Event("EXIT_PROCESS", code[1]))
      BY <1>0, <1>8 DEF RunsDown, Typed
    <2> QED
      BY <1>a, <2>1, EventTypes DEF Event
  <1> QED
    BY <1>1, <1>4, <1>5, <1>6, <1>7, <1>8 DEF Target

LEMMA DrainedInvariant == Spec => []DrainedInv
  <1>1. Init => DrainedInv
    <2> SUFFICES ASSUME Init PROVE DrainedInv
      OBVIOUS
    <2>1. hist[1] = <<>> /\ result.kind = "none"
      BY DEF Init, Attempts, NoResult
    <2>2. Len(hist[1]) = 0
      BY <2>1
    <2> QED
      BY <2>1, <2>2 DEF DrainedInv, TargetExitDrained
  <1>2. DrainedInv /\ Typed /\ [Next]_vars => DrainedInv'
    <2> SUFFICES ASSUME DrainedInv, Typed, [Next]_vars, attempt' = 1 PROVE DrainedInv'
      BY DEF DrainedInv
    <2>0. /\ 1 \in Attempts /\ hist[1] \in Seq(Events) /\ Len(hist[1]) \in Nat
          /\ life \in [Attempts -> {"none", "alive", "ending", "exited"}]
          /\ code \in [Attempts -> Codes \cup {None}]
          /\ cur \in [Attempts -> Nat] /\ cur[1] <= Len(hist[1])
      BY DEF Typed, TypeOK, Attempts
    \* A step that leaves the queue of target 1 alone, and its fate once it
    \* is over, keeps the invariant, unless it makes an Ok result.
    <2>a. ASSUME attempt = 1, hist'[1] = hist[1],
                 life[1] = "exited" => life'[1] = "exited" /\ code'[1] = code[1],
                 \/ result'.kind # "Ok"
                 \/ /\ result' = result /\ cur'[1] = cur[1]
                    /\ pc' \in {"returned", "done"} \/ pc' = pc
          PROVE  DrainedInv'
      BY <2>a DEF DrainedInv, TargetExitDrained
    <2>1. CASE NotStarted
      BY <2>a, <2>1 DEF NotStarted, Outcome, targetVars
    <2>2. CASE Create
      <3>1. attempt = 1 /\ result'.kind # "Ok"
        BY <2>2 DEF Create, DrainedInv
      <3>2. hist'[1] = <<Event("CREATE_PROCESS", None)>>
        BY <2>0, <2>2, <3>1 DEF Create, Typed, TypeOK
      <3>3. \A i \in 1..Len(hist'[1]) : hist'[1][i].kind # "EXIT_PROCESS"
        BY <3>2 DEF Event
      <3> QED
        BY <3>1, <3>3 DEF DrainedInv, TargetExitDrained
    <2>3. CASE PebEnabled \/ Finish
      BY <2>a, <2>3 DEF PebEnabled, Finish, targetVars, DrainedInv
    <2>4. CASE PebFails
      <3>1. PICK k \in {"PebLoaderSnapsEnableFailed", "UnsupportedWow64Target"},
                 c \in Codes : PebFailed(k, c)
        BY <2>4, CodesAssumption DEF PebFails
      <3>2. PICK ok \in BOOLEAN : Terminate(attempt, c, ok)
        BY <3>1 DEF PebFailed
      <3>3. /\ result'.kind # "Ok" /\ attempt = 1 /\ hist' = hist
        BY <3>1 DEF PebFailed, Outcome
      <3>4. life[1] = "exited" => life'[1] = "exited" /\ code'[1] = code[1]
        BY <2>0, <3>2, <3>3, TerminateStep
      <3> QED
        BY <2>a, <3>3, <3>4
    <2>5. CASE EnterWait \/ WaitTimesOut \/ Tick
      BY <2>a, <2>5 DEF EnterWait, WaitTimesOut, Tick, targetVars, DrainedInv
    <2>6. CASE TimeoutTerminates
      <3>1. SemTimeout \in Codes /\ Terminate(attempt, SemTimeout, TRUE) /\ attempt = 1
        BY <2>6, CodesAssumption DEF TimeoutTerminates
      <3>2. life[1] = "exited" => life'[1] = "exited" /\ code'[1] = code[1]
        BY <2>0, <3>1, TerminateStep
      <3> QED
        BY <2>a, <2>6, <3>2 DEF TimeoutTerminates, DrainedInv
    <2>7. CASE TerminateFails \/ DrainExpires \/ WaitFails
      <3>1. FailLoop
        BY <2>7 DEF TerminateFails, DrainExpires, WaitFails
      <3>2. life' = life /\ code' = code /\ hist' = hist
        BY <2>7 DEF TerminateFails, Terminate, DrainExpires, WaitFails, targetVars
      <3>3. attempt' = attempt /\ result'.kind = "Message"
        BY <3>1 DEF FailLoop, Outcome
      <3> QED
        BY <2>a, <3>2, <3>3
    <2>8. ASSUME NEW p \in Attempts, Deliver(p) PROVE DrainedInv'
      BY <2>a, <2>8 DEF Deliver, targetVars, DrainedInv
    <2>9. CASE HandleEvent
      <3> DEFINE e == hist[ev][cur[ev] + 1]
      <3>1. attempt = 1
        BY <2>9 DEF HandleEvent
      <3>2. ev = 1
        <4>1. ev \in {1, 2} /\ Pending(ev)
          BY <2>9 DEF HandleEvent, Typed, Attempts
        <4>2. hist[2] = <<>> /\ cur[2] = 0
          BY <3>1 DEF Typed, Attempts
        <4>3. ~Pending(2)
          BY <4>2 DEF Pending
        <4> QED
          BY <4>1, <4>3
      <3>3. cur[1] < Len(hist[1]) /\ cur'[1] = cur[1] + 1 /\ hist' = hist
        BY <2>0, <2>9, <3>2 DEF HandleEvent, Continued, Typed, Pending
      <3>4. life[1] # "alive" => life' = life /\ code' = code
        BY <2>9, <3>2 DEF HandleEvent, Continued
      <3>5. CASE e.kind = "EXIT_PROCESS"
        <4>1. life[1] = "exited" /\ cur[1] + 1 = Len(hist[1]) /\ e.arg = code[1]
          BY <2>0, <3>1, <3>2, <3>3, <3>5 DEF DrainedInv
        <4>2. pc' = "returned" /\ result'.exit = e.arg
          BY <2>9, <3>5 DEF HandleEvent, SawExit, Outcome
        <4> QED
          BY <3>1, <3>3, <3>4, <4>1, <4>2 DEF DrainedInv, TargetExitDrained
      <3>6. CASE e.kind # "EXIT_PROCESS"
        <4>1. result' = result /\ result.kind # "Ok"
          BY <2>9, <3>1, <3>6 DEF HandleEvent, SawExit, DrainedInv
        <4> QED
          BY <2>a, <3>1, <3>3, <3>4, <4>1
      <3> QED
        BY <3>5, <3>6
    <2>10. CASE Fallback
      BY <2>10 DEF Fallback
    <2>11. ASSUME NEW p \in Attempts, Target(p) PROVE DrainedInv'
      <3>1. attempt' = attempt
        BY <2>11, TargetStep DEF debuggerVars
      <3> QED
        BY <2>11, <3>1, ExitStaysLast
    <2>12. CASE UNCHANGED vars
      BY <2>12 DEF vars, debuggerVars, targetVars, DrainedInv, TargetExitDrained
    <2> QED
      BY <2>1, <2>2, <2>3, <2>4, <2>5, <2>6, <2>7, <2>8, <2>9, <2>10, <2>11, <2>12
         DEF Next, Caller, Loop, Done
  <1> QED
    BY <1>1, <1>2, TypedInvariant, PTL DEF Spec

\* An Ok result of a first attempt, the only one of a run without
\* loader-snaps, describes a target that is over, with its exit code.
THEOREM FirstExitIsDrained == Spec => []FirstTargetExitDrained
  <1>1. DrainedInv => FirstTargetExitDrained
    BY DEF DrainedInv, FirstTargetExitDrained
  <1> QED
    BY <1>1, DrainedInvariant, PTL
-----------------------------------------------------------------------------
\* What queue q of a target still holds past its first c events: one chance of
\* the fault in progress at most, and none while the target handles it; of an
\* ended target its exit, and of a crashed one no second chance.
Chance(e) == e.kind \in {"FIRST_CHANCE", "SECOND_CHANCE"}
QueueInv(q, c, alive, why, pending) ==
  /\ \A i, j \in (c + 1)..Len(q) : Chance(q[i]) /\ Chance(q[j]) => i = j
  /\ pending # None => \A i \in (c + 1)..Len(q) : ~Chance(q[i])
  /\ alive = "exited" => \A i \in (c + 1)..Len(q) : ~Chance(q[i])
  /\ why = "exception" => \A i \in (c + 1)..Len(q) : q[i].kind # "SECOND_CHANCE"

\* Why target 1 ended, against what run_target has recorded of it.
CauseInv ==
  /\ cause[1] = "none" <=> life[1] \in {"none", "alive"}
  /\ life[1] = "ending" => cause[1] # "self"
  /\ (pc \notin {"returned", "done"} /\ cause[1] = "terminated") => timeout_hit
  /\ timeout_hit => timeout_ms # 0 /\ elapsed >= timeout_ms
  /\ saw_terminal_exception => timeout_hit \/ cause[1] = "exception"
  /\ cause[1] = "exception" => saw_terminal_exception /\ exception_code = code[1]
  /\ QueueInv(hist[1], cur[1], life[1], cause[1], fault[1])

KindInv == attempt = 1 => EndKindTruthful /\ CauseInv

\* A step of target 1 keeps what is known of its end.
LEMMA CauseStaysTrue ==
  ASSUME Typed, DrainedInv, KindInv, attempt = 1, NEW p \in Attempts, Target(p)
  PROVE  KindInv'
  <1>0. /\ 1 \in Attempts /\ hist[1] \in Seq(Events) /\ Len(hist[1]) \in Nat
        /\ cur[1] \in Nat /\ cur[1] <= Len(hist[1])
        /\ life[2] = "none" /\ (p = 1 \/ p = 2)
        /\ life \in [Attempts -> {"none", "alive", "ending", "exited"}]
        /\ cause \in [Attempts -> {"none", "self", "exception", "terminated"}]
        /\ code \in [Attempts -> Codes \cup {None}]
        /\ fault \in [Attempts -> Codes \cup {None}]
    BY DEF Typed, TypeOK, Attempts
  <1>1. p = 1 /\ life[1] \in {"alive", "ending"}
    <2>1. life[p] \in {"alive", "ending"}
      BY DEF Target, Act, CanPost, Raise, Unhandled, Recovers, Exits, RunsDown
    <2> QED
      BY <1>0, <2>1
  <1>2. /\ pc' = pc /\ attempt' = 1 /\ timeout_ms' = timeout_ms /\ elapsed' = elapsed
        /\ timeout_hit' = timeout_hit /\ exception_code' = exception_code
        /\ saw_terminal_exception' = saw_terminal_exception /\ result' = result
        /\ cur' = cur
    BY TargetStep DEF debuggerVars
  <1>3. result.kind # "Ok" /\ CauseInv
    BY <1>1 DEF DrainedInv, TargetExitDrained, KindInv
  \* It is enough to look at the queue and at the end of the target.
  <1>a. ASSUME QueueInv(hist'[1], cur[1], life'[1], cause'[1], fault'[1]),
               cause'[1] = "none" <=> life'[1] \in {"none", "alive"},
               life'[1] = "ending" => cause'[1] # "self",
               \/ cause[1] = "none" /\ cause'[1] = "self"
               \/ cause'[1] = cause[1] /\ code'[1] = code[1]
        PROVE  KindInv'
    <2>1. QueueInv(hist[1], cur[1], life[1], cause[1], fault[1])'
      BY <1>2, <1>a DEF QueueInv
    <2>2. CauseInv'
      BY <1>2, <1>3, <1>a, <2>1 DEF CauseInv
    <2> QED
      BY <1>2, <1>3, <2>2 DEF KindInv, EndKindTruthful
  <1>b. ASSUME NEW e \in Events, Post(1, e),
               life'[1] = "exited" => ~Chance(e) /\ cur[1] = Len(hist[1]),
               Chance(e) => /\ cause[1] # "exception"
                            /\ \A i \in (cur[1] + 1)..Len(hist[1]) : ~Chance(hist[1][i]),
               fault'[1] # None => fault[1] # None /\ ~Chance(e)
        PROVE  QueueInv(hist'[1], cur[1], life'[1], cause[1], fault'[1])
    <2>1. /\ hist'[1] \in Seq(Events)
          /\ Len(hist'[1]) = Len(hist[1]) + 1
          /\ hist'[1][Len(hist[1]) + 1] = e
          /\ \A i \in 1..Len(hist[1]) : hist'[1][i] = hist[1][i]
      BY <1>0, <1>b, PostAppends DEF Typed, TypeOK
    <2>2. QueueInv(hist[1], cur[1], life[1], cause[1], fault[1])
      BY <1>3 DEF CauseInv
    <2> DEFINE open == (cur[1] + 1)..Len(hist[1])
               longer == (cur[1] + 1)..Len(hist'[1])
    <2>3. \A i \in longer :
            \/ i \in open /\ hist'[1][i] = hist[1][i]
            \/ i = Len(hist[1]) + 1 /\ hist'[1][i] = e
      <3> TAKE i \in longer
      <3>1. i \in open \/ i = Len(hist[1]) + 1
        BY <1>0, <2>1
      <3>2. open \subseteq 1..Len(hist[1])
        BY <1>0
      <3>3. ASSUME i \in open PROVE hist'[1][i] = hist[1][i]
        BY <2>1, <3>2, <3>3
      <3>4. ASSUME i = Len(hist[1]) + 1 PROVE hist'[1][i] = e
        BY <2>1, <3>4
      <3> HIDE DEF open
      <3> QED
        BY <3>1, <3>3, <3>4
    <2> HIDE DEF longer
    <2>4. \A i, j \in longer : Chance(hist'[1][i]) /\ Chance(hist'[1][j]) => i = j
      BY <1>b, <2>2, <2>3 DEF QueueInv
    <2>5. fault'[1] # None => \A i \in longer : ~Chance(hist'[1][i])
      BY <1>b, <2>2, <2>3 DEF QueueInv
    <2>6. life'[1] = "exited" => \A i \in longer : ~Chance(hist'[1][i])
      <3>1. cur[1] = Len(hist[1]) => open = {}
        BY <1>0
      <3> QED
        BY <1>b, <2>3, <3>1
    <2>7. cause[1] = "exception" => \A i \in longer : hist'[1][i].kind # "SECOND_CHANCE"
      BY <1>b, <2>2, <2>3 DEF QueueInv, Chance
    <2> QED
      BY <2>4, <2>5, <2>6, <2>7 DEF QueueInv, longer
  <1>4. CASE Act(1)
    <2>1. PICK e \in Events : Post(1, e) /\ ~Chance(e)
      BY <1>4, EventTypes DEF Act, Event, Chance
    <2>2. life[1] = "alive" /\ UNCHANGED <<life, cause, code, fault>>
      BY <1>4 DEF Act, CanPost
    <2> QED
      BY <1>3, <1>a, <1>b, <2>1, <2>2 DEF CauseInv
  <1>5. CASE Raise(1)
    <2>1. PICK e \in Events : Post(1, e)
      BY <1>5, EventTypes, CodesAssumption DEF Raise
    <2>2. /\ life[1] = "alive" /\ fault[1] = None /\ UNCHANGED <<life, cause, code, fault>>
          /\ \A i \in (cur[1] + 1)..Len(hist[1]) : ~Chance(hist[1][i])
      BY <1>5 DEF Raise, CanPost, Chance
    <2> QED
      BY <1>3, <1>a, <1>b, <2>1, <2>2 DEF CauseInv
  <1>6. CASE Unhandled(1)
    <2>1. fault[1] \in Codes /\ Event("SECOND_CHANCE", fault[1]) \in Events
      BY <1>0, <1>6, EventTypes DEF Unhandled
    <2>2. /\ life[1] = "alive" /\ fault'[1] = None /\ UNCHANGED <<life, cause, code>>
          /\ Post(1, Event("SECOND_CHANCE", fault[1]))
      BY <1>0, <1>6 DEF Unhandled
    <2>3. \A i \in (cur[1] + 1)..Len(hist[1]) : ~Chance(hist[1][i])
      BY <1>3, <1>6 DEF Unhandled, CauseInv, QueueInv
    <2> QED
      BY <1>3, <1>a, <1>b, <2>1, <2>2, <2>3 DEF CauseInv
  <1>7. CASE Recovers(1)
    <2>1. fault'[1] = None /\ UNCHANGED <<life, cause, code, hist>>
      BY <1>0, <1>7 DEF Recovers
    <2>2. QueueInv(hist[1], cur[1], life[1], cause[1], fault'[1])
      BY <1>3, <2>1 DEF CauseInv, QueueInv
    <2> QED
      BY <1>3, <1>a, <2>1, <2>2 DEF CauseInv
  <1>8. CASE Exits(1)
    <2>1. PICK c \in Codes : code' = [code EXCEPT ![1] = c] /\ Post(1, Event("EXIT_PROCESS", c))
      BY <1>8 DEF Exits
    <2>2. /\ life'[1] = "exited" /\ cause'[1] = "self" /\ fault'[1] = fault[1]
          /\ cur[1] = Len(hist[1]) /\ life[1] = "alive"
      BY <1>0, <1>8 DEF Exits, Outstanding
    <2>3. Event("EXIT_PROCESS", c) \in Events /\ ~Chance(Event("EXIT_PROCESS", c))
      BY <2>1, EventTypes DEF Event, Chance
    <2>4. QueueInv(hist'[1], cur[1], life'[1], cause[1], fault'[1])
      BY <1>b, <2>1, <2>2, <2>3
    <2>5. cause[1] = "none"
      BY <1>3, <2>2 DEF CauseInv
    <2>6. QueueInv(hist'[1], cur[1], life'[1], cause'[1], fault'[1])
      BY <2>2, <2>4 DEF QueueInv
    <2> QED
      BY <1>a, <2>2, <2>5, <2>6
  <1>9. CASE RunsDown(1)
    <2>1. /\ life'[1] = "exited" /\ UNCHANGED <<cause, code, fault>> /\ life[1] = "ending"
          /\ cur[1] = Len(hist[1]) /\ Post(1, Event("EXIT_PROCESS", code[1])) /\ code[1] \in Codes
      BY <1>0, <1>9 DEF RunsDown, Outstanding, Typed
    <2>2. Event("EXIT_PROCESS", code[1]) \in Events /\ ~Chance(Event("EXIT_PROCESS", code[1]))
      BY <2>1, EventTypes DEF Event, Chance
    <2>3. QueueInv(hist'[1], cur[1], life'[1], cause[1], fault'[1])
      BY <1>b, <2>1, <2>2
    <2> QED
      BY <1>3, <1>a, <2>1, <2>3 DEF CauseInv
  <1> QED
    BY <1>1, <1>4, <1>5, <1>6, <1>7, <1>8, <1>9 DEF Target

\* TerminateProcess on target 1: nothing, or a live target is now ending.
LEMMA TerminateFirst ==
  ASSUME Typed, DrainedInv, KindInv, attempt = 1, NEW c \in Codes, NEW ok,
         Terminate(1, c, ok), attempt' = 1,
         pc \notin {"returned", "done"}, result'.kind # "Ok",
         UNCHANGED <<fault, hist, cur, exception_code, saw_terminal_exception, timeout_ms>>,
         timeout_hit => timeout_hit' /\ elapsed' >= elapsed,
         timeout_hit' => timeout_ms' # 0 /\ elapsed' >= timeout_ms',
         pc' = "returned" \/ timeout_hit'
  PROVE  KindInv'
  <1>0. /\ 1 \in Attempts
        /\ life \in [Attempts -> {"none", "alive", "ending", "exited"}]
        /\ cause \in [Attempts -> {"none", "self", "exception", "terminated"}]
    BY DEF Typed, TypeOK, Attempts
  <1>1. CauseInv
    BY DEF KindInv
  <1>2. \/ UNCHANGED <<life, cause, code>>
        \/ life[1] = "alive" /\ life'[1] = "ending" /\ cause'[1] = "terminated"
    BY <1>0 DEF Terminate
  <1>3. QueueInv(hist[1], cur[1], life[1], cause[1], fault[1])'
    BY <1>1, <1>2 DEF CauseInv, QueueInv
  <1>4. CauseInv'
    BY <1>1, <1>2, <1>3 DEF CauseInv
  <1> QED
    BY <1>4 DEF KindInv, EndKindTruthful

\* An Ok result of a first attempt says truly why the target ended: a timeout
\* only when the time was up, an exception for a fault nobody handled, with
\* its code, and an exit of its own for nothing else.
THEOREM EndKindIsTruthful == Spec => []EndKindTruthful
  <1>1. Init => KindInv
    <2> SUFFICES ASSUME Init PROVE KindInv
      OBVIOUS
    <2>1. /\ hist[1] = <<>> /\ result.kind = "none" /\ cur[1] = 0 /\ fault[1] = None
          /\ cause[1] = "none" /\ life[1] = "none"
      BY DEF Init, Attempts, NoResult
    <2>2. (cur[1] + 1)..Len(hist[1]) = {}
      BY <2>1
    <2>3. QueueInv(hist[1], cur[1], life[1], cause[1], fault[1])
      BY <2>2 DEF QueueInv
    <2> QED
      BY <2>1, <2>3 DEF Init, KindInv, CauseInv, EndKindTruthful
  <1>2. KindInv /\ DrainedInv /\ Typed /\ [Next]_vars => KindInv'
    <2> SUFFICES ASSUME KindInv, DrainedInv, Typed, [Next]_vars, attempt' = 1 PROVE KindInv'
      BY DEF KindInv
    <2>0. /\ 1 \in Attempts /\ hist[1] \in Seq(Events) /\ Len(hist[1]) \in Nat
          /\ life \in [Attempts -> {"none", "alive", "ending", "exited"}]
          /\ cause \in [Attempts -> {"none", "self", "exception", "terminated"}]
          /\ code \in [Attempts -> Codes \cup {None}]
          /\ fault \in [Attempts -> Codes \cup {None}]
          /\ cur \in [Attempts -> Nat] /\ cur[1] \in Nat /\ cur[1] <= Len(hist[1])
          /\ elapsed \in Nat /\ timeout_ms \in Nat
      BY TimeAssumption DEF Typed, TypeOK, Attempts
    \* A step that leaves the target and what is recorded of its end alone
    \* keeps the invariant, whatever else the loop does.
    <2>a. ASSUME attempt = 1, UNCHANGED <<life, cause, code, fault, hist, cur>>,
                 UNCHANGED <<timeout_ms, timeout_hit, exception_code, saw_terminal_exception>>,
                 elapsed' = elapsed \/ (elapsed' = elapsed + 1 /\ result.kind # "Ok"),
                 result'.kind # "Ok" \/ result' = result,
                 pc \in {"returned", "done"} => pc' \in {"returned", "done"}
          PROVE  KindInv'
      <3>1. CauseInv /\ EndKindTruthful
        BY <2>a DEF KindInv
      <3>2. QueueInv(hist[1], cur[1], life[1], cause[1], fault[1])'
        BY <2>a, <3>1 DEF CauseInv, QueueInv
      <3>3. CauseInv'
        BY <2>0, <2>a, <3>1, <3>2 DEF CauseInv
      <3> QED
        BY <2>a, <3>1, <3>3 DEF KindInv, EndKindTruthful
    <2>1. CASE NotStarted
      BY <2>a, <2>1 DEF NotStarted, Outcome, targetVars
    <2>2. CASE Create
      <3>1. attempt = 1 /\ result' = result /\ result.kind # "Ok"
        BY <2>2 DEF Create, DrainedInv
      <3>2. /\ hist'[1] = <<Event("CREATE_PROCESS", None)>> /\ life'[1] = "alive"
            /\ UNCHANGED <<cur, cause, code, fault>> /\ life[1] = "none"
        BY <2>0, <2>2, <3>1 DEF Create, Typed, TypeOK
      <3>3. \A i \in (cur'[1] + 1)..Len(hist'[1]) : ~Chance(hist'[1][i])
        BY <2>0, <3>2 DEF Event, Chance
      <3>4. CauseInv
        BY <3>1 DEF KindInv
      <3>5. QueueInv(hist[1], cur[1], life[1], cause[1], fault[1])'
        BY <3>2, <3>3 DEF QueueInv, Chance
      <3>6. CauseInv'
        BY <2>2, <3>1, <3>2, <3>4, <3>5 DEF CauseInv, Create
      <3> QED
        BY <3>1, <3>6 DEF KindInv, EndKindTruthful
    <2>3. CASE PebEnabled \/ Finish
      BY <2>a, <2>3 DEF PebEnabled, Finish, targetVars
    <2>4. CASE PebFails
      <3>1. PICK k \in {"PebLoaderSnapsEnableFailed", "UnsupportedWow64Target"},
                 c \in Codes : PebFailed(k, c)
        BY <2>4, CodesAssumption DEF PebFails
      <3>2. attempt = 1 /\ pc = "peb" /\ pc' = "returned" /\ result'.kind # "Ok"
        BY <3>1 DEF PebFailed, Outcome
      <3>3. PICK ok \in BOOLEAN : Terminate(1, c, ok)
        BY <3>1, <3>2 DEF PebFailed
      <3>4. timeout_hit => timeout_ms # 0 /\ elapsed >= timeout_ms
        BY <3>2 DEF KindInv, CauseInv
      <3> QED
        BY <2>0, <3>1, <3>2, <3>3, <3>4, TerminateFirst DEF PebFailed
    <2>5. CASE EnterWait \/ WaitTimesOut \/ Tick
      BY <2>a, <2>5 DEF EnterWait, WaitTimesOut, Tick, DrainedInv, targetVars
    <2>6. CASE TimeoutTerminates
      <3>1. SemTimeout \in Codes /\ Terminate(1, SemTimeout, TRUE) /\ attempt = 1
        BY <2>6, CodesAssumption DEF TimeoutTerminates
      <3>2. pc = "head" /\ result'.kind # "Ok"
        BY <2>6, <3>1 DEF TimeoutTerminates, DrainedInv
      <3>3. ~timeout_hit /\ timeout_hit' /\ timeout_ms # 0 /\ elapsed >= timeout_ms
        BY <2>6 DEF TimeoutTerminates, TimeoutDue
      <3> QED
        BY <2>0, <2>6, <3>1, <3>2, <3>3, TerminateFirst DEF TimeoutTerminates
    <2>7. CASE TerminateFails \/ DrainExpires \/ WaitFails
      <3>1. FailLoop /\ UNCHANGED targetVars
        BY <2>7 DEF TerminateFails, Terminate, DrainExpires, WaitFails, targetVars
      <3> QED
        BY <2>a, <3>1 DEF FailLoop, Outcome, targetVars
    <2>8. ASSUME NEW p \in Attempts, Deliver(p) PROVE KindInv'
      BY <2>a, <2>8 DEF Deliver, targetVars
    <2>9. CASE HandleEvent
      <3> DEFINE e == hist[1][cur[1] + 1]
      <3>1. attempt = 1 /\ CauseInv /\ pc = "event" /\ result.kind # "Ok"
        BY <2>9 DEF HandleEvent, KindInv, DrainedInv
      <3>2. ev = 1
        <4>1. ev \in {1, 2} /\ Pending(ev)
          BY <2>9 DEF HandleEvent, Typed, Attempts
        <4>2. hist[2] = <<>> /\ cur[2] = 0
          BY <3>1 DEF Typed, Attempts
        <4>3. ~Pending(2)
          BY <4>2 DEF Pending
        <4> QED
          BY <4>1, <4>3
      <3>3. cur[1] + 1 \in (cur[1] + 1)..Len(hist[1]) /\ cur[1] + 1 \in 1..Len(hist[1])
        BY <2>0, <2>9, <3>2 DEF HandleEvent, Typed, Pending
      <3>4. e \in Events /\ Continued(1, e, ContinueStatus(e))
        BY <2>0, <2>9, <3>2, <3>3 DEF HandleEvent
      <3>5. /\ exception_code' = ExceptionCode(e)
            /\ saw_terminal_exception' = (saw_terminal_exception \/ e.kind = "SECOND_CHANCE")
            /\ UNCHANGED <<timeout_ms, timeout_hit, elapsed>>
        BY <2>9, <3>2 DEF HandleEvent
      <3>6. cur'[1] = cur[1] + 1 /\ hist' = hist
        BY <2>0, <3>4 DEF Continued
      <3>a. QueueInv(hist[1], cur[1], life[1], cause[1], fault[1])
        BY <3>1 DEF CauseInv
      <3> HIDE DEF e
      <3>b. /\ e.kind = "FIRST_CHANCE" => fault'[1] = e.arg
            /\ e.kind # "FIRST_CHANCE" => fault' = fault
            /\ (e.kind = "SECOND_CHANCE" /\ life[1] = "alive") =>
                 life'[1] = "ending" /\ cause'[1] = "exception" /\ code'[1] = e.arg
            /\ ~(e.kind = "SECOND_CHANCE" /\ life[1] = "alive") =>
                 UNCHANGED <<life, cause, code>>
        BY <2>0, <3>4 DEF Continued, ContinueStatus
      <3>c. \A i \in (cur'[1] + 1)..Len(hist'[1]) :
              i \in (cur[1] + 1)..Len(hist[1]) /\ i # cur[1] + 1
        BY <2>0, <3>6
      \* The rest of the queue holds no chance if the event was one.
      <3>d. Chance(e) => \A i \in (cur'[1] + 1)..Len(hist'[1]) : ~Chance(hist'[1][i])
        <4>1. \A i \in (cur[1] + 1)..Len(hist[1]) :
                Chance(hist[1][i]) /\ Chance(e) => i = cur[1] + 1
          BY <3>3, <3>a DEF QueueInv, e
        <4> QED
          BY <3>6, <3>c, <4>1
      <3>7. QueueInv(hist[1], cur[1], life[1], cause[1], fault[1])'
        <4>1. CASE Chance(e)
          BY <3>d, <4>1 DEF QueueInv, Chance
        <4>2. CASE ~Chance(e)
          <5>1. UNCHANGED <<life, cause, fault, hist>>
            BY <3>6, <3>b, <4>2 DEF Chance
          <5> QED
            BY <3>a, <3>c, <5>1 DEF QueueInv
        <4> QED
          BY <4>1, <4>2
      \* A second chance is of a live target, or of one that was terminated.
      <3>8. e.kind = "SECOND_CHANCE" =>
              life[1] = "alive" \/ (life[1] = "ending" /\ cause[1] = "terminated" /\ timeout_hit)
        <4> SUFFICES ASSUME e.kind = "SECOND_CHANCE"
                     PROVE  life[1] = "alive" \/ (life[1] = "ending" /\ cause[1] = "terminated"
                                                  /\ timeout_hit)
          OBVIOUS
        <4>1. life[1] # "exited" /\ cause[1] # "exception"
          BY <3>3, <3>a DEF QueueInv, Chance, e
        <4>2. life[1] # "none"
          <5>1. life[1] = "none" => Len(hist[1]) = 0
            BY <2>0 DEF Typed
          <5> QED
            BY <2>0, <3>3, <5>1
        <4>3. life[1] \in {"alive", "ending"}
          BY <2>0, <4>1, <4>2
        <4>4. life[1] = "ending" => cause[1] = "terminated"
          <5>1. cause[1] \in {"none", "self", "exception", "terminated"}
            BY <2>0
          <5> QED
            BY <3>1, <4>1, <5>1 DEF CauseInv
        <4> QED
          BY <3>1, <4>3, <4>4 DEF CauseInv
      <3>9. cause'[1] = "exception" => saw_terminal_exception' /\ exception_code' = code'[1]
        <4>1. CASE e.kind = "SECOND_CHANCE"
          BY <3>5, <3>8, <3>b, <4>1 DEF ExceptionCode
        <4>2. CASE e.kind # "SECOND_CHANCE"
          <5> SUFFICES ASSUME cause'[1] = "exception"
                       PROVE  saw_terminal_exception' /\ exception_code' = code'[1]
            OBVIOUS
          <5>1. /\ saw_terminal_exception /\ exception_code = code[1] /\ code'[1] = code[1]
                /\ life[1] \in {"ending", "exited"}
            BY <2>0, <3>1, <3>b, <4>2 DEF CauseInv
          <5>2. code[1] # None
            BY <2>0, <5>1, CodesAssumption DEF Typed
          <5> QED
            BY <3>5, <4>2, <5>1, <5>2 DEF ExceptionCode
        <4> QED
          BY <4>1, <4>2
      <3>10. CauseInv'
        BY <3>1, <3>5, <3>7, <3>8, <3>9, <3>b DEF CauseInv
      <3>11. CASE ~SawExit(e)
        <4>1. result' = result
          BY <2>9, <3>2, <3>11 DEF HandleEvent, e
        <4> QED
          BY <3>1, <3>10, <4>1 DEF KindInv, EndKindTruthful
      <3>12. CASE SawExit(e)
        <4>1. result' = Outcome("Ok", EndKind)
          BY <2>9, <3>2, <3>12 DEF HandleEvent, e
        <4>2. result'.end = EndKind /\ result'.exc = exception_code'
          BY <4>1 DEF Outcome
        <4>3. /\ life[1] = "exited" /\ UNCHANGED <<life, cause, code>>
              /\ saw_terminal_exception' = saw_terminal_exception
          <5>1. e.kind = "EXIT_PROCESS" /\ e.kind # "SECOND_CHANCE"
            BY <3>12 DEF SawExit
          <5>2. life[1] = "exited"
            BY <3>1, <3>3, <5>1 DEF DrainedInv, e
          <5>3. saw_terminal_exception \in BOOLEAN
            BY DEF Typed, TypeOK
          <5> QED
            BY <3>5, <3>b, <5>1, <5>2, <5>3
        <4>4. cause[1] \in {"self", "exception", "terminated"}
          BY <2>0, <3>1, <4>3 DEF CauseInv
        <4>5. EndKindTruthful'
          BY <3>1, <3>5, <3>9, <4>2, <4>3, <4>4 DEF EndKindTruthful, EndKind, CauseInv
        <4> QED
          BY <3>10, <4>5 DEF KindInv
      <3> QED
        BY <3>11, <3>12
    <2>10. CASE Fallback
      BY <2>10 DEF Fallback
    <2>11. ASSUME NEW p \in Attempts, Target(p) PROVE KindInv'
      <3>1. attempt' = attempt
        BY <2>11, TargetStep DEF debuggerVars
      <3> QED
        BY <2>11, <3>1, CauseStaysTrue
    <2>12. CASE UNCHANGED vars
      BY <2>a, <2>12 DEF vars, debuggerVars, targetVars
    <2> QED
      BY <2>1, <2>2, <2>3, <2>4, <2>5, <2>6, <2>7, <2>8, <2>9, <2>10, <2>11, <2>12
         DEF Next, Caller, Loop, Done
  <1>3. KindInv => EndKindTruthful
    BY DEF KindInv, EndKindTruthful
  <1> QED
    BY <1>1, <1>2, <1>3, TypedInvariant, DrainedInvariant, PTL DEF Spec
-----------------------------------------------------------------------------
\* At every moment of a run the open handles are exactly those of the running
\* attempt and of the event in hand; every return leaves none behind, and the
\* second attempt starts with none of the first.
THEOREM HandlesAreAccounted == Spec => []HandlesAccounted
  <1>1. Init => HandlesAccounted
    BY DEF Init, HandlesAccounted
  <1>2. HandlesAccounted /\ Typed /\ [Next]_vars => HandlesAccounted'
    <2> SUFFICES ASSUME HandlesAccounted, Typed, [Next]_vars PROVE HandlesAccounted'
      OBVIOUS
    <2> USE DEF HandlesAccounted
    <2>1. CASE NotStarted
      BY <2>1 DEF NotStarted
    <2>2. CASE Create
      BY <2>2 DEF Create
    <2>3. CASE PebEnabled \/ Finish
      BY <2>3 DEF PebEnabled, Finish
    <2>4. CASE PebFails
      BY <2>4 DEF PebFails, PebFailed, CloseBoth
    <2>5. CASE EnterWait \/ WaitTimesOut
      BY <2>5 DEF EnterWait, WaitTimesOut
    <2>6. CASE TimeoutTerminates
      BY <2>6 DEF TimeoutTerminates
    <2>7. CASE TerminateFails \/ DrainExpires \/ WaitFails
      <3>1. /\ pc \in {"head", "wait"} /\ pc' = "returned"
            /\ handles' = CloseBoth(handles)
        BY <2>7 DEF TerminateFails, DrainExpires, WaitFails, FailLoop
      <3> QED
        BY <3>1 DEF CloseBoth
    <2>8. ASSUME NEW p \in Attempts, Deliver(p) PROVE HandlesAccounted'
      BY <2>8 DEF Deliver, targetVars
    <2>9. CASE HandleEvent
      <3>1. handles \ {<<"h_file", ev>>} = {<<"h_process", attempt>>, <<"h_thread", attempt>>}
        BY <2>9 DEF HandleEvent
      <3>2. attempt' = attempt
        BY <2>9 DEF HandleEvent
      <3>3. CASE pc' = "head"
        BY <2>9, <3>1, <3>2, <3>3 DEF HandleEvent
      <3>4. CASE pc' = "returned"
        BY <2>9, <3>1, <3>2, <3>4 DEF HandleEvent, CloseBoth
      <3> QED
        BY <2>9, <3>3, <3>4 DEF HandleEvent
    <2>10. CASE Fallback
      BY <2>10 DEF Fallback
    <2>11. CASE Tick
      BY <2>11 DEF Tick, targetVars
    <2>12. ASSUME NEW p \in Attempts, Target(p) PROVE HandlesAccounted'
      <3>1. UNCHANGED debuggerVars /\ cur' = cur
        BY <2>12, TargetStep
      <3>2. CASE pc = "event"
        <4>1. /\ ev \in Attempts /\ cur[ev] \in Nat
              /\ Len(hist[ev]) \in Nat /\ cur[ev] < Len(hist[ev])
          BY <3>2 DEF Typed, TypeOK, Pending
        <4>2. cur[ev] + 1 \in 1..Len(hist[ev])
          BY <4>1
        <4>3. hist'[ev][cur[ev] + 1] = hist[ev][cur[ev] + 1]
          BY <2>12, <4>1, <4>2, TargetStep
        <4> QED
          BY <3>1, <3>2, <4>3 DEF debuggerVars
      <3>3. CASE pc # "event"
        BY <3>1, <3>3 DEF debuggerVars
      <3> QED
        BY <3>2, <3>3
    <2>13. CASE UNCHANGED vars
      BY <2>13 DEF vars, debuggerVars, targetVars
    <2> QED
      BY <2>1, <2>2, <2>3, <2>4, <2>5, <2>6, <2>7, <2>8, <2>9, <2>10, <2>11, <2>12, <2>13
         DEF Next, Caller, Loop, Done
  <1> QED
    BY <1>1, <1>2, TypedInvariant, PTL DEF Spec
=============================================================================
