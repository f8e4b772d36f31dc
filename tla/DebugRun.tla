------------------------------ MODULE DebugRun ------------------------------
(***************************************************************************)
(* One `loadwhat run`: the debug loop of run_target (src/debug_run.rs) and *)
(* the caller's second attempt after a failed PEB loader-snaps enable      *)
(* (run_command, src/main.rs), against the Windows debug object.           *)
(*                                                                         *)
(* Attempt a creates target process a.  Windows queues the debug events of *)
(* both targets on the one debug object of loadwhat's thread and blocks a  *)
(* target until its event is continued; hist[p] is everything target p has *)
(* posted and cur[p] how much of it loadwhat has continued, so             *)
(* hist[p][cur[p]+1 ..] is what p still has in the queue.  The order       *)
(* between events of different targets is left open.                       *)
(*                                                                         *)
(* Time is counted in ticks from Instant::now() of the attempt; the poll   *)
(* period and the drain limit keep their order (POLL < DRAIN), not their   *)
(* length in milliseconds.                                                 *)
(***************************************************************************)
EXTENDS Integers, Sequences, FiniteSets

CONSTANTS
  Modules,      \* images a target may load
  Codes,        \* exit and exception codes
  HighCodes,    \* the codes with bit 31 set (NTSTATUS failures)
  SemTimeout,   \* ERROR_SEM_TIMEOUT, the code of a timed-out target
  PebCodes,     \* codes a failed enable_via_peb reports
  InvalidParameter, \* ERROR_INVALID_PARAMETER, the code of a WOW64 target
  None,         \* Option::None
  Timeouts,     \* values of --timeout-ms, 0 means none
  LoaderSnaps,  \* opts.loader_snaps
  POLL,         \* the 250 ms wait
  DRAIN,        \* TERMINATION_DRAIN_TIMEOUT_MS
  MaxEvents,    \* bound: events a target posts before it ends
  MaxPending,   \* bound: threads of one target blocked on an event at once
  MaxClock      \* bound: ticks spent handling events, and waiting with no timeout

\* Calls of run_target in one run, and the targets they create.
Attempts == {1, 2}

ASSUME CodesAssumption ==
  /\ HighCodes \subseteq Codes
  /\ SemTimeout \in Codes
  /\ PebCodes \cup {InvalidParameter} \subseteq Codes
  /\ None \notin Codes \cup Modules \cup Attempts /\ None \notin Nat

ASSUME TimeAssumption ==
  /\ Timeouts \subseteq Nat
  /\ POLL \in Nat \ {0}
  /\ DRAIN \in Nat \ {0}
  /\ MaxClock \in Nat
  /\ MaxEvents \in Nat
  /\ MaxPending \in Nat
  /\ LoaderSnaps \in BOOLEAN

VARIABLES
  \* run_target and its caller
  pc,                     \* where loadwhat is
  attempt,                \* which call of run_target, and which target
  timeout_ms,
  elapsed,                \* start.elapsed()
  deadline,               \* end of the current WaitForDebugEvent
  timeout_hit,
  termination_started,    \* tick of the termination, or None
  ev,                     \* target whose event was delivered, or None
  runtime_events,
  exit_code,
  exception_code,
  saw_terminal_exception,
  handles,                \* open handles, as <<name, attempt>>
  result,                 \* what run_target returned
  \* Windows and the targets
  life,                   \* "none", "alive", "ending", "exited"
  cause,                  \* why the target ended
  code,                   \* its exit code, None while unknown
  fault,                  \* an exception the debugger passed on, or None
  hist,
  cur

debuggerVars == <<pc, attempt, timeout_ms, elapsed, deadline, timeout_hit,
                  termination_started, ev, runtime_events, exit_code,
                  exception_code, saw_terminal_exception, handles, result>>
targetVars == <<life, cause, code, fault, hist, cur>>
vars == <<debuggerVars, targetVars>>

-----------------------------------------------------------------------------
(* Values *)

\* BREAKPOINT (and single step) stands for every event run_target only
\* continues: threads, unloads, RIP.  A target has one fault in progress at
\* a time.
Event(k, a) == [kind |-> k, arg |-> a]
Events ==
  {Event(k, None) : k \in {"CREATE_PROCESS", "OUTPUT_DEBUG_STRING", "BREAKPOINT"}}
    \cup {Event("LOAD_DLL", m) : m \in Modules}
    \cup {Event(k, c) : k \in {"FIRST_CHANCE", "SECOND_CHANCE", "EXIT_PROCESS"},
                        c \in Codes}

EndKinds == {"ExitProcess", "Exception", "Timeout"}
Outcome(k, end) ==
  [kind |-> k, end |-> end, exit |-> exit_code', exc |-> exception_code']
NoResult == [kind |-> "none", end |-> None, exit |-> None, exc |-> None]
Results == [kind : {"none", "Ok", "Message", "PebLoaderSnapsEnableFailed",
                    "UnsupportedWow64Target"},
            end : EndKinds \cup {None},
            exit : Codes \cup {None}, exc : Codes \cup {None}]

Outstanding(p) == Len(hist[p]) - cur[p]
Pending(p) == cur[p] < Len(hist[p])

-----------------------------------------------------------------------------
(* Helpers of run_target.  An operator named Bad... is the definition after *)
(* it with a plausible mistake; only mutation runs put it in place.         *)

BadObserved(e) == e.kind = "OUTPUT_DEBUG_STRING"
\* The events that become runtime events.
Observed(e) == e.kind \in {"LOAD_DLL", "OUTPUT_DEBUG_STRING"}

BadSawExit(e) == e.kind \in {"EXIT_PROCESS", "SECOND_CHANCE"}
BadSawCleanExit(e) == e.kind = "EXIT_PROCESS" /\ e.arg \notin HighCodes
\* saw_exit
SawExit(e) == e.kind = "EXIT_PROCESS"

BadCloseBoth(hs) == hs \ {<<"h_process", attempt>>}
\* Every return closes the thread and the process handle of the attempt.
CloseBoth(hs) == hs \ {<<"h_thread", attempt>>, <<"h_process", attempt>>}

\* TerminateProcess on target p.  It works on a live target; on one that is
\* already ending it may fail, and then, as when it succeeds, changes nothing.
Terminate(p, c, ok) ==
  \/ /\ life[p] = "alive" /\ ok
     /\ life' = [life EXCEPT ![p] = "ending"]
     /\ cause' = [cause EXCEPT ![p] = "terminated"]
     /\ code' = [code EXCEPT ![p] = c]
  \/ /\ life[p] \in {"ending", "exited"}
     /\ UNCHANGED <<life, cause, code>>

BadEndKind ==
  IF saw_terminal_exception THEN "Exception"
  ELSE IF timeout_hit THEN "Timeout" ELSE "ExitProcess"
\* determine_end_kind, where it is called: saw_exit holds.
EndKind ==
  IF timeout_hit THEN "Timeout"
  ELSE IF saw_terminal_exception THEN "Exception" ELSE "ExitProcess"

\* The continue status of the delivered event.
ContinueStatus(e) ==
  IF e.kind \in {"FIRST_CHANCE", "SECOND_CHANCE"}
    THEN "DBG_EXCEPTION_NOT_HANDLED" ELSE "DBG_CONTINUE"

BadTimeoutLate == ~timeout_hit /\ timeout_ms # 0 /\ elapsed > timeout_ms
TimeoutDue == ~timeout_hit /\ timeout_ms # 0 /\ elapsed >= timeout_ms

\* The drain limit counts from termination_started.
DrainOver == termination_started # None /\ elapsed - termination_started >= DRAIN

\* wait_ms
WaitMs ==
  LET remaining == timeout_ms - elapsed
  IN  IF timeout_ms = 0 \/ timeout_hit \/ remaining >= POLL THEN POLL ELSE remaining

-----------------------------------------------------------------------------
(* run_target *)

Init ==
  /\ pc = "start" /\ attempt = 1 /\ timeout_ms \in Timeouts
  /\ elapsed = 0 /\ deadline = 0
  /\ timeout_hit = FALSE /\ termination_started = None
  /\ ev = None /\ runtime_events = <<>>
  /\ exit_code = None /\ exception_code = None /\ saw_terminal_exception = FALSE
  /\ handles = {} /\ result = NoResult
  /\ life = [p \in Attempts |-> "none"]
  /\ cause = [p \in Attempts |-> "none"]
  /\ code = [p \in Attempts |-> None]
  /\ fault = [p \in Attempts |-> None]
  /\ hist = [p \in Attempts |-> <<>>]
  /\ cur = [p \in Attempts |-> 0]

\* The target does not exist, or CreateProcessW fails.
NotStarted ==
  /\ pc = "start"
  /\ pc' = "returned"
  /\ UNCHANGED <<exit_code, exception_code>>
  /\ result' = Outcome("Message", None)
  /\ UNCHANGED <<attempt, timeout_ms, elapsed, deadline, timeout_hit,
                 termination_started, ev, runtime_events,
                 saw_terminal_exception, handles, targetVars>>

\* CreateProcessW with DEBUG_ONLY_THIS_PROCESS; the first attempt goes on to
\* enable_via_peb when loader-snaps are wanted, the second never does.
Create ==
  /\ pc = "start"
  /\ handles' = handles \cup {<<"h_process", attempt>>, <<"h_thread", attempt>>}
  /\ life' = [life EXCEPT ![attempt] = "alive"]
  /\ hist' = [hist EXCEPT ![attempt] = <<Event("CREATE_PROCESS", None)>>]
  /\ pc' = IF LoaderSnaps /\ attempt = 1 THEN "peb" ELSE "head"
  /\ UNCHANGED <<attempt, timeout_ms, elapsed, deadline, timeout_hit,
                 termination_started, ev, runtime_events, exit_code,
                 exception_code, saw_terminal_exception, result,
                 cause, code, fault, cur>>

PebEnabled ==
  /\ pc = "peb"
  /\ pc' = "head"
  /\ UNCHANGED <<attempt, timeout_ms, elapsed, deadline, timeout_hit,
                 termination_started, ev, runtime_events, exit_code,
                 exception_code, saw_terminal_exception, handles, result,
                 targetVars>>

\* enable_via_peb failed with error k and code c: the target is terminated,
\* and its debug events stay where they are.
PebFailed(k, c) ==
  /\ pc = "peb"
  /\ \E ok \in BOOLEAN : Terminate(attempt, c, ok)
  /\ handles' = CloseBoth(handles)
  /\ pc' = "returned"
  /\ UNCHANGED <<exit_code, exception_code>>
  /\ result' = Outcome(k, None)
  /\ UNCHANGED <<attempt, timeout_ms, elapsed, deadline, timeout_hit,
                 termination_started, ev, runtime_events,
                 saw_terminal_exception, fault, hist, cur>>

\* An error return from inside the loop: everything observed is dropped.
FailLoop ==
  /\ handles' = CloseBoth(handles)
  /\ pc' = "returned"
  /\ UNCHANGED <<exit_code, exception_code>>
  /\ result' = Outcome("Message", None)
  /\ UNCHANGED <<attempt, timeout_ms, elapsed, deadline, timeout_hit,
                 termination_started, ev, runtime_events,
                 saw_terminal_exception>>

\* The head of the loop up to the call of WaitForDebugEvent.
EnterWait ==
  /\ pc = "head" /\ ~TimeoutDue /\ ~DrainOver
  /\ pc' = "wait"
  /\ deadline' = elapsed + WaitMs
  /\ UNCHANGED <<attempt, timeout_ms, elapsed, timeout_hit,
                 termination_started, ev, runtime_events, exit_code,
                 exception_code, saw_terminal_exception, handles, result,
                 targetVars>>

TimeoutTerminates ==
  /\ pc = "head" /\ TimeoutDue
  /\ Terminate(attempt, SemTimeout, TRUE)
  /\ timeout_hit' = TRUE
  /\ termination_started' = elapsed
  /\ deadline' = elapsed + POLL
  /\ pc' = "wait"
  /\ UNCHANGED <<attempt, timeout_ms, elapsed, ev, runtime_events, exit_code,
                 exception_code, saw_terminal_exception, handles, result,
                 fault, hist, cur>>

TerminateFails ==
  /\ pc = "head" /\ TimeoutDue
  /\ life[attempt] # "alive"
  /\ Terminate(attempt, SemTimeout, FALSE)
  /\ FailLoop
  /\ UNCHANGED <<fault, hist, cur>>

DrainExpires ==
  /\ pc = "head" /\ ~TimeoutDue /\ DrainOver
  /\ FailLoop
  /\ UNCHANGED targetVars

\* WaitForDebugEvent returns WAIT_TIMEOUT (or ERROR_SEM_TIMEOUT).
WaitTimesOut ==
  /\ pc = "wait" /\ elapsed = deadline
  /\ \A p \in Attempts : ~Pending(p)
  /\ pc' = "head"
  /\ UNCHANGED <<attempt, timeout_ms, elapsed, deadline, timeout_hit,
                 termination_started, ev, runtime_events, exit_code,
                 exception_code, saw_terminal_exception, handles, result,
                 targetVars>>

WaitFails ==
  /\ pc = "wait"
  /\ FailLoop
  /\ UNCHANGED targetVars

\* WaitForDebugEvent returns the next event of target p, with an open file
\* handle in it when the event has one.
Deliver(p) ==
  /\ pc = "wait" /\ Pending(p)
  /\ ev' = p
  /\ pc' = "event"
  /\ handles' = IF hist[p][cur[p] + 1].kind \in {"CREATE_PROCESS", "LOAD_DLL"}
                  THEN handles \cup {<<"h_file", p>>} ELSE handles
  /\ UNCHANGED <<attempt, timeout_ms, elapsed, deadline, timeout_hit,
                 termination_started, runtime_events, exit_code,
                 exception_code, saw_terminal_exception, result, targetVars>>

\* What ContinueDebugEvent does to the target: an exception passed back at
\* the first chance may come again, at the second chance it ends the target.
Continued(p, e, status) ==
  /\ cur' = [cur EXCEPT ![p] = @ + 1]
  /\ IF e.kind = "FIRST_CHANCE" /\ status = "DBG_EXCEPTION_NOT_HANDLED"
       THEN fault' = [fault EXCEPT ![p] = e.arg]
       ELSE fault' = fault
  /\ IF e.kind = "SECOND_CHANCE" /\ status = "DBG_EXCEPTION_NOT_HANDLED"
        /\ life[p] = "alive"
       THEN /\ life' = [life EXCEPT ![p] = "ending"]
            /\ cause' = [cause EXCEPT ![p] = "exception"]
            /\ code' = [code EXCEPT ![p] = e.arg]
       ELSE UNCHANGED <<life, cause, code>>
  /\ hist' = hist

BadExceptionCode(e) ==
  IF e.kind # "EXIT_PROCESS" \/ e.arg \in HighCodes THEN e.arg ELSE exception_code
\* exception_code after event e.
ExceptionCode(e) ==
  CASE e.kind = "SECOND_CHANCE" -> e.arg
    [] e.kind = "EXIT_PROCESS" /\ exception_code = None /\ e.arg \in HighCodes -> e.arg
    [] OTHER -> exception_code

\* The match on dw_debug_event_code: only the kind of the event is looked
\* at, never the process it came from.
HandleEvent ==
  /\ pc = "event"
  /\ LET e == hist[ev][cur[ev] + 1]
     IN  /\ runtime_events' =
              IF Observed(e) THEN Append(runtime_events, e) ELSE runtime_events
         /\ exit_code' = IF SawExit(e) THEN e.arg ELSE exit_code
         /\ exception_code' = ExceptionCode(e)
         /\ saw_terminal_exception' =
              (saw_terminal_exception \/ e.kind = "SECOND_CHANCE")
         /\ Continued(ev, e, ContinueStatus(e))
         /\ IF SawExit(e)
              THEN /\ pc' = "returned"
                   /\ handles' = CloseBoth(handles \ {<<"h_file", ev>>})
                   /\ result' = Outcome("Ok", EndKind)
              ELSE /\ pc' = "head"
                   /\ handles' = handles \ {<<"h_file", ev>>}
                   /\ result' = result
  /\ ev' = None
  /\ UNCHANGED <<attempt, timeout_ms, elapsed, deadline, timeout_hit,
                 termination_started>>

-----------------------------------------------------------------------------
(* The caller *)

\* run_command after PebLoaderSnapsEnableFailed: loader-snaps go through the
\* registry instead, and run_target is called again from scratch.
Fallback ==
  /\ pc = "returned" /\ attempt = 1
  /\ result.kind = "PebLoaderSnapsEnableFailed"
  /\ pc' = "start" /\ attempt' = 2
  /\ elapsed' = 0 /\ deadline' = 0
  /\ timeout_hit' = FALSE /\ termination_started' = None
  /\ runtime_events' = <<>>
  /\ exit_code' = None /\ exception_code' = None /\ saw_terminal_exception' = FALSE
  /\ result' = NoResult
  /\ UNCHANGED <<timeout_ms, ev, handles, targetVars>>

\* Any other result is the run's, as is a failure to set the registry value.
Finish ==
  /\ pc = "returned"
  /\ pc' = "done"
  /\ UNCHANGED <<attempt, timeout_ms, elapsed, deadline, timeout_hit,
                 termination_started, ev, runtime_events, exit_code,
                 exception_code, saw_terminal_exception, handles, result,
                 targetVars>>

-----------------------------------------------------------------------------
(* The targets and the clock *)

Post(p, e) == hist' = [hist EXCEPT ![p] = Append(@, e)]

CanPost(p) ==
  /\ life[p] = "alive" /\ cur[p] > 0
  /\ Outstanding(p) < MaxPending /\ Len(hist[p]) < MaxEvents

Act(p) ==
  /\ CanPost(p)
  /\ \/ \E m \in Modules : Post(p, Event("LOAD_DLL", m))
     \/ Post(p, Event("OUTPUT_DEBUG_STRING", None))
     \/ Post(p, Event("BREAKPOINT", None))
  /\ UNCHANGED <<life, cause, code, fault, cur, debuggerVars>>

\* A thread faults.
Raise(p) ==
  /\ CanPost(p) /\ fault[p] = None
  /\ \A i \in (cur[p] + 1)..Len(hist[p]) :
       hist[p][i].kind \notin {"FIRST_CHANCE", "SECOND_CHANCE"}
  /\ \E c \in HighCodes : Post(p, Event("FIRST_CHANCE", c))
  /\ UNCHANGED <<life, cause, code, fault, cur, debuggerVars>>

\* No handler took the fault.
Unhandled(p) ==
  /\ life[p] = "alive" /\ fault[p] # None
  /\ Outstanding(p) < MaxPending
  /\ Post(p, Event("SECOND_CHANCE", fault[p]))
  /\ fault' = [fault EXCEPT ![p] = None]
  /\ UNCHANGED <<life, cause, code, cur, debuggerVars>>

\* A handler of the target took it.
Recovers(p) ==
  /\ life[p] = "alive" /\ fault[p] # None
  /\ fault' = [fault EXCEPT ![p] = None]
  /\ UNCHANGED <<life, cause, code, hist, cur, debuggerVars>>

\* The last thread leaves once no event of the target is outstanding.
Exits(p) ==
  /\ life[p] = "alive" /\ cur[p] > 0 /\ Outstanding(p) = 0
  /\ \E c \in Codes :
       /\ code' = [code EXCEPT ![p] = c]
       /\ Post(p, Event("EXIT_PROCESS", c))
  /\ life' = [life EXCEPT ![p] = "exited"]
  /\ cause' = [cause EXCEPT ![p] = "self"]
  /\ UNCHANGED <<fault, cur, debuggerVars>>

\* A terminated or crashed target is run down.
RunsDown(p) ==
  /\ life[p] = "ending" /\ cur[p] > 0 /\ Outstanding(p) = 0
  /\ life' = [life EXCEPT ![p] = "exited"]
  /\ Post(p, Event("EXIT_PROCESS", code[p]))
  /\ UNCHANGED <<cause, code, fault, cur, debuggerVars>>

\* Time passes while loadwhat waits, never beyond the end of its wait, or
\* handles an event.
Tick ==
  /\ \/ /\ pc = "wait" /\ elapsed < deadline
        /\ timeout_ms # 0 \/ elapsed < MaxClock
     \/ pc = "event" /\ elapsed < MaxClock
  /\ elapsed' = elapsed + 1
  /\ UNCHANGED <<pc, attempt, timeout_ms, deadline, timeout_hit,
                 termination_started, ev, runtime_events, exit_code,
                 exception_code, saw_terminal_exception, handles, result,
                 targetVars>>

-----------------------------------------------------------------------------
PebFails ==
  \/ \E c \in PebCodes : PebFailed("PebLoaderSnapsEnableFailed", c)
  \/ PebFailed("UnsupportedWow64Target", InvalidParameter)

Loop == \/ EnterWait \/ TimeoutTerminates \/ TerminateFails \/ DrainExpires
        \/ WaitTimesOut \/ HandleEvent
        \/ \E p \in Attempts : Deliver(p)

Caller == NotStarted \/ Create \/ PebEnabled \/ PebFails \/ Fallback \/ Finish

Target(p) == Act(p) \/ Raise(p) \/ Unhandled(p) \/ Recovers(p) \/ Exits(p) \/ RunsDown(p)

Done == pc = "done" /\ UNCHANGED vars

Next == \/ Caller \/ Loop \/ WaitFails \/ Tick
        \/ \E p \in Attempts : Target(p)
        \/ Done

Spec == Init /\ [][Next]_vars

\* loadwhat's own steps are taken, time passes, and nothing is asked of the
\* targets: one may hang before its exit event for ever.
FairSpec == Spec /\ WF_vars(Caller) /\ WF_vars(Loop) /\ WF_vars(Tick)
-----------------------------------------------------------------------------
(* Properties *)

\* Every variable has its type: in particular cur never runs past the queue
\* and the delivered event exists.
TypeOK ==
  /\ pc \in {"start", "peb", "head", "wait", "event", "returned", "done"}
  /\ attempt \in Attempts
  /\ timeout_ms \in Timeouts
  /\ elapsed \in Nat /\ deadline \in Nat
  /\ timeout_hit \in BOOLEAN
  /\ termination_started \in Nat \cup {None}
  /\ ev \in Attempts \cup {None}
  /\ runtime_events \in Seq(Events)
  /\ exit_code \in Codes \cup {None}
  /\ exception_code \in Codes \cup {None}
  /\ saw_terminal_exception \in BOOLEAN
  /\ handles \subseteq {"h_process", "h_thread", "h_file"} \X Attempts
  /\ result \in Results
  /\ life \in [Attempts -> {"none", "alive", "ending", "exited"}]
  /\ cause \in [Attempts -> {"none", "self", "exception", "terminated"}]
  /\ code \in [Attempts -> Codes \cup {None}]
  /\ fault \in [Attempts -> Codes \cup {None}]
  /\ hist \in [Attempts -> Seq(Events)]
  /\ cur \in [Attempts -> Nat]
  /\ \A p \in Attempts : cur[p] <= Len(hist[p])

\* The handles loadwhat holds: both handles of the running attempt inside
\* the loop (so a target still can be terminated and read), a file handle
\* only while its event is being handled, and none once run_target has
\* returned, whichever of its eight returns that was.
HandlesAccounted ==
  handles =
    (IF pc \in {"peb", "head", "wait", "event"}
       THEN {<<"h_process", attempt>>, <<"h_thread", attempt>>} ELSE {})
    \cup
    (IF pc = "event" /\ hist[ev][cur[ev] + 1].kind \in {"CREATE_PROCESS", "LOAD_DLL"}
       THEN {<<"h_file", ev>>} ELSE {})

\* With a timeout the debugger never blocks beyond it: a wait ends at the
\* timeout at the latest while it is running, and less than one poll after
\* the drain limit once the target was terminated.
WaitsAreBounded ==
  (pc = "wait" /\ timeout_ms # 0) =>
     deadline <= IF timeout_hit THEN termination_started + DRAIN + POLL
                 ELSE timeout_ms

IsRuntimeEvent(e) == e.kind = "LOAD_DLL" \/ e.kind = "OUTPUT_DEBUG_STRING"

\* How many of the first n events of a queue are runtime events.
RuntimeCount(q, n) == Cardinality({j \in 1..n : IsRuntimeEvent(q[j])})

\* The events are the runtime events among the first n of a queue, in order.
InOrder(events, q, n) ==
  /\ Len(events) = RuntimeCount(q, n)
  /\ \A i \in 1..n : IsRuntimeEvent(q[i]) => events[RuntimeCount(q, i)] = q[i]

\* The runtime events are, at every moment of an attempt, exactly the loads
\* and debug strings its own target has posted and loadwhat continued, in
\* their order: none is lost or repeated across waits, exceptions and
\* termination, and none comes from the target of the failed attempt.
ObservedInOrder == InOrder(runtime_events, hist[attempt], cur[attempt])

\* An Ok result means the target it describes is over: its exit event, and
\* everything before it, was drained, and the exit code is the target's.
TargetExitDrained ==
  result.kind = "Ok" =>
    /\ life[attempt] = "exited"
    /\ cur[attempt] = Len(hist[attempt])
    /\ result.exit = code[attempt]

\* The same for a first attempt, the only one of a run without loader-snaps.
FirstTargetExitDrained == attempt = 1 => TargetExitDrained

\* The end kind tells why the target ended: Exception only and always for a
\* fault nobody handled, with its code, ExitProcess only for an exit of its
\* own, and a target loadwhat terminated is never passed off as either.
EndKindTruthful ==
  (attempt = 1 /\ result.kind = "Ok") =>
    /\ result.end = "Timeout" => timeout_ms # 0 /\ elapsed >= timeout_ms
    /\ result.end = "ExitProcess" => cause[1] = "self"
    /\ result.end = "Exception" => cause[1] = "exception" /\ result.exc = code[1]
    /\ cause[1] = "exception" => result.exc = code[1]

\* When the second attempt is under way the target of the first is no longer
\* running, so two copies of the program never run at once.
FirstTargetEnded == attempt = 2 => life[1] # "alive"

\* With a timeout a run ends, even if the target hangs after it was
\* terminated and its exit event never comes.
TimedRunEnds == (timeout_ms # 0 /\ pc = "start") ~> pc = "done"

\* Whatever the timeout, it ends once the target has ended.
ExitEndsRun == (life[attempt] = "exited") ~> (pc = "done")
=============================================================================
