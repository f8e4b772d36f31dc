--------------------------- MODULE DynamicMissing ---------------------------
(***************************************************************************)
(* Phase C of `loadwhat run`: detect_dynamic_missing_from_debug_strings    *)
(* (src/main.rs) reads the runtime events of a finished run, pairs loader- *)
(* snaps lines that several threads of the target wrote interleaved, and   *)
(* names the one DLL whose dynamic load failed for good.                   *)
(*                                                                         *)
(* A debug string is the record of what the text predicates find in it:    *)
(*   tid      the thread that wrote it                                     *)
(*   dll      pick_best_dll of its DLL names, or else the first of them    *)
(*   named    extract_unable_to_load_dll                                   *)
(*   path     extract_candidate_path, by what is asked about it            *)
(*   attempt  looks_like_load_attempt                                      *)
(*   returns  LdrLoadDll or LdrpLoadDllInternal returns                    *)
(*   probe    is_ignored_probe_line                                        *)
(*   pattern  the failure text it matches                                  *)
(*   status   extract_first_hex_u32                                        *)
(*   words    the reason its wording alone gives                           *)
(* The first best name of a line is a noise name only when all are, so dll *)
(* also tells pick_best_dll.  seen is the part of runtime_events that the  *)
(* scan has read.  DLL names are numbers in their lexicographic order.     *)
(***************************************************************************)
EXTENDS Integers, Sequences

CONSTANTS
  Threads,        \* thread identifiers
  Dlls,           \* DLL base names
  Noise,          \* is_noise_dll
  Lines,          \* debug strings a thread may write
  LoaderCodes,    \* is_loader_related_code
  NotFoundCodes,  \* statuses classify_dynamic_reason calls NOT_FOUND
  BadImageCodes,  \* statuses it calls BAD_IMAGE
  None,           \* Option::None
  MaxEvents       \* bound: events in the run

Reasons == {"NOT_FOUND", "BAD_IMAGE", "OTHER"}
\* is_absolute, is_app_local_path and is_windows_or_gac_path of a path.
Paths == [absolute : BOOLEAN, app_local : BOOLEAN, framework : BOOLEAN]
\* The pairs of a kind and a score that a line may have.
Patterns == {"process_work", "unable_to_load", "init_routine", "import_walk", "init_failed",
             "load_import_walk", "load_init_failed", "ldrloaddll_failed", "search_path", "context"}

Contexts == [dll : Dlls, path : Paths \cup {None}]
Candidates ==
  [event_idx : Nat, tid : Threads, dll : Dlls, reason : Reasons,
   status : Nat \cup {None}, score : Nat, kind : 0..4,
   app_local_hint : BOOLEAN, framework_or_os_hint : BOOLEAN,
   full_path_probe : BOOLEAN, thread_correlated : BOOLEAN]

ASSUME LinesAssumption ==
  /\ Threads \subseteq Nat /\ Dlls \subseteq Nat /\ Noise \subseteq Dlls
  /\ LoaderCodes \cup NotFoundCodes \cup BadImageCodes \subseteq Nat \ {0}
  /\ None \notin Nat /\ None \notin Paths \cup Patterns
  /\ None \notin Contexts /\ None \notin Candidates
  /\ Lines \subseteq [tid : Threads, dll : Dlls \cup {None}, named : Dlls \cup {None},
                      path : Paths \cup {None}, attempt : BOOLEAN, returns : BOOLEAN,
                      probe : BOOLEAN, pattern : Patterns \cup {None},
                      status : Nat \cup {None}, words : Reasons]
  /\ MaxEvents \in Nat

VARIABLES
  seen,                           \* events read so far
  last_load_by_tid,
  candidates,
  last_failure_candidate_by_tid,
  latest_success_idx_by_basename,
  phase,                          \* "scan" or "done"
  best                            \* the candidate reported, or None

scanVars == <<seen, last_load_by_tid, candidates, last_failure_candidate_by_tid,
              latest_success_idx_by_basename>>
vars == <<scanVars, phase, best>>

Loaded(d) == [loaded |-> d]
Events == {Loaded(d) : d \in Dlls} \cup Lines
IsLoad(e) == "loaded" \in DOMAIN e

-----------------------------------------------------------------------------
(* Classification of a line.  An operator named Bad... is the definition    *)
(* after it with a plausible mistake; only mutation runs put it in place.   *)

Or(a, b) == IF a # None THEN a ELSE b

Best(l) == IF l.dll \in Noise THEN None ELSE l.dll

\* DynamicCandidateKind, in its derived order.
Kind(p) ==
  [process_work |-> 4, unable_to_load |-> 4, ldrloaddll_failed |-> 3,
   load_import_walk |-> 3, load_init_failed |-> 3,
   init_routine |-> 2, import_walk |-> 2, init_failed |-> 2,
   search_path |-> 1, context |-> 0][p]

\* failure_score
Score(p) ==
  [process_work |-> 100, unable_to_load |-> 95, init_routine |-> 92,
   import_walk |-> 90, load_import_walk |-> 90, init_failed |-> 85,
   load_init_failed |-> 85, ldrloaddll_failed |-> 80,
   search_path |-> 70, context |-> 60][p]

Reason(l, status) ==
  IF status \in NotFoundCodes THEN "NOT_FOUND"
  ELSE IF status \in BadImageCodes THEN "BAD_IMAGE" ELSE l.words

\* classify_failure_kind: a failed probe of one full path says nothing of the
\* other places the DLL may come from; a failed initialisation does.
FullPathProbe(p, path) ==
  path # None /\ path.absolute /\ Kind(p) \in {1, 3, 4}

\* extract_load_return_status
Returns(l) == l.returns /\ l.status # None

IsAttempt(l) == l.attempt /\ l.dll # None

-----------------------------------------------------------------------------
(* The steps of the scan for one debug string, in the order of the code.    *)

\* The thread's context once the line's own load attempt is recorded.
Entered(l) ==
  IF IsAttempt(l) THEN [dll |-> l.dll, path |-> l.path]
  ELSE last_load_by_tid[l.tid]

\* The context a failure on this line can use: a return has ended the load.
BadContext(l) == Entered(l)
Context(l) == IF Returns(l) THEN None ELSE Entered(l)

ContextDll(ctx) == IF ctx # None THEN ctx.dll ELSE None
ContextPath(ctx) == IF ctx # None THEN ctx.path ELSE None

\* The DLL whose load the line reports as done, None when it reports none.
SuccessDll(l) ==
  IF Returns(l) /\ l.status = 0 THEN Or(l.dll, ContextDll(Entered(l))) ELSE None

BadEnriches(l, i) == Returns(l) /\ l.status \in LoaderCodes /\ i # None
\* The failed return that gives candidate i of its thread the missing status.
Enriches(l, i) ==
  /\ Returns(l) /\ l.status \in LoaderCodes
  /\ i # None /\ candidates[i].status = None

\* The latest candidate of any thread.
Enriched(l) ==
  LET i == last_failure_candidate_by_tid[l.tid] IN
  IF Enriches(l, i)
    THEN [candidates EXCEPT ![i].status = l.status,
                            ![i].reason = Reason(l, l.status)]
    ELSE candidates

\* The DLL a failure line is about; a noise name gives way to a better one.
FailedDll(l) ==
  LET d == Or(l.named, Or(l.dll, ContextDll(Context(l)))) IN
  IF d \in Noise THEN Or(Best(l), Or(ContextDll(Context(l)), d)) ELSE d

IsFailure(l) == ~l.probe /\ l.pattern # None /\ FailedDll(l) # None

\* The name came from the thread's context.
Correlated(l) == l.named = None /\ l.dll = None /\ Context(l) # None

Candidate(l, idx) ==
  LET path == Or(l.path, ContextPath(Context(l))) IN
  [event_idx |-> idx, tid |-> l.tid, dll |-> FailedDll(l),
   reason |-> Reason(l, l.status), status |-> l.status,
   score |-> Score(l.pattern), kind |-> Kind(l.pattern),
   app_local_hint |-> path # None /\ path.app_local,
   framework_or_os_hint |-> (path # None /\ path.framework) \/ FailedDll(l) \in Noise,
   full_path_probe |-> FullPathProbe(l.pattern, path),
   thread_correlated |-> Correlated(l)]

Detected(l, idx) ==
  IF IsFailure(l) THEN Append(Enriched(l), Candidate(l, idx)) ELSE Enriched(l)

BadLastFailure(l) ==
  IF l.pattern # None /\ ~Correlated(l) THEN Len(Enriched(l)) + 1
  ELSE IF Returns(l) THEN None ELSE last_failure_candidate_by_tid[l.tid]
\* The thread's candidate that a later return may complete.
LastFailure(l) ==
  IF IsFailure(l) /\ ~Correlated(l) THEN Len(Enriched(l)) + 1
  ELSE IF Returns(l) THEN None ELSE last_failure_candidate_by_tid[l.tid]

\* record_dynamic_success; 0 stands for no entry.
Recorded(d, idx) ==
  IF d = None THEN latest_success_idx_by_basename
  ELSE [latest_success_idx_by_basename EXCEPT ![d] = idx]

-----------------------------------------------------------------------------
(* The loop over runtime_events, and the choice after it.                   *)

Init ==
  /\ seen = <<>>
  /\ last_load_by_tid = [t \in Threads |-> None]
  /\ candidates = <<>>
  /\ last_failure_candidate_by_tid = [t \in Threads |-> None]
  /\ latest_success_idx_by_basename = [d \in Dlls |-> 0]
  /\ phase = "scan"
  /\ best = None

Next_idx == Len(seen) + 1

RuntimeLoaded(d) ==
  /\ phase = "scan" /\ Len(seen) < MaxEvents
  /\ seen' = Append(seen, Loaded(d))
  /\ latest_success_idx_by_basename' = Recorded(d, Next_idx)
  /\ UNCHANGED <<last_load_by_tid, candidates, last_failure_candidate_by_tid, phase, best>>

DebugString(l) ==
  /\ phase = "scan" /\ Len(seen) < MaxEvents
  /\ seen' = Append(seen, l)
  /\ last_load_by_tid' = [last_load_by_tid EXCEPT ![l.tid] = Context(l)]
  /\ latest_success_idx_by_basename' = Recorded(SuccessDll(l), Next_idx)
  /\ candidates' = Detected(l, Next_idx)
  /\ last_failure_candidate_by_tid' =
       [last_failure_candidate_by_tid EXCEPT ![l.tid] = LastFailure(l)]
  /\ UNCHANGED <<phase, best>>

BadResolved(c) == latest_success_idx_by_basename[c.dll] > c.event_idx
BadResolvedAlways(c) == latest_success_idx_by_basename[c.dll] > 0
\* The DLL loaded after the failure, or at all when one path was probed.
Resolved(c) ==
  \/ latest_success_idx_by_basename[c.dll] > c.event_idx
  \/ c.full_path_probe /\ latest_success_idx_by_basename[c.dll] > 0

Unresolved == {candidates[i] : i \in {j \in DOMAIN candidates : ~Resolved(candidates[j])}}

Rank(b) == IF b THEN 1 ELSE 0

\* What the candidates are sorted by.
SortKey(c) ==
  <<-c.kind, -c.score, -Rank(c.app_local_hint), Rank(c.framework_or_os_hint),
    -Rank(c.thread_correlated), c.event_idx, c.dll, c.tid>>

\* Key a sorts before key b.
KeyBefore(a, b) ==
  \E n \in DOMAIN a : a[n] < b[n] /\ \A m \in 1..(n - 1) : a[m] = b[m]

Select ==
  /\ phase = "scan"
  /\ phase' = "done"
  /\ \/ Unresolved = {} /\ best' = None
     \/ \E c \in Unresolved :
          /\ \A o \in Unresolved \ {c} : KeyBefore(SortKey(c), SortKey(o))
          /\ best' = c
  /\ UNCHANGED scanVars

\* The scan has returned.
Done == phase = "done" /\ UNCHANGED vars

Next ==
  \/ \E d \in Dlls : RuntimeLoaded(d)
  \/ \E l \in Lines : DebugString(l)
  \/ Select
  \/ Done

Spec == Init /\ [][Next]_vars

-----------------------------------------------------------------------------
(* Properties.  They speak of the events alone: what the lines before and   *)
(* after a failure, in its own thread and in the others, say about it.      *)

\* The maps, the candidates and the reported one keep their shape.
TypeOK ==
  /\ seen \in Seq(Events)
  /\ last_load_by_tid \in [Threads -> Contexts \cup {None}]
  /\ candidates \in Seq(Candidates)
  /\ last_failure_candidate_by_tid \in [Threads -> (DOMAIN candidates) \cup {None}]
  /\ latest_success_idx_by_basename \in [Dlls -> 0..Len(seen)]
  /\ phase \in {"scan", "done"}
  /\ best \in Candidates \cup {None}

Own(t, i) == ~IsLoad(seen[i]) /\ seen[i].tid = t
ReturnAt(t, i) == Own(t, i) /\ Returns(seen[i])

\* Event a is thread t's load attempt still open before event n.
OpenAttempt(t, a, n) ==
  /\ Own(t, a) /\ IsAttempt(seen[a]) /\ ~Returns(seen[a])
  /\ \A i \in (a + 1)..(n - 1) : Own(t, i) => ~Returns(seen[i]) /\ ~IsAttempt(seen[i])

\* At every point a thread's context is its own last load attempt that has
\* not returned, whatever lines other threads wrote in between
\* (last_load_by_tid; docs/loadwhat_spec_v1.md rule 2).
ContextOfThread ==
  \A t \in Threads :
    LET open == {a \in DOMAIN seen : OpenAttempt(t, a, Len(seen) + 1)} IN
    IF last_load_by_tid[t] = None THEN open = {}
    ELSE \E a \in open : /\ last_load_by_tid[t].dll = seen[a].dll
                         /\ last_load_by_tid[t].path = seen[a].path

\* A candidate's status and reason come from one line: its own, or, when that
\* has no status, the first line of its thread after it that returns from a
\* load, and then only a loader failure (last_failure_candidate_by_tid).
StatusFromOneLine ==
  \A i \in DOMAIN candidates :
    LET c == candidates[i]
        l == seen[c.event_idx]
    IN  IF c.status = l.status THEN c.reason = Reason(l, l.status)
        ELSE /\ l.status = None
             /\ \E r \in (c.event_idx + 1)..Len(seen) :
                  /\ ReturnAt(c.tid, r) /\ seen[r].status = c.status
                  /\ c.status \in LoaderCodes
                  /\ c.reason = Reason(seen[r], c.status)
                  /\ \A j \in (c.event_idx + 1)..(r - 1) : ~ReturnAt(c.tid, j)

\* Event n shows that DLL d loaded: its module event, a line that returns
\* success and names it, or one that names none and ends its thread's attempt.
Loads(d, n) ==
  IF IsLoad(seen[n]) THEN seen[n].loaded = d
  ELSE /\ Returns(seen[n]) /\ seen[n].status = 0
       /\ \/ seen[n].dll = d
          \/ /\ seen[n].dll = None
             /\ \E a \in 1..(n - 1) : OpenAttempt(seen[n].tid, a, n) /\ seen[a].dll = d

\* The DLL reported never loaded after the reported failure, and never at all
\* when the failure is the probe of one path
\* (docs/loadwhat_spec_v1.md rule 1; candidates.retain).
ReportedNeverLoaded ==
  best # None =>
    \A n \in DOMAIN seen :
      (n > best.event_idx \/ best.full_path_probe) => ~Loads(best.dll, n)

\* Line i fails on DLL d: the one it names, or, when it names none, the one
\* its thread is loading.
FailsOn(i, d) ==
  LET l == seen[i] IN
  /\ ~IsLoad(l) /\ ~l.probe /\ l.pattern # None
  /\ \/ Or(l.named, l.dll) = d /\ d \notin Noise
     \/ /\ Or(l.named, l.dll) = None
        /\ \E a \in 1..(i - 1) : OpenAttempt(l.tid, a, i) /\ ~Returns(l) /\ seen[a].dll = d

\* Nothing in the run clears that failure.
Stands(i, d) ==
  \A n \in DOMAIN seen : n > i \/ Kind(seen[i].pattern) # 2 => ~Loads(d, n)

\* A failure of the run that stands is reported, or one that is more or as
\* conclusive: no line in between, of any thread, loses it, and the early
\* `continue`s and the retain drop nothing else (rule 3).  Of those that match
\* one pattern at one place and name their DLL, the first one is reported,
\* whichever thread it came from (rule 5).
NothingMissed ==
  phase = "done" =>
    \A i \in DOMAIN seen, d \in Dlls :
      FailsOn(i, d) /\ Stands(i, d) =>
        /\ best # None
        /\ LET k == Kind(seen[i].pattern) IN
           best.kind > k \/ (best.kind = k /\ best.score >= Score(seen[i].pattern))
        /\ (/\ ~best.thread_correlated /\ d = Or(seen[i].named, seen[i].dll)
            /\ seen[i].pattern = seen[best.event_idx].pattern
            /\ seen[i].path = seen[best.event_idx].path /\ seen[i].path # None)
             => best.event_idx <= i

\* A line changes nothing that belongs to another thread: neither its context
\* nor its candidates nor the one it may still complete (rule 2, "do not
\* cross-correlate load attempts across threads").
ThreadsApart ==
  [][\A l \in Lines : DebugString(l) =>
       \A t \in Threads \ {l.tid} :
         /\ last_load_by_tid'[t] = last_load_by_tid[t]
         /\ last_failure_candidate_by_tid'[t] = last_failure_candidate_by_tid[t]
         /\ \A i \in DOMAIN candidates :
              candidates[i].tid = t => candidates'[i] = candidates[i]]_vars
=============================================================================
