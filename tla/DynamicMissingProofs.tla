------------------------ MODULE DynamicMissingProofs ------------------------
(***************************************************************************)
(* Proofs about DynamicMissing, for any number of threads, DLLs, lines and *)
(* events, and about LoaderLines, for any texts that keep the loader's     *)
(* forms.                                                                  *)
(***************************************************************************)
EXTENDS LoaderLines, TLAPS, WellFoundedInduction

-----------------------------------------------------------------------------
(* What the classification of one line returns.                             *)

\* The fields of a line have their types, and a line is not a load event.
LEMMA LineType ==
  ASSUME NEW l \in Lines
  PROVE  /\ ~IsLoad(l)
         /\ l.tid \in Threads
         /\ l.dll \in Dlls \cup {None}
         /\ l.named \in Dlls \cup {None}
         /\ l.path \in Paths \cup {None}
         /\ l.attempt \in BOOLEAN /\ l.returns \in BOOLEAN /\ l.probe \in BOOLEAN
         /\ l.pattern \in Patterns \cup {None}
         /\ l.status \in Nat \cup {None}
         /\ l.words \in Reasons
BY LinesAssumption DEF IsLoad

\* A module event is not a line.
LEMMA LoadType ==
  ASSUME NEW d \in Dlls
  PROVE  IsLoad(Loaded(d)) /\ Loaded(d).loaded = d /\ Loaded(d) \in Events
BY DEF IsLoad, Loaded, Events

\* Confidence and kind of a failure text, and the reason of a status.
LEMMA ClassType ==
  ASSUME NEW l \in Lines, NEW status \in Nat \cup {None}
  PROVE  /\ l.pattern # None => Score(l.pattern) \in Nat /\ Kind(l.pattern) \in 0..4
         /\ Reason(l, status) \in Reasons
<1>1. l.pattern # None => Score(l.pattern) \in Nat /\ Kind(l.pattern) \in 0..4
  BY LineType DEF Score, Kind, Patterns
<1>2. Reason(l, status) \in Reasons
  BY LineType DEF Reason, Reasons
<1> QED
  BY <1>1, <1>2

\* The contexts and names the scan derives from a line have their types.
LEMMA ContextType ==
  ASSUME NEW l \in Lines, last_load_by_tid \in [Threads -> Contexts \cup {None}]
  PROVE  /\ Entered(l) \in Contexts \cup {None}
         /\ Context(l) \in Contexts \cup {None}
         /\ ContextDll(Entered(l)) \in Dlls \cup {None}
         /\ ContextDll(Context(l)) \in Dlls \cup {None}
         /\ ContextPath(Context(l)) \in Paths \cup {None}
         /\ SuccessDll(l) \in Dlls \cup {None}
         /\ FailedDll(l) \in Dlls \cup {None}
<1>1. Entered(l) \in Contexts \cup {None}
  BY LineType DEF Entered, IsAttempt, Contexts
<1>2. Context(l) \in Contexts \cup {None}
  BY <1>1 DEF Context
<1>3. /\ ContextDll(Entered(l)) \in Dlls \cup {None}
      /\ ContextDll(Context(l)) \in Dlls \cup {None}
      /\ ContextPath(Context(l)) \in Paths \cup {None}
  BY <1>1, <1>2 DEF ContextDll, ContextPath, Contexts
<1>4. SuccessDll(l) \in Dlls \cup {None}
  BY <1>3, LineType DEF SuccessDll, Or
<1>5. FailedDll(l) \in Dlls \cup {None}
  BY <1>3, LineType DEF FailedDll, Best, Or
<1> QED
  BY <1>1, <1>2, <1>3, <1>4, <1>5

\* What a failure line adds is a candidate of its own thread.
LEMMA CandidateType ==
  ASSUME NEW l \in Lines, NEW idx \in Nat, IsFailure(l),
         last_load_by_tid \in [Threads -> Contexts \cup {None}]
  PROVE  Candidate(l, idx) \in Candidates /\ Candidate(l, idx).tid = l.tid
<1>1. FailedDll(l) \in Dlls /\ l.pattern # None
  BY ContextType DEF IsFailure
<1>2. /\ Score(l.pattern) \in Nat /\ Kind(l.pattern) \in 0..4
      /\ Reason(l, l.status) \in Reasons
  BY <1>1, LineType, ClassType
<1>3. \A path : FullPathProbe(l.pattern, path) \in BOOLEAN
  BY DEF FullPathProbe
<1>4. Correlated(l) \in BOOLEAN
  BY DEF Correlated
<1> QED
  BY <1>1, <1>2, <1>3, <1>4, LineType DEF Candidate, Candidates

-----------------------------------------------------------------------------
(* Types, and whose candidate a thread may still complete.                  *)

\* Appending an event keeps the earlier ones in place.
LEMMA AppendFacts ==
  ASSUME NEW S, NEW s \in Seq(S), NEW e \in S
  PROVE  /\ Append(s, e) \in Seq(S)
         /\ Len(Append(s, e)) = Len(s) + 1
         /\ DOMAIN Append(s, e) = 1..(Len(s) + 1)
         /\ \A i \in 1..Len(s) : Append(s, e)[i] = s[i]
         /\ Append(s, e)[Len(s) + 1] = e
OBVIOUS

\* A return changes the status and reason of at most the one candidate that
\* its own thread may still complete.
LEMMA EnrichedType ==
  ASSUME TypeOK, NEW l \in Lines
  PROVE  /\ Enriched(l) \in Seq(Candidates)
         /\ Len(Enriched(l)) = Len(candidates)
         /\ \A i \in DOMAIN candidates :
              /\ Enriched(l)[i].tid = candidates[i].tid
              /\ i # last_failure_candidate_by_tid[l.tid] => Enriched(l)[i] = candidates[i]
<1> DEFINE i == last_failure_candidate_by_tid[l.tid]
<1>1. CASE ~Enriches(l, i)
  BY <1>1 DEF Enriched, TypeOK
<1>2. CASE Enriches(l, i)
  <2>1. i \in DOMAIN candidates /\ l.status \in Nat
    BY <1>2, LineType DEF Enriches, Returns, TypeOK
  <2>2. candidates[i] \in Candidates /\ candidates \in Seq(Candidates)
    BY <2>1 DEF TypeOK
  <2>3. Reason(l, l.status) \in Reasons
    BY <2>1, ClassType
  <2> DEFINE c == [candidates[i] EXCEPT !.status = l.status,
                                        !.reason = Reason(l, l.status)]
  <2>4. c \in Candidates /\ c.tid = candidates[i].tid
    BY <2>1, <2>2, <2>3 DEF Candidates
  <2>5. Enriched(l) = [candidates EXCEPT ![i] = c]
    BY <1>2, <2>1, <2>2 DEF Enriched, Candidates
  <2> HIDE DEF c, i
  <2>6. /\ [candidates EXCEPT ![i] = c] \in Seq(Candidates)
        /\ Len([candidates EXCEPT ![i] = c]) = Len(candidates)
        /\ \A j \in DOMAIN candidates :
             [candidates EXCEPT ![i] = c][j] = IF j = i THEN c ELSE candidates[j]
    BY <2>1, <2>2, <2>4
  <2> QED
    BY <2>4, <2>5, <2>6 DEF i
<1> QED
  BY <1>1, <1>2

\* The candidate a thread may still complete is its own.
OwnFailure ==
  \A t \in Threads :
    last_failure_candidate_by_tid[t] # None =>
      candidates[last_failure_candidate_by_tid[t]].tid = t

Typed == TypeOK /\ OwnFailure

\* Both hold of the empty scan.
LEMMA InitTyped == Init => Typed
BY DEF Init, Typed, TypeOK, OwnFailure

\* The scan of one debug string keeps both.
LEMMA DebugStringTyped ==
  ASSUME Typed, NEW l \in Lines, DebugString(l)
  PROVE  Typed'
<1> USE DEF Typed
<1>1. seen' \in Seq(Events) /\ Len(seen') = Len(seen) + 1 /\ Len(seen) \in Nat
  BY AppendFacts DEF DebugString, TypeOK, Events
<1>2. last_load_by_tid' \in [Threads -> Contexts \cup {None}]
  BY ContextType, LineType DEF DebugString, TypeOK
<1>3. latest_success_idx_by_basename' \in [Dlls -> 0..Len(seen')]
  BY <1>1, ContextType DEF DebugString, TypeOK, Recorded, Next_idx
<1>4. best' \in Candidates \cup {None} /\ phase' \in {"scan", "done"}
  BY DEF DebugString, TypeOK
<1>5. /\ Enriched(l) \in Seq(Candidates) /\ Len(Enriched(l)) = Len(candidates)
      /\ \A i \in DOMAIN candidates : Enriched(l)[i].tid = candidates[i].tid
  BY EnrichedType
<1>6. Len(candidates) \in Nat /\ DOMAIN candidates = 1..Len(candidates)
  BY DEF TypeOK
<1>7. l.tid \in Threads
  BY LineType
<1>8. CASE ~IsFailure(l)
  <2>1. candidates' = Enriched(l)
    BY <1>8 DEF DebugString, Detected
  <2>2. LastFailure(l) \in {None, last_failure_candidate_by_tid[l.tid]}
    BY <1>8 DEF LastFailure
  <2>3. DOMAIN candidates' = DOMAIN candidates
    BY <1>5, <1>6, <2>1
  <2>4. /\ last_failure_candidate_by_tid' \in [Threads -> (DOMAIN candidates') \cup {None}]
        /\ \A t \in Threads : last_failure_candidate_by_tid'[t]
                               \in {None, last_failure_candidate_by_tid[t]}
    BY <1>7, <2>2, <2>3 DEF DebugString, TypeOK
  <2>5. OwnFailure'
    BY <1>5, <2>1, <2>4 DEF OwnFailure, TypeOK
  <2> QED
    BY <1>1, <1>2, <1>3, <1>4, <1>5, <2>1, <2>4, <2>5 DEF TypeOK
<1>9. CASE IsFailure(l)
  <2> DEFINE c == Candidate(l, Next_idx)
  <2>1. c \in Candidates /\ c.tid = l.tid
    BY <1>1, <1>9, CandidateType DEF Next_idx, TypeOK
  <2>2. candidates' = Append(Enriched(l), c)
    BY <1>9 DEF DebugString, Detected
  <2> HIDE DEF c
  <2>3. /\ candidates' \in Seq(Candidates)
        /\ DOMAIN candidates' = 1..(Len(candidates) + 1)
        /\ \A i \in DOMAIN candidates : candidates'[i] = Enriched(l)[i]
        /\ candidates'[Len(candidates) + 1] = c
    BY <1>5, <1>6, <2>1, <2>2, AppendFacts
  <2>4. LastFailure(l) \in {None, last_failure_candidate_by_tid[l.tid], Len(candidates) + 1}
    BY <1>5 DEF LastFailure
  <2>5. /\ last_failure_candidate_by_tid' \in [Threads -> (DOMAIN candidates') \cup {None}]
        /\ last_failure_candidate_by_tid'[l.tid]
             \in {None, last_failure_candidate_by_tid[l.tid], Len(candidates) + 1}
        /\ \A t \in Threads \ {l.tid} :
             last_failure_candidate_by_tid'[t] = last_failure_candidate_by_tid[t]
    BY <1>6, <1>7, <2>3, <2>4 DEF DebugString, TypeOK
  <2>6. \A i \in DOMAIN candidates : candidates'[i].tid = candidates[i].tid
    BY <1>5, <2>3
  <2>7. OwnFailure'
    <3> SUFFICES ASSUME NEW t \in Threads, last_failure_candidate_by_tid'[t] # None
                 PROVE  candidates'[last_failure_candidate_by_tid'[t]].tid = t
      BY DEF OwnFailure
    <3>1. CASE last_failure_candidate_by_tid'[t] = last_failure_candidate_by_tid[t]
      BY <2>6, <3>1 DEF OwnFailure, TypeOK
    <3>2. CASE t = l.tid /\ last_failure_candidate_by_tid'[t] = Len(candidates) + 1
      BY <2>1, <2>3, <3>2
    <3> QED
      BY <2>5, <3>1, <3>2
  <2> QED
    BY <1>1, <1>2, <1>3, <1>4, <2>3, <2>5, <2>7 DEF TypeOK
<1> QED
  BY <1>8, <1>9

\* Every step keeps both.
LEMMA NextTyped == Typed /\ [Next]_vars => Typed'
<1> SUFFICES ASSUME Typed, [Next]_vars PROVE Typed'
  OBVIOUS
<1>1. ASSUME NEW d \in Dlls, RuntimeLoaded(d) PROVE Typed'
  <2>1. seen' \in Seq(Events) /\ Len(seen') = Len(seen) + 1 /\ Len(seen) \in Nat
    BY <1>1, LoadType, AppendFacts DEF RuntimeLoaded, Typed, TypeOK
  <2>2. latest_success_idx_by_basename' \in [Dlls -> 0..Len(seen')]
    BY <1>1, <2>1 DEF RuntimeLoaded, Typed, TypeOK, Recorded, Next_idx
  <2> QED
    BY <1>1, <2>1, <2>2 DEF RuntimeLoaded, Typed, TypeOK, OwnFailure
<1>2. ASSUME NEW l \in Lines, DebugString(l) PROVE Typed'
  BY <1>2, DebugStringTyped
<1>3. CASE Select
  <2>1. best' \in Candidates \cup {None}
    BY <1>3 DEF Select, Unresolved, Typed, TypeOK
  <2> QED
    BY <1>3, <2>1 DEF Select, scanVars, Typed, TypeOK, OwnFailure
<1>4. CASE UNCHANGED vars
  BY <1>4 DEF vars, scanVars, Typed, TypeOK, OwnFailure
<1> QED
  BY <1>1, <1>2, <1>3, <1>4 DEF Next, Done

\* Both hold throughout the scan.
LEMMA TypedInvariant == Spec => []Typed
BY InitTyped, NextTyped, PTL DEF Spec

\* Every variable keeps its type: the indices kept per thread always point
\* into the candidates, whatever the lines.
THEOREM TypeCorrect == Spec => []TypeOK
<1>1. Typed => TypeOK
  BY DEF Typed
<1> QED
  BY <1>1, TypedInvariant, PTL

\* No line changes the context, the candidates or the completable candidate of
\* another thread, for any number of threads.
THEOREM ThreadsIndependent == Spec => ThreadsApart
<1> DEFINE Apart(l) ==
      \A t \in Threads \ {l.tid} :
        /\ last_load_by_tid'[t] = last_load_by_tid[t]
        /\ last_failure_candidate_by_tid'[t] = last_failure_candidate_by_tid[t]
        /\ \A i \in DOMAIN candidates :
             candidates[i].tid = t => candidates'[i] = candidates[i]
<1>1. ASSUME Typed, NEW l \in Lines, DebugString(l)
      PROVE  Apart(l)
  <2>1. l.tid \in Threads
    BY LineType
  <2>2. \A i \in DOMAIN candidates : candidates'[i] = Enriched(l)[i]
    <3>1. /\ Enriched(l) \in Seq(Candidates) /\ Len(Enriched(l)) = Len(candidates)
          /\ DOMAIN candidates = 1..Len(candidates)
      BY <1>1, EnrichedType DEF Typed, TypeOK
    <3>2. CASE ~IsFailure(l)
      BY <1>1, <3>2 DEF DebugString, Detected
    <3>3. CASE IsFailure(l)
      <4>1. Candidate(l, Next_idx) \in Candidates
        BY <1>1, <3>3, CandidateType DEF Next_idx, Typed, TypeOK
      <4> QED
        BY <1>1, <3>1, <3>3, <4>1, AppendFacts DEF DebugString, Detected
    <3> QED
      BY <3>2, <3>3
  <2>3. ASSUME NEW i \in DOMAIN candidates, candidates[i].tid # l.tid
        PROVE  Enriched(l)[i] = candidates[i]
    <3>0. i # None
      BY <1>1, LinesAssumption DEF Typed, TypeOK
    <3>1. last_failure_candidate_by_tid[l.tid] # i
      BY <1>1, <2>1, <2>3, <3>0 DEF Typed, OwnFailure
    <3> QED
      BY <1>1, <3>1, EnrichedType DEF Typed
  <2>4. \A t \in Threads \ {l.tid} :
          /\ last_load_by_tid'[t] = last_load_by_tid[t]
          /\ last_failure_candidate_by_tid'[t] = last_failure_candidate_by_tid[t]
    BY <1>1, <2>1 DEF DebugString, Typed, TypeOK
  <2> QED
    BY <2>2, <2>3, <2>4
<1>2. Typed /\ [Next]_vars => [\A l \in Lines : DebugString(l) => Apart(l)]_vars
  BY <1>1
<1> QED
  BY <1>2, TypedInvariant, PTL DEF Spec, ThreadsApart

-----------------------------------------------------------------------------
(* Open attempts.  The definitions of DynamicMissing, of any sequence of    *)
(* events, so that they can be compared before and after an event is read.  *)

OwnIn(s, t, i) == ~IsLoad(s[i]) /\ s[i].tid = t
OpenIn(s, t, a, n) ==
  /\ OwnIn(s, t, a) /\ IsAttempt(s[a]) /\ ~Returns(s[a])
  /\ \A i \in (a + 1)..(n - 1) : OwnIn(s, t, i) => ~Returns(s[i]) /\ ~IsAttempt(s[i])
LoadsIn(s, d, n) ==
  IF IsLoad(s[n]) THEN s[n].loaded = d
  ELSE /\ Returns(s[n]) /\ s[n].status = 0
       /\ \/ s[n].dll = d
          \/ /\ s[n].dll = None
             /\ \E a \in 1..(n - 1) : OpenIn(s, s[n].tid, a, n) /\ s[a].dll = d
ContextIn(s, t, ctx) ==
  LET open == {a \in DOMAIN s : OpenIn(s, t, a, Len(s) + 1)} IN
  IF ctx = None THEN open = {}
  ELSE \E a \in open : ctx.dll = s[a].dll /\ ctx.path = s[a].path

\* Reading an event does not change which attempts were open before it.
LEMMA OpenPrefix ==
  ASSUME NEW s \in Seq(Events), NEW e \in Events, NEW t,
         NEW m \in 1..(Len(s) + 1), NEW a \in 1..(m - 1)
  PROVE  OpenIn(Append(s, e), t, a, m) <=> OpenIn(s, t, a, m)
<1>1. \A i \in 1..(m - 1) : Append(s, e)[i] = s[i]
  BY AppendFacts
<1>2. \A i \in 1..(m - 1) : OwnIn(Append(s, e), t, i) <=> OwnIn(s, t, i)
  BY <1>1 DEF OwnIn
<1>3. /\ a \in 1..(m - 1)
      /\ \A i \in (a + 1)..(m - 1) : i \in 1..(m - 1)
  BY SMT
<1> DEFINE r == Append(s, e)
<1>4. /\ OwnIn(r, t, a) <=> OwnIn(s, t, a)
      /\ r[a] = s[a]
      /\ \A i \in (a + 1)..(m - 1) : r[i] = s[i] /\ (OwnIn(r, t, i) <=> OwnIn(s, t, i))
  BY <1>1, <1>2, <1>3
<1> HIDE DEF r
<1>5. OpenIn(r, t, a, m) <=> OpenIn(s, t, a, m)
  BY <1>4, Zenon DEF OpenIn
<1> QED
  BY <1>5 DEF r

\* It closes an attempt exactly when it is a return or an attempt of its thread.
LEMMA OpenExtends ==
  ASSUME NEW s \in Seq(Events), NEW e \in Events, NEW t, NEW a \in 1..Len(s)
  PROVE  OpenIn(Append(s, e), t, a, Len(s) + 2)
           <=> /\ OpenIn(s, t, a, Len(s) + 1)
               /\ ~IsLoad(e) /\ e.tid = t => ~Returns(e) /\ ~IsAttempt(e)
<1> DEFINE r == Append(s, e)  n == Len(s) + 1
<1>1. OpenIn(r, t, a, n) <=> OpenIn(s, t, a, n)
  BY OpenPrefix
<1>2. r[n] = e
  BY AppendFacts
<1>3. /\ n \in Nat /\ a \in Nat /\ n + 1 = Len(s) + 2
      /\ \A i : i \in (a + 1)..(n + 1 - 1) <=> i \in (a + 1)..(n - 1) \/ i = n
  OBVIOUS
<1> HIDE DEF r, n
<1>4. OpenIn(r, t, a, n + 1)
        <=> OpenIn(r, t, a, n) /\ (OwnIn(r, t, n) => ~Returns(r[n]) /\ ~IsAttempt(r[n]))
  BY <1>3 DEF OpenIn
<1> QED
  BY <1>1, <1>2, <1>3, <1>4 DEF OwnIn, r, n

\* A thread has at most one open attempt.
LEMMA OpenUnique ==
  ASSUME NEW s, NEW t, NEW n \in Nat, NEW a \in 1..(n - 1), NEW b \in 1..(n - 1),
         OpenIn(s, t, a, n), OpenIn(s, t, b, n)
  PROVE  a = b
<1>1. ~(a < b)
  BY DEF OpenIn
<1>2. ~(b < a)
  BY DEF OpenIn
<1> QED
  BY <1>1, <1>2

\* The context of a thread after it is not the writer of the event, or is but
\* neither returns nor attempts a load.
LEMMA ContextKept ==
  ASSUME NEW s \in Seq(Events), NEW e \in Events, NEW t, NEW ctx,
         ContextIn(s, t, ctx),
         IsLoad(e) \/ e.tid # t \/ (~Returns(e) /\ ~IsAttempt(e))
  PROVE  ContextIn(Append(s, e), t, ctx)
<1> DEFINE r == Append(s, e)
<1>1. /\ DOMAIN s = 1..Len(s) /\ DOMAIN r = 1..(Len(s) + 1) /\ Len(r) + 1 = Len(s) + 2
      /\ Len(s) \in Nat /\ r[Len(s) + 1] = e /\ \A i \in 1..Len(s) : r[i] = s[i]
  BY AppendFacts
<1>2. \A a \in DOMAIN s : OpenIn(r, t, a, Len(r) + 1) <=> OpenIn(s, t, a, Len(s) + 1)
  BY <1>1, OpenExtends
<1>3. ~OpenIn(r, t, Len(s) + 1, Len(r) + 1)
  BY <1>1 DEF OpenIn, OwnIn
<1> HIDE DEF r
<1>4. {a \in DOMAIN r : OpenIn(r, t, a, Len(r) + 1)}
        = {a \in DOMAIN s : OpenIn(s, t, a, Len(s) + 1)}
  BY <1>1, <1>2, <1>3
<1> QED
  BY <1>1, <1>4 DEF ContextIn, r

-----------------------------------------------------------------------------
(* The contexts the scan keeps are the open attempts.                       *)

\* ContextOfThread, of the events before and after a step.
LEMMA ContextIsContextIn ==
  /\ ContextOfThread <=> \A t \in Threads : ContextIn(seen, t, last_load_by_tid[t])
  /\ ContextOfThread' <=> \A t \in Threads : ContextIn(seen', t, last_load_by_tid'[t])
<1>1. ContextOfThread <=> \A t \in Threads : ContextIn(seen, t, last_load_by_tid[t])
  BY DEF ContextOfThread, ContextIn, OpenAttempt, OpenIn, Own, OwnIn
<1>2. ContextOfThread' <=> \A t \in Threads : ContextIn(seen', t, last_load_by_tid'[t])
  BY DEF ContextOfThread, ContextIn, OpenAttempt, OpenIn, Own, OwnIn
<1> QED
  BY <1>1, <1>2

\* One debug string: a return closes its thread's context, an attempt opens it.
LEMMA DebugStringContext ==
  ASSUME Typed, NEW l \in Lines, DebugString(l), NEW t \in Threads,
         ContextIn(seen, t, last_load_by_tid[t])
  PROVE  ContextIn(seen', t, last_load_by_tid'[t])
<1>1. /\ seen \in Seq(Events) /\ l \in Events /\ seen' = Append(seen, l)
      /\ last_load_by_tid' = [last_load_by_tid EXCEPT ![l.tid] = Context(l)]
      /\ last_load_by_tid \in [Threads -> Contexts \cup {None}]
  BY DEF DebugString, Typed, TypeOK, Events
<1>2. ~IsLoad(l) /\ l.tid \in Threads /\ l.dll \in Dlls \cup {None}
      /\ l.path \in Paths \cup {None}
  BY LineType
<1> DEFINE n == Len(seen) + 1
<1>3. /\ DOMAIN seen' = 1..n /\ Len(seen') + 1 = n + 1 /\ n \in Nat /\ n >= 1
      /\ seen'[n] = l /\ DOMAIN seen = 1..(n - 1) /\ n + 1 = Len(seen) + 2
  BY <1>1, AppendFacts
<1>4. CASE t # l.tid
  BY <1>1, <1>4, ContextKept
<1>5. CASE t = l.tid /\ Returns(l)
  <2>1. last_load_by_tid'[t] = None
    BY <1>1, <1>5 DEF Context
  <2>2. ~OpenIn(seen', t, n, n + 1)
    BY <1>3, <1>5 DEF OpenIn
  <2>3. \A a \in 1..(n - 1) : ~OpenIn(seen', t, a, n + 1)
    BY <1>1, <1>2, <1>3, <1>5, OpenExtends
  <2> QED
    BY <1>3, <2>1, <2>2, <2>3 DEF ContextIn
<1>6. CASE t = l.tid /\ ~Returns(l) /\ IsAttempt(l)
  <2>1. last_load_by_tid'[t] = [dll |-> l.dll, path |-> l.path]
    BY <1>1, <1>6 DEF Context, Entered
  <2>2. [dll |-> l.dll, path |-> l.path] \in Contexts
    BY <1>2, <1>6 DEF Contexts, IsAttempt
  <2>3. OpenIn(seen', t, n, n + 1)
    BY <1>2, <1>3, <1>6 DEF OpenIn, OwnIn
  <2> QED
    BY <1>3, <2>1, <2>2, <2>3, LinesAssumption DEF ContextIn
<1>7. CASE t = l.tid /\ ~Returns(l) /\ ~IsAttempt(l)
  <2>1. last_load_by_tid'[t] = last_load_by_tid[t]
    BY <1>1, <1>7 DEF Context, Entered
  <2> QED
    BY <1>1, <1>7, <2>1, ContextKept
<1> QED
  BY <1>4, <1>5, <1>6, <1>7

\* Every step keeps the contexts right.
LEMMA NextContext == Typed /\ ContextOfThread /\ [Next]_vars => ContextOfThread'
<1> SUFFICES ASSUME Typed, [Next]_vars, NEW t \in Threads,
                    ContextIn(seen, t, last_load_by_tid[t])
             PROVE  ContextIn(seen', t, last_load_by_tid'[t])
  BY ContextIsContextIn
<1>1. ASSUME NEW d \in Dlls, RuntimeLoaded(d)
      PROVE  ContextIn(seen', t, last_load_by_tid'[t])
  <2>1. /\ seen \in Seq(Events) /\ seen' = Append(seen, Loaded(d))
        /\ last_load_by_tid' = last_load_by_tid
    BY <1>1 DEF RuntimeLoaded, Typed, TypeOK
  <2> QED
    BY <2>1, LoadType, ContextKept
<1>2. ASSUME NEW l \in Lines, DebugString(l)
      PROVE  ContextIn(seen', t, last_load_by_tid'[t])
  BY <1>2, DebugStringContext
<1>3. CASE Select \/ UNCHANGED vars
  BY <1>3 DEF Select, vars, scanVars
<1> QED
  BY <1>1, <1>2, <1>3 DEF Next, Done

\* They are right before the first event.
LEMMA InitContext == Init => ContextOfThread
<1> SUFFICES ASSUME Init, NEW t \in Threads
             PROVE  ContextIn(seen, t, last_load_by_tid[t])
  BY ContextIsContextIn
<1>1. seen = <<>> /\ DOMAIN seen = {} /\ last_load_by_tid[t] = None
  BY DEF Init
<1> QED
  BY <1>1 DEF ContextIn

\* A thread's context is its own open load attempt, for any number of threads
\* and any interleaving of their lines.
THEOREM ContextIsOpenAttempt == Spec => []ContextOfThread
BY InitContext, NextContext, TypedInvariant, PTL DEF Spec

-----------------------------------------------------------------------------
(* What the scan knows of loads that succeeded, and what is reported.       *)

\* Every load the events show is on record, no earlier than it happened.
Successes ==
  \A n \in DOMAIN seen, d \in Dlls :
    Loads(d, n) => n <= latest_success_idx_by_basename[d]

\* Successes, of the events before and after a step.
LEMMA SuccessesIn ==
  /\ Successes <=> \A n \in DOMAIN seen, d \in Dlls :
                     LoadsIn(seen, d, n) => n <= latest_success_idx_by_basename[d]
  /\ Successes' <=> \A n \in DOMAIN seen', d \in Dlls :
                      LoadsIn(seen', d, n) => n <= latest_success_idx_by_basename'[d]
BY DEF Successes, Loads, LoadsIn, OpenAttempt, OpenIn, Own, OwnIn

\* The reported candidate stays unresolved: the scan has ended.
Settled == best # None => phase = "done" /\ ~Resolved(best)

\* Both hold before the first event.
LEMMA InitReported == Init => Successes /\ Settled
BY DEF Init, Successes, Settled

\* What the line just read shows to have loaded is what the scan records.
LEMMA LoadsRecorded ==
  ASSUME Typed, ContextOfThread, NEW l \in Lines, DebugString(l), NEW d \in Dlls,
         LoadsIn(seen', d, Len(seen) + 1)
  PROVE  SuccessDll(l) = d
<1>1. /\ seen \in Seq(Events) /\ l \in Events /\ seen' = Append(seen, l)
      /\ Len(seen) \in Nat /\ seen'[Len(seen) + 1] = l
      /\ DOMAIN seen = 1..Len(seen)
      /\ \A i \in 1..Len(seen) : seen'[i] = seen[i]
      /\ last_load_by_tid[l.tid] \in Contexts \cup {None}
  BY LineType, AppendFacts DEF DebugString, Typed, TypeOK, Events
<1>2. ~IsLoad(l) /\ l.tid \in Threads
  BY LineType
<1>3. d # None
  BY LinesAssumption
<1>4. Returns(l) /\ l.status = 0
  BY <1>1, <1>2 DEF LoadsIn
<1>5. CASE l.dll = d
  BY <1>3, <1>4, <1>5 DEF SuccessDll, Or
<1>6. CASE l.dll = None
  <2>1. PICK a \in 1..Len(seen) : OpenIn(seen', l.tid, a, Len(seen) + 1) /\ seen'[a].dll = d
    BY <1>1, <1>2, <1>3, <1>6 DEF LoadsIn
  <2>2. OpenIn(seen, l.tid, a, Len(seen) + 1) /\ seen[a].dll = d
    BY <1>1, <2>1, OpenPrefix
  <2>3. ContextIn(seen, l.tid, last_load_by_tid[l.tid])
    BY <1>2, ContextIsContextIn
  <2>4. last_load_by_tid[l.tid] # None
    BY <1>1, <2>2, <2>3 DEF ContextIn
  <2>5. PICK b \in 1..Len(seen) : /\ OpenIn(seen, l.tid, b, Len(seen) + 1)
                                 /\ last_load_by_tid[l.tid].dll = seen[b].dll
    BY <1>1, <2>3, <2>4 DEF ContextIn
  <2>6. a = b
    BY <1>1, <2>2, <2>5, OpenUnique
  <2>7. Entered(l) = last_load_by_tid[l.tid]
    BY <1>6 DEF Entered, IsAttempt
  <2> QED
    BY <1>4, <1>6, <2>2, <2>4, <2>5, <2>6, <2>7 DEF SuccessDll, Or, ContextDll
<1> QED
  BY <1>1, <1>2, <1>4, <1>5, <1>6 DEF LoadsIn

\* An event read earlier shows the same loads after another is read.
LEMMA LoadsKept ==
  ASSUME NEW s \in Seq(Events), NEW e \in Events, NEW n \in 1..Len(s), NEW d
  PROVE  LoadsIn(Append(s, e), d, n) <=> LoadsIn(s, d, n)
<1>1. \A i \in 1..Len(s) : Append(s, e)[i] = s[i]
  BY AppendFacts
<1>2. \A t, a : a \in 1..(n - 1) => (OpenIn(Append(s, e), t, a, n) <=> OpenIn(s, t, a, n))
  BY OpenPrefix
<1> HIDE DEF OpenIn
<1> QED
  BY <1>1, <1>2 DEF LoadsIn

\* Every step keeps both.
LEMMA NextReported ==
  Typed /\ ContextOfThread /\ Successes /\ Settled /\ [Next]_vars
    => Successes' /\ Settled'
<1> SUFFICES ASSUME Typed, ContextOfThread, Successes, Settled, [Next]_vars
             PROVE  Successes' /\ Settled'
  OBVIOUS
<1>0. /\ seen \in Seq(Events) /\ Len(seen) \in Nat /\ DOMAIN seen = 1..Len(seen)
      /\ latest_success_idx_by_basename \in [Dlls -> 0..Len(seen)]
  BY DEF Typed, TypeOK
<1>1. /\ seen \in Seq(Events) /\ Len(seen) \in Nat /\ DOMAIN seen = 1..Len(seen)
      /\ latest_success_idx_by_basename \in [Dlls -> 0..Len(seen)]
      /\ \A n \in 1..Len(seen), d \in Dlls :
           LoadsIn(seen, d, n) => n <= latest_success_idx_by_basename[d]
  BY <1>0, SuccessesIn
<1>2. ASSUME NEW e \in Events, seen' = Append(seen, e), NEW x \in Dlls \cup {None},
             latest_success_idx_by_basename' = Recorded(x, Len(seen) + 1),
             \A d \in Dlls : LoadsIn(seen', d, Len(seen) + 1) => x = d
      PROVE  Successes'
  <2> SUFFICES ASSUME NEW n \in 1..(Len(seen) + 1), NEW d \in Dlls, LoadsIn(seen', d, n)
               PROVE  n <= latest_success_idx_by_basename'[d]
    BY <1>1, <1>2, AppendFacts, SuccessesIn
  <2>1. CASE n = Len(seen) + 1
    BY <1>1, <1>2, <2>1, LinesAssumption DEF Recorded
  <2>2. CASE n \in 1..Len(seen)
    <3>1. n <= latest_success_idx_by_basename[d]
      BY <1>1, <1>2, <2>2, LoadsKept
    <3> QED
      BY <1>1, <1>2, <2>2, <3>1 DEF Recorded
  <2> QED
    BY <1>1, <2>1, <2>2
<1>3. ASSUME NEW d \in Dlls, RuntimeLoaded(d) PROVE Successes' /\ Settled'
  <2>1. /\ seen' = Append(seen, Loaded(d))
        /\ latest_success_idx_by_basename' = Recorded(d, Len(seen) + 1)
        /\ best' = best /\ best = None
    BY <1>3 DEF RuntimeLoaded, Next_idx, Settled
  <2>2. \A y \in Dlls : LoadsIn(seen', y, Len(seen) + 1) => d = y
    BY <1>1, <2>1, LoadType, AppendFacts DEF LoadsIn
  <2> QED
    BY <1>2, <2>1, <2>2, LoadType DEF Settled
<1>4. ASSUME NEW l \in Lines, DebugString(l) PROVE Successes' /\ Settled'
  <2>1. /\ seen' = Append(seen, l) /\ l \in Events
        /\ latest_success_idx_by_basename' = Recorded(SuccessDll(l), Len(seen) + 1)
        /\ best' = best /\ best = None
    BY <1>4 DEF DebugString, Next_idx, Settled, Events
  <2>2. SuccessDll(l) \in Dlls \cup {None}
    BY ContextType DEF Typed, TypeOK
  <2>3. \A y \in Dlls : LoadsIn(seen', y, Len(seen) + 1) => SuccessDll(l) = y
    BY <1>4, LoadsRecorded
  <2> QED
    BY <1>2, <2>1, <2>2, <2>3 DEF Settled
<1>5. CASE Select
  <2>1. Successes'
    BY <1>1, <1>5, SuccessesIn DEF Select, scanVars
  <2>2. best' # None => phase' = "done" /\ ~Resolved(best')
    BY <1>5 DEF Select, Unresolved
  <2>3. Settled'
    BY <1>5, <2>2 DEF Select, scanVars, Settled, Resolved
  <2> QED
    BY <2>1, <2>3
<1>6. CASE UNCHANGED vars
  <2>1. Successes'
    BY <1>1, <1>6, SuccessesIn DEF vars, scanVars
  <2> QED
    BY <1>6, <2>1 DEF vars, scanVars, Settled, Resolved
<1> QED
  BY <1>3, <1>4, <1>5, <1>6 DEF Next, Done

\* The DLL that Phase C reports did not load after its failure, nor at all if
\* the failure was the probe of one path: for every run, however its threads
\* interleave, and in particular when the success was itself only visible
\* through a thread's context.
THEOREM ReportedDllNeverLoaded == Spec => []ReportedNeverLoaded
<1>1. Typed /\ Successes /\ Settled => ReportedNeverLoaded
  <2> SUFFICES ASSUME Typed, Successes, Settled, best # None, NEW n \in DOMAIN seen,
                      n > best.event_idx \/ best.full_path_probe
               PROVE  ~Loads(best.dll, n)
    BY DEF ReportedNeverLoaded
  <2>1. best.dll \in Dlls /\ best.event_idx \in Nat /\ n \in Nat \ {0}
    BY DEF Typed, TypeOK, Candidates
  <2>2. ~(n <= latest_success_idx_by_basename[best.dll])
    BY <2>1 DEF Settled, Resolved, Typed, TypeOK
  <2> QED
    BY <2>1, <2>2 DEF Successes
<1>2. Spec => [](Successes /\ Settled)
  BY InitReported, NextReported, TypedInvariant, ContextIsOpenAttempt, PTL DEF Spec
<1> QED
  BY <1>1, <1>2, TypedInvariant, PTL

-----------------------------------------------------------------------------
(* Where the status of a candidate comes from.                              *)

\* ReturnAt and the body of StatusFromOneLine, of any sequence of events.
ReturnIn(s, t, j) == ~IsLoad(s[j]) /\ s[j].tid = t /\ Returns(s[j])
NoReturnIn(s, t, i, n) == \A j \in (i + 1)..n : ~ReturnIn(s, t, j)
Explained(s, c) ==
  IF c.status = s[c.event_idx].status
    THEN c.reason = Reason(s[c.event_idx], s[c.event_idx].status)
    ELSE /\ s[c.event_idx].status = None
         /\ \E r \in (c.event_idx + 1)..Len(s) :
              /\ ReturnIn(s, c.tid, r) /\ s[r].status = c.status
              /\ c.status \in LoaderCodes
              /\ c.reason = Reason(s[r], c.status)
              /\ NoReturnIn(s, c.tid, c.event_idx, r - 1)

\* Each candidate stands on an event that was read; the one a thread may still
\* complete has seen no return of its thread since.
Origins ==
  /\ \A i \in DOMAIN candidates :
       candidates[i].event_idx \in DOMAIN seen /\ Explained(seen, candidates[i])
  /\ \A t \in Threads : last_failure_candidate_by_tid[t] # None =>
       NoReturnIn(seen, t, candidates[last_failure_candidate_by_tid[t]].event_idx, Len(seen))

\* One more event takes nothing back.
LEMMA ExplainedKept ==
  ASSUME NEW s \in Seq(Events), NEW e \in Events, NEW c,
         c.event_idx \in DOMAIN s, Explained(s, c)
  PROVE  Explained(Append(s, e), c) /\ c.event_idx \in DOMAIN Append(s, e)
<1> DEFINE a == Append(s, e)
<1>1. /\ Len(a) = Len(s) + 1 /\ Len(s) \in Nat /\ DOMAIN s = 1..Len(s)
      /\ DOMAIN a = 1..(Len(s) + 1) /\ \A j \in 1..Len(s) : a[j] = s[j]
  BY AppendFacts
<1> HIDE DEF a
<1> DEFINE i == c.event_idx
<1>2. i \in 1..Len(s) /\ a[i] = s[i]
  BY <1>1
<1>3. CASE c.status = s[i].status
  BY <1>1, <1>2, <1>3 DEF Explained, a
<1>4. CASE c.status # s[i].status
  <2>1. PICK r \in (i + 1)..Len(s) :
          /\ ReturnIn(s, c.tid, r) /\ s[r].status = c.status
          /\ c.status \in LoaderCodes /\ c.reason = Reason(s[r], c.status)
          /\ NoReturnIn(s, c.tid, i, r - 1)
    BY <1>4 DEF Explained
  <2>2. r \in (i + 1)..Len(a) /\ a[r] = s[r] /\ \A j \in (i + 1)..(r - 1) : a[j] = s[j]
    BY <1>1, <1>2, <2>1
  <2>3. ReturnIn(a, c.tid, r) /\ NoReturnIn(a, c.tid, i, r - 1)
    BY <2>1, <2>2 DEF ReturnIn, NoReturnIn
  <2>4. s[i].status = None
    BY <1>4 DEF Explained
  <2> QED
    BY <1>1, <1>2, <1>4, <2>1, <2>2, <2>3, <2>4 DEF Explained, a
<1> QED
  BY <1>3, <1>4

\* A candidate that a return completes gets its status from that return, which
\* is the first one of its thread.
LEMMA EnrichedExplained ==
  ASSUME Typed, Origins, NEW l \in Lines, NEW i \in DOMAIN candidates
  PROVE  /\ Enriched(l)[i].event_idx = candidates[i].event_idx
         /\ Enriched(l)[i].tid = candidates[i].tid
         /\ Explained(Append(seen, l), Enriched(l)[i])
<1> DEFINE c == candidates[i]
           k == last_failure_candidate_by_tid[l.tid]
           a == Append(seen, l)
           n == Len(seen) + 1
<1>1. l \in Events /\ seen \in Seq(Events) /\ candidates \in Seq(Candidates) /\ c \in Candidates
  BY DEF Typed, TypeOK, Events
<1>2. /\ c.event_idx \in 1..Len(seen) /\ Len(seen) \in Nat
      /\ Len(a) = n /\ a[n] = l /\ \A j \in 1..Len(seen) : a[j] = seen[j]
  BY <1>1, AppendFacts DEF Origins
<1>3. Explained(a, c)
  BY <1>1, ExplainedKept DEF Origins
<1>4. CASE ~Enriches(l, k) \/ i # k
  <2>1. Enriched(l)[i] = c
    BY <1>1, <1>4 DEF Enriched
  <2> QED
    BY <1>3, <2>1
<1>5. CASE Enriches(l, k) /\ i = k
  <2> DEFINE d == [c EXCEPT !.status = l.status, !.reason = Reason(l, l.status)]
  <2>1. Enriched(l)[i] = d
    BY <1>1, <1>5 DEF Enriched, Candidates
  <2>2. /\ d.event_idx = c.event_idx /\ d.tid = c.tid
        /\ d.status = l.status /\ d.reason = Reason(l, l.status)
    BY <1>1 DEF Candidates
  <2>3. c.tid = l.tid /\ NoReturnIn(seen, l.tid, c.event_idx, Len(seen))
    BY <1>5, LineType DEF Enriches, Typed, OwnFailure, Origins
  <2>4. /\ Returns(l) /\ l.status \in LoaderCodes /\ c.status = None
        /\ l.status # None /\ ~IsLoad(l)
    BY <1>5, LineType, LinesAssumption DEF Enriches
  <2>5. seen[c.event_idx].status = None
    BY <2>4, LinesAssumption DEF Origins, Explained
  <2>6. ReturnIn(a, l.tid, n) /\ NoReturnIn(a, l.tid, c.event_idx, n - 1)
    <3>1. ReturnIn(a, l.tid, n)
      BY <1>2, <2>4 DEF ReturnIn
    <3>2. \A j \in (c.event_idx + 1)..(n - 1) : a[j] = seen[j] /\ j \in (c.event_idx + 1)..Len(seen)
      BY <1>2
    <3>3. NoReturnIn(a, l.tid, c.event_idx, n - 1)
      BY <2>3, <3>2 DEF NoReturnIn, ReturnIn
    <3> QED
      BY <3>1, <3>3
  <2>7. n \in (c.event_idx + 1)..Len(a) /\ a[c.event_idx] = seen[c.event_idx]
    BY <1>2
  <2> HIDE DEF a, d, n, c
  <2>8. Explained(a, d)
    <3>1. a[d.event_idx].status = None /\ d.status # None
      BY <2>2, <2>4, <2>5, <2>7
    <3>2. /\ ReturnIn(a, d.tid, n) /\ a[n].status = d.status /\ d.status \in LoaderCodes
          /\ d.reason = Reason(a[n], d.status) /\ NoReturnIn(a, d.tid, d.event_idx, n - 1)
          /\ n \in (d.event_idx + 1)..Len(a)
      BY <1>2, <2>2, <2>3, <2>4, <2>6, <2>7
    <3> QED
      BY <3>1, <3>2 DEF Explained
  <2> QED
    BY <2>1, <2>2, <2>8 DEF a, c
<1> QED
  BY <1>4, <1>5

\* A line that returns from a load leaves its thread nothing to complete but
\* the failure it tells of itself.
LEMMA DebugStringOrigins ==
  ASSUME Typed, Origins, NEW l \in Lines, DebugString(l)
  PROVE  Origins'
<1> DEFINE n == Len(seen) + 1
           a == Append(seen, l)
<1>1. /\ seen' = a /\ l \in Events /\ Len(seen) \in Nat
      /\ Len(a) = n /\ DOMAIN a = 1..n
      /\ a[n] = l /\ \A j \in 1..Len(seen) : a[j] = seen[j]
  BY AppendFacts DEF DebugString, Typed, TypeOK, Events
<1>2. /\ Enriched(l) \in Seq(Candidates) /\ Len(Enriched(l)) = Len(candidates)
      /\ DOMAIN candidates = 1..Len(candidates) /\ Len(candidates) \in Nat
  BY EnrichedType DEF Typed, TypeOK
<1>3. \A i \in DOMAIN candidates :
        /\ Enriched(l)[i].event_idx = candidates[i].event_idx
        /\ candidates[i].event_idx \in 1..Len(seen)
        /\ Explained(a, Enriched(l)[i])
  BY <1>1, EnrichedExplained DEF Origins, Typed, TypeOK
<1> DEFINE new == Candidate(l, n)
<1>4. /\ \A i \in DOMAIN candidates : candidates'[i] = Enriched(l)[i]
      /\ ~IsFailure(l) => DOMAIN candidates' = DOMAIN candidates
      /\ IsFailure(l) => /\ DOMAIN candidates' = 1..(Len(candidates) + 1)
                         /\ candidates'[Len(candidates) + 1] = new
  <2>1. CASE ~IsFailure(l)
    BY <1>2, <2>1 DEF DebugString, Detected
  <2>2. CASE IsFailure(l)
    <3>1. new \in Candidates
      BY <1>1, <2>2, CandidateType DEF Typed, TypeOK
    <3>2. candidates' = Append(Enriched(l), new)
      BY <2>2 DEF DebugString, Detected, Next_idx
    <3> QED
      BY <1>2, <2>2, <3>1, <3>2, AppendFacts
  <2> QED
    BY <2>1, <2>2
<1>5. new.event_idx = n /\ Explained(a, new)
  <2>1. new.event_idx = n /\ new.status = l.status /\ new.reason = Reason(l, l.status)
    BY DEF Candidate
  <2> QED
    BY <1>1, <2>1 DEF Explained
<1> HIDE DEF new, a
<1>6. \A i \in DOMAIN candidates' :
        candidates'[i].event_idx \in DOMAIN seen' /\ Explained(seen', candidates'[i])
  BY <1>1, <1>2, <1>3, <1>4, <1>5
<1>7. ASSUME NEW t \in Threads, last_failure_candidate_by_tid'[t] # None
      PROVE  NoReturnIn(a, t, candidates'[last_failure_candidate_by_tid'[t]].event_idx, n)
  <2> DEFINE k == last_failure_candidate_by_tid'[t]
  <2>1. \/ t # l.tid /\ k = last_failure_candidate_by_tid[t]
        \/ t = l.tid /\ IsFailure(l) /\ k = Len(candidates) + 1
        \/ t = l.tid /\ ~Returns(l) /\ k = last_failure_candidate_by_tid[t]
    BY <1>2, <1>7 DEF DebugString, LastFailure, Typed, TypeOK
  <2>2. CASE IsFailure(l) /\ k = Len(candidates) + 1
    BY <1>1, <1>4, <1>5, <2>2 DEF NoReturnIn
  <2>3. CASE k = last_failure_candidate_by_tid[t] /\ ~(t = l.tid /\ Returns(l))
    <3>1. k \in DOMAIN candidates /\ k # None
      BY <1>7, <2>3 DEF Typed, TypeOK
    <3>2. candidates'[k].event_idx = candidates[k].event_idx /\ candidates[k].event_idx \in 1..Len(seen)
      BY <1>3, <1>4, <3>1
    <3>3. NoReturnIn(seen, t, candidates[k].event_idx, Len(seen))
      BY <2>3, <3>1 DEF Origins
    <3>4. ~ReturnIn(a, t, n)
      BY <1>1, <2>3 DEF ReturnIn
    <3>5. ASSUME NEW j \in (candidates[k].event_idx + 1)..n
          PROVE  ~ReturnIn(a, t, j)
      <4>1. CASE j = n
        BY <3>4, <4>1
      <4>2. CASE j # n
        <5>1. j \in (candidates[k].event_idx + 1)..Len(seen) /\ a[j] = seen[j]
          BY <1>1, <3>2, <4>2
        <5> QED
          BY <3>3, <5>1 DEF NoReturnIn, ReturnIn
      <4> QED
        BY <4>1, <4>2
    <3> QED
      BY <3>2, <3>5 DEF NoReturnIn
  <2> QED
    BY <2>1, <2>2, <2>3
<1> QED
  BY <1>1, <1>6, <1>7 DEF Origins

LEMMA NextOrigins == Typed /\ Origins /\ [Next]_vars => Origins'
<1> SUFFICES ASSUME Typed, Origins, [Next]_vars PROVE Origins'
  OBVIOUS
<1>1. ASSUME NEW d \in Dlls, RuntimeLoaded(d) PROVE Origins'
  <2> DEFINE e == Loaded(d)
  <2>1. /\ seen' = Append(seen, e) /\ e \in Events /\ IsLoad(e) /\ seen \in Seq(Events)
        /\ UNCHANGED <<candidates, last_failure_candidate_by_tid>>
    BY <1>1, LoadType DEF RuntimeLoaded, Typed, TypeOK
  <2> HIDE DEF e
  <2>2. /\ Len(seen') = Len(seen) + 1 /\ Len(seen) \in Nat /\ seen'[Len(seen) + 1] = e
        /\ \A j \in 1..Len(seen) : seen'[j] = seen[j]
    BY <2>1, AppendFacts
  <2>3. \A i \in DOMAIN candidates :
          candidates[i].event_idx \in DOMAIN seen' /\ Explained(seen', candidates[i])
    BY <2>1, ExplainedKept DEF Origins
  <2>4. ASSUME NEW t \in Threads, last_failure_candidate_by_tid[t] # None,
               NEW j \in (candidates[last_failure_candidate_by_tid[t]].event_idx + 1)..Len(seen')
        PROVE  ~ReturnIn(seen', t, j)
    <3>1. last_failure_candidate_by_tid[t] \in DOMAIN candidates
      BY <2>4 DEF Typed, TypeOK
    <3>2. candidates[last_failure_candidate_by_tid[t]].event_idx \in 1..Len(seen)
      BY <3>1 DEF Origins, Typed, TypeOK
    <3>3. CASE j = Len(seen) + 1
      BY <2>1, <2>2, <3>3 DEF ReturnIn
    <3>4. CASE j # Len(seen) + 1
      <4>1. /\ j \in (candidates[last_failure_candidate_by_tid[t]].event_idx + 1)..Len(seen)
            /\ seen'[j] = seen[j]
        BY <2>2, <3>2, <3>4
      <4> QED
        BY <2>4, <4>1 DEF Origins, NoReturnIn, ReturnIn
    <3> QED
      BY <3>3, <3>4
  <2> QED
    BY <2>1, <2>3, <2>4 DEF Origins, NoReturnIn
<1>2. ASSUME NEW l \in Lines, DebugString(l) PROVE Origins'
  BY <1>2, DebugStringOrigins
<1>3. CASE Select
  BY <1>3 DEF Select, scanVars, Origins
<1>4. CASE UNCHANGED vars
  BY <1>4 DEF vars, scanVars, Origins
<1> QED
  BY <1>1, <1>2, <1>3, <1>4 DEF Next, Done

\* The status and the reason of every candidate come from one line: the
\* failure's own, or the first return of its thread after it; for any number
\* of threads and lines.
THEOREM StatusIsOfOneLine == Spec => []StatusFromOneLine
<1>1. Typed /\ Origins => StatusFromOneLine
  <2> SUFFICES ASSUME Typed, Origins, NEW i \in DOMAIN candidates
               PROVE  LET c == candidates[i]
                          l == seen[c.event_idx]
                      IN  IF c.status = l.status THEN c.reason = Reason(l, l.status)
                          ELSE /\ l.status = None
                               /\ \E r \in (c.event_idx + 1)..Len(seen) :
                                    /\ ReturnAt(c.tid, r) /\ seen[r].status = c.status
                                    /\ c.status \in LoaderCodes
                                    /\ c.reason = Reason(seen[r], c.status)
                                    /\ \A j \in (c.event_idx + 1)..(r - 1) : ~ReturnAt(c.tid, j)
    BY DEF StatusFromOneLine
  <2>1. \A t, j : ReturnAt(t, j) <=> ReturnIn(seen, t, j)
    BY DEF ReturnAt, Own, ReturnIn
  <2>2. Explained(seen, candidates[i])
    BY DEF Origins
  <2> QED
    BY <2>1, <2>2 DEF Explained, NoReturnIn
<1>2. Init => Origins
  BY DEF Init, Origins
<1> QED
  BY <1>1, <1>2, NextOrigins, TypedInvariant, PTL DEF Spec

-----------------------------------------------------------------------------
(* That no failure is lost.                                                 *)

\* A load on record is one that the events show.
Witnessed ==
  \A d \in Dlls : latest_success_idx_by_basename[d] > 0 =>
    LoadsIn(seen, d, latest_success_idx_by_basename[d])

\* FailsOn, of any sequence of events.
FailsIn(s, i, d) ==
  /\ ~IsLoad(s[i]) /\ ~s[i].probe /\ s[i].pattern # None
  /\ \/ Or(s[i].named, s[i].dll) = d /\ d \notin Noise
     \/ /\ Or(s[i].named, s[i].dll) = None
        /\ \E a \in 1..(i - 1) : OpenIn(s, s[i].tid, a, i) /\ ~Returns(s[i]) /\ s[a].dll = d

\* What a candidate keeps of its line, and of a line that names its DLL.
FromLine(c, l) ==
  /\ ~IsLoad(l) /\ ~l.probe
  /\ c.kind = Kind(l.pattern) /\ c.score = Score(l.pattern) /\ l.pattern # None
  /\ c.full_path_probe => c.kind # 2
  /\ l.path # None => /\ c.app_local_hint = l.path.app_local
                      /\ l.path.framework => c.framework_or_os_hint
NamedBy(c, l) ==
  /\ ~c.thread_correlated
  /\ l.path # None => (c.framework_or_os_hint <=> l.path.framework)

\* Each candidate is kept as its line has it, and each failing line has one.
Detections ==
  /\ \A k \in DOMAIN candidates :
       /\ candidates[k].event_idx \in DOMAIN seen
       /\ FromLine(candidates[k], seen[candidates[k].event_idx])
  /\ \A i \in DOMAIN seen, d \in Dlls : FailsIn(seen, i, d) =>
       \E k \in DOMAIN candidates :
         /\ candidates[k].event_idx = i /\ candidates[k].dll = d
         /\ d = Or(seen[i].named, seen[i].dll) => NamedBy(candidates[k], seen[i])

\* The reported candidate is the first of the unresolved ones.
FirstUnresolved ==
  phase = "done" =>
    IF best = None THEN Unresolved = {}
    ELSE /\ best \in Unresolved
         /\ \A o \in Unresolved \ {best} : KeyBefore(SortKey(best), SortKey(o))

\* What the scan records of a line is what the line shows to have loaded.
LEMMA RecordedLoads ==
  ASSUME Typed, ContextOfThread, NEW l \in Lines, DebugString(l), SuccessDll(l) # None
  PROVE  LoadsIn(seen', SuccessDll(l), Len(seen) + 1)
<1> DEFINE d == SuccessDll(l)
<1>1. /\ seen \in Seq(Events) /\ l \in Events /\ seen' = Append(seen, l)
      /\ Len(seen) \in Nat /\ seen'[Len(seen) + 1] = l
      /\ DOMAIN seen = 1..Len(seen)
      /\ \A i \in 1..Len(seen) : seen'[i] = seen[i]
      /\ last_load_by_tid[l.tid] \in Contexts \cup {None}
  BY LineType, AppendFacts DEF DebugString, Typed, TypeOK, Events
<1>2. ~IsLoad(l) /\ l.tid \in Threads
  BY LineType
<1>3. Returns(l) /\ l.status = 0 /\ d = Or(l.dll, ContextDll(Entered(l)))
  BY DEF SuccessDll
<1>4. CASE l.dll # None
  BY <1>1, <1>2, <1>3, <1>4 DEF LoadsIn, Or
<1>5. CASE l.dll = None
  <2>1. d = ContextDll(last_load_by_tid[l.tid]) /\ last_load_by_tid[l.tid] # None
    BY <1>3, <1>5 DEF Or, Entered, IsAttempt, ContextDll
  <2>2. ContextIn(seen, l.tid, last_load_by_tid[l.tid])
    BY <1>2, ContextIsContextIn
  <2>3. PICK b \in 1..Len(seen) : /\ OpenIn(seen, l.tid, b, Len(seen) + 1)
                                 /\ last_load_by_tid[l.tid].dll = seen[b].dll
    BY <1>1, <2>1, <2>2 DEF ContextIn
  <2>4. OpenIn(seen', l.tid, b, Len(seen) + 1) /\ seen'[b].dll = d
    BY <1>1, <2>1, <2>3, OpenPrefix DEF ContextDll
  <2> QED
    BY <1>1, <1>2, <1>3, <1>5, <2>4 DEF LoadsIn
<1> QED
  BY <1>4, <1>5

LEMMA NextWitnessed == Typed /\ ContextOfThread /\ Witnessed /\ [Next]_vars => Witnessed'
<1> SUFFICES ASSUME Typed, ContextOfThread, Witnessed, [Next]_vars PROVE Witnessed'
  OBVIOUS
<1>1. /\ seen \in Seq(Events) /\ Len(seen) \in Nat
      /\ latest_success_idx_by_basename \in [Dlls -> 0..Len(seen)]
  BY DEF Typed, TypeOK
<1>2. ASSUME NEW e \in Events, seen' = Append(seen, e), NEW x \in Dlls \cup {None},
             latest_success_idx_by_basename' = Recorded(x, Len(seen) + 1),
             x # None => LoadsIn(seen', x, Len(seen) + 1)
      PROVE  Witnessed'
  <2> SUFFICES ASSUME NEW d \in Dlls, latest_success_idx_by_basename'[d] > 0
               PROVE  LoadsIn(seen', d, latest_success_idx_by_basename'[d])
    BY DEF Witnessed
  <2>1. CASE x = d
    BY <1>1, <1>2, <2>1, LinesAssumption DEF Recorded
  <2>2. CASE x # d
    <3> DEFINE n == latest_success_idx_by_basename[d]
    <3>1. latest_success_idx_by_basename'[d] = n
      BY <1>1, <1>2, <2>2 DEF Recorded
    <3>2. n \in 1..Len(seen) /\ LoadsIn(seen, d, n)
      BY <1>1, <3>1 DEF Witnessed
    <3> HIDE DEF n
    <3> QED
      BY <1>1, <1>2, <3>1, <3>2, LoadsKept
  <2> QED
    BY <2>1, <2>2
<1>3. ASSUME NEW d \in Dlls, RuntimeLoaded(d) PROVE Witnessed'
  <2>1. /\ seen' = Append(seen, Loaded(d))
        /\ latest_success_idx_by_basename' = Recorded(d, Len(seen) + 1)
    BY <1>3 DEF RuntimeLoaded, Next_idx
  <2>2. LoadsIn(seen', d, Len(seen) + 1)
    BY <1>1, <2>1, LoadType, AppendFacts DEF LoadsIn
  <2> QED
    BY <1>2, <2>1, <2>2, LoadType
<1>4. ASSUME NEW l \in Lines, DebugString(l) PROVE Witnessed'
  <2>1. /\ seen' = Append(seen, l) /\ l \in Events
        /\ latest_success_idx_by_basename' = Recorded(SuccessDll(l), Len(seen) + 1)
    BY <1>4 DEF DebugString, Next_idx, Events
  <2>2. SuccessDll(l) \in Dlls \cup {None}
    BY ContextType DEF Typed, TypeOK
  <2> QED
    BY <1>2, <1>4, <2>1, <2>2, RecordedLoads
<1>5. CASE Select \/ UNCHANGED vars
  BY <1>5 DEF Select, vars, scanVars, Witnessed
<1> QED
  BY <1>3, <1>4, <1>5 DEF Next, Done

\* A failing line makes a candidate of the DLL it fails on.
LEMMA FailureDetected ==
  ASSUME Typed, ContextOfThread, NEW l \in Lines, DebugString(l), NEW d \in Dlls,
         FailsIn(seen', Len(seen) + 1, d)
  PROVE  /\ IsFailure(l) /\ FailedDll(l) = d
         /\ d = Or(l.named, l.dll) => d \notin Noise
<1>1. /\ seen \in Seq(Events) /\ l \in Events /\ seen' = Append(seen, l)
      /\ Len(seen) \in Nat /\ seen'[Len(seen) + 1] = l
      /\ DOMAIN seen = 1..Len(seen)
      /\ \A i \in 1..Len(seen) : seen'[i] = seen[i]
      /\ last_load_by_tid[l.tid] \in Contexts \cup {None}
  BY LineType, AppendFacts DEF DebugString, Typed, TypeOK, Events
<1>2. d # None /\ None \notin Noise /\ ~IsLoad(l) /\ l.tid \in Threads
  BY LineType, LinesAssumption
<1>3. ~l.probe /\ l.pattern # None
  BY <1>1 DEF FailsIn
<1>4. CASE Or(l.named, l.dll) = d /\ d \notin Noise
  <2>1. FailedDll(l) = d
    BY <1>2, <1>4 DEF FailedDll, Or
  <2> QED
    BY <1>2, <1>3, <1>4, <2>1 DEF IsFailure
<1>5. CASE Or(l.named, l.dll) = None
  <2>1. l.named = None /\ l.dll = None
    BY <1>5 DEF Or
  <2>2. PICK a \in 1..Len(seen) : /\ OpenIn(seen', l.tid, a, Len(seen) + 1)
                                 /\ ~Returns(l) /\ seen'[a].dll = d
    BY <1>1, <1>2, <1>5 DEF FailsIn
  <2>3. OpenIn(seen, l.tid, a, Len(seen) + 1) /\ seen[a].dll = d
    BY <1>1, <2>2, OpenPrefix
  <2>4. ContextIn(seen, l.tid, last_load_by_tid[l.tid])
    BY <1>2, ContextIsContextIn
  <2>5. last_load_by_tid[l.tid] # None
    BY <1>1, <2>3, <2>4 DEF ContextIn
  <2>6. PICK b \in 1..Len(seen) : /\ OpenIn(seen, l.tid, b, Len(seen) + 1)
                                 /\ last_load_by_tid[l.tid].dll = seen[b].dll
    BY <1>1, <2>4, <2>5 DEF ContextIn
  <2>7. a = b
    BY <1>1, <2>3, <2>6, OpenUnique
  <2>8. Context(l) = last_load_by_tid[l.tid]
    BY <2>1, <2>2 DEF Context, Entered, IsAttempt
  <2>9. ContextDll(Context(l)) = d
    BY <2>3, <2>5, <2>6, <2>7, <2>8 DEF ContextDll
  <2>10. FailedDll(l) = d
    BY <1>2, <2>1, <2>9 DEF FailedDll, Or, Best
  <2> QED
    BY <1>2, <1>3, <1>5, <2>10 DEF IsFailure
<1> QED
  BY <1>1, <1>4, <1>5 DEF FailsIn

\* What the candidate of a failing line keeps of it.
LEMMA CandidateFromLine ==
  ASSUME Typed, NEW l \in Lines, NEW idx \in Nat, IsFailure(l)
  PROVE  /\ Candidate(l, idx).event_idx = idx /\ Candidate(l, idx).dll = FailedDll(l)
         /\ FromLine(Candidate(l, idx), l)
         /\ (FailedDll(l) = Or(l.named, l.dll) /\ FailedDll(l) \notin Noise)
              => NamedBy(Candidate(l, idx), l)
<1> DEFINE c == Candidate(l, idx)
           path == Or(l.path, ContextPath(Context(l)))
<1>1. /\ c.event_idx = idx /\ c.dll = FailedDll(l)
      /\ c.kind = Kind(l.pattern) /\ c.score = Score(l.pattern)
      /\ c.full_path_probe = FullPathProbe(l.pattern, path)
      /\ c.app_local_hint = (path # None /\ path.app_local)
      /\ c.framework_or_os_hint = ((path # None /\ path.framework) \/ FailedDll(l) \in Noise)
      /\ c.thread_correlated = Correlated(l)
  BY DEF Candidate
<1>2. l.pattern # None /\ ~l.probe /\ ~IsLoad(l)
  BY LineType DEF IsFailure
<1>3. FullPathProbe(l.pattern, path) => Kind(l.pattern) # 2
  BY DEF FullPathProbe
<1>4. l.path # None => path = l.path /\ l.path.app_local \in BOOLEAN /\ l.path.framework \in BOOLEAN
  BY LineType DEF Or, Paths
<1> HIDE DEF c, path
<1>5. FromLine(c, l)
  BY <1>1, <1>2, <1>3, <1>4 DEF FromLine
<1>6. FailedDll(l) = Or(l.named, l.dll) => ~Correlated(l)
  BY DEF IsFailure, Correlated, Or
<1>7. (FailedDll(l) = Or(l.named, l.dll) /\ FailedDll(l) \notin Noise) => NamedBy(c, l)
  BY <1>1, <1>4, <1>6 DEF NamedBy
<1> QED
  BY <1>1, <1>5, <1>7 DEF c

\* A line read earlier fails on the same DLLs after another is read.
LEMMA FailsKept ==
  ASSUME NEW s \in Seq(Events), NEW e \in Events, NEW i \in 1..Len(s), NEW d
  PROVE  FailsIn(Append(s, e), i, d) <=> FailsIn(s, i, d)
<1>1. \A j \in 1..Len(s) : Append(s, e)[j] = s[j]
  BY AppendFacts
<1>2. \A t, a : a \in 1..(i - 1) => (OpenIn(Append(s, e), t, a, i) <=> OpenIn(s, t, a, i))
  BY OpenPrefix
<1> HIDE DEF OpenIn
<1> QED
  BY <1>1, <1>2 DEF FailsIn

\* Enriched changes nothing of a candidate but its status and reason.
LEMMA EnrichedKeeps ==
  ASSUME TypeOK, NEW l \in Lines, NEW i \in DOMAIN candidates
  PROVE  \A f \in {"event_idx", "tid", "dll", "score", "kind", "app_local_hint",
                   "framework_or_os_hint", "full_path_probe", "thread_correlated"} :
           Enriched(l)[i][f] = candidates[i][f]
<1> DEFINE k == last_failure_candidate_by_tid[l.tid]
<1>1. candidates \in Seq(Candidates) /\ candidates[i] \in Candidates
  BY DEF TypeOK
<1>2. CASE Enriches(l, k) /\ i = k
  <2>1. Enriched(l)[i] = [candidates[i] EXCEPT !.status = l.status, !.reason = Reason(l, l.status)]
    BY <1>1, <1>2 DEF Enriched, Candidates
  <2> QED
    BY <1>1, <2>1 DEF Candidates
<1>3. CASE ~(Enriches(l, k) /\ i = k)
  BY <1>1, <1>3 DEF Enriched
<1> QED
  BY <1>2, <1>3

\* What Detections says of two candidates that differ in status and reason
\* only is the same.
LEMMA FromLineKept ==
  ASSUME NEW c, NEW e, NEW l,
         \A f \in {"event_idx", "tid", "dll", "score", "kind", "app_local_hint",
                   "framework_or_os_hint", "full_path_probe", "thread_correlated"} : e[f] = c[f]
  PROVE  /\ e.event_idx = c.event_idx /\ e.dll = c.dll
         /\ FromLine(c, l) => FromLine(e, l)
         /\ NamedBy(c, l) => NamedBy(e, l)
<1>1. /\ e.event_idx = c.event_idx /\ e.dll = c.dll /\ e.score = c.score /\ e.kind = c.kind
      /\ e.app_local_hint = c.app_local_hint /\ e.framework_or_os_hint = c.framework_or_os_hint
      /\ e.full_path_probe = c.full_path_probe /\ e.thread_correlated = c.thread_correlated
  OBVIOUS
<1> QED
  BY <1>1 DEF FromLine, NamedBy

LEMMA DebugStringDetections ==
  ASSUME Typed, ContextOfThread, Detections, NEW l \in Lines, DebugString(l)
  PROVE  Detections'
<1> DEFINE n == Len(seen) + 1
<1>1. /\ seen \in Seq(Events) /\ l \in Events /\ seen' = Append(seen, l)
      /\ Len(seen) \in Nat /\ n \in Nat /\ seen'[n] = l
      /\ DOMAIN seen = 1..Len(seen) /\ DOMAIN seen' = 1..n
      /\ \A i \in 1..Len(seen) : seen'[i] = seen[i]
  BY AppendFacts DEF DebugString, Typed, TypeOK, Events
<1>2. /\ Enriched(l) \in Seq(Candidates) /\ Len(Enriched(l)) = Len(candidates)
      /\ DOMAIN candidates = 1..Len(candidates) /\ Len(candidates) \in Nat
  BY EnrichedType DEF Typed, TypeOK
<1> DEFINE new == Candidate(l, n)
<1>3. /\ \A k \in DOMAIN candidates : candidates'[k] = Enriched(l)[k]
      /\ DOMAIN candidates \subseteq DOMAIN candidates'
      /\ ~IsFailure(l) => DOMAIN candidates' = DOMAIN candidates
      /\ IsFailure(l) => /\ DOMAIN candidates' = 1..(Len(candidates) + 1)
                         /\ candidates'[Len(candidates) + 1] = new
  <2>1. CASE ~IsFailure(l)
    BY <1>2, <2>1 DEF DebugString, Detected
  <2>2. CASE IsFailure(l)
    <3>1. new \in Candidates
      BY <1>1, <2>2, CandidateType DEF Typed, TypeOK
    <3>2. candidates' = Append(Enriched(l), new)
      BY <2>2 DEF DebugString, Detected, Next_idx
    <3> QED
      BY <1>2, <2>2, <3>1, <3>2, AppendFacts
  <2> QED
    BY <2>1, <2>2
<1>4. \A k \in DOMAIN candidates :
        /\ candidates'[k].event_idx = candidates[k].event_idx
        /\ candidates'[k].dll = candidates[k].dll
        /\ \A x : /\ FromLine(candidates[k], x) => FromLine(candidates'[k], x)
                  /\ NamedBy(candidates[k], x) => NamedBy(candidates'[k], x)
  BY <1>3, EnrichedKeeps, FromLineKept DEF Typed
<1>5. IsFailure(l) =>
        /\ new.event_idx = n /\ new.dll = FailedDll(l) /\ FromLine(new, l)
        /\ (FailedDll(l) = Or(l.named, l.dll) /\ FailedDll(l) \notin Noise) => NamedBy(new, l)
  BY <1>1, CandidateFromLine
<1> HIDE DEF new, n
<1>6. ASSUME NEW k \in DOMAIN candidates'
      PROVE  /\ candidates'[k].event_idx \in DOMAIN seen'
             /\ FromLine(candidates'[k], seen'[candidates'[k].event_idx])
  <2>1. CASE k \in DOMAIN candidates
    <3>1. /\ candidates[k].event_idx \in 1..Len(seen)
          /\ FromLine(candidates[k], seen[candidates[k].event_idx])
      BY <1>1, <2>1 DEF Detections
    <3> QED
      BY <1>1, <1>4, <2>1, <3>1 DEF n
  <2>2. CASE k \notin DOMAIN candidates
    <3>1. IsFailure(l) /\ candidates'[k] = new
      BY <1>2, <1>3, <2>2
    <3> QED
      BY <1>1, <1>5, <3>1 DEF n
  <2> QED
    BY <2>1, <2>2
<1>7. ASSUME NEW i \in DOMAIN seen', NEW d \in Dlls, FailsIn(seen', i, d)
      PROVE  \E k \in DOMAIN candidates' :
               /\ candidates'[k].event_idx = i /\ candidates'[k].dll = d
               /\ d = Or(seen'[i].named, seen'[i].dll) => NamedBy(candidates'[k], seen'[i])
  <2>1. CASE i = n
    <3>1. /\ IsFailure(l) /\ FailedDll(l) = d
          /\ d = Or(l.named, l.dll) => d \notin Noise
      BY <1>7, <2>1, FailureDetected DEF n
    <3>2. Len(candidates) + 1 \in DOMAIN candidates' /\ candidates'[Len(candidates) + 1] = new
      BY <1>2, <1>3, <3>1
    <3> QED
      BY <1>1, <1>5, <2>1, <3>1, <3>2
  <2>2. CASE i # n
    <3>1. i \in 1..Len(seen) /\ seen'[i] = seen[i]
      BY <1>1, <2>2 DEF n
    <3>2. FailsIn(seen, i, d)
      BY <1>1, <1>7, <3>1, FailsKept
    <3>3. PICK k \in DOMAIN candidates :
            /\ candidates[k].event_idx = i /\ candidates[k].dll = d
            /\ d = Or(seen[i].named, seen[i].dll) => NamedBy(candidates[k], seen[i])
      BY <1>1, <3>1, <3>2 DEF Detections
    <3> QED
      BY <1>3, <1>4, <3>1, <3>3
  <2> QED
    BY <2>1, <2>2
<1> QED
  BY <1>6, <1>7 DEF Detections

LEMMA NextDetections == Typed /\ ContextOfThread /\ Detections /\ [Next]_vars => Detections'
<1> SUFFICES ASSUME Typed, ContextOfThread, Detections, [Next]_vars PROVE Detections'
  OBVIOUS
<1>1. ASSUME NEW x \in Dlls, RuntimeLoaded(x) PROVE Detections'
  <2> DEFINE e == Loaded(x)
  <2>1. /\ seen' = Append(seen, e) /\ e \in Events /\ IsLoad(e) /\ seen \in Seq(Events)
        /\ candidates' = candidates
    BY <1>1, LoadType DEF RuntimeLoaded, Typed, TypeOK
  <2> HIDE DEF e
  <2>2. /\ DOMAIN seen = 1..Len(seen) /\ DOMAIN seen' = 1..(Len(seen) + 1) /\ Len(seen) \in Nat
        /\ seen'[Len(seen) + 1] = e /\ \A j \in 1..Len(seen) : seen'[j] = seen[j]
    BY <2>1, AppendFacts
  <2>3. \A k \in DOMAIN candidates :
          /\ candidates[k].event_idx \in DOMAIN seen'
          /\ FromLine(candidates[k], seen'[candidates[k].event_idx])
    BY <2>2 DEF Detections
  <2>4. ASSUME NEW i \in DOMAIN seen', NEW d \in Dlls, FailsIn(seen', i, d)
        PROVE  \E k \in DOMAIN candidates :
                 /\ candidates[k].event_idx = i /\ candidates[k].dll = d
                 /\ d = Or(seen'[i].named, seen'[i].dll) => NamedBy(candidates[k], seen'[i])
    <3>1. i # Len(seen) + 1
      BY <2>1, <2>2, <2>4 DEF FailsIn
    <3>2. i \in 1..Len(seen) /\ seen'[i] = seen[i]
      BY <2>2, <3>1
    <3>3. FailsIn(seen, i, d)
      BY <2>1, <2>4, <3>2, FailsKept
    <3> QED
      BY <2>2, <3>2, <3>3 DEF Detections
  <2> QED
    BY <2>1, <2>3, <2>4 DEF Detections
<1>2. ASSUME NEW l \in Lines, DebugString(l) PROVE Detections'
  BY <1>2, DebugStringDetections
<1>3. CASE Select \/ UNCHANGED vars
  BY <1>3 DEF Select, vars, scanVars, Detections
<1> QED
  BY <1>1, <1>2, <1>3 DEF Next, Done

LEMMA NextFirst == Typed /\ FirstUnresolved /\ [Next]_vars => FirstUnresolved'
<1> SUFFICES ASSUME Typed, FirstUnresolved, [Next]_vars PROVE FirstUnresolved'
  OBVIOUS
<1>1. CASE Select
  <2>1. Unresolved' = Unresolved
    BY <1>1 DEF Select, scanVars, Unresolved, Resolved
  <2>2. None \notin Unresolved
    BY LinesAssumption DEF Unresolved, Typed, TypeOK
  <2>3. CASE Unresolved = {} /\ best' = None
    BY <2>1, <2>3 DEF FirstUnresolved
  <2>4. ASSUME NEW c \in Unresolved, \A o \in Unresolved \ {c} : KeyBefore(SortKey(c), SortKey(o)),
               best' = c
        PROVE  FirstUnresolved'
    BY <2>1, <2>2, <2>4 DEF FirstUnresolved
  <2> QED
    BY <1>1, <2>3, <2>4 DEF Select
<1>2. CASE UNCHANGED vars
  BY <1>2 DEF vars, scanVars, FirstUnresolved, Unresolved, Resolved
<1>3. CASE (\E d \in Dlls : RuntimeLoaded(d)) \/ (\E l \in Lines : DebugString(l))
  BY <1>3 DEF RuntimeLoaded, DebugString, FirstUnresolved
<1> QED
  BY <1>1, <1>2, <1>3 DEF Next, Done

\* What it takes to come first.
LEMMA KeyOrder ==
  ASSUME NEW a \in Candidates, NEW b \in Candidates, KeyBefore(SortKey(a), SortKey(b))
  PROVE  /\ a.kind > b.kind \/ (a.kind = b.kind /\ a.score >= b.score)
         /\ (/\ a.kind = b.kind /\ a.score = b.score /\ a.app_local_hint = b.app_local_hint
             /\ b.framework_or_os_hint => a.framework_or_os_hint
             /\ a.thread_correlated = b.thread_correlated)
              => a.event_idx <= b.event_idx
<1>1. /\ a.kind \in Nat /\ b.kind \in Nat /\ a.score \in Nat /\ b.score \in Nat
      /\ a.event_idx \in Nat /\ b.event_idx \in Nat
      /\ a.framework_or_os_hint \in BOOLEAN /\ b.framework_or_os_hint \in BOOLEAN
  BY DEF Candidates
<1> DEFINE x == SortKey(a)
           y == SortKey(b)
<1>2. /\ x[1] = -a.kind /\ x[2] = -a.score /\ x[3] = -Rank(a.app_local_hint)
      /\ x[4] = Rank(a.framework_or_os_hint) /\ x[5] = -Rank(a.thread_correlated)
      /\ x[6] = a.event_idx /\ DOMAIN x = 1..8
  BY DEF SortKey
<1>3. /\ y[1] = -b.kind /\ y[2] = -b.score /\ y[3] = -Rank(b.app_local_hint)
      /\ y[4] = Rank(b.framework_or_os_hint) /\ y[5] = -Rank(b.thread_correlated)
      /\ y[6] = b.event_idx
  BY DEF SortKey
<1>4. PICK n \in 1..8 : x[n] < y[n] /\ \A m \in 1..(n - 1) : x[m] = y[m]
  BY <1>2 DEF KeyBefore
<1> HIDE DEF x, y
<1>5. /\ n > 1 => x[1] = y[1]
      /\ n > 2 => x[2] = y[2]
      /\ n > 3 => x[3] = y[3]
      /\ n > 4 => x[4] = y[4]
      /\ n > 5 => x[5] = y[5]
      /\ n > 6 => x[6] = y[6]
  BY <1>4
<1>6. a.kind > b.kind \/ (a.kind = b.kind /\ a.score >= b.score)
  BY <1>1, <1>2, <1>3, <1>4, <1>5
<1>7. ASSUME /\ a.kind = b.kind /\ a.score = b.score /\ a.app_local_hint = b.app_local_hint
             /\ b.framework_or_os_hint => a.framework_or_os_hint
             /\ a.thread_correlated = b.thread_correlated
      PROVE  a.event_idx <= b.event_idx
  <2>1. x[1] = y[1] /\ x[2] = y[2] /\ x[3] = y[3] /\ x[5] = y[5]
    BY <1>2, <1>3, <1>7
  <2>2. x[4] >= y[4] /\ x[4] \in Nat /\ y[4] \in Nat
    BY <1>1, <1>2, <1>3, <1>7 DEF Rank
  <2>3. n # 1 /\ n # 2 /\ n # 3 /\ n # 4 /\ n # 5
    BY <1>1, <1>2, <1>3, <1>4, <2>1, <2>2 DEF Rank
  <2> QED
    BY <1>1, <1>2, <1>3, <1>4, <1>5, <2>3
<1> QED
  BY <1>6, <1>7

LEMMA InitDetections == Init => Witnessed /\ Detections /\ FirstUnresolved
BY DEF Init, Witnessed, Detections, FirstUnresolved

LEMMA DetectionInvariant == Spec => [](Witnessed /\ Detections /\ FirstUnresolved)
BY InitDetections, NextWitnessed, NextDetections, NextFirst, TypedInvariant,
   ContextIsOpenAttempt, PTL DEF Spec

\* A candidate whose failure stands is unresolved.
LEMMA StandingUnresolved ==
  ASSUME Typed, Witnessed, Detections, NEW k \in DOMAIN candidates,
         Stands(candidates[k].event_idx, candidates[k].dll)
  PROVE  candidates[k] \in Unresolved
<1> DEFINE c == candidates[k]
           n == latest_success_idx_by_basename[c.dll]
<1>1. /\ c \in Candidates /\ c.dll \in Dlls /\ c.event_idx \in Nat
      /\ n \in 0..Len(seen) /\ DOMAIN seen = 1..Len(seen) /\ Len(seen) \in Nat
  <2>1. c \in Candidates
    BY DEF Typed, TypeOK
  <2>2. c.dll \in Dlls /\ c.event_idx \in Nat
    BY <2>1 DEF Candidates
  <2> QED
    BY <2>1, <2>2 DEF Typed, TypeOK
<1>2. n > 0 => n \in DOMAIN seen /\ LoadsIn(seen, c.dll, n)
  BY <1>1 DEF Witnessed
<1>3. \A d, i : Loads(d, i) <=> LoadsIn(seen, d, i)
  BY DEF Loads, LoadsIn, OpenAttempt, OpenIn, Own, OwnIn
<1>4. c.kind = Kind(seen[c.event_idx].pattern) /\ (c.full_path_probe => c.kind # 2)
  BY DEF Detections, FromLine
<1>5. \A i \in DOMAIN seen :
        i > c.event_idx \/ Kind(seen[c.event_idx].pattern) # 2 => ~LoadsIn(seen, c.dll, i)
  BY <1>3 DEF Stands
<1> HIDE DEF n
<1>6. ~(n > c.event_idx)
  BY <1>1, <1>2, <1>5
<1>7. ~(c.full_path_probe /\ n > 0)
  BY <1>2, <1>4, <1>5
<1> QED
  BY <1>6, <1>7 DEF Unresolved, Resolved, n

\* Phase C loses no failure that stands: it reports one as conclusive, and of
\* those that match one pattern at one place and name their DLL the earliest;
\* for every interleaving of any number of threads.
THEOREM NoFailureLost == Spec => []NothingMissed
<1>1. Typed /\ Witnessed /\ Detections /\ FirstUnresolved => NothingMissed
  <2> SUFFICES ASSUME Typed, Witnessed, Detections, FirstUnresolved, phase = "done",
                      NEW i \in DOMAIN seen, NEW d \in Dlls, FailsOn(i, d), Stands(i, d)
               PROVE  /\ best # None
                      /\ LET k == Kind(seen[i].pattern) IN
                         best.kind > k \/ (best.kind = k /\ best.score >= Score(seen[i].pattern))
                      /\ (/\ ~best.thread_correlated /\ d = Or(seen[i].named, seen[i].dll)
                          /\ seen[i].pattern = seen[best.event_idx].pattern
                          /\ seen[i].path = seen[best.event_idx].path /\ seen[i].path # None)
                           => best.event_idx <= i
    BY DEF NothingMissed
  <2>1. FailsIn(seen, i, d)
    BY DEF FailsOn, FailsIn, OpenAttempt, OpenIn, Own, OwnIn
  <2>2. PICK k \in DOMAIN candidates :
          /\ candidates[k].event_idx = i /\ candidates[k].dll = d
          /\ d = Or(seen[i].named, seen[i].dll) => NamedBy(candidates[k], seen[i])
    BY <2>1 DEF Detections
  <2> DEFINE c == candidates[k]
  <2>3. c \in Unresolved /\ c \in Candidates
    BY <2>2, StandingUnresolved DEF Typed, TypeOK
  <2>4. FromLine(c, seen[i])
    BY <2>2 DEF Detections
  <2>5. best # None /\ best \in Unresolved /\ (best = c \/ KeyBefore(SortKey(best), SortKey(c)))
    BY <2>3 DEF FirstUnresolved
  <2>6. PICK b \in DOMAIN candidates : best = candidates[b]
    BY <2>5 DEF Unresolved
  <2>7. best \in Candidates /\ FromLine(best, seen[best.event_idx])
    BY <2>6 DEF Detections, Typed, TypeOK
  <2> HIDE DEF c
  <2>8. best.kind > c.kind \/ (best.kind = c.kind /\ best.score >= c.score)
    BY <2>3, <2>5, <2>7, KeyOrder DEF Candidates
  <2>9. ASSUME ~best.thread_correlated, d = Or(seen[i].named, seen[i].dll),
               seen[i].pattern = seen[best.event_idx].pattern,
               seen[i].path = seen[best.event_idx].path, seen[i].path # None
        PROVE  best.event_idx <= i
    <3>1. NamedBy(c, seen[i])
      BY <2>2, <2>9 DEF c
    <3>2. /\ best.kind = c.kind /\ best.score = c.score
          /\ best.app_local_hint = c.app_local_hint
          /\ c.framework_or_os_hint => best.framework_or_os_hint
      BY <2>4, <2>7, <2>9, <3>1 DEF FromLine, NamedBy
    <3>3. best.thread_correlated = c.thread_correlated
      BY <2>3, <2>7, <2>9, <3>1 DEF NamedBy, Candidates
    <3>4. best.event_idx <= c.event_idx
      BY <2>3, <2>5, <2>7, <3>2, <3>3, KeyOrder DEF Candidates
    <3> QED
      BY <2>2, <3>4 DEF c
  <2> QED
    BY <2>4, <2>5, <2>8, <2>9 DEF FromLine
<1> QED
  BY <1>1, DetectionInvariant, TypedInvariant, PTL

-----------------------------------------------------------------------------
(* The scan over texts.                                                     *)

\* A line that is read from a text is a line of the scan, whatever the loader
\* wrote, and a module that is loaded is a DLL of it.
LEMMA LinesStep == [LinesNext]_linevars => [Next]_vars
<1> SUFFICES ASSUME [LinesNext]_linevars PROVE [Next]_vars
  OBVIOUS
<1>1. ASSUME NEW m \in Modules, Loading(m) PROVE Next
  <2>1. Number(m) \in Dlls
    BY SayingsAssumption DEF Number
  <2> QED
    BY <1>1, <2>1 DEF Loading, Next
<1>2. ASSUME NEW s \in Sayings, Says(s) PROVE Next
  <2>1. ReadOf[s] \in Lines
    BY SayingsAssumption
  <2> QED
    BY <1>2, <2>1 DEF Says, Next
<1>3. CASE Chosen \/ Ended
  BY <1>3 DEF Chosen, Ended, Next
<1>4. CASE UNCHANGED linevars
  BY <1>4 DEF linevars
<1> QED
  BY <1>1, <1>2, <1>3, <1>4 DEF LinesNext

\* Phase C over the texts that the loader writes is Phase C over their lines.
THEOREM TextsAreLines == LinesSpec => Spec
<1>1. LinesInit => Init
  BY DEF LinesInit
<1> QED
  BY <1>1, LinesStep, PTL DEF LinesSpec, Spec

\* So what is proved of the lines holds of the texts, by what
\* extract_dll_basenames and the text predicates make of them.
THEOREM TextsKeepAll ==
  LinesSpec => [](TypeOK /\ ContextOfThread /\ StatusFromOneLine
                    /\ ReportedNeverLoaded /\ NothingMissed)
  BY TextsAreLines, TypeCorrect, ContextIsOpenAttempt, StatusIsOfOneLine,
     ReportedDllNeverLoaded, NoFailureLost, PTL

-----------------------------------------------------------------------------
(* The least member of a set.                                               *)

\* A set of naturals that is not empty has a least member.
LEMMA LeastNatural ==
  ASSUME NEW T \in SUBSET Nat, T # {}
  PROVE  \E x \in T : \A y \in T : x <= y
  <1>. DEFINE R == {ss \in Nat \X Nat : ss[1] < ss[2]}
  <1>1. IsWellFoundedOn(R, Nat)
    BY NatLessThanWellFounded DEF OpToRel
  <1>. HIDE DEF R
  <1>2. PICK x \in T : \A y \in T : ~(<<y, x>> \in R)
    BY <1>1, WFMin
  <1>3. \A y \in T : ~(y < x)
    BY <1>2 DEF R
  <1>. QED
    BY <1>3

\* Least returns the least member.
LEMMA LeastIs ==
  ASSUME NEW T \in SUBSET Nat, T # {}
  PROVE  Least(T) \in T /\ \A y \in T : Least(T) <= y
<1>1. \E x \in T : \A y \in T : x <= y
  BY LeastNatural
<1> QED
  BY <1>1, Zenon DEF Least

\* The least member of a set is the one that is known to be so.
LEMMA LeastGiven ==
  ASSUME NEW T \in SUBSET Nat, NEW x \in T, \A y \in T : x <= y
  PROVE  Least(T) = x
<1>. DEFINE l == Least(T)
<1>1. l \in T /\ l <= x
  BY LeastIs
<1>. HIDE DEF l
<1>2. l \in Nat /\ x \in Nat /\ x <= l
  BY <1>1
<1>3. l = x
  BY <1>1, <1>2
<1> QED
  BY <1>3 DEF l

-----------------------------------------------------------------------------
(* What a text is made of.                                                  *)

Symbols == PathSymbols \cup DOMAIN Hex \cup Phrases \cup {",", "\""}
FormSymbols == Phrases \cup {":", "space", ",", "\""}   \* around the module
ParentSymbols == PathSymbols \cup {"parent module:", "\""}
RestSymbols == Word \cup DOMAIN Hex \cup Other

\* Where the members of two sequences are when one stands behind the other.
LEMMA Joined ==
  ASSUME NEW S, NEW a \in Seq(S), NEW b \in Seq(S)
  PROVE  /\ a \o b \in Seq(S) /\ Len(a \o b) = Len(a) + Len(b)
         /\ \A i \in 1..Len(a) : (a \o b)[i] = a[i]
         /\ \A i \in 1..Len(b) : (a \o b)[Len(a) + i] = b[i]
  OBVIOUS

\* What stands around the module in a form: the loader's own symbols, the last
\* one before the module no part of a name.
LEMMA FormIs ==
  ASSUME NEW f \in DOMAIN Form
  PROVE  /\ Form[f][1] \in Seq(FormSymbols)
         /\ Form[f][2] \in Seq(FormSymbols)
         /\ Form[f][1] # <<>> /\ Form[f][1][Len(Form[f][1])] \in {"space", "\"", "failed"}
<1>1. CASE f = "enter"
  BY <1>1 DEF Form, FormSymbols, Phrases
<1>2. CASE f = "return"
  BY <1>2 DEF Form, FormSymbols, Phrases
<1>3. CASE f = "process_work"
  BY <1>3 DEF Form, FormSymbols, Phrases
<1>4. CASE f = "load_work"
  BY <1>4 DEF Form, FormSymbols, Phrases
<1>5. CASE f = "init_routine"
  BY <1>5 DEF Form, FormSymbols, Phrases
<1>6. CASE f = "import_walk"
  BY <1>6 DEF Form, FormSymbols, Phrases
<1>7. CASE f = "init_failed"
  BY <1>7 DEF Form, FormSymbols, Phrases
<1>8. CASE f = "load_failed"
  BY <1>8 DEF Form, FormSymbols, Phrases
<1>9. CASE f = "search_path"
  BY <1>9 DEF Form, FormSymbols, Phrases
<1>10. CASE f = "internal"
  BY <1>10 DEF Form, FormSymbols, Phrases
<1>11. CASE f = "known_dll"
  BY <1>11 DEF Form, FormSymbols, Phrases
<1> QED
  BY <1>1, <1>2, <1>3, <1>4, <1>5, <1>6, <1>7, <1>8, <1>9, <1>10, <1>11 DEF Form

\* Where the pieces of what is written are.
Composed(s, text) ==
  LET a == Len(Form[s.form][1])
      b == Len(s.module)
      c == a + b + Len(Form[s.form][2])
  IN  /\ text \in Seq(Symbols) /\ a \in Nat /\ b \in Nat /\ c \in Nat
      /\ a >= 1 /\ a + b <= c /\ c <= Len(text)
      /\ \A i \in 1..a : text[i] = Form[s.form][1][i]
      /\ \A i \in 1..b : text[a + i] = s.module[i]
      /\ \A i \in 1..Len(Form[s.form][2]) : text[a + b + i] = Form[s.form][2][i]
      /\ \A i \in (c + 1)..Len(text) :
           /\ text[i] \in ParentSymbols \cup DOMAIN Hex
           /\ text[i] = ".dll" => s.parent # <<>>
           /\ text[i] \in DOMAIN Hex => \E k \in DOMAIN s.rest : s.rest[k] = text[i]
      /\ \A k \in DOMAIN s.rest : \E i \in (c + 1)..Len(text) : text[i] = s.rest[k]

\* The fields of a saying have their types.
LEMMA SayingTyped ==
  ASSUME NEW s \in Sayings
  PROVE  /\ s.tid \in Threads /\ s.form \in DOMAIN Form
         /\ s.module \in Seq(PathSymbols) /\ s.parent \in Seq(PathSymbols)
         /\ s.rest \in Seq(RestSymbols)
         /\ s = [tid |-> s.tid, form |-> s.form, module |-> s.module, parent |-> s.parent, rest |-> s.rest]
  BY WritingAssumption DEF RestSymbols

\* Words, other symbols, statuses and marks are apart.
LEMMA SymbolSorts ==
  /\ Word \cap Marks = {} /\ Other \cap Marks = {}
  /\ DOMAIN Hex \cap (Word \cup Other \cup Marks) = {}
  /\ {":", ".dll", "space", ",", "\"", "'"} \subseteq Marks /\ Phrases \subseteq Marks
  /\ Slashes \subseteq Marks
  BY SymbolsAssumption DEF Marks

\* Five pieces, one behind the other.
Laid(text, F, m, G, p, r) ==
  LET a == Len(F)
      b == Len(m)
      c == a + b + Len(G)
  IN  /\ Len(text) = c + Len(p) + Len(r)
      /\ a \in Nat /\ b \in Nat /\ Len(G) \in Nat /\ Len(p) \in Nat /\ Len(r) \in Nat
      /\ \A i \in 1..a : text[i] = F[i]
      /\ \A i \in 1..b : text[a + i] = m[i]
      /\ \A i \in 1..Len(G) : text[a + b + i] = G[i]
      /\ \A i \in 1..Len(p) : text[c + i] = p[i]
      /\ \A i \in 1..Len(r) : text[c + Len(p) + i] = r[i]

\* Five sequences joined are laid out one behind the other.
LEMMA ComposedOf ==
  ASSUME NEW S, NEW F \in Seq(S), NEW m \in Seq(S), NEW G \in Seq(S), NEW p \in Seq(S),
         NEW r \in Seq(S)
  PROVE  F \o m \o G \o p \o r \in Seq(S) /\ Laid(F \o m \o G \o p \o r, F, m, G, p, r)
<1>. DEFINE t1 == F \o m
            t2 == t1 \o G
            t3 == t2 \o p
            t4 == t3 \o r
<1>1. /\ t1 \in Seq(S) /\ Len(t1) = Len(F) + Len(m)
      /\ \A i \in 1..Len(F) : t1[i] = F[i]
      /\ \A i \in 1..Len(m) : t1[Len(F) + i] = m[i]
  BY Joined
<1>2. /\ t2 \in Seq(S) /\ Len(t2) = Len(t1) + Len(G)
      /\ \A i \in 1..Len(t1) : t2[i] = t1[i]
      /\ \A i \in 1..Len(G) : t2[Len(t1) + i] = G[i]
  BY <1>1, Joined
<1>3. /\ t3 \in Seq(S) /\ Len(t3) = Len(t2) + Len(p)
      /\ \A i \in 1..Len(t2) : t3[i] = t2[i]
      /\ \A i \in 1..Len(p) : t3[Len(t2) + i] = p[i]
  BY <1>2, Joined
<1>4. /\ t4 \in Seq(S) /\ Len(t4) = Len(t3) + Len(r)
      /\ \A i \in 1..Len(t3) : t4[i] = t3[i]
      /\ \A i \in 1..Len(r) : t4[Len(t3) + i] = r[i]
  BY <1>3, Joined
<1>. HIDE DEF t1, t2, t3, t4
<1>. DEFINE a == Len(F)
            b == Len(m)
            g == Len(G)
            q == Len(p)
            n == Len(r)
<1>5. a \in Nat /\ b \in Nat /\ g \in Nat /\ q \in Nat /\ n \in Nat
  OBVIOUS
<1>6. Len(t1) = a + b /\ Len(t2) = a + b + g /\ Len(t3) = a + b + g + q /\ Len(t4) = a + b + g + q + n
  BY <1>1, <1>2, <1>3, <1>4, <1>5
<1>. HIDE DEF a, b, g, q, n
<1>7. /\ \A i \in 1..a : t1[i] = F[i]
      /\ \A i \in 1..b : t1[a + i] = m[i]
      /\ \A i \in 1..(a + b) : t2[i] = t1[i]
      /\ \A i \in 1..g : t2[a + b + i] = G[i]
      /\ \A i \in 1..(a + b + g) : t3[i] = t2[i]
      /\ \A i \in 1..q : t3[a + b + g + i] = p[i]
      /\ \A i \in 1..(a + b + g + q) : t4[i] = t3[i]
      /\ \A i \in 1..n : t4[a + b + g + q + i] = r[i]
  BY <1>1, <1>2, <1>3, <1>4, <1>6 DEF a, b, g, q, n
<1>8. /\ \A i \in 1..a : t4[i] = F[i]
      /\ \A i \in 1..b : t4[a + i] = m[i]
      /\ \A i \in 1..g : t4[a + b + i] = G[i]
      /\ \A i \in 1..q : t4[a + b + g + i] = p[i]
  <2>1. ASSUME NEW i \in 1..a PROVE t4[i] = F[i]
    <3>1. i \in 1..(a + b) /\ i \in 1..(a + b + g) /\ i \in 1..(a + b + g + q)
      BY <1>5
    <3> QED
      BY <1>7, <3>1
  <2>2. ASSUME NEW i \in 1..b PROVE t4[a + i] = m[i]
    <3>1. a + i \in 1..(a + b) /\ a + i \in 1..(a + b + g) /\ a + i \in 1..(a + b + g + q)
      BY <1>5
    <3> QED
      BY <1>7, <3>1
  <2>3. ASSUME NEW i \in 1..g PROVE t4[a + b + i] = G[i]
    <3>1. a + b + i \in 1..(a + b + g) /\ a + b + i \in 1..(a + b + g + q)
      BY <1>5
    <3> QED
      BY <1>7, <3>1
  <2>4. ASSUME NEW i \in 1..q PROVE t4[a + b + g + i] = p[i]
    <3>1. a + b + g + i \in 1..(a + b + g + q)
      BY <1>5
    <3> QED
      BY <1>7, <3>1
  <2> QED
    BY <2>1, <2>2, <2>3, <2>4
<1>9. t4 = F \o m \o G \o p \o r
  BY DEF t1, t2, t3, t4
<1> QED
  BY <1>4, <1>5, <1>6, <1>7, <1>8, <1>9 DEF a, b, g, q, n, Laid

\* A sequence over a set is one over a larger set.
LEMMA WiderSeq ==
  ASSUME NEW S, NEW T, S \subseteq T, NEW s \in Seq(S)
  PROVE  s \in Seq(T)
  OBVIOUS

\* Composed, of pieces of any form.
Pieces(F, m, G, text, r, parent) ==
  LET a == Len(F)
      b == Len(m)
      c == a + b + Len(G)
  IN  /\ text \in Seq(Symbols) /\ a \in Nat /\ b \in Nat /\ c \in Nat
      /\ a >= 1 /\ a + b <= c /\ c <= Len(text)
      /\ \A i \in 1..a : text[i] = F[i]
      /\ \A i \in 1..b : text[a + i] = m[i]
      /\ \A i \in 1..Len(G) : text[a + b + i] = G[i]
      /\ \A i \in (c + 1)..Len(text) :
           /\ text[i] \in ParentSymbols \cup DOMAIN Hex
           /\ text[i] = ".dll" => parent # <<>>
           /\ text[i] \in DOMAIN Hex => \E k \in DOMAIN r : r[k] = text[i]
      /\ \A k \in DOMAIN r : \E i \in (c + 1)..Len(text) : text[i] = r[k]

\* Form, module, form, parent and rest, joined, are where Pieces has them.
LEMMA PiecesCompose ==
  ASSUME NEW F \in Seq(Symbols), NEW m \in Seq(Symbols), NEW G \in Seq(Symbols),
         NEW p \in Seq(ParentSymbols),
         NEW r \in Seq(RestSymbols), NEW parent,
         F # <<>>, parent = <<>> => p = <<"space">>
  PROVE  Pieces(F, m, G, F \o m \o G \o p \o r, r, parent)
<1>. DEFINE text == F \o m \o G \o p \o r
            a == Len(F)
            b == Len(m)
            c == a + b + Len(G)
            q == Len(p)
            n == Len(r)
            Rest(i) == /\ text[i] \in ParentSymbols \cup DOMAIN Hex
                       /\ text[i] = ".dll" => parent # <<>>
                       /\ text[i] \in DOMAIN Hex => \E k \in DOMAIN r : r[k] = text[i]
<1>1. p \in Seq(Symbols) /\ r \in Seq(Symbols)
  <2>1. ParentSymbols \subseteq Symbols /\ RestSymbols \subseteq Symbols
    BY DEF Symbols, Phrases, PathSymbols, TokenSymbols, ParentSymbols, RestSymbols
  <2> QED
    BY <2>1, WiderSeq
<1>2. text \in Seq(Symbols) /\ Laid(text, F, m, G, p, r)
  BY <1>1, ComposedOf, Zenon
<1>. HIDE DEF text
<1>7. /\ text \in Seq(Symbols) /\ Len(text) = c + q + n
      /\ a \in Nat /\ b \in Nat /\ Len(G) \in Nat /\ q \in Nat /\ n \in Nat
      /\ c = a + b + Len(G)
      /\ \A i \in 1..a : text[i] = F[i]
      /\ \A i \in 1..b : text[a + i] = m[i]
      /\ \A i \in 1..Len(G) : text[a + b + i] = G[i]
      /\ \A i \in 1..q : text[c + i] = p[i]
      /\ \A i \in 1..n : text[c + q + i] = r[i]
  BY <1>2 DEF Laid
<1>13. q = Len(p) /\ n = Len(r) /\ a = Len(F)
  OBVIOUS
<1>. HIDE DEF a, b, c, q, n
<1>8. \A i \in 1..q : /\ p[i] \in ParentSymbols /\ p[i] \notin DOMAIN Hex
                      /\ p[i] = ".dll" => parent # <<>>
  <2>1. \A i \in 1..q : p[i] \in ParentSymbols
    BY <1>13
  <2>2. ParentSymbols \cap DOMAIN Hex = {}
    BY SymbolSorts DEF ParentSymbols, RestSymbols, PathSymbols, TokenSymbols, Phrases
  <2>3. parent = <<>> => \A i \in 1..q : p[i] = "space"
    <3>1. ASSUME parent = <<>>, NEW i \in 1..q PROVE p[i] = "space"
      <4>1. q = Len(<<"space">>)
        BY <3>1, <1>13
      <4>2. q = 1
        BY <4>1
      <4> QED
        BY <3>1, <4>2
    <3> QED
      BY <3>1
  <2> QED
    BY <2>1, <2>2, <2>3
<1>9. \A i \in 1..n : i \in DOMAIN r /\ r[i] \in RestSymbols /\ r[i] # ".dll" /\ r[i] \in PathSymbols \cup DOMAIN Hex
  <2>1. \A i \in 1..n : i \in DOMAIN r /\ r[i] \in RestSymbols
    BY <1>13
  <2>2. \A x \in RestSymbols : x # ".dll" /\ x \in PathSymbols \cup DOMAIN Hex
    BY SymbolSorts DEF ParentSymbols, RestSymbols, PathSymbols, TokenSymbols
  <2> QED
    BY <2>1, <2>2
<1>10. ASSUME NEW i \in (c + 1)..Len(text) PROVE Rest(i)
  <2>1. c \in Nat /\ q \in Nat /\ n \in Nat /\ Len(text) = c + q + n
    BY <1>7
  <2>2. CASE i <= c + q
    <3>1. PICK j \in 1..q : i = c + j
      <4>1. i - c \in 1..q /\ i = c + (i - c)
        BY <2>1, <2>2
      <4> QED
        BY <4>1
    <3>2. text[i] = p[j]
      BY <1>7, <3>1
    <3> QED
      BY <1>8, <3>2 DEF ParentSymbols
  <2>3. CASE i > c + q
    <3>1. PICK j \in 1..n : i = c + q + j
      <4>1. i - (c + q) \in 1..n /\ i = c + q + (i - (c + q))
        BY <2>1, <2>3
      <4> QED
        BY <4>1
    <3>2. text[i] = r[j]
      BY <1>7, <3>1
    <3> QED
      BY <1>9, <3>2 DEF ParentSymbols
  <2>4. i <= c + q \/ i > c + q
    BY <2>1
  <2> QED
    BY <2>2, <2>3, <2>4, Zenon
<1>11. ASSUME NEW k \in DOMAIN r PROVE \E i \in (c + 1)..Len(text) : text[i] = r[k]
  <2>1. k \in 1..n
    BY <1>13
  <2>2. c \in Nat /\ q \in Nat /\ n \in Nat /\ Len(text) = c + q + n
    BY <1>7
  <2>3. c + q + k \in (c + 1)..Len(text)
    BY <2>1, <2>2
  <2>4. text[c + q + k] = r[k]
    BY <1>7, <2>1
  <2> QED
    BY <2>3, <2>4
<1>12. a >= 1 /\ a + b <= c /\ c <= Len(text) /\ c \in Nat
  <2>1. a \in Nat /\ b \in Nat /\ Len(G) \in Nat /\ q \in Nat /\ n \in Nat /\ Len(text) = c + q + n
        /\ c = a + b + Len(G)
    BY <1>7
  <2>2. a # 0
    BY <1>13
  <2> QED
    BY <2>1, <2>2
<1> QED
  <2>1. /\ text \in Seq(Symbols) /\ a \in Nat /\ b \in Nat /\ c = a + b + Len(G)
        /\ \A i \in 1..a : text[i] = F[i]
        /\ \A i \in 1..b : text[a + i] = m[i]
        /\ \A i \in 1..Len(G) : text[a + b + i] = G[i]
    BY <1>7
  <2>2. \A i \in (c + 1)..Len(text) : Rest(i)
    BY <1>10, Zenon
  <2>3. \A k \in DOMAIN r : \E i \in (c + 1)..Len(text) : text[i] = r[k]
    BY <1>11, Zenon
  <2>4. /\ text \in Seq(Symbols) /\ a \in Nat /\ b \in Nat /\ c \in Nat
        /\ a >= 1 /\ a + b <= c /\ c <= Len(text)
        /\ \A i \in 1..a : text[i] = F[i]
        /\ \A i \in 1..b : text[a + i] = m[i]
        /\ \A i \in 1..Len(G) : text[a + b + i] = G[i]
    BY <2>1, <1>12
  <2>5. Pieces(F, m, G, text, r, parent)
    BY <2>2, <2>3, <2>4, Zenon DEF Pieces, a, b, c
  <2> QED
    BY <2>5 DEF text

\* What is written of a saying is composed of its pieces.
LEMMA WrittenComposed ==
  ASSUME NEW s \in Sayings
  PROVE  Composed(s, Written(s))
<1>. DEFINE F == Form[s.form][1]
            m == s.module
            G == Form[s.form][2]
            p == IF s.parent = <<>> THEN <<"space">>
                 ELSE <<"space", "parent module:", "\"">> \o s.parent \o <<"\"", "space">>
            r == s.rest
<1>1. /\ s.form \in DOMAIN Form /\ m \in Seq(PathSymbols) /\ s.parent \in Seq(PathSymbols)
      /\ r \in Seq(RestSymbols)
  BY SayingTyped
<1>2. F \in Seq(FormSymbols) /\ G \in Seq(FormSymbols) /\ F # <<>>
  BY <1>1, FormIs
<1>3. p \in Seq(ParentSymbols)
  <2>1. <<"space", "parent module:", "\"">> \in Seq(ParentSymbols) /\ <<"\"", "space">> \in Seq(ParentSymbols) /\ <<"space">> \in Seq(ParentSymbols)
    BY DEF PathSymbols, ParentSymbols
  <2>0. PathSymbols \subseteq ParentSymbols
    BY DEF ParentSymbols
  <2>2. s.parent \in Seq(ParentSymbols)
    BY <1>1, <2>0, WiderSeq, Zenon
  <2>3. <<"space", "parent module:", "\"">> \o s.parent \in Seq(ParentSymbols)
    BY <2>1, <2>2, Joined
  <2>4. <<"space", "parent module:", "\"">> \o s.parent \o <<"\"", "space">> \in Seq(ParentSymbols)
    BY <2>1, <2>3, Joined
  <2> QED
    BY <2>1, <2>4
<1>4. s.parent = <<>> => p = <<"space">>
  OBVIOUS
<1>5. Written(s) = F \o m \o G \o p \o r
  BY DEF Written
<1>6. F \in Seq(Symbols) /\ m \in Seq(Symbols) /\ G \in Seq(Symbols)
  <2>1. FormSymbols \subseteq Symbols /\ PathSymbols \subseteq Symbols
    BY DEF Symbols, PathSymbols, TokenSymbols, FormSymbols
  <2>2. F \in Seq(FormSymbols) /\ G \in Seq(FormSymbols) /\ m \in Seq(PathSymbols)
    BY <1>1, <1>2
  <2>3. F \in Seq(Symbols)
    BY <2>1, <2>2, WiderSeq, Zenon
  <2>4. G \in Seq(Symbols)
    BY <2>1, <2>2, WiderSeq, Zenon
  <2>5. m \in Seq(Symbols)
    BY <2>1, <2>2, WiderSeq, Zenon
  <2> QED
    BY <2>3, <2>4, <2>5
<1>7. Pieces(F, m, G, F \o m \o G \o p \o r, r, s.parent)
  BY <1>1, <1>2, <1>3, <1>4, <1>6, PiecesCompose
<1> QED
  <2>1. Pieces(Form[s.form][1], s.module, Form[s.form][2], Written(s), s.rest, s.parent)
    BY <1>5, <1>7
  <2> QED
    BY <2>1, Zenon DEF Pieces, Composed

-----------------------------------------------------------------------------
(* What the predicates find in a text.                                      *)

\* The phrases of the forms.
Spoken == Phrases \ {"parent module:"}

\* The symbols of a form.
Signs ==
  [enter        |-> {"ldrloaddll", "- enter", "dll name:", "space"},
   return       |-> {"ldrloaddll", "- return", "space"},
   process_work |-> {"ldrpprocesswork", "- error:", "unable to load dll", ":", "space", "\"", ","},
   load_work    |-> {"- error:", "unable to load dll", ":", "space", ","},
   init_routine |-> {"ldrpinitializenode", "- error:", "init routine", "\"", "space", "failed",
                     "during dll_process_attach"},
   import_walk  |-> {"- error:", "walking the import tables", "failed"},
   init_failed  |-> {"_ldrpinitialize", "- error:", "process initialization", "failed", "space"},
   load_failed  |-> {"ldrloaddll", "failed", "space"},
   search_path  |-> {"ldrpsearchpath", "- return", "space"},
   internal     |-> {"ldrploaddllinternal", "- error:", "space"},
   known_dll    |-> {"ldrpfindknowndll", "- return", "space"}]

\* Signs has every symbol that a form has around the module.
LEMMA FormSigns ==
  ASSUME NEW f \in DOMAIN Form
  PROVE  Form[f][1] \in Seq(Signs[f]) /\ Form[f][2] \in Seq(Signs[f])
<1>1. CASE f = "enter"
  BY <1>1 DEF Form, Signs
<1>2. CASE f = "return"
  BY <1>2 DEF Form, Signs
<1>3. CASE f = "process_work"
  BY <1>3 DEF Form, Signs
<1>4. CASE f = "load_work"
  BY <1>4 DEF Form, Signs
<1>5. CASE f = "init_routine"
  BY <1>5 DEF Form, Signs
<1>6. CASE f = "import_walk"
  BY <1>6 DEF Form, Signs
<1>7. CASE f = "init_failed"
  BY <1>7 DEF Form, Signs
<1>8. CASE f = "load_failed"
  BY <1>8 DEF Form, Signs
<1>9. CASE f = "search_path"
  BY <1>9 DEF Form, Signs
<1>10. CASE f = "internal"
  BY <1>10 DEF Form, Signs
<1>11. CASE f = "known_dll"
  BY <1>11 DEF Form, Signs
<1> QED
  BY <1>1, <1>2, <1>3, <1>4, <1>5, <1>6, <1>7, <1>8, <1>9, <1>10, <1>11 DEF Form

\* A phrase in a text is one of its form, or leads to the parent.
LEMMA PhraseSigns ==
  ASSUME NEW s \in Sayings, NEW text \in Seq(Symbols), Composed(s, text),
         NEW i \in 1..Len(text), text[i] \in Spoken
  PROVE  text[i] \in Signs[s.form]
<1>. DEFINE F == Form[s.form][1]
            G == Form[s.form][2]
            m == s.module
            a == Len(F)
            b == Len(m)
            g == Len(G)
            c == a + b + g
<1>2. s.form \in DOMAIN Form /\ m \in Seq(PathSymbols)
  BY SayingTyped
<1>3. F \in Seq(Signs[s.form]) /\ G \in Seq(Signs[s.form])
  BY <1>2, FormSigns
<1>5. /\ c = a + b + g /\ Len(text) \in Nat /\ a \in Nat /\ b \in Nat /\ g \in Nat /\ text \in Seq(Symbols) /\ c <= Len(text)
      /\ \A j \in 1..a : text[j] = F[j]
      /\ \A j \in 1..b : text[a + j] = m[j]
      /\ \A j \in 1..g : text[a + b + j] = G[j]
      /\ \A j \in (c + 1)..Len(text) : text[j] \in ParentSymbols \cup DOMAIN Hex
  <2>1. Composed(s, text) /\ g \in Nat
    BY <1>3
  <2>2. /\ a \in Nat /\ b \in Nat /\ c <= Len(text)
        /\ \A j \in 1..a : text[j] = F[j]
        /\ \A j \in 1..b : text[a + j] = m[j]
        /\ \A j \in 1..g : text[a + b + j] = G[j]
        /\ \A j \in (c + 1)..Len(text) : text[j] \in ParentSymbols \cup DOMAIN Hex
    BY <2>1, Zenon DEF Composed
  <2>3. c = a + b + g /\ Len(text) \in Nat
    OBVIOUS
  <2> QED
    BY <2>1, <2>2, <2>3, Zenon
<1>6. /\ \A j \in 1..a : F[j] \in Signs[s.form]
      /\ \A j \in 1..b : m[j] \in PathSymbols
      /\ \A j \in 1..g : G[j] \in Signs[s.form]
  <2>1. \A S : \A x \in Seq(S) : \A j \in 1..Len(x) : x[j] \in S
    OBVIOUS
  <2> QED
    BY <1>2, <1>3, <2>1, Zenon
<1>. HIDE DEF F, G, m, a, b, c, g
<1>7. \A x \in ParentSymbols \cup DOMAIN Hex : x \notin Spoken
  BY SymbolSorts DEF Spoken, ParentSymbols, PathSymbols, TokenSymbols, Slashes, Phrases
<1>8. CASE i <= a
  BY <1>5, <1>6, <1>8
<1>9. CASE i > a /\ i <= a + b
  <2>1. i - a \in 1..b /\ a + (i - a) = i
    BY <1>5, <1>9
  <2>2. text[i] = m[i - a]
    BY <1>5, <2>1
  <2> QED
    BY <1>6, <1>7, <2>1, <2>2 DEF ParentSymbols
<1>10. CASE i > a + b /\ i <= c
  <2>1. i - (a + b) \in 1..g /\ a + b + (i - (a + b)) = i
    BY <1>5, <1>10
  <2>2. text[i] = G[i - (a + b)]
    BY <1>5, <2>1
  <2> QED
    BY <1>6, <2>1, <2>2
<1>11. CASE i > c
  <2>1. i \in (c + 1)..Len(text)
    BY <1>5, <1>11
  <2> QED
    BY <1>5, <1>7, <2>1
<1> QED
  BY <1>5, <1>8, <1>9, <1>10, <1>11

PlacesOfPair(text, p, q) ==
  Places(text, <<p, q>>) = {i \in 1..(Len(text) - 1) : text[i] = p /\ text[i + 1] = q}

\* A phrase of two symbols is where they stand side by side.
LEMMA PairPlaces ==
  ASSUME NEW text \in Seq(Symbols), NEW p, NEW q
  PROVE  PlacesOfPair(text, p, q)
<1>1. Len(<<p, q>>) = 2 /\ Len(text) \in Nat
  OBVIOUS
<1>2. 1..(Len(text) - Len(<<p, q>>) + 1) = 1..(Len(text) - 1)
  BY <1>1
<1>3. \A i \in 1..(Len(text) - 1) : i + Len(<<p, q>>) - 1 = i + 1
  BY <1>1
<1>4. ASSUME NEW i \in 1..(Len(text) - 1)
      PROVE  SubSeq(text, i, i + 1) = <<p, q>> <=> text[i] = p /\ text[i + 1] = q
  <2>. DEFINE t == SubSeq(text, i, i + 1)
  <2>1. t \in Seq(Symbols) /\ Len(t) = 2 /\ t[1] = text[i] /\ t[2] = text[i + 1]
    OBVIOUS
  <2>. HIDE DEF t
  <2>2. t = <<t[1], t[2]>>
    BY <2>1
  <2>3. t = <<p, q>> => t[1] = p /\ t[2] = q
    OBVIOUS
  <2>4. t[1] = p /\ t[2] = q => t = <<p, q>>
    BY <2>2
  <2>5. t = <<p, q>> <=> text[i] = p /\ text[i + 1] = q
    BY <2>1, <2>3, <2>4, Zenon
  <2> QED
    BY <2>5 DEF t
<1> QED
  BY <1>2, <1>3, <1>4, Zenon DEF Places, PlacesOfPair

\* It occurs if there is such a place.
LEMMA PairOccurs ==
  ASSUME NEW text \in Seq(Symbols), NEW p, NEW q
  PROVE  Occurs(text, <<p, q>>) <=> \E i \in 1..(Len(text) - 1) : text[i] = p /\ text[i + 1] = q
<1>1. PlacesOfPair(text, p, q)
  BY PairPlaces, Zenon
<1> QED
  BY <1>1, Zenon DEF PlacesOfPair, Occurs

\* A phrase that is not of the form is not in the text.
LEMMA Unheard ==
  ASSUME NEW s \in Sayings, NEW text \in Seq(Symbols), Composed(s, text),
         NEW p \in Spoken, p \notin Signs[s.form]
  PROVE  /\ \A i \in 1..Len(text) : text[i] # p
         /\ \A q : ~Occurs(text, <<p, q>>) /\ ~Occurs(text, <<q, p>>)
<1>1. \A i \in 1..Len(text) : text[i] # p
  BY PhraseSigns
<1>2. ASSUME NEW q PROVE ~Occurs(text, <<p, q>>) /\ ~Occurs(text, <<q, p>>)
  <2>1. \A i \in 1..(Len(text) - 1) : text[i] # p /\ text[i + 1] # p
    BY <1>1
  <2> QED
    BY <2>1, PairOccurs
<1> QED
  BY <1>1, <1>2

\* What the form has before and behind the module is in the text.
LEMMA Heard ==
  ASSUME NEW s \in Sayings, NEW text \in Seq(Symbols), Composed(s, text),
         NEW n \in {1, 2}, NEW j \in 1..Len(Form[s.form][n])
  PROVE  /\ \E i \in 1..Len(text) : text[i] = Form[s.form][n][j]
         /\ j < Len(Form[s.form][n]) =>
              Occurs(text, <<Form[s.form][n][j], Form[s.form][n][j + 1]>>)
<1>. DEFINE F == Form[s.form][1]
            G == Form[s.form][2]
            H == Form[s.form][n]
            a == Len(F)
            b == Len(s.module)
            g == Len(G)
            h == Len(H)
<1>1. s.form \in DOMAIN Form
  BY SayingTyped
<1>2. G \in Seq(Signs[s.form]) /\ F \in Seq(Signs[s.form])
  BY <1>1, FormSigns
<1>3. /\ a \in Nat /\ b \in Nat /\ g \in Nat /\ a + b + g <= Len(text)
      /\ \A k \in 1..a : text[k] = F[k]
      /\ \A k \in 1..g : text[a + b + k] = G[k]
  <2>1. Composed(s, text) /\ g \in Nat
    BY <1>2
  <2>2. /\ a \in Nat /\ b \in Nat /\ a + b + g <= Len(text)
        /\ \A k \in 1..a : text[k] = F[k]
        /\ \A k \in 1..g : text[a + b + k] = G[k]
    BY <2>1, Zenon DEF Composed
  <2> QED
    BY <2>1, <2>2
<1>4. \E o \in Nat : o + h <= Len(text) /\ \A k \in 1..h : text[o + k] = H[k]
  <2>1. CASE n = 1
    <3>1. h = a /\ H = F
      BY <2>1
    <3>. HIDE DEF F, G, H, a, b, g, h
    <3>2. 0 + h <= Len(text) /\ \A k \in 1..h : text[0 + k] = H[k]
      BY <1>3, <3>1
    <3> QED
      BY <3>2
  <2>2. CASE n = 2
    <3>1. h = g /\ H = G
      BY <2>2
    <3>. HIDE DEF F, G, H, a, b, g, h
    <3>2. (a + b) + h <= Len(text) /\ \A k \in 1..h : text[(a + b) + k] = H[k]
      BY <1>3, <3>1
    <3>3. a + b \in Nat
      BY <1>3
    <3> QED
      BY <3>2, <3>3
  <2> QED
    BY <2>1, <2>2
<1>5. PICK o \in Nat : o + h <= Len(text) /\ \A k \in 1..h : text[o + k] = H[k]
  BY <1>4
<1>6. h \in Nat /\ j \in 1..h
  BY <1>2
<1>7. H = Form[s.form][n] /\ h = Len(Form[s.form][n])
  OBVIOUS
<1>. HIDE DEF F, G, H, a, b, g, h
<1>8. H[j] = text[o + j] /\ o + j \in 1..Len(text)
  BY <1>5, <1>6
<1>9. ASSUME j < h PROVE Occurs(text, <<H[j], H[j + 1]>>)
  <2>1. j + 1 \in 1..h /\ o + j \in 1..(Len(text) - 1) /\ o + (j + 1) = (o + j) + 1
    BY <1>5, <1>6, <1>9
  <2>2. text[(o + j) + 1] = H[j + 1]
    BY <1>5, <2>1
  <2> QED
    BY <1>8, <2>1, <2>2, PairOccurs
<1> QED
  BY <1>7, <1>8, <1>9

Told(s, text) == s \in Sayings /\ text \in Seq(Symbols) /\ Composed(s, text)

\* A phrase that is found is one of the form.
LEMMA SignFound ==
  ASSUME NEW s, NEW text, Told(s, text), NEW p \in Spoken
  PROVE  /\ HasOneOf(text, {p}) => p \in Signs[s.form]
         /\ \A q : Occurs(text, <<p, q>>) => p \in Signs[s.form]
         /\ \A q : Occurs(text, <<q, p>>) => p \in Signs[s.form]
<1>1. s \in Sayings /\ text \in Seq(Symbols) /\ Composed(s, text) /\ DOMAIN text = 1..Len(text)
  BY DEF Told
<1>2. ASSUME p \notin Signs[s.form]
      PROVE  /\ \A i \in 1..Len(text) : text[i] # p
             /\ \A q : ~Occurs(text, <<p, q>>) /\ ~Occurs(text, <<q, p>>)
  BY <1>1, <1>2, Unheard, Zenon
<1> QED
  BY <1>1, <1>2, Zenon DEF HasOneOf

\* Which forms a symbol that the predicates look for is of.
LEMMA SignsOf ==
  ASSUME NEW f \in DOMAIN Form
  PROVE  /\ "dll name:" \in Signs[f] => f = "enter"
         /\ "- enter" \in Signs[f] => f = "enter"
         /\ "- return" \in Signs[f] => f \in {"return", "search_path", "known_dll"}
         /\ "ldrloaddll" \in Signs[f] => f \in {"enter", "return", "load_failed"}
         /\ "ldrploaddllinternal" \in Signs[f] => f = "internal"
         /\ "ldrpfindknowndll" \in Signs[f] => f = "known_dll"
         /\ "unable to load dll" \in Signs[f] => f \in {"process_work", "load_work"}
         /\ "walking the import tables" \in Signs[f] => f = "import_walk"
         /\ "process initialization" \in Signs[f] => f = "init_failed"
         /\ "_ldrpinitialize" \in Signs[f] => f = "init_failed"
         /\ "ldrpinitializenode" \in Signs[f] => f = "init_routine"
         /\ "ldrpsearchpath" \in Signs[f] => f = "search_path"
         /\ "failed" \in Signs[f] => f \in {"init_routine", "import_walk", "init_failed", "load_failed"}
         /\ "- error:" \in Signs[f] =>
              f \in {"process_work", "load_work", "init_routine", "import_walk", "init_failed", "internal"}
         /\ {"loadlibrary", "ldrpresolvedllname", "ldrpresolvefilename", "ldrpreporterror",
             "ldrpfindloadeddllinternal", "- warning: locating export"} \cap Signs[f] = {}
<1>1. CASE f = "enter"
  BY <1>1 DEF Signs
<1>2. CASE f = "return"
  BY <1>2 DEF Signs
<1>3. CASE f = "process_work"
  BY <1>3 DEF Signs
<1>4. CASE f = "load_work"
  BY <1>4 DEF Signs
<1>5. CASE f = "init_routine"
  BY <1>5 DEF Signs
<1>6. CASE f = "import_walk"
  BY <1>6 DEF Signs
<1>7. CASE f = "init_failed"
  BY <1>7 DEF Signs
<1>8. CASE f = "load_failed"
  BY <1>8 DEF Signs
<1>9. CASE f = "search_path"
  BY <1>9 DEF Signs
<1>10. CASE f = "internal"
  BY <1>10 DEF Signs
<1>11. CASE f = "known_dll"
  BY <1>11 DEF Signs
<1> QED
  BY <1>1, <1>2, <1>3, <1>4, <1>5, <1>6, <1>7, <1>8, <1>9, <1>10, <1>11 DEF Form

\* What the predicates look for are phrases of the loader.
LEMMA SpokenOnes ==
  {"dll name:", "loadlibrary", "- enter", "- return", "- error:", "- warning: locating export",
   "failed", "during dll_process_attach", "init routine", "process initialization",
   "unable to load dll", "walking the import tables",
   "ldrloaddll", "ldrploaddllinternal", "ldrpprocesswork", "ldrpinitializenode",
   "_ldrpinitialize", "ldrpsearchpath", "ldrpfindknowndll", "ldrpresolvedllname",
   "ldrpresolvefilename", "ldrpfindloadeddllinternal", "ldrpreporterror"} \subseteq Spoken
  BY DEF Spoken, Phrases

\* looks_like_load_attempt finds the entries into LdrLoadDll that name a DLL.
LEMMA Attempting ==
  ASSUME NEW s, NEW text, Told(s, text)
  PROVE  LooksLikeLoadAttempt(text) <=> s.form = "enter" /\ HasOneOf(text, {".dll"})
<1>1. s.form \in DOMAIN Form
  BY SayingTyped DEF Told
<1>2. ASSUME LooksLikeLoadAttempt(text) PROVE s.form = "enter"
  <2>1. \/ HasOneOf(text, {"dll name:"}) \/ HasOneOf(text, {"loadlibrary"})
        \/ Occurs(text, <<"ldrloaddll", "- enter">>)
    BY <1>2, Zenon DEF LooksLikeLoadAttempt, HasOneOf
  <2>2. {"dll name:", "loadlibrary", "- enter"} \subseteq Spoken
    BY SpokenOnes, Zenon
  <2>3. "dll name:" \in Signs[s.form] \/ "loadlibrary" \in Signs[s.form] \/ "- enter" \in Signs[s.form]
    BY <2>1, <2>2, SignFound, Zenon
  <2> QED
    BY <1>1, <2>3, SignsOf
<1>3. ASSUME s.form = "enter" PROVE HasOneOf(text, {"dll name:"})
  <2>1. Form[s.form][1][3] = "dll name:" /\ 3 \in 1..Len(Form[s.form][1])
    BY <1>3 DEF Form
  <2>2. \E i \in 1..Len(text) : text[i] = Form[s.form][1][3]
    BY <2>1, Heard DEF Told
  <2>3. DOMAIN text = 1..Len(text)
    BY DEF Told
  <2> QED
    BY <2>1, <2>2, <2>3, Zenon DEF HasOneOf
<1>4. HasOneOf(text, {"dll name:"}) => HasOneOf(text, {"dll name:", "loadlibrary"})
  BY Zenon DEF HasOneOf
<1> QED
  BY <1>2, <1>3, <1>4, Zenon DEF LooksLikeLoadAttempt

\* Only a line of the return form returns from a load.
LEMMA Returning ==
  ASSUME NEW s, NEW text, Told(s, text), IsLoadReturn(text)
  PROVE  s.form = "return"
<1>1. s.form \in DOMAIN Form
  BY SayingTyped DEF Told
<1>2. \/ Occurs(text, <<"ldrloaddll", "- return">>)
      \/ Occurs(text, <<"ldrploaddllinternal", "- return">>)
  BY Zenon DEF IsLoadReturn
<1>3. {"ldrloaddll", "ldrploaddllinternal", "- return"} \subseteq Spoken
  BY SpokenOnes, Zenon
<1>4. "- return" \in Signs[s.form] /\ ("ldrloaddll" \in Signs[s.form] \/ "ldrploaddllinternal" \in Signs[s.form])
  BY <1>2, <1>3, SignFound, Zenon
<1> QED
  BY <1>1, <1>4, SignsOf

\* is_ignored_probe_line finds the probes for a known DLL.
LEMMA Probing ==
  ASSUME NEW s, NEW text, Told(s, text)
  PROVE  IsIgnoredProbeLine(text) <=> s.form = "known_dll"
<1>1. s.form \in DOMAIN Form
  BY SayingTyped DEF Told
<1>2. ASSUME IsIgnoredProbeLine(text) PROVE s.form = "known_dll"
  <2>1. \/ Occurs(text, <<"ldrpfindknowndll", "- return">>)
        \/ Occurs(text, <<"ldrpresolvedllname", "- return">>)
        \/ Occurs(text, <<"ldrpresolvefilename", "- return">>)
        \/ Occurs(text, <<"ldrpfindloadeddllinternal", "- return">>)
        \/ Occurs(text, <<"ldrpreporterror", "- warning: locating export">>)
    BY <1>2, Zenon DEF IsIgnoredProbeLine
  <2>2. {"ldrpfindknowndll", "ldrpresolvedllname", "ldrpresolvefilename",
         "ldrpfindloadeddllinternal", "ldrpreporterror"} \subseteq Spoken
    BY SpokenOnes, Zenon
  <2>3. \/ "ldrpfindknowndll" \in Signs[s.form]
        \/ "ldrpresolvedllname" \in Signs[s.form]
        \/ "ldrpresolvefilename" \in Signs[s.form]
        \/ "ldrpfindloadeddllinternal" \in Signs[s.form]
        \/ "ldrpreporterror" \in Signs[s.form]
    BY <2>1, <2>2, SignFound, Zenon
  <2> QED
    BY <1>1, <2>3, SignsOf
<1>3. ASSUME s.form = "known_dll" PROVE Occurs(text, <<"ldrpfindknowndll", "- return">>)
  <2>1. /\ Form[s.form][1][1] = "ldrpfindknowndll" /\ Form[s.form][1][1 + 1] = "- return"
        /\ 1 \in 1..Len(Form[s.form][1]) /\ 1 < Len(Form[s.form][1])
    BY <1>3 DEF Form
  <2>2. Occurs(text, <<Form[s.form][1][1], Form[s.form][1][1 + 1]>>)
    BY <2>1, Heard DEF Told
  <2> QED
    BY <2>1, <2>2
<1> QED
  BY <1>2, <1>3, Zenon DEF IsIgnoredProbeLine

\* What PatternOf looks for.
Unable(text) == Occurs(text, <<"- error:", "unable to load dll">>)
Walks(text) == HasOneOf(text, {"walking the import tables"})
Inits(text) ==
  \/ Occurs(text, <<"process initialization", "failed">>)
  \/ Occurs(text, <<"_ldrpinitialize", "- error:">>)
FailsToLoad(text) == HasOneOf(text, {"ldrloaddll"}) /\ HasOneOf(text, {"failed"})
FailsInRoutine(text) ==
  /\ Occurs(text, <<"ldrpinitializenode", "- error:", "init routine">>)
  /\ Occurs(text, <<"failed", "during dll_process_attach">>)
Searches(text) == Occurs(text, <<"ldrpsearchpath", "- return">>)
Reports(text) == HasOneOf(text, {"failed", "- error:", "ldrpreporterror"})

\* Whether PatternOf finds something depends on these.
LEMMA PatternFound ==
  ASSUME NEW text
  PROVE  /\ Unable(text) \/ FailsInRoutine(text) \/ Walks(text) \/ Inits(text) \/ FailsToLoad(text)
              => PatternOf(text) \in Patterns
         /\ PatternOf(text) # None =>
              \/ Unable(text) \/ FailsInRoutine(text) \/ Walks(text) \/ Inits(text)
              \/ FailsToLoad(text) \/ Searches(text) \/ Reports(text)
<1>. DEFINE b1 == Unable(text) /\ Occurs(text, <<"ldrpprocesswork", "- error:">>)
            b2 == Unable(text)
            b3 == FailsInRoutine(text)
            b4 == Walks(text) /\ FailsToLoad(text)
            b5 == Walks(text)
            b6 == Inits(text) /\ FailsToLoad(text)
            b7 == Inits(text)
            b8 == FailsToLoad(text)
            b9 == Searches(text) /\ HasLoaderFailureCode(text)
            context == \/ HasOneOf(text, {"ldrloaddll", "ldrploaddllinternal", "loadlibrary",
                                    "unable to load dll", "dll name:", "ldrpsearchpath",
                                    "_ldrpinitialize"})
                       \/ Walks(text) \/ Inits(text)
            b10 == HasLoaderFailureCode(text) /\ context /\ Reports(text)
            tests == <<<<"process_work", b1>>, <<"unable_to_load", b2>>, <<"init_routine", b3>>,
                       <<"load_import_walk", b4>>, <<"import_walk", b5>>, <<"load_init_failed", b6>>,
                       <<"init_failed", b7>>, <<"ldrloaddll_failed", b8>>, <<"search_path", b9>>,
                       <<"context", b10>>>>
            hits == {n \in DOMAIN tests : tests[n][2]}
<1>11. PatternOf(text) = IF hits = {} THEN None ELSE tests[Least(hits)][1]
  BY Zenon DEF PatternOf, Unable, FailsInRoutine, Walks, Inits, FailsToLoad, Searches, Reports
<1>12. /\ b1 \in BOOLEAN /\ b2 \in BOOLEAN /\ b3 \in BOOLEAN /\ b4 \in BOOLEAN /\ b5 \in BOOLEAN
       /\ b6 \in BOOLEAN /\ b7 \in BOOLEAN /\ b8 \in BOOLEAN /\ b9 \in BOOLEAN /\ b10 \in BOOLEAN
  BY DEF Unable, FailsInRoutine, Walks, Inits, FailsToLoad, Searches, Reports, Occurs, HasOneOf, HasLoaderFailureCode
<1>. HIDE DEF b1, b2, b3, b4, b5, b6, b7, b8, b9, b10
<1>1. DOMAIN tests = 1..10
  OBVIOUS
<1>2. /\ tests[1][2] = b1 /\ tests[2][2] = b2 /\ tests[3][2] = b3 /\ tests[4][2] = b4
      /\ tests[5][2] = b5 /\ tests[6][2] = b6 /\ tests[7][2] = b7 /\ tests[8][2] = b8
      /\ tests[9][2] = b9 /\ tests[10][2] = b10
  OBVIOUS
<1>3. /\ tests[1][1] \in Patterns /\ tests[2][1] \in Patterns /\ tests[3][1] \in Patterns
      /\ tests[4][1] \in Patterns /\ tests[5][1] \in Patterns /\ tests[6][1] \in Patterns
      /\ tests[7][1] \in Patterns /\ tests[8][1] \in Patterns /\ tests[9][1] \in Patterns
      /\ tests[10][1] \in Patterns
  BY DEF Patterns
<1>. HIDE DEF tests
<1>4. \A n \in 1..10 : n = 1 \/ n = 2 \/ n = 3 \/ n = 4 \/ n = 5 \/ n = 6 \/ n = 7 \/ n = 8 \/ n = 9 \/ n = 10
  OBVIOUS
<1>5. {1, 2, 3, 4, 5, 6, 7, 8, 9, 10} \subseteq DOMAIN tests
  BY <1>1
<1>6. hits = {} <=> ~(b1 \/ b2 \/ b3 \/ b4 \/ b5 \/ b6 \/ b7 \/ b8 \/ b9 \/ b10)
  <2>1. ASSUME hits # {} PROVE b1 \/ b2 \/ b3 \/ b4 \/ b5 \/ b6 \/ b7 \/ b8 \/ b9 \/ b10
    <3>1. PICK n \in 1..10 : tests[n][2]
      BY <1>1, <2>1
    <3> QED
      BY <1>2, <1>4, <3>1, Zenon
  <2>2. b1 => 1 \in hits
    BY <1>2, <1>5, Zenon
  <2>3. b2 => 2 \in hits
    BY <1>2, <1>5, Zenon
  <2>4. b3 => 3 \in hits
    BY <1>2, <1>5, Zenon
  <2>5. b4 => 4 \in hits
    BY <1>2, <1>5, Zenon
  <2>6. b5 => 5 \in hits
    BY <1>2, <1>5, Zenon
  <2>7. b6 => 6 \in hits
    BY <1>2, <1>5, Zenon
  <2>8. b7 => 7 \in hits
    BY <1>2, <1>5, Zenon
  <2>9. b8 => 8 \in hits
    BY <1>2, <1>5, Zenon
  <2>10. b9 => 9 \in hits
    BY <1>2, <1>5, Zenon
  <2>11. b10 => 10 \in hits
    BY <1>2, <1>5, Zenon
  <2>. HIDE DEF hits
  <2> QED
    BY <2>1, <2>2, <2>3, <2>4, <2>5, <2>6, <2>7, <2>8, <2>9, <2>10, <2>11, Zenon
<1>7. ASSUME hits # {} PROVE tests[Least(hits)][1] \in Patterns
  <2>1. hits \in SUBSET Nat
    BY <1>1
  <2>2. Least(hits) \in hits
    BY <1>7, <2>1, LeastIs
  <2>3. Least(hits) \in 1..10
    BY <1>1, <2>2
  <2> QED
    BY <1>3, <1>4, <2>3, Zenon
<1>. HIDE DEF hits
<1>8. b1 \/ b2 \/ b3 \/ b4 \/ b5 \/ b6 \/ b7 \/ b8 => PatternOf(text) \in Patterns
  BY <1>11, <1>6, <1>7, Zenon
<1>9. PatternOf(text) # None => b1 \/ b2 \/ b3 \/ b4 \/ b5 \/ b6 \/ b7 \/ b8 \/ b9 \/ b10
  BY <1>11, <1>6, Zenon
<1> QED
  BY <1>8, <1>9, Zenon DEF b1, b2, b3, b4, b5, b6, b7, b8, b9, b10

\* Three symbols side by side are a phrase that occurs.
LEMMA TripleOccurs ==
  ASSUME NEW text \in Seq(Symbols), NEW i \in Nat \ {0}, i + 2 <= Len(text)
  PROVE  Occurs(text, <<text[i], text[i + 1], text[i + 2]>>)
<1>. DEFINE t == SubSeq(text, i, i + 2)
            w == <<text[i], text[i + 1], text[i + 2]>>
<1>1. t \in Seq(Symbols) /\ Len(t) = 3 /\ t[1] = text[i] /\ t[2] = text[i + 1] /\ t[3] = text[i + 2]
  OBVIOUS
<1>2. Len(w) = 3 /\ Len(text) \in Nat
  OBVIOUS
<1>3. t = w
  <2>. HIDE DEF t
  <2>1. t = <<t[1], t[2], t[3]>>
    BY <1>1
  <2> QED
    BY <1>1, <2>1
<1>. HIDE DEF w
<1>4. i + Len(w) - 1 = i + 2 /\ i \in 1..(Len(text) - Len(w) + 1)
  BY <1>2
<1>5. i \in Places(text, w)
  BY <1>3, <1>4, Zenon DEF Places, t
<1> QED
  BY <1>5, Zenon DEF Occurs, w

\* What the form says, in the text.
LEMMA HeardAt ==
  ASSUME NEW s, NEW text, Told(s, text), NEW n \in {1, 2}, NEW j \in Nat \ {0},
         j <= Len(Form[s.form][n]), NEW p, Form[s.form][n][j] = p
  PROVE  HasOneOf(text, {p})
<1>1. j \in 1..Len(Form[s.form][n])
  <2>1. s.form \in DOMAIN Form
    BY SayingTyped DEF Told
  <2>2. Form[s.form][n] \in Seq(FormSymbols)
    BY <2>1, FormIs
  <2> QED
    BY <2>2
<1>2. \E i \in 1..Len(text) : text[i] = Form[s.form][n][j]
  BY <1>1, Heard DEF Told
<1>3. DOMAIN text = 1..Len(text)
  BY DEF Told
<1> QED
  BY <1>2, <1>3, Zenon DEF HasOneOf

\* Two symbols side by side in a form are so in the text.
LEMMA HeardPair ==
  ASSUME NEW s, NEW text, Told(s, text), NEW n \in {1, 2}, NEW j \in Nat \ {0},
         j < Len(Form[s.form][n]), NEW p, NEW q,
         Form[s.form][n][j] = p, Form[s.form][n][j + 1] = q
  PROVE  Occurs(text, <<p, q>>)
<1>1. j \in 1..Len(Form[s.form][n])
  <2>1. s.form \in DOMAIN Form
    BY SayingTyped DEF Told
  <2>2. Form[s.form][n] \in Seq(FormSymbols)
    BY <2>1, FormIs
  <2> QED
    BY <2>2
<1> QED
  BY <1>1, Heard DEF Told

\* Numbers that the next proof counts with.
LEMMA Small == 1 \in {1, 2} /\ 2 \in {1, 2} /\ {1, 2, 3, 4} \subseteq Nat \ {0}
  OBVIOUS

\* A line that says a failure matches a pattern.
LEMMA FailingPattern ==
  ASSUME NEW s, NEW text, Told(s, text), s.form \in Failing
  PROVE  PatternOf(text) \in Patterns
<1>1. CASE s.form = "process_work"
  <2>1. Form[s.form][1][2] = "- error:" /\ Form[s.form][1][2 + 1] = "unable to load dll" /\ 2 < Len(Form[s.form][1])
    BY <1>1 DEF Form
  <2>2. Occurs(text, <<"- error:", "unable to load dll">>)
    BY <2>1, Small, HeardPair, Zenon
  <2>3. Unable(text)
    BY <2>2, Zenon DEF Unable
  <2> QED
    BY <2>3, PatternFound
<1>2. CASE s.form = "load_work"
  <2>1. Form[s.form][1][1] = "- error:" /\ Form[s.form][1][1 + 1] = "unable to load dll" /\ 1 < Len(Form[s.form][1])
    BY <1>2 DEF Form
  <2>2. Occurs(text, <<"- error:", "unable to load dll">>)
    BY <2>1, Small, HeardPair, Zenon
  <2>3. Unable(text)
    BY <2>2, Zenon DEF Unable
  <2> QED
    BY <2>3, PatternFound
<1>3. CASE s.form = "init_routine"
  <2>1. /\ Form[s.form][2][3] = "failed" /\ Form[s.form][2][3 + 1] = "during dll_process_attach"
        /\ 3 < Len(Form[s.form][2])
    BY <1>3 DEF Form
  <2>2. Occurs(text, <<"failed", "during dll_process_attach">>)
    BY <2>1, Small, HeardPair, Zenon
  <2>3. /\ text \in Seq(Symbols) /\ 1 + 2 <= Len(text)
        /\ text[1] = "ldrpinitializenode" /\ text[1 + 1] = "- error:" /\ text[1 + 2] = "init routine"
    <3>1. text \in Seq(Symbols) /\ Composed(s, text)
      BY DEF Told
    <3>2. /\ Len(Form[s.form][1]) <= Len(text)
          /\ \A i \in 1..Len(Form[s.form][1]) : text[i] = Form[s.form][1][i]
      <4>1. Form[s.form][2] \in Seq(FormSymbols) /\ Form[s.form][1] \in Seq(FormSymbols)
        BY SayingTyped, FormIs DEF Told
      <4>2. /\ Len(Form[s.form][1]) + Len(s.module) <= Len(Form[s.form][1]) + Len(s.module) + Len(Form[s.form][2])
            /\ Len(Form[s.form][1]) + Len(s.module) + Len(Form[s.form][2]) <= Len(text)
            /\ Len(s.module) \in Nat
            /\ \A i \in 1..Len(Form[s.form][1]) : text[i] = Form[s.form][1][i]
        BY <3>1, Zenon DEF Composed
      <4>3. Len(Form[s.form][1]) \in Nat /\ Len(Form[s.form][2]) \in Nat /\ Len(text) \in Nat
        BY <3>1, <4>1
      <4>. DEFINE x == Len(Form[s.form][1])
                  y == Len(s.module)
                  z == Len(Form[s.form][2])
                  w == Len(text)
      <4>4. x + y <= x + y + z /\ x + y + z <= w /\ x \in Nat /\ y \in Nat /\ z \in Nat /\ w \in Nat
        BY <4>2, <4>3, Zenon
      <4>. HIDE DEF x, y, z, w
      <4>5. x <= w
        BY <4>4
      <4> QED
        BY <4>2, <4>5, Zenon DEF x, w
    <3>3. /\ Len(Form[s.form][1]) = 4 /\ Form[s.form][1][1] = "ldrpinitializenode"
          /\ Form[s.form][1][2] = "- error:" /\ Form[s.form][1][3] = "init routine"
      BY <1>3 DEF Form
    <3>4. Len(text) \in Nat /\ Len(text) >= 4 /\ \A i \in 1..4 : text[i] = Form[s.form][1][i]
      <4>1. /\ Len(text) \in Nat
            /\ 4 <= Len(text) /\ \A i \in 1..4 : text[i] = Form[s.form][1][i]
        <5>1. Len(text) \in Nat
          BY <3>1
        <5> QED
          BY <5>1, <3>2, <3>3, Zenon
      <4> QED
        BY <4>1
    <3>5. 1 \in 1..4 /\ 1 + 1 \in 1..4 /\ 1 + 2 \in 1..4 /\ 1 + 1 = 2 /\ 1 + 2 = 3
      OBVIOUS
    <3>6. text[1] = "ldrpinitializenode" /\ text[1 + 1] = "- error:" /\ text[1 + 2] = "init routine"
      BY <3>3, <3>4, <3>5, Zenon
    <3>7. 1 + 2 <= Len(text)
      BY <3>4
    <3> QED
      BY <3>1, <3>6, <3>7, Zenon
  <2>4. Occurs(text, <<text[1], text[1 + 1], text[1 + 2]>>)
    BY <2>3, TripleOccurs
  <2>5. FailsInRoutine(text)
    BY <2>2, <2>3, <2>4 DEF FailsInRoutine
  <2> QED
    BY <2>5, PatternFound
<1>4. CASE s.form = "import_walk"
  <2>1. Form[s.form][1][2] = "walking the import tables" /\ 2 <= Len(Form[s.form][1])
    BY <1>4 DEF Form
  <2>2. HasOneOf(text, {"walking the import tables"})
    BY <2>1, Small, HeardAt, Zenon
  <2>3. Walks(text)
    BY <2>2, Zenon DEF Walks
  <2> QED
    BY <2>3, PatternFound
<1>5. CASE s.form = "init_failed"
  <2>1. /\ Form[s.form][1][3] = "process initialization" /\ Form[s.form][1][3 + 1] = "failed"
        /\ 3 < Len(Form[s.form][1])
    BY <1>5 DEF Form
  <2>2. Occurs(text, <<"process initialization", "failed">>)
    BY <2>1, Small, HeardPair, Zenon
  <2>3. Inits(text)
    BY <2>2, Zenon DEF Inits
  <2> QED
    BY <2>3, PatternFound
<1>6. CASE s.form = "load_failed"
  <2>1. Form[s.form][1][1] = "ldrloaddll" /\ Form[s.form][1][2] = "failed" /\ 2 <= Len(Form[s.form][1])
    BY <1>6 DEF Form
  <2>0. 1 <= Len(Form[s.form][1])
    BY <1>6 DEF Form
  <2>2. HasOneOf(text, {"ldrloaddll"})
    BY <2>0, <2>1, Small, HeardAt, Zenon
  <2>4. HasOneOf(text, {"failed"})
    BY <2>1, Small, HeardAt, Zenon
  <2>3. FailsToLoad(text)
    BY <2>2, <2>4, Zenon DEF FailsToLoad
  <2> QED
    BY <2>3, PatternFound
<1> QED
  BY <1>1, <1>2, <1>3, <1>4, <1>5, <1>6 DEF Failing

\* A load attempt or a return is no failure.
LEMMA NoPattern ==
  ASSUME NEW s, NEW text, Told(s, text), s.form \in {"enter", "return"}
  PROVE  PatternOf(text) = None
<1>. DEFINE S == Signs[s.form]
<1>1. /\ "- error:" \notin S /\ "failed" \notin S /\ "ldrpreporterror" \notin S
      /\ "ldrpsearchpath" \notin S /\ "walking the import tables" \notin S
  <2>1. CASE s.form = "enter"
    BY <2>1 DEF Signs
  <2>2. CASE s.form = "return"
    BY <2>2 DEF Signs
  <2> QED
    BY <2>1, <2>2
<1>2. {"- error:", "failed", "ldrpreporterror", "ldrpsearchpath", "walking the import tables"} \subseteq Spoken
  BY SpokenOnes, Zenon
<1>. HIDE DEF S
<1>3. ~Unable(text)
  BY <1>1, <1>2, SignFound, Zenon DEF Unable, S
<1>4. ~Walks(text)
  BY <1>1, <1>2, SignFound, Zenon DEF Walks, S
<1>5. ~Inits(text)
  BY <1>1, <1>2, SignFound, Zenon DEF Inits, S
<1>6. ~FailsToLoad(text)
  BY <1>1, <1>2, SignFound, Zenon DEF FailsToLoad, S
<1>7. ~FailsInRoutine(text)
  BY <1>1, <1>2, SignFound, Zenon DEF FailsInRoutine, S
<1>8. ~Searches(text)
  BY <1>1, <1>2, SignFound, Zenon DEF Searches, S
<1>9. ~Reports(text)
  <2>1. ~HasOneOf(text, {"failed"}) /\ ~HasOneOf(text, {"- error:"}) /\ ~HasOneOf(text, {"ldrpreporterror"})
    BY <1>1, <1>2, SignFound, Zenon DEF S
  <2> QED
    BY <2>1, Zenon DEF Reports, HasOneOf
<1> QED
  BY <1>3, <1>4, <1>5, <1>6, <1>7, <1>8, <1>9, PatternFound, Zenon

-----------------------------------------------------------------------------
(* The names in a text.                                                     *)

\* What a part of a sequence is.
LEMMA PartOf ==
  ASSUME NEW S, NEW s \in Seq(S), NEW i \in 1..(Len(s) + 1), NEW j \in 0..Len(s), i <= j + 1
  PROVE  /\ SubSeq(s, i, j) \in Seq(S) /\ Len(SubSeq(s, i, j)) = j - i + 1
         /\ \A k \in 1..(j - i + 1) : SubSeq(s, i, j)[k] = s[i + k - 1]
  OBVIOUS

\* Part i..j of s is in t, a further on.
Aligned(S, s, t, a, i, j) ==
  /\ s \in Seq(S) /\ t \in Seq(S) /\ a \in Nat /\ i \in Nat \ {0} /\ j \in Nat
  /\ i <= j + 1 /\ j <= Len(s) /\ a + j <= Len(t)
  /\ \A k \in i..j : t[a + k] = s[k]

Shifted(s, t, a, i, j) == SubSeq(t, a + i, a + j) = SubSeq(s, i, j)

\* Aligned parts are equal.
LEMMA SamePart ==
  ASSUME NEW S, NEW s, NEW t, NEW a, NEW i, NEW j, Aligned(S, s, t, a, i, j)
  PROVE  Shifted(s, t, a, i, j)
<1>0. /\ s \in Seq(S) /\ t \in Seq(S) /\ a \in Nat /\ i \in Nat \ {0} /\ j \in Nat
      /\ i <= j + 1 /\ j <= Len(s) /\ a + j <= Len(t)
      /\ \A k \in i..j : t[a + k] = s[k]
  BY Zenon DEF Aligned
<1>. DEFINE u == SubSeq(s, i, j)
            w == SubSeq(t, a + i, a + j)
            n == j - i + 1
<1>1. u \in Seq(S) /\ Len(u) = n /\ \A k \in 1..n : u[k] = s[i + k - 1]
  <2>1. i \in 1..(Len(s) + 1) /\ j \in 0..Len(s)
    BY <1>0
  <2> QED
    BY <1>0, <2>1, PartOf
<1>2. w \in Seq(S) /\ Len(w) = n /\ \A k \in 1..n : w[k] = t[a + i + k - 1]
  <2>1. a + i \in 1..(Len(t) + 1) /\ a + j \in 0..Len(t) /\ a + i <= a + j + 1
    BY <1>0
  <2>2. w \in Seq(S) /\ Len(w) = (a + j) - (a + i) + 1 /\ \A k \in 1..((a + j) - (a + i) + 1) : w[k] = t[(a + i) + k - 1]
    BY <1>0, <2>1, PartOf
  <2>3. (a + j) - (a + i) + 1 = n
    BY <1>0
  <2> QED
    BY <2>2, <2>3
<1>. HIDE DEF u, w
<1>3. \A k \in 1..n : u[k] = w[k]
  <2> SUFFICES ASSUME NEW k \in 1..n PROVE u[k] = w[k]
    OBVIOUS
  <2>1. i + k - 1 \in i..j /\ a + i + k - 1 = a + (i + k - 1)
    BY <1>0
  <2> QED
    BY <1>0, <1>1, <1>2, <2>1
<1>4. u = w
  BY <1>1, <1>2, <1>3
<1> QED
  BY <1>4 DEF u, w, Shifted

\* Where a name starts: its symbols are of a token, without a slash, and what
\* is before them is not.
Starts(text, p, e) ==
  /\ \A k \in p..e : text[k] \in TokenSymbols /\ text[k] \notin Slashes
  /\ text[p] # ":"
  /\ p > 1 => text[p - 1] \notin TokenSymbols \/ text[p - 1] \in Slashes

\* The name that extract_dll_basenames reads is the part from such a start.
LEMMA BasenameFrom ==
  ASSUME NEW S, NEW text \in Seq(S), NEW e \in 1..Len(text), NEW p \in 1..e, Starts(text, p, e)
  PROVE  Basename(text, e) = SubSeq(text, p, e)
<1>1. /\ \A k \in p..e : text[k] \in TokenSymbols /\ text[k] \notin Slashes
      /\ text[p] # ":"
      /\ p > 1 => text[p - 1] \notin TokenSymbols \/ text[p - 1] \in Slashes
  BY DEF Starts
<1>. DEFINE B == {s \in 1..e : \A k \in s..e : text[k] \in TokenSymbols}
            b == Least(B)
            t == SubSeq(text, b, e)
<1>2. b \in 1..p /\ \A k \in b..e : text[k] \in TokenSymbols
  <2>1. p \in B
    BY <1>1
  <2>2. B \in SUBSET Nat
    OBVIOUS
  <2>3. b \in B /\ b <= p
    BY <2>1, <2>2, LeastIs
  <2> QED
    BY <2>3
<1>3. t = Token(text, e)
  BY Zenon DEF Token
<1>. HIDE DEF b, B
<1>. DEFINE q == p - b + 1
            n == e - b + 1
<1>4. /\ t \in Seq(S) /\ Len(t) = n /\ n \in Nat /\ q \in 1..n
      /\ \A k \in 1..n : t[k] = text[b + k - 1]
  <2>1. b \in 1..(Len(text) + 1) /\ e \in 0..Len(text) /\ b <= e + 1 /\ e - b + 1 \in Nat /\ p - b + 1 \in 1..(e - b + 1)
    BY <1>2
  <2>2. t \in Seq(S) /\ Len(t) = e - b + 1 /\ \A k \in 1..(e - b + 1) : t[k] = text[b + k - 1]
    BY <2>1, PartOf
  <2> QED
    BY <2>1, <2>2
<1>. HIDE DEF t
<1>5. \A k \in q..n : t[k] \notin Slashes
  <2> SUFFICES ASSUME NEW k \in q..n PROVE t[k] \notin Slashes
    OBVIOUS
  <2>1. k \in 1..n /\ b + k - 1 \in p..e
    BY <1>2
  <2> QED
    BY <1>1, <1>4, <2>1
<1>6. q > 1 => t[q - 1] \in Slashes
  <2> SUFFICES ASSUME q > 1 PROVE t[q - 1] \in Slashes
    OBVIOUS
  <2>1. q - 1 \in 1..n /\ b + (q - 1) - 1 = p - 1 /\ p - 1 \in b..e /\ p > 1
    BY <1>2
  <2> QED
    BY <1>1, <1>2, <1>4, <2>1
<1>7. q \in Nat /\ n \in Nat /\ 1 <= q /\ q <= n
  BY <1>4
<1>. HIDE DEF q, n
<1>. DEFINE L == {s \in 1..(Len(t) + 1) : \A k \in s..Len(t) : t[k] \notin Slashes}
<1>8. Least(L) = q
  <2>1. q \in L
    BY <1>4, <1>5, <1>7
  <2>2. \A s \in L : q <= s
    <3> SUFFICES ASSUME NEW s \in L, s < q PROVE FALSE
      BY <1>7
    <3>1. q > 1 /\ q - 1 \in s..Len(t)
      BY <1>4, <1>7
    <3> QED
      BY <1>6, <3>1
  <2>3. L \in SUBSET Nat
    OBVIOUS
  <2>. HIDE DEF L
  <2> QED
    BY <2>1, <2>2, <2>3, LeastGiven
<1>9. LastComponent(t) = SubSeq(t, q, n)
  BY <1>4, <1>8, Zenon DEF LastComponent
<1>. HIDE DEF L
<1>. DEFINE u == SubSeq(t, q, n)
            N == {s \in DOMAIN u : u[s] # ":"}
<1>10. u \in Seq(S) /\ Len(u) = n - q + 1 /\ n - q + 1 \in Nat \ {0} /\ u[1] = text[p]
  <2>1. q \in 1..(Len(t) + 1) /\ n \in 0..Len(t) /\ q <= n + 1
    BY <1>4, <1>7
  <2>2. u \in Seq(S) /\ Len(u) = n - q + 1 /\ \A k \in 1..(n - q + 1) : u[k] = t[q + k - 1]
    BY <1>4, <2>1, PartOf
  <2>3. 1 \in 1..(n - q + 1) /\ q + 1 - 1 = q /\ q \in 1..n /\ n - q + 1 \in Nat \ {0}
    BY <1>7
  <2>4. u[1] = t[q]
    BY <2>2, <2>3
  <2>5. t[q] = text[b + q - 1]
    BY <1>4, <2>3
  <2>6. b + q - 1 = p
    BY <1>2 DEF q
  <2> QED
    BY <2>2, <2>3, <2>4, <2>5, <2>6
<1>11. u = SubSeq(text, p, e)
  <2>1. /\ e \in Nat /\ b \in Nat /\ p \in Nat /\ b >= 1 /\ q = p - b + 1 /\ n = e - b + 1 /\ p <= e
    BY <1>2 DEF q, n
  <2>2. b - 1 \in Nat /\ (b - 1) + q = p /\ (b - 1) + n = e
    BY <2>1
  <2>3. \A k \in q..n : text[(b - 1) + k] = t[k]
    <3> SUFFICES ASSUME NEW k \in q..n PROVE text[(b - 1) + k] = t[k]
      OBVIOUS
    <3>1. k \in 1..n /\ (b - 1) + k = b + k - 1
      BY <1>7, <2>1
    <3> QED
      BY <1>4, <3>1
  <2>4. q \in Nat \ {0} /\ n \in Nat /\ q <= n + 1 /\ n <= Len(t) /\ (b - 1) + n <= Len(text)
    BY <1>4, <1>7, <2>2
  <2>. DEFINE o == b - 1
  <2>6. Aligned(S, t, text, o, q, n)
    BY <1>4, <2>2, <2>3, <2>4 DEF Aligned
  <2>. HIDE DEF o
  <2>7. Shifted(t, text, o, q, n)
    BY <2>6, SamePart, Zenon
  <2>5. SubSeq(text, (b - 1) + q, (b - 1) + n) = SubSeq(t, q, n)
    BY <2>7 DEF o, Shifted
  <2> QED
    BY <2>2, <2>5
<1>. HIDE DEF u
<1>12. Least(N) = 1
  <2>1. 1 \in N /\ N \in SUBSET Nat /\ \A s \in N : 1 <= s
    BY <1>1, <1>10
  <2>. HIDE DEF N
  <2> QED
    BY <2>1, LeastGiven
<1>13. Basename(text, e) = SubSeq(u, Least(N), Len(u))
  BY <1>3, <1>9, Zenon DEF Basename, u
<1>. HIDE DEF N
<1>14. SubSeq(u, 1, Len(u)) = u
  BY <1>10
<1> QED
  BY <1>11, <1>12, <1>13, <1>14

\* A plain module ends in its only ".dll", and its name has no mark.
LEMMA PlainIs ==
  ASSUME NEW S, NEW m \in Seq(S), Plain(m)
  PROVE  /\ Len(m) \in Nat \ {0} /\ m[Len(m)] = ".dll"
         /\ \A k \in 1..(Len(m) - 1) : m[k] # ".dll"
         /\ \E L \in 1..Len(m) :
              /\ LastComponent(m) = SubSeq(m, L, Len(m))
              /\ Starts(m, L, Len(m))
<1>. DEFINE b == Len(m)
            B == {s \in 1..(b + 1) : \A k \in s..b : m[k] \notin Slashes}
            L == Least(B)
<1>1. {k \in DOMAIN m : m[k] = ".dll"} = {b}
  BY DEF Plain
<1>2. b \in Nat \ {0} /\ m[b] = ".dll" /\ DOMAIN m = 1..b
  <2>1. b \in DOMAIN m /\ m[b] = ".dll"
    BY <1>1
  <2> QED
    BY <2>1
<1>3. \A k \in 1..(b - 1) : m[k] # ".dll"
  <2> SUFFICES ASSUME NEW k \in 1..(b - 1), m[k] = ".dll" PROVE FALSE
    OBVIOUS
  <2>1. k \in DOMAIN m
    BY <1>2
  <2>2. k = b
    BY <1>1, <2>1
  <2> QED
    BY <1>2, <2>2
<1>4. LastComponent(m) = SubSeq(m, L, b)
  BY Zenon DEF LastComponent
<1>. HIDE DEF b
<1>5. L \in 1..b /\ (\A k \in L..b : m[k] \notin Slashes) /\ (L > 1 => m[L - 1] \in Slashes)
  <2>1. b \in B
    <3>1. \A k \in b..b : k = b
      BY <1>2
    <3>2. ".dll" \notin Slashes
      BY DEF Slashes
    <3> QED
      BY <1>2, <3>1, <3>2
  <2>2. B \in SUBSET Nat
    BY <1>2
  <2>3. L \in B /\ \A s \in B : L <= s
    BY <2>1, <2>2, LeastIs
  <2>. HIDE DEF L
  <2>4. L \in 1..b /\ \A k \in L..b : m[k] \notin Slashes
    BY <1>2, <2>1, <2>3
  <2>5. ASSUME L > 1, m[L - 1] \notin Slashes PROVE FALSE
    <3>1. \A k \in (L - 1)..b : k = L - 1 \/ k \in L..b
      BY <1>2, <2>4
    <3>2. L - 1 \in B
      BY <1>2, <2>4, <2>5, <3>1
    <3> QED
      BY <1>2, <2>3, <2>4, <3>2
  <2> QED
    BY <2>4, <2>5
<1>. DEFINE name == SubSeq(m, L, b)
<1>. HIDE DEF L, B
<1>6. name \in Seq(S) /\ Len(name) = b - L + 1 /\ \A k \in 1..(b - L + 1) : name[k] = m[L + k - 1]
  <2>1. L \in 1..(Len(m) + 1) /\ b \in 0..Len(m) /\ L <= b + 1
    BY <1>2, <1>5 DEF b
  <2> QED
    BY <2>1, PartOf
<1>7. \A k \in DOMAIN name : name[k] \in Word \cup {".dll"}
  BY <1>4, Zenon DEF Plain, b
<1>. HIDE DEF name
<1>8. \A k \in L..b : m[k] \in Word \cup {".dll"}
  <2> SUFFICES ASSUME NEW k \in L..b PROVE m[k] \in Word \cup {".dll"}
    OBVIOUS
  <2>1. k - L + 1 \in 1..(b - L + 1) /\ L + (k - L + 1) - 1 = k
    BY <1>2, <1>5
  <2>2. m[k] = name[k - L + 1] /\ k - L + 1 \in DOMAIN name
    BY <1>6, <2>1
  <2> QED
    BY <1>7, <2>2
<1>9. \A x \in Word \cup {".dll"} : x \in TokenSymbols /\ x # ":"
  BY SymbolSorts DEF TokenSymbols
<1>10. Starts(m, L, b)
  <2>1. \A k \in L..b : m[k] \in TokenSymbols /\ m[k] # ":"
    BY <1>8, <1>9
  <2>2. L \in L..b
    BY <1>2, <1>5
  <2> QED
    BY <1>5, <2>1, <2>2 DEF Starts
<1> QED
  BY <1>2, <1>3, <1>4, <1>5, <1>10 DEF b

\* Where a module stands in a text, with nothing before it that could be of its
\* name.
Holds(S, text, a, m) ==
  /\ text \in Seq(S) /\ m \in Seq(S) /\ a \in Nat /\ a + Len(m) <= Len(text)
  /\ \A k \in 1..Len(m) : text[a + k] = m[k]
  /\ a > 0 => text[a] \notin TokenSymbols

Reads(text, a, m) == Basename(text, a + Len(m)) = LastComponent(m)

\* The name read of a plain module is its last component.
LEMMA PlainBasename ==
  ASSUME NEW S, NEW text, NEW a, NEW m, Holds(S, text, a, m), Plain(m)
  PROVE  Reads(text, a, m)
<1>. DEFINE b == Len(m)
<1>1. /\ text \in Seq(S) /\ m \in Seq(S) /\ a \in Nat /\ a + b <= Len(text)
      /\ \A k \in 1..b : text[a + k] = m[k]
      /\ a > 0 => text[a] \notin TokenSymbols
  BY Zenon DEF Holds
<1>2. PICK L \in 1..b : LastComponent(m) = SubSeq(m, L, b) /\ Starts(m, L, b)
  BY <1>1, PlainIs, Zenon
<1>3. b \in Nat \ {0} /\ b = Len(m)
  BY <1>1, PlainIs
<1>. HIDE DEF b
<1>4. /\ \A k \in L..b : m[k] \in TokenSymbols /\ m[k] \notin Slashes
      /\ m[L] # ":"
      /\ L > 1 => m[L - 1] \notin TokenSymbols \/ m[L - 1] \in Slashes
  BY <1>2 DEF Starts
<1>. DEFINE p == a + L
            e == a + b
<1>5. e \in 1..Len(text) /\ p \in 1..e
  BY <1>1, <1>3
<1>6. Starts(text, p, e)
  <2>1. ASSUME NEW k \in p..e PROVE text[k] \in TokenSymbols /\ text[k] \notin Slashes
    <3>1. k - a \in L..b /\ k - a \in 1..b /\ a + (k - a) = k
      BY <1>1, <1>3
    <3> QED
      BY <1>1, <1>4, <3>1
  <2>2. text[p] # ":"
    BY <1>1, <1>4
  <2>3. ASSUME p > 1 PROVE text[p - 1] \notin TokenSymbols \/ text[p - 1] \in Slashes
    <3>1. CASE L > 1
      <4>1. L - 1 \in 1..b /\ a + (L - 1) = p - 1
        BY <1>1, <1>3, <3>1
      <4> QED
        BY <1>1, <1>4, <3>1, <4>1
    <3>2. CASE L = 1
      <4>1. p - 1 = a /\ a > 0
        BY <1>1, <2>3, <3>2
      <4> QED
        BY <1>1, <4>1
    <3> QED
      BY <1>3, <3>1, <3>2
  <2> QED
    BY <2>1, <2>2, <2>3, Zenon DEF Starts
<1>7. Basename(text, e) = SubSeq(text, p, e)
  <2>. HIDE DEF p, e
  <2> QED
    BY <1>1, <1>5, <1>6, BasenameFrom
<1>8. Aligned(S, m, text, a, L, b)
  <2>1. L \in Nat \ {0} /\ L <= b + 1 /\ \A k \in L..b : k \in 1..b
    BY <1>3
  <2> QED
    BY <1>1, <1>3, <2>1 DEF Aligned
<1>9. SubSeq(text, p, e) = SubSeq(m, L, b)
  <2>1. Shifted(m, text, a, L, b)
    BY <1>8, SamePart, Zenon
  <2> QED
    BY <2>1 DEF Shifted
<1> QED
  BY <1>2, <1>7, <1>9, Zenon DEF Reads, e, b

\* The written module is where its form has it.
LEMMA ModuleHeld ==
  ASSUME NEW s, NEW text, Told(s, text)
  PROVE  Holds(Symbols, text, Len(Form[s.form][1]), s.module)
<1>. DEFINE F == Form[s.form][1]
            G == Form[s.form][2]
            a == Len(F)
            b == Len(s.module)
            g == Len(G)
<1>1. s.form \in DOMAIN Form /\ s.module \in Seq(PathSymbols)
  BY SayingTyped DEF Told
<1>2. F \in Seq(FormSymbols) /\ G \in Seq(FormSymbols) /\ F # <<>>
  BY <1>1, FormIs
<1>3. /\ text \in Seq(Symbols) /\ a + b <= a + b + g /\ a + b + g <= Len(text)
      /\ \A i \in 1..a : text[i] = F[i]
      /\ \A i \in 1..b : text[a + i] = s.module[i]
  <2>1. Composed(s, text) /\ text \in Seq(Symbols)
    BY DEF Told
  <2>2. /\ a + b <= a + b + g /\ a + b + g <= Len(text)
        /\ \A i \in 1..a : text[i] = F[i]
        /\ \A i \in 1..b : text[a + i] = s.module[i]
    BY <2>1, Zenon DEF Composed
  <2> QED
    BY <2>1, <2>2
<1>4. a \in Nat /\ a # 0 /\ b \in Nat /\ g \in Nat /\ Len(text) \in Nat
  <2>. HIDE DEF F, G
  <2> QED
    BY <1>1, <1>2, <1>3
<1>5. s.module \in Seq(Symbols)
  <2>1. PathSymbols \subseteq Symbols
    BY DEF Symbols
  <2> QED
    BY <1>1, <2>1, WiderSeq, Zenon
<1>6. F[a] \notin TokenSymbols
  <2>1. \A x \in {"space", "\"", "failed"} : x \notin TokenSymbols
    BY SymbolSorts DEF TokenSymbols, Slashes, Phrases
  <2>2. F[a] \in {"space", "\"", "failed"}
    BY <1>1, FormIs
  <2> QED
    BY <2>1, <2>2, Zenon
<1>. HIDE DEF a, b, g, F, G
<1>7. a \in 1..a /\ a + b <= Len(text)
  BY <1>3, <1>4
<1>8. text[a] \notin TokenSymbols
  BY <1>3, <1>6, <1>7
<1> QED
  BY <1>3, <1>4, <1>5, <1>7, <1>8, Zenon DEF Holds, a, b, F

\* No ".dll" is before the module's, and none is anywhere if there is no module.
LEMMA FirstDll ==
  ASSUME NEW s, NEW text, Told(s, text)
  PROVE  /\ Plain(s.module) =>
              /\ Len(Form[s.form][1]) + Len(s.module) \in DllEnds(text)
              /\ \A e \in DllEnds(text) : Len(Form[s.form][1]) + Len(s.module) <= e
         /\ s.module = <<>> => DllEnds(text) = {}
<1>. DEFINE F == Form[s.form][1]
            G == Form[s.form][2]
            m == s.module
            a == Len(F)
            b == Len(m)
            g == Len(G)
            c == a + b + g
<1>1. s.form \in DOMAIN Form /\ m \in Seq(PathSymbols) /\ s \in Sayings
  BY SayingTyped DEF Told
<1>2. F \in Seq(FormSymbols) /\ G \in Seq(FormSymbols) /\ F # <<>>
  BY <1>1, FormIs
<1>3. /\ text \in Seq(Symbols) /\ c <= Len(text)
      /\ \A i \in 1..a : text[i] = F[i]
      /\ \A i \in 1..b : text[a + i] = m[i]
      /\ \A i \in 1..g : text[a + b + i] = G[i]
      /\ \A i \in (c + 1)..Len(text) : text[i] = ".dll" => s.parent # <<>>
  <2>1. Composed(s, text) /\ text \in Seq(Symbols)
    BY DEF Told
  <2>2. /\ a + b + g <= Len(text)
        /\ \A i \in 1..a : text[i] = F[i]
        /\ \A i \in 1..b : text[a + i] = s.module[i]
        /\ \A i \in 1..g : text[a + b + i] = G[i]
        /\ \A i \in (a + b + g + 1)..Len(text) : text[i] = ".dll" => s.parent # <<>>
    BY <2>1, Zenon DEF Composed
  <2> QED
    BY <2>1, <2>2
<1>4. /\ a \in Nat /\ a # 0 /\ b \in Nat /\ g \in Nat /\ Len(text) \in Nat /\ DOMAIN text = 1..Len(text)
      /\ c = a + b + g
  <2>. HIDE DEF F, G
  <2> QED
    BY <1>1, <1>2, <1>3
<1>5. (\A i \in 1..a : F[i] # ".dll") /\ (\A i \in 1..g : G[i] # ".dll")
  <2>1. \A x \in FormSymbols : x # ".dll"
    BY DEF FormSymbols, Phrases
  <2>2. (\A i \in 1..a : F[i] \in FormSymbols) /\ (\A i \in 1..g : G[i] \in FormSymbols)
    BY <1>2
  <2> QED
    BY <2>1, <2>2
<1>6. m = <<>> => s.parent = <<>> /\ b = 0
  BY <1>1, WritingAssumption
<1>7. Plain(m) => b \in Nat \ {0} /\ m[b] = ".dll" /\ \A k \in 1..(b - 1) : m[k] # ".dll"
  BY <1>1, PlainIs
<1>. HIDE DEF F, G, m, a, b, g, c
<1>8. \A i \in 1..a : text[i] # ".dll"
  BY <1>3, <1>5
<1>9. ASSUME Plain(m) PROVE a + b \in DllEnds(text) /\ \A e \in DllEnds(text) : a + b <= e
  <2>1. b \in 1..b /\ a + b \in 1..Len(text) /\ b \in Nat \ {0}
    BY <1>3, <1>4, <1>7, <1>9
  <2>2. text[a + b] = ".dll"
    BY <1>3, <1>7, <1>9, <2>1
  <2>3. a + b \in DllEnds(text)
    BY <1>4, <2>1, <2>2 DEF DllEnds
  <2>4. ASSUME NEW e \in DllEnds(text), e < a + b PROVE FALSE
    <3>1. e \in 1..Len(text) /\ text[e] = ".dll"
      BY <1>4 DEF DllEnds
    <3>2. e > a
      BY <1>4, <1>8, <3>1
    <3>3. e - a \in 1..(b - 1) /\ e - a \in 1..b /\ a + (e - a) = e
      BY <1>4, <2>4, <3>1, <3>2
    <3>4. text[e] = m[e - a]
      BY <1>3, <3>3
    <3> QED
      BY <1>7, <1>9, <3>1, <3>3, <3>4
  <2>5. \A e \in DllEnds(text) : e \in Nat
    BY <1>4 DEF DllEnds
  <2> QED
    BY <1>4, <2>3, <2>4, <2>5
<1>10. ASSUME m = <<>> PROVE DllEnds(text) = {}
  <2> SUFFICES ASSUME NEW e \in 1..Len(text), text[e] = ".dll" PROVE FALSE
    BY <1>4 DEF DllEnds
  <2>1. e > a
    BY <1>4, <1>8
  <2>2. CASE e <= c
    <3>1. e - a \in 1..g /\ a + b + (e - a) = e
      BY <1>4, <1>6, <1>10, <2>1, <2>2
    <3>2. text[e] = G[e - a]
      BY <1>3, <3>1
    <3> QED
      BY <1>5, <3>1, <3>2
  <2>3. CASE e > c
    <3>1. e \in (c + 1)..Len(text)
      BY <1>4, <2>3
    <3> QED
      BY <1>3, <1>6, <1>10, <3>1
  <2> QED
    BY <1>4, <2>2, <2>3
<1> QED
  BY <1>9, <1>10, Zenon DEF F, m, a, b

\* pick_best_dll picks a plain module, and a line without a module has no DLL.
LEMMA DllRead ==
  ASSUME NEW s, NEW text, Told(s, text)
  PROVE  /\ Plain(s.module) => DllOf(text) = DllNumber[LastComponent(s.module)]
         /\ s.module = <<>> => DllOf(text) = None
<1>1. ASSUME s.module = <<>> PROVE DllOf(text) = None
  <2>1. DllEnds(text) = {}
    BY <1>1, FirstDll
  <2> QED
    BY <2>1 DEF DllOf
<1>2. ASSUME Plain(s.module) PROVE DllOf(text) = DllNumber[LastComponent(s.module)]
  <2>. DEFINE e == Len(Form[s.form][1]) + Len(s.module)
              ends == DllEnds(text)
              good == {x \in ends : ~IsNoiseDll(Basename(text, x))}
  <2>1. e \in ends /\ \A x \in ends : e <= x
    BY <1>2, FirstDll
  <2>2. ends \in SUBSET Nat
    <3>1. text \in Seq(Symbols)
      BY DEF Told
    <3> QED
      BY <3>1 DEF DllEnds
  <2>3. Reads(text, Len(Form[s.form][1]), s.module)
    BY <1>2, ModuleHeld, PlainBasename, Zenon
  <2>4. Basename(text, e) = LastComponent(s.module)
    BY <2>3, Zenon DEF Reads
  <2>5. ~IsNoiseDll(LastComponent(s.module))
    BY <1>2, Zenon DEF Plain
  <2>6. e \in good
    BY <2>1, <2>4, <2>5, Zenon
  <2>7. DllOf(text) = IF ends = {} THEN None ELSE Number(Basename(text, Least(IF good = {} THEN ends ELSE good)))
    BY Zenon DEF DllOf
  <2>. HIDE DEF e, ends
  <2>8. Least(good) = e
    <3>1. good \in SUBSET Nat /\ \A x \in good : e <= x
      BY <2>1, <2>2
    <3>. HIDE DEF good
    <3> QED
      BY <2>6, <3>1, LeastGiven
  <2>. HIDE DEF good
  <2>9. DllOf(text) = Number(LastComponent(s.module))
    BY <2>1, <2>4, <2>6, <2>7, <2>8
  <2>10. LastComponent(s.module) \in DOMAIN DllNumber
    BY <1>2, WritingAssumption DEF Told
  <2> QED
    BY <2>9, <2>10, Zenon DEF Number
<1> QED
  BY <1>1, <1>2

\* What follows the phrase at u and the blanks after it, and the part of that
\* in which a name is sought.
RestAt(text, u, blank) ==
  LET after == SubSeq(text, u + 2, Len(text))
  IN  SubSeq(after, Least({i \in DOMAIN after : after[i] # blank} \cup {Len(after) + 1}), Len(after))
PartIn(rest) == IF rest[1] \in {"\"", "'"} THEN Until(Tail(rest), rest[1]) ELSE Until(rest, ",")
NameIn(part) == IF DllEnds(part) = {} THEN None ELSE Number(Basename(part, Least(DllEnds(part))))
NamePlaces(text) == Places(text, <<"unable to load dll", ":">>)

\* NamedDll, in those steps.
LEMMA NamedAt ==
  ASSUME NEW text
  PROVE  NamedDll(text) =
           IF NamePlaces(text) = {} \/ RestAt(text, Least(NamePlaces(text)), "space") = <<>> THEN None
           ELSE NameIn(PartIn(RestAt(text, Least(NamePlaces(text)), "space")))
<1>. DEFINE places == NamePlaces(text)
            after == SubSeq(text, Least(places) + 2, Len(text))
            rest == SubSeq(after, Least({i \in DOMAIN after : after[i] # "space"} \cup {Len(after) + 1}),
                           Len(after))
            part == IF rest[1] \in {"\"", "'"} THEN Until(Tail(rest), rest[1]) ELSE Until(rest, ",")
<1>1. NamedDll(text) = IF places = {} \/ rest = <<>> \/ DllEnds(part) = {} THEN None
                       ELSE Number(Basename(part, Least(DllEnds(part))))
  BY Zenon DEF NamedDll, NamePlaces
<1>2. rest = RestAt(text, Least(places), "space")
  BY Zenon DEF RestAt
<1>3. part = PartIn(rest)
  BY Zenon DEF PartIn
<1>. HIDE DEF places, rest, part
<1>4. NamedDll(text) = IF places = {} \/ rest = <<>> THEN None ELSE NameIn(part)
  BY <1>1 DEF NameIn
<1> QED
  BY <1>2, <1>3, <1>4 DEF places

\* What stands before a symbol has the symbols of the whole,
LEMMA UntilIn ==
  ASSUME NEW S, NEW x \in Seq(S), NEW c
  PROVE  Until(x, c) \in Seq(S)
<1>. DEFINE I == {i \in DOMAIN x : x[i] = c} \cup {Len(x) + 1}
            l == Least(I)
<1>1. I \in SUBSET Nat /\ I # {} /\ \A i \in I : i \in 1..(Len(x) + 1)
  OBVIOUS
<1>2. Until(x, c) = SubSeq(x, 1, l - 1)
  BY Zenon DEF Until
<1>3. l \in 1..(Len(x) + 1)
  <2>. HIDE DEF I
  <2> QED
    BY <1>1, LeastIs
<1>. HIDE DEF l
<1>4. 1 \in 1..(Len(x) + 1) /\ l - 1 \in 0..Len(x) /\ 1 <= (l - 1) + 1
  BY <1>3
<1>5. SubSeq(x, 1, l - 1) \in Seq(S)
  BY <1>4, PartOf
<1> QED
  BY <1>2, <1>5

\* and ends before the first place of that symbol.
LEMMA UntilAt ==
  ASSUME NEW S, NEW x \in Seq(S), NEW c, NEW b \in Nat, b < Len(x), x[b + 1] = c,
         \A k \in 1..b : x[k] # c
  PROVE  Until(x, c) = SubSeq(x, 1, b)
<1>. DEFINE I == {i \in DOMAIN x : x[i] = c} \cup {Len(x) + 1}
<1>1. I \in SUBSET Nat /\ b + 1 \in I /\ \A i \in I : b + 1 <= i
  OBVIOUS
<1>2. Until(x, c) = SubSeq(x, 1, Least(I) - 1)
  BY Zenon DEF Until
<1>3. Least(I) = b + 1
  <2>. HIDE DEF I
  <2> QED
    BY <1>1, LeastGiven
<1>. HIDE DEF I
<1>4. (b + 1) - 1 = b
  OBVIOUS
<1> QED
  BY <1>2, <1>3, <1>4, Zenon

\* What follows the phrase has the symbols of the whole.
LEMMA RestIn ==
  ASSUME NEW S, NEW text \in Seq(S), NEW u \in 1..(Len(text) - 1), NEW blank
  PROVE  RestAt(text, u, blank) \in Seq(S)
<1>. DEFINE after == SubSeq(text, u + 2, Len(text))
            I == {i \in DOMAIN after : after[i] # blank} \cup {Len(after) + 1}
            l == Least(I)
<1>1. after \in Seq(S)
  <2>1. u + 2 \in 1..(Len(text) + 1) /\ Len(text) \in 0..Len(text) /\ u + 2 <= Len(text) + 1
    OBVIOUS
  <2> QED
    BY <2>1, PartOf
<1>2. RestAt(text, u, blank) = SubSeq(after, l, Len(after))
  BY Zenon DEF RestAt
<1>. HIDE DEF after
<1>3. I \in SUBSET Nat /\ I # {} /\ \A i \in I : i \in 1..(Len(after) + 1)
  BY <1>1
<1>4. l \in 1..(Len(after) + 1)
  <2>. HIDE DEF I
  <2> QED
    BY <1>3, LeastIs
<1>. HIDE DEF l
<1>5. Len(after) \in 0..Len(after) /\ l <= Len(after) + 1
  BY <1>1, <1>4
<1>6. SubSeq(after, l, Len(after)) \in Seq(S)
  BY <1>1, <1>4, <1>5, PartOf
<1> QED
  BY <1>2, <1>6

\* One blank after the phrase.
BehindIs(S, text, u, blank) ==
  /\ RestAt(text, u, blank) \in Seq(S)
  /\ Len(RestAt(text, u, blank)) = Len(text) - (u + 2)
  /\ \A k \in 1..(Len(text) - (u + 2)) : RestAt(text, u, blank)[k] = text[u + 2 + k]

\* Then the rest starts behind that blank.
LEMMA RestBehind ==
  ASSUME NEW S, NEW text \in Seq(S), NEW u \in Nat \ {0}, u + 3 <= Len(text), NEW blank,
         text[u + 2] = blank, text[u + 3] # blank
  PROVE  BehindIs(S, text, u, blank)
<1>. DEFINE after == SubSeq(text, u + 2, Len(text))
            I == {i \in DOMAIN after : after[i] # blank} \cup {Len(after) + 1}
            n == Len(text) - (u + 1)
<1>1. /\ after \in Seq(S) /\ Len(after) = n /\ n \in Nat /\ n >= 2
      /\ \A k \in 1..n : after[k] = text[(u + 2) + k - 1]
  <2>1. u + 2 \in 1..(Len(text) + 1) /\ Len(text) \in 0..Len(text) /\ u + 2 <= Len(text) + 1
    OBVIOUS
  <2>2. after \in Seq(S) /\ Len(after) = Len(text) - (u + 2) + 1
        /\ \A k \in 1..(Len(text) - (u + 2) + 1) : after[k] = text[(u + 2) + k - 1]
    BY <2>1, PartOf
  <2>3. Len(text) - (u + 2) + 1 = n /\ n \in Nat /\ n >= 2
    OBVIOUS
  <2> QED
    BY <2>2, <2>3
<1>2. RestAt(text, u, blank) = SubSeq(after, Least(I), Len(after))
  BY Zenon DEF RestAt
<1>. HIDE DEF after
<1>3. after[1] = blank /\ after[2] # blank
  <2>1. 1 \in 1..n /\ 2 \in 1..n /\ (u + 2) + 1 - 1 = u + 2 /\ (u + 2) + 2 - 1 = u + 3
    BY <1>1
  <2> QED
    BY <1>1, <2>1
<1>4. I \in SUBSET Nat /\ 2 \in I /\ \A i \in I : 2 <= i
  BY <1>1, <1>3
<1>5. Least(I) = 2
  <2>. HIDE DEF I
  <2> QED
    BY <1>4, LeastGiven
<1>. HIDE DEF I
<1>. DEFINE rest == SubSeq(after, 2, n)
<1>6. rest \in Seq(S) /\ Len(rest) = n - 2 + 1 /\ \A k \in 1..(n - 2 + 1) : rest[k] = after[2 + k - 1]
  <2>1. 2 \in 1..(Len(after) + 1) /\ n \in 0..Len(after) /\ 2 <= n + 1
    BY <1>1
  <2> QED
    BY <1>1, <2>1, PartOf
<1>7. RestAt(text, u, blank) = rest
  BY <1>1, <1>2, <1>5
<1>. HIDE DEF rest
<1>8. \A k \in 1..(Len(text) - (u + 2)) : rest[k] = text[u + 2 + k]
  <2> SUFFICES ASSUME NEW k \in 1..(Len(text) - (u + 2)) PROVE rest[k] = text[u + 2 + k]
    OBVIOUS
  <2>1. k \in 1..(n - 2 + 1) /\ 2 + k - 1 \in 1..n /\ (u + 2) + (2 + k - 1) - 1 = u + 2 + k
    BY <1>1
  <2> QED
    BY <1>1, <1>6, <2>1
<1>9. n - 2 + 1 = Len(text) - (u + 2)
  OBVIOUS
<1> QED
  BY <1>6, <1>7, <1>8, <1>9 DEF BehindIs

Unnamed == Symbols \ {".dll"}

\* A text without a ".dll" names no DLL.
LEMMA NoName ==
  ASSUME NEW text \in Seq(Symbols), DllEnds(text) = {}
  PROVE  NamedDll(text) = None
<1>1. text \in Seq(Unnamed)
  <2>1. \A i \in 1..Len(text) : text[i] \in Symbols /\ text[i] # ".dll"
    BY DEF DllEnds
  <2>2. \A i \in 1..Len(text) : text[i] \in Unnamed
    BY <2>1, Zenon DEF Unnamed
  <2> QED
    BY <2>2
<1>2. \A x \in Seq(Unnamed) : DllEnds(x) = {}
  <2>1. \A y \in Unnamed : y # ".dll"
    BY DEF Unnamed
  <2> QED
    BY <2>1 DEF DllEnds
<1>. DEFINE places == NamePlaces(text)
            rest == RestAt(text, Least(places), "space")
<1>3. ASSUME places # {}, rest # <<>> PROVE NameIn(PartIn(rest)) = None
  <2>1. Least(places) \in 1..(Len(text) - 1)
    <3>1. Len(<<"unable to load dll", ":">>) = 2 /\ Len(text) - 2 + 1 = Len(text) - 1
      OBVIOUS
    <3>2. places \subseteq 1..(Len(text) - 1)
      BY <3>1 DEF NamePlaces, Places
    <3>. HIDE DEF places
    <3>3. places \in SUBSET Nat
      BY <3>2
    <3>4. Least(places) \in places
      BY <1>3, <3>3, LeastIs
    <3> QED
      BY <3>2, <3>4
  <2>2. rest \in Seq(Unnamed)
    BY <1>1, <2>1, RestIn
  <2>. HIDE DEF rest
  <2>3. Tail(rest) \in Seq(Unnamed)
    BY <1>3, <2>2
  <2>4. PartIn(rest) \in Seq(Unnamed)
    BY <2>2, <2>3, UntilIn DEF PartIn
  <2> QED
    BY <1>2, <2>4, Zenon DEF NameIn
<1>4. NamedDll(text) = IF places = {} \/ rest = <<>> THEN None ELSE NameIn(PartIn(rest))
  BY NamedAt, Zenon
<1>. HIDE DEF places, rest
<1> QED
  BY <1>3, <1>4

\* The name of a plain module, by itself.
LEMMA NameOfPlain ==
  ASSUME NEW m \in Seq(Symbols), Plain(m), LastComponent(m) \in DOMAIN DllNumber
  PROVE  NameIn(m) = DllNumber[LastComponent(m)]
<1>1. Len(m) \in Nat \ {0} /\ m[Len(m)] = ".dll" /\ \A k \in 1..(Len(m) - 1) : m[k] # ".dll"
  BY PlainIs, Zenon
<1>2. DllEnds(m) = {Len(m)}
  BY Zenon DEF DllEnds, Plain
<1>3. Least(DllEnds(m)) = Len(m)
  <2>1. {Len(m)} \in SUBSET Nat /\ Len(m) \in {Len(m)} /\ \A y \in {Len(m)} : Len(m) <= y
    BY <1>1
  <2> QED
    BY <1>2, <2>1, LeastGiven
<1>4. Holds(Symbols, m, 0, m)
  BY DEF Holds
<1>5. Basename(m, 0 + Len(m)) = LastComponent(m)
  BY <1>4, PlainBasename, Zenon DEF Reads
<1>6. 0 + Len(m) = Len(m)
  BY <1>1
<1>7. NameIn(m) = Number(LastComponent(m))
  BY <1>2, <1>3, <1>5, <1>6 DEF NameIn
<1> QED
  BY <1>7, Zenon DEF Number

\* The first place of a phrase of two symbols.
LEMMA LeastPair ==
  ASSUME NEW text \in Seq(Symbols), NEW p, NEW q, NEW u \in 1..(Len(text) - 1),
         text[u] = p, text[u + 1] = q, \A i \in 1..(u - 1) : text[i] # p
  PROVE  Places(text, <<p, q>>) # {} /\ Least(Places(text, <<p, q>>)) = u
<1>. DEFINE P == {i \in 1..(Len(text) - 1) : text[i] = p /\ text[i + 1] = q}
<1>1. P \in SUBSET Nat /\ u \in P /\ \A i \in P : u <= i
  OBVIOUS
<1>2. Places(text, <<p, q>>) = P
  <2>1. PlacesOfPair(text, p, q)
    BY PairPlaces, Zenon
  <2> QED
    BY <2>1, Zenon DEF PlacesOfPair
<1>. HIDE DEF P
<1>3. Least(P) = u
  BY <1>1, LeastGiven
<1> QED
  BY <1>1, <1>2, <1>3, Zenon

\* Where the form and its module are in the text.
PartsOf(s, text) ==
  /\ Len(Form[s.form][1]) \in Nat \ {0} /\ Len(s.module) \in Nat /\ Len(text) \in Nat
  /\ Len(Form[s.form][1]) + Len(s.module) + Len(Form[s.form][2]) <= Len(text)
  /\ \A i \in 1..Len(Form[s.form][1]) : text[i] = Form[s.form][1][i]
  /\ \A i \in 1..Len(s.module) : text[Len(Form[s.form][1]) + i] = s.module[i]
  /\ \A i \in 1..Len(Form[s.form][2]) :
       text[Len(Form[s.form][1]) + Len(s.module) + i] = Form[s.form][2][i]

\* A text that is told is laid out so.
LEMMA ToldParts ==
  ASSUME NEW s, NEW text, Told(s, text)
  PROVE  PartsOf(s, text)
<1>1. s.form \in DOMAIN Form /\ s.module \in Seq(PathSymbols)
  BY SayingTyped DEF Told
<1>2. Form[s.form][1] \in Seq(FormSymbols) /\ Form[s.form][1] # <<>>
  BY <1>1, FormIs
<1>3. Composed(s, text) /\ text \in Seq(Symbols)
  BY DEF Told
<1>4. Len(s.module) \in Nat /\ Len(text) \in Nat
  BY <1>1, <1>3
<1>5. Len(Form[s.form][1]) \in Nat \ {0}
  <2>1. \A x \in Seq(FormSymbols) : x # <<>> => Len(x) \in Nat \ {0}
    OBVIOUS
  <2> QED
    BY <1>2, <2>1
<1>6. /\ Len(Form[s.form][1]) + Len(s.module) + Len(Form[s.form][2]) <= Len(text)
      /\ \A i \in 1..Len(Form[s.form][1]) : text[i] = Form[s.form][1][i]
      /\ \A i \in 1..Len(s.module) : text[Len(Form[s.form][1]) + i] = s.module[i]
      /\ \A i \in 1..Len(Form[s.form][2]) :
           text[Len(Form[s.form][1]) + Len(s.module) + i] = Form[s.form][2][i]
  BY <1>3, Zenon DEF Composed
<1> QED
  BY <1>4, <1>5, <1>6, Zenon DEF PartsOf

\* A module up to the symbol that ends it.
Bounded(R, m, c) ==
  /\ R \in Seq(Symbols) /\ m \in Seq(Symbols) /\ Len(m) < Len(R)
  /\ \A k \in 1..Len(m) : R[k] = m[k] /\ m[k] # c
  /\ R[Len(m) + 1] = c

\* What stands before that symbol is the module.
LEMMA UntilModule ==
  ASSUME NEW R, NEW m, NEW c, Bounded(R, m, c)
  PROVE  Until(R, c) = m
<1>. DEFINE b == Len(m)
<1>1. /\ R \in Seq(Symbols) /\ m \in Seq(Symbols) /\ b < Len(R)
      /\ \A k \in 1..b : R[k] = m[k] /\ m[k] # c
      /\ R[b + 1] = c
  BY Zenon DEF Bounded
<1>2. b \in Nat /\ b = Len(m)
  BY <1>1
<1>. HIDE DEF b
<1>3. \A k \in 1..b : R[k] # c
  BY <1>1
<1>4. Until(R, c) = SubSeq(R, 1, b)
  BY <1>1, <1>2, <1>3, UntilAt
<1>. DEFINE t == SubSeq(R, 1, b)
<1>5. t \in Seq(Symbols) /\ Len(t) = b - 1 + 1 /\ \A k \in 1..(b - 1 + 1) : t[k] = R[1 + k - 1]
  <2>1. 1 \in 1..(Len(R) + 1) /\ b \in 0..Len(R) /\ 1 <= b + 1
    BY <1>1, <1>2
  <2> QED
    BY <1>1, <2>1, PartOf
<1>. HIDE DEF t
<1>6. Len(t) = b /\ \A k \in 1..b : t[k] = m[k]
  <2>1. b - 1 + 1 = b /\ \A k \in 1..b : 1 + k - 1 = k
    BY <1>2
  <2> QED
    BY <1>1, <1>5, <2>1
<1>7. t = m
  BY <1>1, <1>2, <1>5, <1>6
<1> QED
  BY <1>4, <1>7 DEF t

\* A line of another form names no DLL.
LEMMA NamedNot ==
  ASSUME NEW s, NEW text, Told(s, text),
         s.form \notin {"process_work", "load_work"} \/ s.module = <<>>
  PROVE  NamedDll(text) = None
<1>1. text \in Seq(Symbols) /\ s.form \in DOMAIN Form
  BY SayingTyped DEF Told
<1>2. CASE s.module = <<>>
  <2>1. DllEnds(text) = {}
    BY <1>2, FirstDll
  <2> QED
    BY <1>1, <2>1, NoName
<1>3. CASE s.form \notin {"process_work", "load_work"}
  <2>1. "unable to load dll" \in Spoken
    BY SpokenOnes, Zenon
  <2>2. "unable to load dll" \notin Signs[s.form]
    BY <1>1, <1>3, SignsOf
  <2>3. ~Occurs(text, <<"unable to load dll", ":">>)
    BY <2>1, <2>2, SignFound, Zenon
  <2>4. NamePlaces(text) = {}
    BY <2>3, Zenon DEF NamePlaces, Occurs
  <2> QED
    BY <2>4, NamedAt, Zenon
<1> QED
  BY <1>2, <1>3

\* The symbols that end a name are not of a path.
LEMMA NoQuote ==
  ASSUME NEW s \in Sayings
  PROVE  /\ s.module \in Seq(Symbols)
         /\ \A k \in 1..Len(s.module) : s.module[k] # "\"" /\ s.module[k] # "," /\ s.module[k] # "'"
<1>1. s.module \in Seq(PathSymbols)
  BY SayingTyped
<1>2. \A x \in PathSymbols : x # "\"" /\ x # "," /\ x # "'"
  BY SymbolSorts DEF PathSymbols, TokenSymbols, Slashes
<1>3. PathSymbols \subseteq Symbols
  BY DEF Symbols
<1>4. s.module \in Seq(Symbols)
  BY <1>1, <1>3, WiderSeq, Zenon
<1>5. \A k \in 1..Len(s.module) : s.module[k] \in PathSymbols
  BY <1>1
<1> QED
  BY <1>2, <1>4, <1>5, Zenon

\* What stands behind a module that is followed by c.
LEMMA BoundedRest ==
  ASSUME NEW text \in Seq(Symbols), NEW R \in Seq(Symbols), NEW m \in Seq(Symbols), NEW c,
         NEW a \in Nat, Len(R) = Len(text) - a,
         \A k \in 1..Len(R) : R[k] = text[a + k],
         a + Len(m) < Len(text), text[a + Len(m) + 1] = c,
         \A k \in 1..Len(m) : text[a + k] = m[k],
         \A k \in 1..Len(m) : m[k] # c
  PROVE  Bounded(R, m, c)
<1>1. Len(m) \in Nat /\ Len(text) \in Nat /\ Len(m) < Len(R) /\ Len(R) \in Nat
  OBVIOUS
<1>2. \A k \in 1..Len(m) : R[k] = m[k]
  <2> SUFFICES ASSUME NEW k \in 1..Len(m) PROVE R[k] = m[k]
    OBVIOUS
  <2>1. k \in 1..Len(R)
    BY <1>1
  <2> QED
    BY <2>1
<1>3. R[Len(m) + 1] = c
  <2>1. Len(m) + 1 \in 1..Len(R) /\ a + (Len(m) + 1) = a + Len(m) + 1
    BY <1>1
  <2> QED
    BY <2>1
<1> QED
  BY <1>1, <1>2, <1>3, Zenon DEF Bounded

\* The name that is quoted, and the one that ends at a comma.
LEMMA NamedQuoted ==
  ASSUME NEW s, NEW text, Told(s, text), s.form = "process_work", Plain(s.module)
  PROVE  NamedDll(text) = NameIn(s.module)
<1>. DEFINE F == Form[s.form][1]
            G == Form[s.form][2]
            m == s.module
            phrase == "unable to load dll"
            colon == ":"
            blank == "space"
            quote == "\""
<1>1. /\ Len(F) = 6 /\ F[1] # phrase /\ F[2] # phrase /\ F[3] = phrase /\ F[4] = colon
      /\ F[5] = blank /\ F[6] = quote /\ Len(G) = 2 /\ G[1] = quote /\ quote # blank
  BY DEF Form
<1>2. /\ Len(m) \in Nat /\ Len(text) \in Nat /\ 6 + Len(m) + 2 <= Len(text)
      /\ \A i \in 1..6 : text[i] = F[i]
      /\ \A i \in 1..Len(m) : text[6 + i] = m[i]
      /\ \A i \in 1..2 : text[6 + Len(m) + i] = G[i]
  <2>1. /\ Len(m) \in Nat /\ Len(text) \in Nat /\ Len(F) + Len(m) + Len(G) <= Len(text)
        /\ \A i \in 1..Len(F) : text[i] = F[i]
        /\ \A i \in 1..Len(m) : text[Len(F) + i] = m[i]
        /\ \A i \in 1..Len(G) : text[Len(F) + Len(m) + i] = G[i]
    <3>1. PartsOf(s, text)
      BY ToldParts, Zenon
    <3> QED
      BY <3>1, Zenon DEF PartsOf
  <2>2. Len(F) = 6 /\ Len(G) = 2
    BY <1>1
  <2>. HIDE DEF F, G, m
  <2> QED
    BY <2>1, <2>2
<1>3. text \in Seq(Symbols) /\ m \in Seq(Symbols) /\ \A k \in 1..Len(m) : m[k] # quote
  <2>1. s \in Sayings /\ text \in Seq(Symbols)
    BY DEF Told
  <2> QED
    BY <2>1, NoQuote, Zenon
<1>4. NamePlaces(text) = Places(text, <<phrase, colon>>)
  BY Zenon DEF NamePlaces
<1>5. NamedDll(text) = IF NamePlaces(text) = {} \/ RestAt(text, Least(NamePlaces(text)), blank) = <<>> THEN None
                       ELSE NameIn(PartIn(RestAt(text, Least(NamePlaces(text)), blank)))
  BY NamedAt, Zenon
<1>6. \A x : x[1] = quote => PartIn(x) = Until(Tail(x), quote)
  BY Zenon DEF PartIn
<1>. HIDE DEF F, G, m, phrase, colon, blank, quote
<1>7. /\ text[1] # phrase /\ text[2] # phrase /\ text[3] = phrase /\ text[3 + 1] = colon
      /\ text[3 + 2] = blank /\ text[3 + 3] # blank /\ text[6] = quote
      /\ text[6 + Len(m) + 1] = quote
  <2>1. 1 \in 1..6 /\ 2 \in 1..6 /\ 3 \in 1..6 /\ 4 \in 1..6 /\ 5 \in 1..6 /\ 6 \in 1..6 /\ 1 \in 1..2
        /\ 3 + 1 = 4 /\ 3 + 2 = 5 /\ 3 + 3 = 6
    OBVIOUS
  <2> QED
    BY <1>1, <1>2, <2>1, Zenon
<1>8. NamePlaces(text) # {} /\ Least(NamePlaces(text)) = 3
  <2>1. 3 \in 1..(Len(text) - 1) /\ \A i \in 1..(3 - 1) : text[i] # phrase
    <3>1. \A i \in 1..(3 - 1) : i = 1 \/ i = 2
      OBVIOUS
    <3> QED
      BY <1>2, <1>7, <3>1
  <2>2. Places(text, <<phrase, colon>>) # {} /\ Least(Places(text, <<phrase, colon>>)) = 3
    BY <1>3, <1>7, <2>1, LeastPair
  <2> QED
    BY <1>4, <2>2, Zenon
<1>. DEFINE rest == RestAt(text, 3, blank)
<1>9. rest \in Seq(Symbols) /\ Len(rest) = Len(text) - 5 /\ \A k \in 1..(Len(text) - 5) : rest[k] = text[5 + k]
  <2>1. 3 \in Nat \ {0} /\ 3 + 3 <= Len(text) /\ 3 + 2 = 5
    BY <1>2
  <2>2. /\ rest \in Seq(Symbols) /\ Len(rest) = Len(text) - (3 + 2)
        /\ \A k \in 1..(Len(text) - (3 + 2)) : rest[k] = text[3 + 2 + k]
    <3>1. BehindIs(Symbols, text, 3, blank)
      BY <1>3, <1>7, <2>1, RestBehind, Zenon
    <3> QED
      BY <3>1, Zenon DEF BehindIs
  <2>. HIDE DEF rest
  <2> QED
    BY <1>2, <2>1, <2>2
<1>. HIDE DEF rest
<1>10. rest # <<>> /\ rest[1] = quote
  <2>1. 1 \in 1..(Len(text) - 5) /\ 5 + 1 = 6 /\ Len(rest) >= 1
    BY <1>2, <1>9
  <2>2. rest[1] = quote
    BY <1>7, <1>9, <2>1
  <2> QED
    BY <1>9, <2>1, <2>2
<1>. DEFINE R == Tail(rest)
<1>11. R \in Seq(Symbols) /\ Len(R) = Len(text) - 6 /\ \A k \in 1..Len(R) : R[k] = text[6 + k]
  <2>1. R \in Seq(Symbols) /\ Len(R) = Len(rest) - 1 /\ \A k \in 1..Len(R) : R[k] = rest[k + 1]
    BY <1>9, <1>10
  <2>. HIDE DEF R
  <2>2. Len(R) = Len(text) - 6
    BY <1>2, <1>9, <2>1
  <2>3. \A k \in 1..Len(R) : k + 1 \in 1..(Len(text) - 5) /\ 5 + (k + 1) = 6 + k
    BY <1>2, <2>2
  <2> QED
    BY <1>9, <2>1, <2>2, <2>3
<1>. HIDE DEF R
<1>12. Bounded(R, m, quote)
  <2>1. 6 \in Nat /\ 6 + Len(m) < Len(text)
    BY <1>2
  <2> QED
    BY <1>2, <1>3, <1>7, <1>11, <2>1, BoundedRest
<1>13. PartIn(rest) = m
  BY <1>6, <1>10, <1>12, UntilModule, Zenon DEF R
<1> QED
  BY <1>5, <1>8, <1>10, <1>13 DEF m, rest

\* The same for the one that ends at a comma.
LEMMA NamedPlainly ==
  ASSUME NEW s, NEW text, Told(s, text), s.form = "load_work", Plain(s.module)
  PROVE  NamedDll(text) = NameIn(s.module)
<1>. DEFINE F == Form[s.form][1]
            G == Form[s.form][2]
            m == s.module
            phrase == "unable to load dll"
            colon == ":"
            blank == "space"
            comma == ","
            quotes == {"\"", "'"}
<1>1. /\ Len(F) = 4 /\ F[1] # phrase /\ F[2] = phrase /\ F[3] = colon
      /\ F[4] = blank /\ Len(G) = 1 /\ G[1] = comma
  BY DEF Form
<1>2. /\ Len(m) \in Nat /\ Len(text) \in Nat /\ 4 + Len(m) + 1 <= Len(text)
      /\ \A i \in 1..4 : text[i] = F[i]
      /\ \A i \in 1..Len(m) : text[4 + i] = m[i]
      /\ \A i \in 1..1 : text[4 + Len(m) + i] = G[i]
  <2>1. /\ Len(m) \in Nat /\ Len(text) \in Nat /\ Len(F) + Len(m) + Len(G) <= Len(text)
        /\ \A i \in 1..Len(F) : text[i] = F[i]
        /\ \A i \in 1..Len(m) : text[Len(F) + i] = m[i]
        /\ \A i \in 1..Len(G) : text[Len(F) + Len(m) + i] = G[i]
    <3>1. PartsOf(s, text)
      BY ToldParts, Zenon
    <3> QED
      BY <3>1, Zenon DEF PartsOf
  <2>2. Len(F) = 4 /\ Len(G) = 1
    BY <1>1
  <2>. HIDE DEF F, G, m
  <2> QED
    BY <2>1, <2>2
<1>3. /\ text \in Seq(Symbols) /\ m \in Seq(Symbols) /\ \A k \in 1..Len(m) : m[k] # comma
      /\ \A k \in 1..Len(m) : m[k] \notin quotes
  <2>1. s \in Sayings /\ text \in Seq(Symbols)
    BY DEF Told
  <2>2. \A x : x # "\"" /\ x # "'" => x \notin quotes
    OBVIOUS
  <2>. HIDE DEF quotes
  <2> QED
    BY <2>1, <2>2, NoQuote, Zenon
<1>4. NamePlaces(text) = Places(text, <<phrase, colon>>)
  BY Zenon DEF NamePlaces
<1>5. NamedDll(text) = IF NamePlaces(text) = {} \/ RestAt(text, Least(NamePlaces(text)), blank) = <<>> THEN None
                       ELSE NameIn(PartIn(RestAt(text, Least(NamePlaces(text)), blank)))
  BY NamedAt, Zenon
<1>6. \A x : x[1] \notin quotes => PartIn(x) = Until(x, comma)
  BY Zenon DEF PartIn
<1>14. m # <<>> /\ m[1] # blank
  <2>1. s \in Sayings
    BY DEF Told
  <2>2. m # <<>>
    <3>1. Len(m) \in Nat \ {0}
      BY <1>3, PlainIs
    <3> QED
      BY <3>1
  <2> QED
    BY <2>1, <2>2, WritingAssumption, Zenon
<1>. HIDE DEF F, G, m, phrase, colon, blank, comma, quotes
<1>15. 1 \in 1..Len(m)
  BY <1>2, <1>3, <1>14
<1>7. /\ text[1] # phrase /\ text[2] = phrase /\ text[2 + 1] = colon
      /\ text[2 + 2] = blank /\ text[2 + 3] # blank /\ text[5] = m[1]
      /\ text[4 + Len(m) + 1] = comma
  <2>1. 1 \in 1..4 /\ 2 \in 1..4 /\ 3 \in 1..4 /\ 4 \in 1..4 /\ 1 \in 1..1
        /\ 2 + 1 = 3 /\ 2 + 2 = 4 /\ 2 + 3 = 5 /\ 4 + 1 = 5
    OBVIOUS
  <2> QED
    BY <1>1, <1>2, <1>14, <1>15, <2>1, Zenon
<1>8. NamePlaces(text) # {} /\ Least(NamePlaces(text)) = 2
  <2>1. 2 \in 1..(Len(text) - 1) /\ \A i \in 1..(2 - 1) : text[i] # phrase
    <3>1. \A i \in 1..(2 - 1) : i = 1
      OBVIOUS
    <3> QED
      BY <1>2, <1>7, <1>15, <3>1
  <2>2. Places(text, <<phrase, colon>>) # {} /\ Least(Places(text, <<phrase, colon>>)) = 2
    BY <1>3, <1>7, <2>1, LeastPair
  <2> QED
    BY <1>4, <2>2, Zenon
<1>. DEFINE R == RestAt(text, 2, blank)
<1>9. R \in Seq(Symbols) /\ Len(R) = Len(text) - 4 /\ \A k \in 1..(Len(text) - 4) : R[k] = text[4 + k]
  <2>1. 2 \in Nat \ {0} /\ 2 + 3 <= Len(text) /\ 2 + 2 = 4
    BY <1>2, <1>15
  <2>2. /\ R \in Seq(Symbols) /\ Len(R) = Len(text) - (2 + 2)
        /\ \A k \in 1..(Len(text) - (2 + 2)) : R[k] = text[2 + 2 + k]
    <3>1. BehindIs(Symbols, text, 2, blank)
      BY <1>3, <1>7, <2>1, RestBehind, Zenon
    <3> QED
      BY <3>1, Zenon DEF BehindIs
  <2>. HIDE DEF R
  <2> QED
    BY <1>2, <2>1, <2>2
<1>. HIDE DEF R
<1>10. R # <<>> /\ R[1] \notin quotes
  <2>1. 1 \in 1..(Len(text) - 4) /\ 4 + 1 = 5 /\ Len(R) >= 1
    BY <1>2, <1>9, <1>15
  <2>2. R[1] \notin quotes
    BY <1>3, <1>7, <1>9, <1>15, <2>1
  <2> QED
    BY <1>9, <2>1, <2>2
<1>12. Bounded(R, m, comma)
  <2>1. 4 \in Nat /\ 4 + Len(m) < Len(text)
    BY <1>2
  <2> QED
    BY <1>2, <1>3, <1>7, <1>9, <2>1, BoundedRest
<1>13. PartIn(R) = m
  BY <1>6, <1>10, <1>12, UntilModule, Zenon
<1> QED
  BY <1>5, <1>8, <1>10, <1>13 DEF m, R

\* extract_unable_to_load_dll reads the plain module after its phrase.
LEMMA NamedRead ==
  ASSUME NEW s, NEW text, Told(s, text), s.form \in {"process_work", "load_work"}, Plain(s.module)
  PROVE  NamedDll(text) = DllNumber[LastComponent(s.module)]
<1>1. NamedDll(text) = NameIn(s.module)
  BY NamedQuoted, NamedPlainly
<1>2. s \in Sayings
  BY DEF Told
<1>3. s.module \in Seq(Symbols) /\ LastComponent(s.module) \in DOMAIN DllNumber
  BY <1>2, NoQuote, WritingAssumption, Zenon
<1> QED
  BY <1>1, <1>3, NameOfPlain, Zenon

-----------------------------------------------------------------------------
(* The status in a text.                                                    *)

\* extract_first_hex_u32 reads the status that follows, and no other.
LEMMA StatusRead ==
  ASSUME NEW s, NEW text, Told(s, text), NEW k \in DOMAIN s.rest, s.rest[k] \in DOMAIN Hex
  PROVE  FirstHex(text) = Hex[s.rest[k]] /\ FirstHex(text) \in Nat
<1>. DEFINE F == Form[s.form][1]
            G == Form[s.form][2]
            m == s.module
            a == Len(F)
            b == Len(m)
            g == Len(G)
            c == a + b + g
<1>1. s \in Sayings /\ s.form \in DOMAIN Form /\ m \in Seq(PathSymbols) /\ s.rest \in Seq(RestSymbols)
  BY SayingTyped DEF Told
<1>2. F \in Seq(FormSymbols) /\ G \in Seq(FormSymbols)
  BY <1>1, FormIs
<1>3. /\ text \in Seq(Symbols) /\ a \in Nat /\ b \in Nat /\ c <= Len(text) /\ c \in Nat
      /\ \A i \in 1..a : text[i] = F[i]
      /\ \A i \in 1..b : text[a + i] = m[i]
      /\ \A i \in 1..g : text[a + b + i] = G[i]
      /\ \A i \in (c + 1)..Len(text) :
           text[i] \in DOMAIN Hex => \E n \in DOMAIN s.rest : s.rest[n] = text[i]
      /\ \A n \in DOMAIN s.rest : \E i \in (c + 1)..Len(text) : text[i] = s.rest[n]
  <2>1. Composed(s, text) /\ text \in Seq(Symbols)
    BY DEF Told
  <2> QED
    BY <2>1, Zenon DEF Composed
<1>4. c = a + b + g /\ g \in Nat /\ Len(text) \in Nat /\ DOMAIN text = 1..Len(text)
  BY <1>2, <1>3
<1>5. /\ \A i \in 1..a : F[i] \notin DOMAIN Hex
      /\ \A i \in 1..b : m[i] \notin DOMAIN Hex
      /\ \A i \in 1..g : G[i] \notin DOMAIN Hex
  <2>1. \A x \in FormSymbols \cup PathSymbols : x \notin DOMAIN Hex
    BY SymbolSorts DEF FormSymbols, PathSymbols, TokenSymbols
  <2>2. /\ \A i \in 1..a : F[i] \in FormSymbols
        /\ \A i \in 1..b : m[i] \in PathSymbols
        /\ \A i \in 1..g : G[i] \in FormSymbols
    BY <1>1, <1>2
  <2> QED
    BY <2>1, <2>2
<1>6. \A n \in DOMAIN s.rest : s.rest[n] \in DOMAIN Hex => s.rest[n] = s.rest[k]
  BY <1>1, WritingAssumption
<1>. HIDE DEF F, G, m, a, b, g, c
<1>. DEFINE P == {i \in DOMAIN text : text[i] \in DOMAIN Hex}
<1>7. ASSUME NEW i \in P PROVE text[i] = s.rest[k]
  <2>1. i \in 1..Len(text) /\ text[i] \in DOMAIN Hex
    BY <1>4
  <2>2. i > a
    BY <1>3, <1>5, <2>1
  <2>3. i > a + b
    <3>1. CASE i <= a + b
      <4>1. i - a \in 1..b /\ a + (i - a) = i
        BY <1>3, <2>1, <2>2, <3>1
      <4> QED
        BY <1>3, <1>5, <2>1, <4>1
    <3> QED
      BY <1>3, <2>1, <3>1
  <2>4. i > c
    <3>1. CASE i <= c
      <4>1. i - (a + b) \in 1..g /\ a + b + (i - (a + b)) = i
        BY <1>3, <1>4, <2>1, <2>3, <3>1
      <4> QED
        BY <1>3, <1>5, <2>1, <4>1
    <3> QED
      BY <1>3, <2>1, <3>1
  <2>5. i \in (c + 1)..Len(text)
    BY <1>3, <2>1, <2>4
  <2> QED
    BY <1>3, <1>6, <2>1, <2>5
<1>8. P # {} /\ P \in SUBSET Nat
  <2>1. PICK i \in (c + 1)..Len(text) : text[i] = s.rest[k]
    BY <1>3
  <2>2. i \in DOMAIN text
    BY <1>3, <1>4
  <2> QED
    BY <1>4, <2>1, <2>2
<1>9. FirstHex(text) = IF P = {} THEN None ELSE Hex[text[Least(P)]]
  BY Zenon DEF FirstHex
<1>10. Least(P) \in P
  <2>. HIDE DEF P
  <2> QED
    BY <1>8, LeastIs
<1>. HIDE DEF P
<1>11. FirstHex(text) = Hex[s.rest[k]]
  BY <1>7, <1>8, <1>9, <1>10
<1> QED
  BY <1>11, SymbolsAssumption

-----------------------------------------------------------------------------
(* What the scan takes from a saying.                                       *)

NumberOf(module) == DllNumber[LastComponent(module)]

\* The number of a plain module's name is a DLL that is not noise.
LEMMA PlainNumber ==
  ASSUME NEW s \in Sayings, Plain(s.module)
  PROVE  NumberOf(s.module) \in Dlls \ Noise /\ NumberOf(s.module) # None
<1>. DEFINE name == LastComponent(s.module)
<1>1. name \in DOMAIN DllNumber /\ ~IsNoiseDll(name)
  <2>1. name \in DOMAIN DllNumber
    BY WritingAssumption
  <2>2. ~IsNoiseDll(name)
    BY Zenon DEF Plain
  <2> QED
    BY <2>1, <2>2
<1>. HIDE DEF name
<1>2. DllNumber[name] \in Dlls
  BY <1>1, SayingsAssumption
<1>3. DllNumber[name] \notin Noise
  <2> SUFFICES ASSUME DllNumber[name] \in Noise PROVE FALSE
    OBVIOUS
  <2>1. PICK n \in DOMAIN DllNumber : IsNoiseDll(n) /\ DllNumber[name] = DllNumber[n]
    BY SayingsAssumption
  <2>2. name = n
    BY <1>1, <2>1, WritingAssumption
  <2> QED
    BY <1>1, <2>1, <2>2
<1>4. None \notin Dlls
  BY LinesAssumption
<1> QED
  BY <1>2, <1>3, <1>4 DEF NumberOf, name

\* What is in the line of a saying.
Heeds(s, l) ==
  /\ l \in Lines /\ l.tid = s.tid /\ ~IsLoad(l)
  /\ Returns(l) => s.form = "return"
  /\ IsAttempt(l) => s.form = "enter"
  /\ s.form = "enter" /\ Plain(s.module) => IsAttempt(l) /\ l.dll = NumberOf(s.module)
  /\ l.probe <=> s.form = "known_dll"
  /\ l.pattern # None => s.form \notin {"enter", "return"}
  /\ s.form \in Failing =>
       /\ l.pattern # None
       /\ Plain(s.module) => Or(l.named, l.dll) = NumberOf(s.module)
       /\ s.module = <<>> => Or(l.named, l.dll) = None
  /\ \A k \in DOMAIN s.rest :
       s.rest[k] \in DOMAIN Hex => l.status = Hex[s.rest[k]] /\ l.status \in Nat

\* A saying is told by what is written of it.
LEMMA SayingTold ==
  ASSUME NEW s \in Sayings
  PROVE  Told(s, Written(s))
  BY WrittenComposed DEF Told, Composed

\* The line of a saying has what the scan needs of it.
LEMMA SayingHeeded ==
  ASSUME NEW s \in Sayings
  PROVE  Heeds(s, ReadOf[s])
<1>. DEFINE text == Written(s)
            l == ReadOf[s]
<1>1. Told(s, text)
  BY SayingTold, Zenon
<1>2. l \in Lines
  BY SayingsAssumption
<1>3. /\ l.tid = s.tid /\ l.dll = DllOf(text) /\ l.named = NamedDll(text)
      /\ l.attempt = LooksLikeLoadAttempt(text) /\ l.returns = IsLoadReturn(text)
      /\ l.probe = IsIgnoredProbeLine(text) /\ l.pattern = PatternOf(text)
      /\ l.status = FirstHex(text)
  <2>1. l = Read(s.tid, text)
    BY Zenon DEF ReadOf
  <2>. HIDE DEF text, l
  <2> QED
    BY <2>1, Zenon DEF Read
<1>4. ~IsLoad(l)
  BY <1>2, LineType
<1>. HIDE DEF text, l
<1>5. Returns(l) => s.form = "return"
  BY <1>1, <1>3, Returning DEF Returns
<1>6. IsAttempt(l) => s.form = "enter"
  BY <1>1, <1>3, Attempting DEF IsAttempt
<1>7. ASSUME s.form = "enter", Plain(s.module) PROVE IsAttempt(l) /\ l.dll = NumberOf(s.module)
  <2>1. l.dll = NumberOf(s.module)
    BY <1>1, <1>3, <1>7, DllRead DEF NumberOf
  <2>2. NumberOf(s.module) # None
    BY <1>7, PlainNumber
  <2>3. HasOneOf(text, {".dll"})
    <3>1. DllEnds(text) # {}
      BY <1>1, <1>7, FirstDll
    <3> QED
      BY <3>1, Zenon DEF DllEnds, HasOneOf
  <2>4. LooksLikeLoadAttempt(text)
    BY <1>1, <1>7, <2>3, Attempting
  <2> QED
    BY <1>3, <2>1, <2>2, <2>4 DEF IsAttempt
<1>8. l.probe <=> s.form = "known_dll"
  BY <1>1, <1>3, Probing
<1>9. l.pattern # None => s.form \notin {"enter", "return"}
  BY <1>1, <1>3, NoPattern
<1>10. ASSUME s.form \in Failing
       PROVE  /\ l.pattern # None
              /\ Plain(s.module) => Or(l.named, l.dll) = NumberOf(s.module)
              /\ s.module = <<>> => Or(l.named, l.dll) = None
  <2>1. l.pattern # None
    <3>1. PatternOf(text) \in Patterns
      BY <1>1, <1>10, FailingPattern, Zenon
    <3> QED
      BY <1>3, <3>1, LinesAssumption
  <2>2. ASSUME Plain(s.module) PROVE Or(l.named, l.dll) = NumberOf(s.module)
    <3>1. DllOf(text) = NumberOf(s.module) /\ NumberOf(s.module) # None
      BY <1>1, <2>2, DllRead, PlainNumber DEF NumberOf
    <3>2. NamedDll(text) = None \/ NamedDll(text) = NumberOf(s.module)
      BY <1>1, <2>2, NamedNot, NamedRead DEF NumberOf
    <3> QED
      BY <1>3, <3>1, <3>2 DEF Or
  <2>3. ASSUME s.module = <<>> PROVE Or(l.named, l.dll) = None
    <3>1. DllOf(text) = None /\ NamedDll(text) = None
      BY <1>1, <2>3, DllRead, NamedNot
    <3> QED
      BY <1>3, <3>1 DEF Or
  <2> QED
    BY <2>1, <2>2, <2>3
<1>11. \A k \in DOMAIN s.rest :
         s.rest[k] \in DOMAIN Hex => l.status = Hex[s.rest[k]] /\ l.status \in Nat
  BY <1>1, <1>3, StatusRead
<1>12. Heeds(s, l)
  BY <1>2, <1>3, <1>4, <1>5, <1>6, <1>7, <1>8, <1>9, <1>10, <1>11, Zenon DEF Heeds
<1> QED
  BY <1>12 DEF l

-----------------------------------------------------------------------------
(* That the failures kept are the failures said.                            *)

\* What was written, in the order in which the scan read it.
Writings == Sayings \cup {Loaded(m) : m \in Modules}
Follows(w, e) == IF IsLoad(w) THEN IsLoad(e) ELSE w \in Sayings /\ e = ReadOf[w]
AsSaid ==
  /\ said \in Seq(Writings) /\ seen \in Seq(Events) /\ Len(said) = Len(seen)
  /\ \A n \in 1..Len(said) : Follows(said[n], seen[n])

\* A saying is not a load event.
LEMMA WritingKind ==
  /\ \A s \in Sayings : ~IsLoad(s)
  /\ \A m : IsLoad(Loaded(m))
<1>1. ASSUME NEW s \in Sayings PROVE ~IsLoad(s)
  <2>1. DOMAIN s = {"tid", "form", "module", "parent", "rest"}
    BY WritingAssumption
  <2> QED
    BY <2>1 DEF IsLoad
<1> QED
  BY <1>1 DEF IsLoad, Loaded

\* One more writing, and the event that is read of it.
LEMMA WritingAdded ==
  ASSUME NEW w \in Writings, NEW e \in Events, AsSaid, Follows(w, e),
         said' = Append(said, w), seen' = Append(seen, e)
  PROVE  AsSaid'
<1>1. /\ said \in Seq(Writings) /\ seen \in Seq(Events) /\ Len(said) = Len(seen)
      /\ \A n \in 1..Len(said) : Follows(said[n], seen[n])
  BY DEF AsSaid
<1>2. /\ said' \in Seq(Writings) /\ Len(said') = Len(said) + 1 /\ said'[Len(said) + 1] = w
      /\ \A n \in 1..Len(said) : said'[n] = said[n]
  BY <1>1, AppendFacts
<1>3. /\ seen' \in Seq(Events) /\ Len(seen') = Len(seen) + 1 /\ seen'[Len(seen) + 1] = e
      /\ \A n \in 1..Len(seen) : seen'[n] = seen[n]
  BY <1>1, AppendFacts
<1>4. Len(said) \in Nat
  BY <1>1
<1>5. ASSUME NEW n \in 1..Len(said') PROVE Follows(said'[n], seen'[n])
  <2>1. CASE n \in 1..Len(said)
    BY <1>1, <1>2, <1>3, <2>1
  <2>2. CASE n \notin 1..Len(said)
    <3>1. n = Len(said) + 1
      BY <1>2, <1>4, <2>2
    <3> QED
      BY <1>1, <1>2, <1>3, <3>1
  <2> QED
    BY <2>1, <2>2
<1>6. Len(said') = Len(seen')
  BY <1>1, <1>2, <1>3
<1> QED
  BY <1>2, <1>3, <1>5, <1>6 DEF AsSaid, Follows, IsLoad

\* AsSaid holds at first, and every step keeps it.
LEMMA InitAsSaid == LinesInit => AsSaid
  BY DEF LinesInit, Init, AsSaid

\* Each step appends to both sequences or to none.
LEMMA NextAsSaid == AsSaid /\ [LinesNext]_linevars => AsSaid'
<1> SUFFICES ASSUME AsSaid, [LinesNext]_linevars PROVE AsSaid'
  OBVIOUS
<1>1. ASSUME NEW m \in Modules, Loading(m) PROVE AsSaid'
  <2>1. Number(m) \in Dlls
    BY SayingsAssumption DEF Number
  <2>2. Loaded(Number(m)) \in Events /\ Loaded(m) \in Writings
    BY <2>1 DEF Events, Writings
  <2>3. said' = Append(said, Loaded(m)) /\ seen' = Append(seen, Loaded(Number(m)))
    BY <1>1 DEF Loading, RuntimeLoaded
  <2>4. Follows(Loaded(m), Loaded(Number(m)))
    BY WritingKind DEF Follows
  <2> QED
    BY <2>2, <2>3, <2>4, WritingAdded
<1>2. ASSUME NEW s \in Sayings, Says(s) PROVE AsSaid'
  <2>1. ReadOf[s] \in Events /\ s \in Writings
    BY SayingsAssumption DEF Events, Writings
  <2>2. said' = Append(said, s) /\ seen' = Append(seen, ReadOf[s])
    BY <1>2 DEF Says, DebugString
  <2>3. Follows(s, ReadOf[s])
    BY WritingKind DEF Follows
  <2> QED
    BY <2>1, <2>2, <2>3, WritingAdded
<1>3. CASE Chosen \/ Ended \/ UNCHANGED linevars
  BY <1>3 DEF Chosen, Ended, Select, Done, linevars, vars, scanVars, AsSaid
<1> QED
  BY <1>1, <1>2, <1>3 DEF LinesNext

\* The event at which a saying was read.
LEMMA ReadAt ==
  ASSUME AsSaid, NEW n \in DOMAIN said
  PROVE  /\ n \in DOMAIN seen /\ n \in Nat
         /\ IsLoad(said[n]) <=> IsLoad(seen[n])
         /\ ~IsLoad(said[n]) => said[n] \in Sayings /\ Heeds(said[n], seen[n])
<1>1. n \in 1..Len(said) /\ n \in DOMAIN seen
  BY DEF AsSaid
<1>2. Follows(said[n], seen[n])
  BY <1>1 DEF AsSaid
<1>3. ASSUME ~IsLoad(said[n]) PROVE said[n] \in Sayings /\ Heeds(said[n], seen[n]) /\ ~IsLoad(seen[n])
  <2>1. said[n] \in Sayings /\ seen[n] = ReadOf[said[n]]
    BY <1>2, <1>3, Zenon DEF Follows
  <2>2. Heeds(said[n], seen[n])
    BY <2>1, SayingHeeded
  <2> QED
    BY <2>1, <2>2 DEF Heeds
<1> QED
  BY <1>1, <1>2, <1>3 DEF Follows

\* A line that says a failure, of a plain module, fails on that module's DLL.
LEMMA SaidFails ==
  ASSUME AsSaid, NEW n \in DOMAIN said, ~IsLoad(said[n]), said[n].form \in Failing, Plain(About(n))
  PROVE  FailsIn(seen, n, NumberOf(About(n))) /\ NumberOf(About(n)) \in Dlls
<1>. DEFINE s == said[n]
            l == seen[n]
            d == NumberOf(About(n))
            open == {a \in 1..(n - 1) : Opens(a, n)}
<1>1. s \in Sayings /\ Heeds(s, l) /\ n \in Nat /\ n \in DOMAIN seen /\ DOMAIN said = 1..Len(said) /\ Len(said) \in Nat
  BY ReadAt DEF AsSaid
<1>2. About(n) = IF s.module # <<>> \/ open = {} THEN s.module ELSE said[CHOOSE a \in open : TRUE].module
  BY Zenon DEF About
<1>3. /\ ~IsLoad(l) /\ ~l.probe /\ l.pattern # None /\ ~Returns(l) /\ l.tid = s.tid
  <2>1. s.form # "known_dll" /\ s.form # "return"
    BY DEF Failing
  <2> QED
    BY <1>1, <2>1, Zenon DEF Heeds
<1>4. CASE s.module # <<>>
  <2>1. About(n) = s.module
    BY <1>2, <1>4
  <2>2. Or(l.named, l.dll) = d
    BY <1>1, <2>1, Zenon DEF Heeds
  <2>3. d \in Dlls \ Noise
    BY <1>1, <2>1, PlainNumber
  <2> QED
    BY <1>3, <2>2, <2>3, Zenon DEF FailsIn
<1>5. CASE s.module = <<>>
  <2>1. open # {}
    <3>1. ASSUME open = {} PROVE FALSE
      <4>1. About(n) = <<>>
        BY <1>2, <1>5, <3>1
      <4>2. ~Plain(<<>>)
        <5>1. {k \in DOMAIN <<>> : <<>>[k] = ".dll"} # {Len(<<>>)}
          OBVIOUS
        <5> QED
          BY <5>1, Zenon DEF Plain
      <4> QED
        BY <4>1, <4>2
    <3> QED
      BY <3>1
  <2>2. PICK a \in open : About(n) = said[a].module
    BY <1>2, <1>5, <2>1, Zenon
  <2>3. a \in 1..(n - 1) /\ Opens(a, n)
    OBVIOUS
  <2>4. /\ ~IsLoad(said[a]) /\ said[a].tid = s.tid /\ said[a].form = "enter"
        /\ \A k \in (a + 1)..n :
             ~IsLoad(said[k]) /\ said[k].tid = s.tid => said[k].form \notin {"enter", "return"}
    BY <2>3, Zenon DEF Opens
  <2>5. a \in DOMAIN said /\ \A k \in (a + 1)..n : k \in DOMAIN said
    BY <1>1, <2>3
  <2>6. said[a] \in Sayings /\ Heeds(said[a], seen[a])
    BY <2>4, <2>5, ReadAt
  <2>7. /\ ~IsLoad(seen[a]) /\ seen[a].tid = s.tid /\ IsAttempt(seen[a]) /\ ~Returns(seen[a])
        /\ seen[a].dll = d
    <3>1. said[a].form # "return"
      BY <2>4
    <3> QED
      BY <2>2, <2>4, <2>6, <3>1, Zenon DEF Heeds
  <2>8. ASSUME NEW i \in (a + 1)..(n - 1), OwnIn(seen, s.tid, i)
        PROVE  ~Returns(seen[i]) /\ ~IsAttempt(seen[i])
    <3>1. i \in (a + 1)..n /\ i \in DOMAIN said
      BY <1>1, <2>3, <2>5
    <3>2. ~IsLoad(seen[i]) /\ seen[i].tid = s.tid
      BY <2>8 DEF OwnIn
    <3>3. ~IsLoad(said[i]) /\ Heeds(said[i], seen[i])
      BY <3>1, <3>2, ReadAt
    <3>4. said[i].tid = s.tid
      BY <3>2, <3>3, Zenon DEF Heeds
    <3>5. said[i].form \notin {"enter", "return"}
      BY <2>4, <3>1, <3>3, <3>4
    <3>6. said[i].form # "enter" /\ said[i].form # "return"
      BY <3>5
    <3> QED
      BY <3>3, <3>6, Zenon DEF Heeds
  <2>9. OpenIn(seen, l.tid, a, n)
    BY <1>3, <2>7, <2>8 DEF OpenIn, OwnIn
  <2>10. Or(l.named, l.dll) = None
    BY <1>1, <1>5, Zenon DEF Heeds
  <2>11. d \in Dlls
    BY <2>2, <2>6, PlainNumber
  <2>12. \E b \in 1..(n - 1) : OpenIn(seen, l.tid, b, n) /\ ~Returns(l) /\ seen[b].dll = d
    BY <1>3, <2>3, <2>7, <2>9, Zenon
  <2> QED
    BY <1>3, <2>10, <2>11, <2>12, Zenon DEF FailsIn
<1> QED
  BY <1>4, <1>5

\* Detections, of what was said.
LEMMA FailuresSaid ==
  ASSUME AsSaid, Typed, Detections, StatusFromOneLine
  PROVE  FailuresAsSaid
<1>1. ASSUME NEW n \in DOMAIN said, ~IsLoad(said[n]), said[n].form \in Failing, Plain(About(n))
      PROVE  \E i \in DOMAIN candidates :
               /\ candidates[i].event_idx = n
               /\ candidates[i].dll = DllNumber[LastComponent(About(n))]
               /\ \A k \in DOMAIN said[n].rest :
                    said[n].rest[k] \in DOMAIN Hex => candidates[i].status = Hex[said[n].rest[k]]
  <2>. DEFINE d == NumberOf(About(n))
  <2>1. FailsIn(seen, n, d) /\ d \in Dlls
    BY <1>1, SaidFails
  <2>2. n \in DOMAIN seen /\ Heeds(said[n], seen[n])
    BY <1>1, ReadAt
  <2>3. d = DllNumber[LastComponent(About(n))]
    BY DEF NumberOf
  <2>. HIDE DEF d
  <2>4. PICK i \in DOMAIN candidates : candidates[i].event_idx = n /\ candidates[i].dll = d
    BY <2>1, <2>2 DEF Detections
  <2>5. ASSUME NEW k \in DOMAIN said[n].rest, said[n].rest[k] \in DOMAIN Hex
        PROVE  candidates[i].status = Hex[said[n].rest[k]]
    <3>1. seen[n].status = Hex[said[n].rest[k]] /\ seen[n].status \in Nat
      BY <2>2, <2>5, Zenon DEF Heeds
    <3>2. candidates[i].status = seen[n].status \/ seen[n].status = None
      BY <2>4 DEF StatusFromOneLine
    <3>3. None \notin Nat
      BY LinesAssumption
    <3> QED
      BY <3>1, <3>2, <3>3
  <2> QED
    BY <2>3, <2>4, <2>5
<1>2. ASSUME NEW i \in DOMAIN candidates
      PROVE  LET s == said[candidates[i].event_idx]
             IN  ~IsLoad(s) /\ s.form \in Failing \cup {"search_path", "internal"}
  <2>. DEFINE n == candidates[i].event_idx
  <2>1. n \in DOMAIN seen /\ FromLine(candidates[i], seen[n])
    BY DEF Detections
  <2>2. n \in DOMAIN said
    BY <2>1 DEF AsSaid
  <2>. HIDE DEF n
  <2>3. ~IsLoad(seen[n]) /\ ~seen[n].probe /\ seen[n].pattern # None
    BY <2>1 DEF FromLine
  <2>4. ~IsLoad(said[n]) /\ said[n] \in Sayings /\ Heeds(said[n], seen[n])
    BY <2>2, <2>3, ReadAt
  <2>5. said[n].form # "known_dll" /\ said[n].form \notin {"enter", "return"}
    BY <2>3, <2>4, Zenon DEF Heeds
  <2>6. said[n].form \in DOMAIN Form
    BY <2>4, SayingTyped
  <2>7. said[n].form \in Failing \cup {"search_path", "internal"}
    BY <2>5, <2>6 DEF Form, Failing
  <2> QED
    BY <2>4, <2>7 DEF n
<1> QED
  BY <1>1, <1>2 DEF FailuresAsSaid

\* FailuresAsSaid, of any texts that keep the loader's forms.
THEOREM FailuresKeptAsSaid == LinesSpec => []FailuresAsSaid
<1>1. LinesSpec => []AsSaid
  BY InitAsSaid, NextAsSaid, PTL DEF LinesSpec
<1>2. LinesSpec => [](Typed /\ Detections /\ StatusFromOneLine)
  BY TextsAreLines, TypedInvariant, DetectionInvariant, StatusIsOfOneLine, PTL
<1> QED
  BY <1>1, <1>2, FailuresSaid, PTL
=============================================================================
