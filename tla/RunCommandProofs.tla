-------------------------- MODULE RunCommandProofs --------------------------
(***************************************************************************)
(* Proofs about RunCommand, for every set of command lines, every set of   *)
(* outcomes and every number of failing imports.                           *)
(***************************************************************************)
EXTENDS RunCommand, FiniteSetTheorems, TLAPS

-----------------------------------------------------------------------------
(* The operators the model is built from.                                   *)

LEMMA LinesType ==
  ASSUME NEW c \in BOOLEAN, NEW t \in Seq(Tokens)
  PROVE  Lines(c, t) \in Seq(Tokens)
BY DEF Lines

LEMMA ConcatType ==
  ASSUME NEW s \in Seq(Tokens), NEW t \in Seq(Tokens)
  PROVE  s \o t \in Seq(Tokens)
OBVIOUS

LEMMA FailuresType ==
  ASSUME NEW f \in Failures
  PROVE  /\ f \in Seq(Kinds) /\ f \in Seq(Tokens)
         /\ Len(f) \in 0..MaxFailures
         /\ DOMAIN f = 1..Len(f)
<1>1. PICK n \in 0..MaxFailures : f \in [1..n -> Kinds]
  BY DEF Failures
<1>2. Kinds \subseteq Tokens
  BY DEF Kinds, Diagnoses, Tokens
<1> QED
  BY <1>1, <1>2, MaxFailuresAssumption

\* A count is at most the number of failures.
LEMMA CountType ==
  ASSUME NEW f \in Failures, NEW kind
  PROVE  Count(f, kind) \in 0..MaxFailures
<1> DEFINE hits == {i \in DOMAIN f : f[i] = kind}
<1>1. IsFiniteSet(1..Len(f)) /\ Cardinality(1..Len(f)) = Len(f)
  BY FailuresType, FS_Interval
<1>2. hits \subseteq 1..Len(f)
  BY FailuresType
<1>3. Cardinality(hits) \in Nat /\ Cardinality(hits) <= Len(f)
  BY <1>1, <1>2, FS_Subset, FS_CardinalityType
<1> QED
  BY <1>3, FailuresType, MaxFailuresAssumption DEF Count

\* A count is positive exactly when there is such a failure.
LEMMA CountPositive ==
  ASSUME NEW f \in Failures, NEW kind
  PROVE  Count(f, kind) > 0 <=> \E i \in DOMAIN f : f[i] = kind
<1> DEFINE hits == {i \in DOMAIN f : f[i] = kind}
<1>1. hits \subseteq 1..Len(f)
  BY FailuresType
<1>2. IsFiniteSet(hits)
  BY <1>1, FailuresType, FS_Interval, FS_Subset
<1>3. Cardinality(hits) = 0 <=> hits = {}
  BY <1>2, FS_EmptySet
<1> QED
  BY <1>3, CountType DEF Count

\* The counts of a walk add up to 0 exactly when nothing failed.
LEMMA CountsOfWalk ==
  ASSUME NEW f \in Failures
  PROVE  Count(f, "STATIC_MISSING") + Count(f, "STATIC_BAD_IMAGE") = 0 <=> f = <<>>
<1>1. \A i \in DOMAIN f : f[i] = "STATIC_MISSING" \/ f[i] = "STATIC_BAD_IMAGE"
  BY FailuresType DEF Kinds
<1>2. f = <<>> <=> DOMAIN f = {}
  BY FailuresType
<1>3. /\ Count(f, "STATIC_MISSING") \in Nat
      /\ Count(f, "STATIC_BAD_IMAGE") \in Nat
  BY CountType, MaxFailuresAssumption
<1>4. /\ Count(f, "STATIC_MISSING") > 0 <=> \E i \in DOMAIN f : f[i] = "STATIC_MISSING"
      /\ Count(f, "STATIC_BAD_IMAGE") > 0 <=> \E i \in DOMAIN f : f[i] = "STATIC_BAD_IMAGE"
  BY CountPositive
<1>5. (Count(f, "STATIC_MISSING") > 0 \/ Count(f, "STATIC_BAD_IMAGE") > 0) <=> f # <<>>
  BY <1>1, <1>2, <1>4
<1> QED
  BY <1>3, <1>5

LEMMA StaticLinesType ==
  ASSUME TypeOK, NEW f \in Failures, NEW issue \in Kinds
  PROVE  StaticLines(f, issue) \in Seq(Tokens)
<1>1. /\ f \in Seq(Tokens) /\ issue \in Tokens
      /\ <<"detail">> \in Seq(Tokens) /\ <<"FIRST_BREAK">> \in Seq(Tokens)
  BY FailuresType DEF Kinds, Diagnoses, Tokens
<1>2. /\ <<issue>> \in Seq(Tokens)
      /\ <<"detail", issue, "detail">> \in Seq(Tokens)
  BY <1>1 DEF Tokens
<1>3. <<"detail">> \o f \o Lines(f # <<>>, <<"FIRST_BREAK">>) \in Seq(Tokens)
  <2>1. Lines(f # <<>>, <<"FIRST_BREAK">>) \in Seq(Tokens)
    BY <1>1, LinesType
  <2> QED
    BY <1>1, <2>1, ConcatType
<1> QED
  BY <1>2, <1>3, LinesType DEF StaticLines

LEMMA NoneIsNoCode == \A c \in {0, 10, 20, 21, 22} : c # None
<1>1. \A c \in {0, 10, 20, 21, 22} : c \in Nat
  OBVIOUS
<1> QED
  BY <1>1, NoneAssumption

-----------------------------------------------------------------------------
(* Types *)

LEMMA TypeStep == TypeOK /\ [Next]_vars => TypeOK'
<1> SUFFICES ASSUME TypeOK, [Next]_vars PROVE TypeOK'
  OBVIOUS
<1> USE DEF Goto, Return, counts
<1>0. /\ opts \in Options
      /\ <<"detail">> \in Seq(Tokens) /\ <<"SUMMARY">> \in Seq(Tokens)
      /\ <<"SUCCESS">> \in Seq(Tokens) /\ "DYNAMIC_MISSING" \in Tokens
      /\ <<"detail", "DYNAMIC_MISSING", "detail">> \in Seq(Tokens)
      /\ VerboseTrace \in BOOLEAN /\ opts.trace \in BOOLEAN
  BY OptsAssumption DEF TypeOK, Tokens, Diagnoses, Options, VerboseTrace
<1>a. /\ out \o Lines(opts.trace, <<"detail">>) \in Seq(Tokens)
       /\ out \o Lines(VerboseTrace, <<"detail">>) \in Seq(Tokens)
       /\ Append(out, "DYNAMIC_MISSING") \in Seq(Tokens)
       /\ out \o <<"detail", "DYNAMIC_MISSING", "detail">> \in Seq(Tokens)
  <2>1. /\ Lines(opts.trace, <<"detail">>) \in Seq(Tokens)
        /\ Lines(VerboseTrace, <<"detail">>) \in Seq(Tokens)
    BY <1>0, LinesType
  <2> QED
    BY <1>0, <2>1, ConcatType DEF TypeOK
<1>1. CASE Resolve \/ ResolveFails \/ Launch \/ PebEnableFailed
  <2>1. CASE Resolve
    BY <2>1 DEF Resolve, TypeOK, Locations
  <2>2. CASE ResolveFails
    BY <2>2 DEF ResolveFails, TypeOK, Locations
  <2>3. CASE Launch
    BY <2>3 DEF Launch, TypeOK, Locations
  <2>4. CASE PebEnableFailed
    BY <2>4 DEF PebEnableFailed, TypeOK, Locations
  <2> QED
    BY <1>1, <2>1, <2>2, <2>3, <2>4
<1>2. CASE UnsupportedWow64Target
  BY <1>2, <1>a DEF UnsupportedWow64Target, TypeOK, Locations
<1>3. CASE Enable
  BY <1>3, <1>a DEF Enable, TypeOK, Locations
<1>4. CASE EnableFails
  BY <1>4, <1>a DEF EnableFails, TypeOK, Locations
<1>5. CASE Relaunch \/ Restore
  <2>1. CASE Relaunch
    BY <2>1 DEF Relaunch, TypeOK, Locations
  <2>2. CASE Restore
    BY <2>2 DEF Restore, TypeOK, Locations
  <2> QED
    BY <1>5, <2>1, <2>2
<1>6. CASE RestoreFails
  BY <1>6, <1>a DEF RestoreFails, TypeOK, Locations
<1>7. CASE GiveUp \/ SkipStatic \/ NoDynamic
  <2>1. CASE GiveUp
    BY <2>1 DEF GiveUp, TypeOK, Locations
  <2>2. CASE SkipStatic
    BY <2>2 DEF SkipStatic, TypeOK, Locations
  <2>3. CASE NoDynamic
    BY <2>3 DEF NoDynamic, TypeOK, Locations
  <2> QED
    BY <1>7, <2>1, <2>2, <2>3
<1>8. CASE Observe
  BY <1>8, <1>a DEF Observe, TypeOK, Locations
<1>9. CASE StaticWalk
  <2>1. PICK f \in Failures, issue \in Kinds :
          /\ static_missing_count' = Count(f, "STATIC_MISSING")
          /\ static_bad_image_count' = Count(f, "STATIC_BAD_IMAGE")
          /\ out' = out \o StaticLines(f, issue)
          /\ first_break' = (f # <<>>)
    BY <1>9 DEF StaticWalk
  <2>2. out' \in Seq(Tokens)
    BY <2>1, StaticLinesType DEF TypeOK
  <2>3. /\ static_missing_count' \in 0..MaxFailures
        /\ static_bad_image_count' \in 0..MaxFailures
    BY <2>1, CountType
  <2>4. first_break' \in BOOLEAN /\ summary_line_emitted' \in BOOLEAN
    BY <1>9, <2>1 DEF StaticWalk
  <2> QED
    BY <1>9, <2>2, <2>3, <2>4 DEF StaticWalk, TypeOK, Locations
<1>10. CASE StaticWalkFails
  <2>1. out' \in Seq(Tokens)
    <3>1. CASE VerboseTrace
      <4>1. PICK f \in Failures : out' = out \o f \o <<"detail">>
        BY <1>10, <3>1 DEF StaticWalkFails
      <4> QED
        BY <4>1, <1>0, FailuresType DEF TypeOK
    <3>2. CASE ~VerboseTrace
      BY <1>10, <3>2 DEF StaticWalkFails, TypeOK
    <3> QED
      BY <3>1, <3>2
  <2> QED
    BY <1>10, <2>1 DEF StaticWalkFails, TypeOK, Locations
<1>11. CASE DynamicMissing
  <2>1. out' \in Seq(Tokens)
    BY <1>11, <1>a DEF DynamicMissing
  <2>2. summary_line_emitted' \in BOOLEAN
    BY <1>11 DEF DynamicMissing
  <2> QED
    BY <1>11, <2>1, <2>2 DEF DynamicMissing, TypeOK, Locations
<1>12. CASE Finish
  <2> DEFINE code == RunResultCode(outcome)
             silent == summary_mode /\ ~summary_line_emitted
  <2>1. code \in {0, 10, 21}
    BY DEF RunResultCode
  <2>2. out' \in Seq(Tokens)
    <3>1. /\ Lines(VerboseTrace, <<"SUMMARY">>) \in Seq(Tokens)
          /\ Lines(silent /\ code = 0, <<"SUCCESS">>) \in Seq(Tokens)
      BY <1>0, LinesType
    <3>2. out' = out \o Lines(VerboseTrace, <<"SUMMARY">>)
                     \o Lines(silent /\ code = 0, <<"SUCCESS">>)
      BY <1>12 DEF Finish
    <3> QED
      BY <3>1, <3>2 DEF TypeOK
  <2>3. err' \in BOOLEAN
    BY <1>12 DEF Finish
  <2> QED
    BY <1>12, <2>1, <2>2, <2>3 DEF Finish, TypeOK, Locations
<1>13. CASE Done \/ UNCHANGED vars
  BY <1>13 DEF Done, vars, TypeOK
<1> QED
  BY <1>1, <1>2, <1>3, <1>4, <1>5, <1>6, <1>7, <1>8, <1>9, <1>10, <1>11, <1>12, <1>13
  DEF Next

LEMMA InitTypeOK == Init => TypeOK
<1>1. 0 \in 0..MaxFailures /\ 0 \in 0..1 /\ <<>> \in Seq(Tokens)
  BY MaxFailuresAssumption
<1> QED
  BY <1>1 DEF Init, TypeOK, Locations

\* The locals of run_command keep their types.
THEOREM TypeCorrect == Spec => []TypeOK
BY InitTypeOK, TypeStep, PTL DEF Spec

-----------------------------------------------------------------------------
(* The registry *)

\* The machine-wide flag is on only while the target is launched again: every
\* way from there, a failed launch included, goes through the restore before
\* the diagnosis or a return, and what may be left on is left by two restores
\* that failed.
FlagOnlyForRelaunch == flag = "set" => pc \in {"relaunch", "restore"}

\* The flag is released on every way out of the second launch.
THEOREM FlagReleased == Spec => []FlagOnlyForRelaunch
<1>1. Init => FlagOnlyForRelaunch
  BY DEF Init, FlagOnlyForRelaunch
<1>2. FlagOnlyForRelaunch /\ [Next]_vars => FlagOnlyForRelaunch'
  <2> SUFFICES ASSUME FlagOnlyForRelaunch, [Next]_vars PROVE FlagOnlyForRelaunch'
    OBVIOUS
  <2> USE DEF FlagOnlyForRelaunch, Goto, Return
  <2>1. CASE Resolve \/ ResolveFails \/ Launch \/ PebEnableFailed \/ UnsupportedWow64Target
    BY <2>1 DEF Resolve, ResolveFails, Launch, PebEnableFailed, UnsupportedWow64Target
  <2>2. CASE Enable \/ EnableFails \/ Relaunch \/ Restore \/ RestoreFails
    BY <2>2 DEF Enable, EnableFails, Relaunch, Restore, RestoreFails
  <2>3. CASE GiveUp \/ Observe \/ SkipStatic \/ StaticWalk \/ StaticWalkFails
    BY <2>3 DEF GiveUp, Observe, SkipStatic, StaticWalk, StaticWalkFails
  <2>4. CASE NoDynamic \/ DynamicMissing \/ Finish
    BY <2>4 DEF NoDynamic, DynamicMissing, Finish
  <2>5. CASE Done \/ UNCHANGED vars
    BY <2>5 DEF Done, vars
  <2> QED
    BY <2>1, <2>2, <2>3, <2>4, <2>5 DEF Next
<1> QED
  BY <1>1, <1>2, PTL DEF Spec

-----------------------------------------------------------------------------
(* Summary mode.  The counters, summary_line_emitted and stdout go together *)
(* at every point of the run: a phase that diagnoses prints its line, and   *)
(* the next one finds the counters positive and keeps silent.               *)

BeforePhases == {"resolve", "launch", "enable", "relaunch", "restore", "launched",
                 "static"}
Silent == out = <<>> /\ ~summary_line_emitted /\ DiagnosisCount = 0
Reported(tokens) ==
  /\ \E t \in tokens : out = <<t>>
  /\ summary_line_emitted
SummaryInv ==
  /\ TypeOK
  /\ ~opts.trace
  /\ exit = None <=> pc # "done"
  /\ pc \in BeforePhases => Silent
  /\ pc = "dynamic" =>
       \/ Silent
       \/ /\ Reported(Kinds) /\ static_missing_count + static_bad_image_count > 0
          /\ dynamic_missing_count = 0
  /\ pc = "finish" => Silent \/ (Reported(Diagnoses) /\ DiagnosisCount > 0)

\* In summary mode a line is only added to the empty stdout.
LEMMA SummaryOutput ==
  ASSUME SummaryInv
  PROVE  /\ \A t : out \o Lines(opts.trace, t) = out /\ out \o Lines(VerboseTrace, t) = out
         /\ Silent => \A s \in Seq(Tokens) : out \o s = s
<1>1. out \in Seq(Tokens) /\ ~opts.trace /\ ~VerboseTrace
  BY DEF SummaryInv, TypeOK, VerboseTrace
<1>2. out \o <<>> = out
  BY <1>1
<1>3. \A s \in Seq(Tokens) : <<>> \o s = s
  OBVIOUS
<1> QED
  BY <1>1, <1>2, <1>3 DEF Lines, Silent

LEMMA SumPositive ==
  \A a, b \in Nat : a + b # 0 => a + b > 0
OBVIOUS

\* The static phase in summary mode: one line if an import fails, else none.
LEMMA SummaryStatic ==
  ASSUME SummaryInv, StaticWalk
  PROVE  /\ UNCHANGED <<opts, outcome, err, exit>> /\ pc' = "dynamic" /\ exit = None
         /\ out = <<>>
         /\ dynamic_missing_count' = 0
         /\ \/ /\ out' = <<>> /\ ~summary_line_emitted'
               /\ static_missing_count' + static_bad_image_count' = 0
            \/ /\ \E t \in Kinds : out' = <<t>>
               /\ summary_line_emitted'
               /\ static_missing_count' + static_bad_image_count' > 0
<1>1. PICK f \in Failures, issue \in Kinds :
        /\ static_missing_count' = Count(f, "STATIC_MISSING")
        /\ static_bad_image_count' = Count(f, "STATIC_BAD_IMAGE")
        /\ out' = out \o StaticLines(f, issue)
        /\ summary_line_emitted' = (summary_mode /\ f # <<>>)
  BY DEF StaticWalk
<1>2. /\ Silent /\ summary_mode /\ exit = None /\ pc = "static"
      /\ dynamic_missing_count = 0
  <2>1. pc = "static" /\ pc \in BeforePhases
    BY DEF StaticWalk, BeforePhases
  <2>2. dynamic_missing_count = 0
    BY <2>1, MaxFailuresAssumption DEF SummaryInv, Silent, TypeOK, DiagnosisCount
  <2> QED
    BY <2>1, <2>2 DEF SummaryInv, summary_mode
<1>3. out' = IF f # <<>> THEN <<issue>> ELSE <<>>
  <2>1. StaticLines(f, issue) = IF f # <<>> THEN <<issue>> ELSE <<>>
    BY <1>2 DEF StaticLines, Lines
  <2>2. StaticLines(f, issue) \in Seq(Tokens)
    BY StaticLinesType DEF SummaryInv
  <2> QED
    BY <1>1, <1>2, <2>1, <2>2, SummaryOutput
<1>4. /\ static_missing_count' \in Nat /\ static_bad_image_count' \in Nat
      /\ static_missing_count' + static_bad_image_count' = 0 <=> f = <<>>
  BY <1>1, CountType, CountsOfWalk, MaxFailuresAssumption
<1>5. /\ UNCHANGED <<opts, outcome, err, exit>> /\ pc' = "dynamic"
      /\ dynamic_missing_count' = 0 /\ out = <<>>
  BY <1>2 DEF StaticWalk, Goto, Silent
<1>6. CASE f = <<>>
  BY <1>1, <1>2, <1>3, <1>4, <1>5, <1>6
<1>7. CASE f # <<>>
  <2>1. static_missing_count' + static_bad_image_count' > 0
    <3>1. static_missing_count' + static_bad_image_count' # 0
      BY <1>4, <1>7
    <3>2. static_missing_count' \in Nat /\ static_bad_image_count' \in Nat
      BY <1>4
    <3> QED
      BY <3>1, <3>2, SumPositive
  <2> QED
    BY <1>1, <1>2, <1>3, <1>5, <1>7, <2>1
<1> QED
  BY <1>6, <1>7

\* Phase C in summary mode: it diagnoses only if nothing has been printed.
LEMMA SummaryDynamic ==
  ASSUME SummaryInv, DynamicMissing
  PROVE  /\ UNCHANGED <<opts, outcome, err, exit>> /\ pc' = "finish" /\ exit = None
         /\ out = <<>> /\ out' = <<"DYNAMIC_MISSING">>
         /\ summary_line_emitted' /\ DiagnosisCount' > 0
<1>1. pc = "dynamic" /\ ~opts.trace /\ exit = None
  BY DEF DynamicMissing, SummaryInv
<1>2. static_missing_count + static_bad_image_count = 0
  BY DEF DynamicMissing, DynamicDue
<1>3. Silent
  BY <1>1, <1>2 DEF SummaryInv
<1>4. out' = Append(out, "DYNAMIC_MISSING")
  BY <1>1 DEF DynamicMissing
<1>5. out = <<>> /\ out' = <<"DYNAMIC_MISSING">>
  BY <1>3, <1>4 DEF Silent
<1>6. DiagnosisCount' = 1
  BY <1>2 DEF DynamicMissing, DiagnosisCount, SummaryInv, TypeOK
<1>7. summary_line_emitted'
  <2>1. summary_line_emitted' = (summary_line_emitted \/ summary_mode)
    BY DEF DynamicMissing
  <2> QED
    BY <1>1, <2>1, Zenon DEF summary_mode
<1>8. UNCHANGED <<opts, outcome, err, exit>> /\ pc' = "finish"
  BY DEF DynamicMissing, Goto
<1>9. DiagnosisCount' > 0
  BY <1>6
<1> QED
  BY <1>1, <1>5, <1>7, <1>8, <1>9

\* The end of a run in summary mode.
LEMMA SummaryFinish ==
  ASSUME SummaryInv, Finish
  PROVE  /\ opts' = opts /\ pc' = "done" /\ exit = None
         /\ \/ exit' = 10 /\ Reported(Diagnoses) /\ out' = out /\ err' = err
            \/ exit' = 0 /\ out = <<>> /\ out' = <<"SUCCESS">> /\ err' = err
            \/ exit' = 21 /\ out = <<>> /\ out' = out /\ err' = TRUE
<1> DEFINE code == RunResultCode(outcome)
           silent == summary_mode /\ ~summary_line_emitted
<1>1. /\ pc = "finish" /\ ~opts.trace /\ exit = None /\ summary_mode
      /\ out \in Seq(Tokens) /\ err \in BOOLEAN
  BY DEF Finish, SummaryInv, summary_mode, TypeOK
<1>2. /\ out' = out \o Lines(VerboseTrace, <<"SUMMARY">>)
                    \o Lines(silent /\ code = 0, <<"SUCCESS">>)
      /\ err' = (err \/ (silent /\ code # 0))
      /\ exit' = code /\ pc' = "done" /\ opts' = opts
  BY DEF Finish, Return, Goto
<1>3. out' = out \o Lines(silent /\ code = 0, <<"SUCCESS">>)
  BY <1>2, SummaryOutput
<1>4. CASE Reported(Diagnoses) /\ DiagnosisCount > 0
  <2>1. code = 10 /\ ~silent
    BY <1>4 DEF RunResultCode, Reported
  <2> QED
    BY <1>1, <1>2, <1>3, <1>4, <2>1 DEF Lines
<1>5. CASE Silent
  <2>1. silent /\ out = <<>> /\ code \in {0, 21}
    BY <1>1, <1>5 DEF Silent, RunResultCode
  <2>2. CASE code = 0
    <3>1. out' = <<"SUCCESS">>
      BY <1>3, <2>1, <2>2 DEF Lines
    <3> QED
      BY <1>1, <1>2, <2>1, <2>2, <3>1
  <2>3. CASE code = 21
    <3>1. out' = out
      BY <1>3, <2>1, <2>3 DEF Lines
    <3>2. err' = TRUE
      <4>1. err' = (err \/ (silent /\ code # 0)) /\ silent /\ code # 0
        BY <1>2, <2>1, <2>3
      <4> HIDE DEF silent, code
      <4> QED
        BY <4>1, Zenon
    <3> QED
      BY <1>1, <1>2, <2>1, <2>3, <3>1, <3>2
  <2> QED
    BY <2>1, <2>2, <2>3
<1> QED
  BY <1>1, <1>4, <1>5 DEF SummaryInv

\* The other steps of a run in summary mode print nothing on stdout and leave
\* the counters alone; one that returns has an explanation on stderr, or is
\* that of an unsupported target.
Quiet ==
  \/ Resolve \/ ResolveFails
  \/ Launch \/ PebEnableFailed \/ UnsupportedWow64Target
  \/ Enable \/ EnableFails \/ Relaunch \/ Restore \/ RestoreFails
  \/ GiveUp \/ Observe \/ SkipStatic \/ StaticWalkFails
LEMMA SummaryQuiet ==
  ASSUME SummaryInv, Quiet
  PROVE  /\ UNCHANGED <<opts, out, counts>> /\ out = <<>> /\ exit = None /\ Silent
         /\ \/ /\ pc' \in BeforePhases \cup {"dynamic"} /\ exit' = exit
               /\ err' = err \/ err' = TRUE
            \/ pc' = "done" /\ exit' \in {20, 21} /\ err' = TRUE
            \/ pc' = "done" /\ exit' = 22 /\ err' = err
<1> USE DEF Goto, Return, BeforePhases
<1>1. /\ pc \in BeforePhases => out = <<>> /\ exit = None /\ Silent
      /\ \A t : out \o Lines(opts.trace, t) = out /\ out \o Lines(VerboseTrace, t) = out
      /\ ~VerboseTrace
  BY SummaryOutput DEF SummaryInv, Silent, VerboseTrace
<1>2. CASE Resolve \/ ResolveFails \/ Launch \/ PebEnableFailed
  BY <1>1, <1>2 DEF Resolve, ResolveFails, Launch, PebEnableFailed
<1>3. CASE UnsupportedWow64Target
  BY <1>1, <1>3 DEF UnsupportedWow64Target
<1>4. CASE Enable \/ EnableFails
  BY <1>1, <1>4 DEF Enable, EnableFails
<1>5. CASE Relaunch \/ Restore \/ RestoreFails
  BY <1>1, <1>5 DEF Relaunch, Restore, RestoreFails
<1>6. CASE GiveUp \/ Observe
  BY <1>1, <1>6 DEF GiveUp, Observe
<1>7. CASE SkipStatic \/ StaticWalkFails
  BY <1>1, <1>7 DEF SkipStatic, StaticWalkFails
<1> QED
  BY <1>2, <1>3, <1>4, <1>5, <1>6, <1>7 DEF Quiet

LEMMA NoDynamicSummary ==
  ASSUME SummaryInv, NoDynamic
  PROVE  /\ UNCHANGED <<opts, out, counts, err, exit>> /\ exit = None /\ pc' = "finish"
         /\ Silent \/ (Reported(Diagnoses) /\ DiagnosisCount > 0)
<1>1. pc = "dynamic"
  BY DEF NoDynamic
<1>2. CASE Silent
  BY <1>1, <1>2 DEF NoDynamic, SummaryInv, Goto
<1>3. CASE /\ Reported(Kinds) /\ static_missing_count + static_bad_image_count > 0
           /\ dynamic_missing_count = 0
  <2>1. DiagnosisCount = static_missing_count + static_bad_image_count
    BY <1>3, MaxFailuresAssumption DEF DiagnosisCount, SummaryInv, TypeOK
  <2>2. Reported(Diagnoses)
    BY <1>3 DEF Reported, Diagnoses
  <2> QED
    BY <1>1, <1>3, <2>1, <2>2 DEF NoDynamic, SummaryInv, Goto
<1> QED
  BY <1>1, <1>2, <1>3 DEF SummaryInv

LEMMA SummaryStep == SummaryInv /\ [Next]_vars => SummaryInv'
<1> SUFFICES ASSUME SummaryInv, [Next]_vars PROVE SummaryInv'
  OBVIOUS
<1>1. TypeOK'
  BY TypeStep DEF SummaryInv
<1>2. ~opts.trace
  BY DEF SummaryInv
<1>3. CASE Quiet
  <2>1. UNCHANGED <<out, counts>> => (Silent => Silent')
    BY DEF Silent, DiagnosisCount, counts
  <2>2. Silent' /\ opts' = opts
    BY <1>3, <2>1, SummaryQuiet
  <2>3. exit' = None <=> pc' # "done"
    BY <1>3, SummaryQuiet, NoneIsNoCode DEF BeforePhases
  <2>4. pc' # "finish"
    BY <1>3, SummaryQuiet DEF BeforePhases
  <2> QED
    BY <1>1, <1>2, <2>2, <2>3, <2>4 DEF SummaryInv
<1>4. CASE StaticWalk
  <2>1. \/ Silent'
        \/ /\ (Reported(Kinds) /\ static_missing_count + static_bad_image_count > 0)'
           /\ dynamic_missing_count' = 0
    <3>1. CASE /\ out' = <<>> /\ ~summary_line_emitted'
               /\ static_missing_count' + static_bad_image_count' = 0
      BY <1>4, <3>1, SummaryStatic DEF Silent, DiagnosisCount
    <3>2. CASE /\ \E t \in Kinds : out' = <<t>>
               /\ summary_line_emitted'
               /\ static_missing_count' + static_bad_image_count' > 0
      BY <1>4, <3>2, SummaryStatic DEF Reported
    <3> QED
      BY <1>4, <3>1, <3>2, SummaryStatic
  <2>2. opts' = opts /\ pc' = "dynamic" /\ exit' = None
    BY <1>4, SummaryStatic
  <2> QED
    BY <1>1, <1>2, <2>1, <2>2 DEF SummaryInv, BeforePhases
<1>5. CASE DynamicMissing
  <2>1. Reported(Diagnoses)' /\ DiagnosisCount' > 0
    BY <1>5, SummaryDynamic DEF Reported, Diagnoses
  <2>2. opts' = opts /\ pc' = "finish" /\ exit' = None
    BY <1>5, SummaryDynamic
  <2> QED
    BY <1>1, <1>2, <2>1, <2>2 DEF SummaryInv, BeforePhases
<1>6. CASE NoDynamic
  <2>1. /\ UNCHANGED <<out, counts>>
        /\ Silent \/ (Reported(Diagnoses) /\ DiagnosisCount > 0)
        /\ opts' = opts /\ pc' = "finish" /\ exit' = None
    BY <1>6, NoDynamicSummary
  <2>2. Silent' \/ (Reported(Diagnoses) /\ DiagnosisCount > 0)'
    BY <2>1 DEF Silent, Reported, DiagnosisCount, counts
  <2> QED
    BY <1>1, <1>2, <2>1, <2>2 DEF SummaryInv, BeforePhases
<1>7. CASE Finish
  <2>1. opts' = opts /\ pc' = "done" /\ exit' # None
    BY <1>7, SummaryFinish, NoneIsNoCode
  <2> QED
    BY <1>1, <1>2, <2>1 DEF SummaryInv, BeforePhases
<1>8. CASE Done \/ UNCHANGED vars
  <2>1. UNCHANGED vars
    BY <1>8 DEF Done
  <2> QED
    BY <1>1, <2>1 DEF SummaryInv, Silent, Reported, DiagnosisCount, vars, counts
<1> QED
  BY <1>3, <1>4, <1>5, <1>6, <1>7, <1>8 DEF Next, Quiet

\* Every step of a run in summary mode is one of RunVerdict, or changes
\* nothing a caller sees.
LEMMA SummaryStepSimulates ==
  SummaryInv /\ [Next]_vars => Verdict!Speak \/ UNCHANGED <<out, err, exit>>
<1> SUFFICES ASSUME SummaryInv, [Next]_vars
             PROVE  Verdict!Speak \/ UNCHANGED <<out, err, exit>>
  OBVIOUS
<1> USE DEF Verdict!Running
<1>1. CASE Quiet
  <2>1. CASE exit' = exit /\ err' = err
    BY <1>1, <2>1, SummaryQuiet
  <2>2. CASE exit' = exit /\ err' = TRUE
    <3>1. Verdict!Explain
      BY <1>1, <2>2, SummaryQuiet DEF Verdict!Explain
    <3> QED
      BY <3>1 DEF Verdict!Speak
  <2>3. CASE exit' \in {20, 21} /\ err' = TRUE
    <3>1. Verdict!ExitFailure
      BY <1>1, <2>3, SummaryQuiet DEF Verdict!ExitFailure
    <3> QED
      BY <3>1 DEF Verdict!Speak
  <2>4. CASE exit' = 22 /\ err' = err
    <3>1. Verdict!ExitUnsupported
      BY <1>1, <2>4, SummaryQuiet DEF Verdict!ExitUnsupported
    <3> QED
      BY <3>1 DEF Verdict!Speak
  <2> QED
    BY <1>1, <2>1, <2>2, <2>3, <2>4, SummaryQuiet
<1>2. CASE StaticWalk
  <2>1. CASE out' = <<>>
    BY <1>2, <2>1, SummaryStatic
  <2>2. CASE \E t \in Kinds : out' = <<t>>
    <3>1. Verdict!Diagnose
      BY <1>2, <2>2, SummaryStatic DEF Verdict!Diagnose, Diagnoses
    <3> QED
      BY <3>1 DEF Verdict!Speak
  <2> QED
    BY <1>2, <2>1, <2>2, SummaryStatic
<1>3. CASE DynamicMissing
  <2>1. Verdict!Diagnose
    BY <1>3, SummaryDynamic DEF Verdict!Diagnose, Diagnoses
  <2> QED
    BY <2>1 DEF Verdict!Speak
<1>4. CASE NoDynamic
  BY <1>4, NoDynamicSummary
<1>5. CASE Finish
  <2>1. CASE exit' = 10 /\ Reported(Diagnoses) /\ out' = out /\ err' = err
    <3>1. Verdict!ExitDiagnosed
      BY <1>5, <2>1, SummaryFinish DEF Verdict!ExitDiagnosed, Reported
    <3> QED
      BY <3>1 DEF Verdict!Speak
  <2>2. CASE exit' = 0 /\ out = <<>> /\ out' = <<"SUCCESS">> /\ err' = err
    <3>1. Verdict!ExitSuccess
      BY <1>5, <2>2, SummaryFinish DEF Verdict!ExitSuccess
    <3> QED
      BY <3>1 DEF Verdict!Speak
  <2>3. CASE exit' = 21 /\ out = <<>> /\ out' = out /\ err' = TRUE
    <3>1. Verdict!ExitFailure
      BY <1>5, <2>3, SummaryFinish DEF Verdict!ExitFailure
    <3> QED
      BY <3>1 DEF Verdict!Speak
  <2> QED
    BY <1>5, <2>1, <2>2, <2>3, SummaryFinish
<1>6. CASE Done \/ UNCHANGED vars
  BY <1>6 DEF Done, vars
<1> QED
  BY <1>1, <1>2, <1>3, <1>4, <1>5, <1>6 DEF Next, Quiet

LEMMA OptsFixed == [Next]_vars => opts' = opts
<1> SUFFICES ASSUME [Next]_vars PROVE opts' = opts
  OBVIOUS
<1>1. CASE Quiet
  BY <1>1 DEF Quiet, Resolve, ResolveFails, Launch, PebEnableFailed, UnsupportedWow64Target,
     Enable, EnableFails, Relaunch, Restore, RestoreFails, GiveUp, Observe, SkipStatic,
     StaticWalkFails
<1>2. CASE StaticWalk \/ NoDynamic \/ DynamicMissing \/ Finish
  BY <1>2 DEF StaticWalk, NoDynamic, DynamicMissing, Finish
<1>3. CASE Done \/ UNCHANGED vars
  BY <1>3 DEF Done, vars
<1> QED
  BY <1>1, <1>2, <1>3 DEF Next, Quiet

ModeInv == opts.trace \/ SummaryInv

\* A run in summary mode keeps the promise of RunVerdict, whatever its phases
\* find and whichever of them fails.
THEOREM SummaryKeepsVerdict == Spec => SummaryVerdict
<1>1. Init => ModeInv
  <2>1. Init => TypeOK
    BY InitTypeOK
  <2>2. Init => Silent
    BY DEF Init, Silent, DiagnosisCount
  <2> QED
    BY <2>1, <2>2 DEF Init, SummaryInv, ModeInv
<1>2. Init => Verdict!Init
  BY DEF Init, Verdict!Init, summary_mode
<1>3. ModeInv /\ [Next]_vars => ModeInv'
  BY SummaryStep, OptsFixed DEF ModeInv
<1>4. ModeInv /\ [Next]_vars => [Verdict!Next]_<<summary_mode, out, err, exit>>
  <2> SUFFICES ASSUME ModeInv, [Next]_vars
               PROVE  [Verdict!Next]_<<summary_mode, out, err, exit>>
    OBVIOUS
  <2>1. summary_mode' = summary_mode
    BY OptsFixed DEF summary_mode
  <2>2. CASE opts.trace
    BY <2>1, <2>2 DEF Verdict!Next, summary_mode
  <2>3. CASE SummaryInv
    BY <2>1, <2>3, SummaryStepSimulates DEF Verdict!Next
  <2> QED
    BY <2>2, <2>3 DEF ModeInv
<1> QED
  BY <1>1, <1>2, <1>3, <1>4, PTL DEF Spec, SummaryVerdict, Verdict!Spec

-----------------------------------------------------------------------------
(* Every mode.  Which tokens have been printed follows the counters.        *)

PrintedIn(lines, tokens) == \E i \in DOMAIN lines : lines[i] \in tokens

LEMMA IntervalSum ==
  \A m, n \in Nat :
    /\ \A i \in 1..m : i \in 1..(m + n)
    /\ \A i \in 1..n : m + i \in 1..(m + n)
    /\ \A i \in 1..(m + n) : i \in 1..m \/ \E j \in 1..n : i = m + j
<1> SUFFICES ASSUME NEW m \in Nat, NEW n \in Nat
             PROVE  /\ \A i \in 1..m : i \in 1..(m + n)
                    /\ \A i \in 1..n : m + i \in 1..(m + n)
                    /\ \A i \in 1..(m + n) : i \in 1..m \/ \E j \in 1..n : i = m + j
  OBVIOUS
<1>1. ASSUME NEW i \in 1..(m + n), i \notin 1..m PROVE \E j \in 1..n : i = m + j
  <2>1. i - m \in 1..n /\ i = m + (i - m)
    BY <1>1
  <2> QED
    BY <2>1
<1> QED
  BY <1>1

LEMMA PrintedConcat ==
  ASSUME NEW s \in Seq(Tokens), NEW r \in Seq(Tokens), NEW tokens
  PROVE  PrintedIn(s \o r, tokens) <=> PrintedIn(s, tokens) \/ PrintedIn(r, tokens)
<1> DEFINE q == s \o r
<1>1. /\ DOMAIN s = 1..Len(s) /\ DOMAIN r = 1..Len(r) /\ DOMAIN q = 1..(Len(s) + Len(r))
      /\ Len(s) \in Nat /\ Len(r) \in Nat
  OBVIOUS
<1>2. /\ \A i \in 1..Len(s) : q[i] = s[i]
      /\ \A i \in 1..Len(r) : q[Len(s) + i] = r[i]
  OBVIOUS
<1>3. /\ \A i \in 1..Len(s) : i \in 1..(Len(s) + Len(r))
      /\ \A i \in 1..Len(r) : Len(s) + i \in 1..(Len(s) + Len(r))
      /\ \A i \in 1..(Len(s) + Len(r)) :
           i \in 1..Len(s) \/ \E j \in 1..Len(r) : i = Len(s) + j
  BY <1>1, IntervalSum
<1> HIDE DEF q
<1>4. PrintedIn(q, tokens) <=> PrintedIn(s, tokens) \/ PrintedIn(r, tokens)
  <2>1. PrintedIn(s, tokens) => PrintedIn(q, tokens)
    BY <1>1, <1>2, <1>3 DEF PrintedIn
  <2>2. PrintedIn(r, tokens) => PrintedIn(q, tokens)
    BY <1>1, <1>2, <1>3 DEF PrintedIn
  <2>3. ASSUME NEW i \in DOMAIN q, q[i] \in tokens
        PROVE  PrintedIn(s, tokens) \/ PrintedIn(r, tokens)
    <3>1. CASE i \in 1..Len(s)
      BY <1>1, <1>2, <2>3, <3>1 DEF PrintedIn
    <3>2. CASE \E j \in 1..Len(r) : i = Len(s) + j
      BY <1>1, <1>2, <2>3, <3>2 DEF PrintedIn
    <3> QED
      BY <1>1, <1>3, <3>1, <3>2
  <2> QED
    BY <2>1, <2>2, <2>3 DEF PrintedIn
<1> QED
  BY <1>4 DEF q

\* Lines that are no diagnosis.
Plain(t) == t \in Seq(Tokens) /\ \A i \in DOMAIN t : t[i] \notin Diagnoses

LEMMA PlainLines ==
  /\ \A c \in BOOLEAN : /\ Plain(Lines(c, <<"detail">>)) /\ Plain(Lines(c, <<"SUMMARY">>))
                         /\ Plain(Lines(c, <<"SUCCESS">>)) /\ Plain(Lines(c, <<"FIRST_BREAK">>))
  /\ Plain(<<"detail">>) /\ Plain(<<>>)
<1>1. {"SUCCESS", "FIRST_BREAK", "SUMMARY", "detail"} \subseteq Tokens \ Diagnoses
  BY DEF Diagnoses, Kinds, Tokens
<1>2. ASSUME NEW t \in Tokens \ Diagnoses PROVE Plain(<<t>>)
  <2>1. /\ <<t>> \in Seq(Tokens)
        /\ \A i \in DOMAIN <<t>> : <<t>>[i] = t
    OBVIOUS
  <2> QED
    BY <2>1 DEF Plain
<1>3. Plain(<<>>)
  BY DEF Plain
<1> QED
  BY <1>1, <1>2, <1>3 DEF Lines

\* Such lines change nothing.
LEMMA PrintedPlain ==
  ASSUME NEW s \in Seq(Tokens), NEW t, Plain(t), NEW tokens \in SUBSET Diagnoses
  PROVE  /\ ~PrintedIn(t, tokens)
         /\ PrintedIn(s \o t, tokens) <=> PrintedIn(s, tokens)
         /\ PrintedIn(t \o s, tokens) <=> PrintedIn(s, tokens)
BY PrintedConcat DEF PrintedIn, Plain

Statics == static_missing_count + static_bad_image_count
LineInv ==
  /\ TypeOK
  /\ pc \in BeforePhases => ~Printed(Diagnoses) /\ DiagnosisCount = 0
  /\ ~walk_failed => /\ Printed(Kinds) <=> Statics > 0
                     /\ Printed({"DYNAMIC_MISSING"}) <=> dynamic_missing_count > 0
  /\ pc = "dynamic" => dynamic_missing_count = 0
  /\ dynamic_missing_count > 0 => Statics = 0
  /\ pc = "done" => (exit = 10 <=> DiagnosisCount > 0)

\* A step that prints no diagnosis and leaves the counters alone.
LEMMA LineInvPlain ==
  ASSUME LineInv, TypeOK', NEW t, Plain(t), out' = out \o t,
         UNCHANGED counts, walk_failed' = walk_failed,
         \/ pc' \in BeforePhases /\ pc \in BeforePhases
         \/ pc' = "dynamic" /\ pc \in BeforePhases
         \/ pc' = "finish"
         \/ pc' = "done" /\ (exit' = 10 <=> DiagnosisCount > 0)
  PROVE  LineInv'
<1>1. out \in Seq(Tokens)
  BY DEF LineInv, TypeOK
<1>2. \A tokens \in SUBSET Diagnoses : Printed(tokens)' <=> Printed(tokens)
  <2>1. \A tokens \in SUBSET Diagnoses : PrintedIn(out \o t, tokens) <=> PrintedIn(out, tokens)
    BY <1>1, PrintedPlain
  <2>2. \A tokens : (Printed(tokens)' <=> PrintedIn(out', tokens))
                    /\ (Printed(tokens) <=> PrintedIn(out, tokens))
    BY DEF Printed, PrintedIn
  <2> QED
    BY <2>1, <2>2
<1>3. /\ Printed(Diagnoses)' <=> Printed(Diagnoses)
      /\ Printed(Kinds)' <=> Printed(Kinds)
      /\ Printed({"DYNAMIC_MISSING"})' <=> Printed({"DYNAMIC_MISSING"})
  BY <1>2 DEF Diagnoses
<1>4. /\ DiagnosisCount' = DiagnosisCount /\ Statics' = Statics
      /\ dynamic_missing_count' = dynamic_missing_count
  BY DEF DiagnosisCount, Statics, counts
<1>5. pc \in BeforePhases => dynamic_missing_count = 0
  BY MaxFailuresAssumption DEF LineInv, TypeOK, DiagnosisCount
<1>6. "dynamic" \notin BeforePhases /\ "finish" \notin BeforePhases /\ "done" \notin BeforePhases
  BY DEF BeforePhases
<1> QED
  BY <1>3, <1>4, <1>5, <1>6 DEF LineInv

\* What the steps print that leave the counters alone: a note of a trace, or
\* nothing.
LEMMA QuietOutput ==
  ASSUME LineInv, Quiet, ~StaticWalkFails
  PROVE  \E t \in {<<>>, <<"detail">>} :
           /\ out' = out \o t /\ UNCHANGED counts /\ walk_failed' = walk_failed
           /\ \/ pc' \in BeforePhases /\ pc \in BeforePhases
              \/ pc' = "dynamic" /\ pc \in BeforePhases
              \/ pc' = "done" /\ pc \in BeforePhases /\ exit' # 10
<1> USE DEF Goto, Return, BeforePhases
<1>1. /\ out \o <<>> = out
      /\ \A c \in BOOLEAN : Lines(c, <<"detail">>) \in {<<>>, <<"detail">>}
      /\ opts.trace \in BOOLEAN /\ VerboseTrace \in BOOLEAN
  <2>1. opts.trace \in BOOLEAN /\ VerboseTrace \in BOOLEAN
    BY OptsAssumption DEF LineInv, TypeOK, Options, VerboseTrace
  <2>2. out \in Seq(Tokens)
    BY DEF LineInv, TypeOK
  <2> QED
    BY <2>1, <2>2 DEF Lines
<1>2. CASE Resolve \/ ResolveFails \/ Launch \/ PebEnableFailed
  <2>1. out' = out /\ UNCHANGED counts /\ walk_failed' = walk_failed
    BY <1>2 DEF Resolve, ResolveFails, Launch, PebEnableFailed
  <2>2. \/ pc' \in BeforePhases /\ pc \in BeforePhases
        \/ pc' = "done" /\ pc \in BeforePhases /\ exit' # 10
    BY <1>2 DEF Resolve, ResolveFails, Launch, PebEnableFailed
  <2> QED
    BY <1>1, <2>1, <2>2
<1>3. CASE UnsupportedWow64Target
  <2>1. out' = out \o Lines(opts.trace, <<"detail">>)
    BY <1>3 DEF UnsupportedWow64Target
  <2>2. /\ UNCHANGED counts /\ walk_failed' = walk_failed
        /\ pc' = "done" /\ pc \in BeforePhases /\ exit' # 10
    BY <1>3 DEF UnsupportedWow64Target
  <2> QED
    BY <1>1, <2>1, <2>2
<1>4. CASE Enable \/ EnableFails \/ RestoreFails \/ Observe
  <2>1. \E c \in {opts.trace, VerboseTrace} : out' = out \o Lines(c, <<"detail">>)
    BY <1>4 DEF Enable, EnableFails, RestoreFails, Observe
  <2>2. /\ UNCHANGED counts /\ walk_failed' = walk_failed /\ pc \in BeforePhases
        /\ pc' \in BeforePhases \/ (pc' = "done" /\ exit' # 10)
    BY <1>4 DEF Enable, EnableFails, RestoreFails, Observe
  <2> QED
    BY <1>1, <2>1, <2>2
<1>5. CASE Relaunch \/ Restore
  <2>1. /\ out' = out /\ UNCHANGED counts /\ walk_failed' = walk_failed
        /\ pc' \in BeforePhases /\ pc \in BeforePhases
    BY <1>5 DEF Relaunch, Restore
  <2> QED
    BY <1>1, <2>1
<1>6. CASE GiveUp
  <2>1. /\ out' = out /\ UNCHANGED counts /\ walk_failed' = walk_failed
        /\ pc' = "done" /\ pc \in BeforePhases /\ exit' # 10
    BY <1>6 DEF GiveUp
  <2> QED
    BY <1>1, <2>1
<1>7. CASE SkipStatic
  <2>1. /\ out' = out /\ UNCHANGED counts /\ walk_failed' = walk_failed
        /\ pc' = "dynamic" /\ pc \in BeforePhases
    BY <1>7 DEF SkipStatic
  <2> QED
    BY <1>1, <2>1
<1> QED
  BY <1>2, <1>3, <1>4, <1>5, <1>6, <1>7 DEF Quiet

LEMMA LineInvQuiet ==
  ASSUME LineInv, TypeOK', Quiet, ~StaticWalkFails
  PROVE  LineInv'
<1>1. PICK t \in {<<>>, <<"detail">>} :
        /\ out' = out \o t /\ UNCHANGED counts /\ walk_failed' = walk_failed
        /\ \/ pc' \in BeforePhases /\ pc \in BeforePhases
           \/ pc' = "dynamic" /\ pc \in BeforePhases
           \/ pc' = "done" /\ pc \in BeforePhases /\ exit' # 10
  BY QuietOutput
<1>2. Plain(t)
  BY PlainLines
<1>3. pc \in BeforePhases => ~(DiagnosisCount > 0)
  BY DEF LineInv
<1> QED
  BY <1>1, <1>2, <1>3, LineInvPlain

LEMMA LineInvWalkFails ==
  ASSUME LineInv, TypeOK', StaticWalkFails
  PROVE  LineInv'
<1>1. /\ walk_failed' /\ pc' = "dynamic" /\ UNCHANGED counts /\ DiagnosisCount = 0
  BY DEF StaticWalkFails, LineInv, BeforePhases, Goto
<1>2. dynamic_missing_count' = 0
  BY <1>1, MaxFailuresAssumption DEF LineInv, TypeOK, DiagnosisCount, counts
<1> QED
  BY <1>1, <1>2 DEF LineInv, BeforePhases

\* Before the phases nothing is printed that the counters should know of.
LEMMA NothingPrintedYet ==
  ASSUME LineInv, pc \in BeforePhases
  PROVE  /\ out \in Seq(Tokens)
         /\ \A tokens \in SUBSET Diagnoses : ~PrintedIn(out, tokens)
BY DEF LineInv, TypeOK, Printed, PrintedIn

\* The walk prints a line of a kind exactly when something failed.
LEMMA StaticLinesPrinted ==
  ASSUME LineInv, NEW f \in Failures, NEW issue \in Kinds
  PROVE  /\ PrintedIn(StaticLines(f, issue), Kinds) <=> f # <<>>
         /\ ~PrintedIn(StaticLines(f, issue), {"DYNAMIC_MISSING"})
<1>1. issue \notin {"DYNAMIC_MISSING"}
  BY DEF Kinds
<1>2. CASE summary_mode
  <2>1. StaticLines(f, issue) = IF f # <<>> THEN <<issue>> ELSE <<>>
    BY <1>2 DEF StaticLines, Lines
  <2> QED
    BY <1>1, <2>1 DEF PrintedIn
<1>3. CASE ~summary_mode /\ opts.verbose
  <2> DEFINE broken == Lines(f # <<>>, <<"FIRST_BREAK">>)
  <2>1. StaticLines(f, issue) = <<"detail">> \o f \o broken
    BY <1>3 DEF StaticLines
  <2>2. /\ f \in Seq(Tokens) /\ f \in Seq(Kinds) /\ DOMAIN f = 1..Len(f)
        /\ Plain(<<"detail">>) /\ Plain(broken)
        /\ <<"detail">> \o f \in Seq(Tokens)
    <3>1. f \in Seq(Tokens) /\ f \in Seq(Kinds) /\ DOMAIN f = 1..Len(f)
      BY FailuresType
    <3>2. Plain(<<"detail">>) /\ Plain(broken)
      BY PlainLines
    <3> QED
      BY <3>1, <3>2, ConcatType DEF Plain
  <2> HIDE DEF broken
  <2>3. \A tokens \in SUBSET Diagnoses :
          PrintedIn(StaticLines(f, issue), tokens) <=> PrintedIn(f, tokens)
    <3>1. TAKE tokens \in SUBSET Diagnoses
    <3>2. PrintedIn(<<"detail">> \o f, tokens) <=> PrintedIn(f, tokens)
      BY <2>2, PrintedPlain
    <3>3. PrintedIn((<<"detail">> \o f) \o broken, tokens)
            <=> PrintedIn(<<"detail">> \o f, tokens)
      BY <2>2, PrintedPlain
    <3> QED
      BY <2>1, <3>2, <3>3
  <2>4. PrintedIn(f, Kinds) <=> f # <<>>
    BY <2>2 DEF PrintedIn
  <2>5. ~PrintedIn(f, {"DYNAMIC_MISSING"})
    BY <2>2 DEF PrintedIn, Kinds
  <2>6. Kinds \in SUBSET Diagnoses /\ {"DYNAMIC_MISSING"} \in SUBSET Diagnoses
    BY DEF Diagnoses
  <2> QED
    BY <2>3, <2>4, <2>5, <2>6
<1>4. CASE ~summary_mode /\ ~opts.verbose
  <2>1. StaticLines(f, issue) = IF f # <<>> THEN <<"detail", issue, "detail">> ELSE <<>>
    BY <1>4 DEF StaticLines, Lines
  <2> DEFINE three == <<"detail", issue, "detail">>
  <2>2. /\ DOMAIN three = 1..3 /\ three[2] = issue
        /\ \A i \in 1..3 : three[i] = issue \/ three[i] = "detail"
    OBVIOUS
  <2>3. 2 \in 1..3
    OBVIOUS
  <2> HIDE DEF three
  <2>4. PrintedIn(three, Kinds) /\ ~PrintedIn(three, {"DYNAMIC_MISSING"})
    BY <1>1, <2>2, <2>3 DEF PrintedIn
  <2>5. ~PrintedIn(<<>>, Kinds) /\ ~PrintedIn(<<>>, {"DYNAMIC_MISSING"})
    BY DEF PrintedIn
  <2> QED
    BY <2>1, <2>4, <2>5 DEF three
<1> QED
  BY <1>2, <1>3, <1>4

LEMMA LineInvStatic ==
  ASSUME LineInv, TypeOK', StaticWalk
  PROVE  LineInv'
<1>1. PICK f \in Failures, issue \in Kinds :
        /\ static_missing_count' = Count(f, "STATIC_MISSING")
        /\ static_bad_image_count' = Count(f, "STATIC_BAD_IMAGE")
        /\ out' = out \o StaticLines(f, issue)
  BY DEF StaticWalk
<1>2. /\ pc = "static" /\ pc \in BeforePhases /\ pc' = "dynamic"
      /\ dynamic_missing_count' = dynamic_missing_count
      /\ DiagnosisCount = 0
  BY DEF StaticWalk, BeforePhases, Goto, LineInv
<1>3. dynamic_missing_count' = 0
  BY <1>2, MaxFailuresAssumption DEF LineInv, TypeOK, DiagnosisCount
<1>4. Statics' > 0 <=> f # <<>>
  <2>1. /\ static_missing_count' \in Nat /\ static_bad_image_count' \in Nat
        /\ static_missing_count' + static_bad_image_count' = 0 <=> f = <<>>
    BY <1>1, CountType, CountsOfWalk, MaxFailuresAssumption
  <2>2. \A a, b \in Nat : a + b > 0 <=> a + b # 0
    OBVIOUS
  <2> QED
    BY <2>1, <2>2 DEF Statics
<1>5. /\ Printed(Kinds)' <=> f # <<>>
      /\ ~Printed({"DYNAMIC_MISSING"})'
  <2>1. StaticLines(f, issue) \in Seq(Tokens)
    BY StaticLinesType DEF LineInv
  <2>2. \A tokens \in SUBSET Diagnoses :
          PrintedIn(out', tokens) <=> PrintedIn(StaticLines(f, issue), tokens)
    BY <1>1, <1>2, <2>1, NothingPrintedYet, PrintedConcat
  <2>3. /\ PrintedIn(out', Kinds) <=> f # <<>>
        /\ ~PrintedIn(out', {"DYNAMIC_MISSING"})
    BY <2>2, StaticLinesPrinted DEF Diagnoses
  <2> QED
    BY <2>3 DEF Printed, PrintedIn
<1> QED
  BY <1>2, <1>3, <1>4, <1>5 DEF LineInv, BeforePhases

LEMMA LineInvDynamic ==
  ASSUME LineInv, TypeOK', DynamicMissing
  PROVE  LineInv'
<1>1. /\ pc = "dynamic" /\ pc' = "finish" /\ dynamic_missing_count' = 1
      /\ Statics = 0 /\ Statics' = Statics /\ walk_failed' = walk_failed
  BY DEF DynamicMissing, DynamicDue, Statics, Goto
<1>2. PICK t : /\ t \in Seq(Tokens) /\ out' = out \o t
              /\ ~PrintedIn(t, Kinds) /\ PrintedIn(t, {"DYNAMIC_MISSING"})
  <2>1. out \in Seq(Tokens) /\ "DYNAMIC_MISSING" \in Tokens /\ "detail" \in Tokens
    BY DEF LineInv, TypeOK, Tokens, Diagnoses
  <2>2. CASE out' = Append(out, "DYNAMIC_MISSING")
    <3>1. out' = out \o <<"DYNAMIC_MISSING">> /\ <<"DYNAMIC_MISSING">> \in Seq(Tokens)
      BY <2>1, <2>2
    <3>2. /\ ~PrintedIn(<<"DYNAMIC_MISSING">>, Kinds)
          /\ PrintedIn(<<"DYNAMIC_MISSING">>, {"DYNAMIC_MISSING"})
      BY DEF PrintedIn, Kinds
    <3> QED
      BY <3>1, <3>2
  <2>3. CASE out' = out \o <<"detail", "DYNAMIC_MISSING", "detail">>
    <3> DEFINE three == <<"detail", "DYNAMIC_MISSING", "detail">>
    <3>1. /\ DOMAIN three = 1..3 /\ three[2] = "DYNAMIC_MISSING" /\ 2 \in 1..3
          /\ \A i \in 1..3 : three[i] = "DYNAMIC_MISSING" \/ three[i] = "detail"
          /\ three \in Seq(Tokens)
      BY <2>1
    <3> HIDE DEF three
    <3>2. ~PrintedIn(three, Kinds) /\ PrintedIn(three, {"DYNAMIC_MISSING"})
      BY <3>1 DEF PrintedIn, Kinds
    <3> QED
      BY <2>3, <3>1, <3>2 DEF three
  <2> QED
    BY <2>2, <2>3 DEF DynamicMissing
<1>3. out \in Seq(Tokens)
  BY DEF LineInv, TypeOK
<1>4. /\ PrintedIn(out', Kinds) <=> PrintedIn(out, Kinds)
      /\ PrintedIn(out', {"DYNAMIC_MISSING"})
  BY <1>2, <1>3, PrintedConcat
<1>5. /\ Printed(Kinds)' <=> Printed(Kinds)
      /\ Printed({"DYNAMIC_MISSING"})'
  BY <1>4 DEF Printed, PrintedIn
<1> QED
  BY <1>1, <1>5 DEF LineInv, BeforePhases

LEMMA LineInvFinish ==
  ASSUME LineInv, TypeOK', Finish
  PROVE  LineInv'
<1> DEFINE code == RunResultCode(outcome)
           silent == summary_mode /\ ~summary_line_emitted
           first == Lines(VerboseTrace, <<"SUMMARY">>)
           last == Lines(silent /\ code = 0, <<"SUCCESS">>)
<1>1. /\ out' = out \o first \o last
      /\ UNCHANGED counts /\ walk_failed' = walk_failed
      /\ pc' = "done" /\ exit' = code
  BY DEF Finish, Return, Goto
<1>2. code = 10 <=> DiagnosisCount > 0
  BY DEF RunResultCode
<1>3. Plain(first) /\ Plain(last)
  BY PlainLines DEF VerboseTrace
<1>4. PICK t : Plain(t) /\ out' = out \o t
  <2> HIDE DEF first, last
  <2>1. Plain(first \o last)
    <3>1. first \o last \in Seq(Tokens) /\ first \in Seq(Tokens) /\ last \in Seq(Tokens)
      BY <1>3, ConcatType DEF Plain
    <3>2. ~PrintedIn(first \o last, Diagnoses)
      BY <1>3, <3>1, PrintedPlain
    <3> QED
      BY <3>1, <3>2 DEF Plain, PrintedIn
  <2>2. out' = out \o (first \o last)
    <3>1. out \in Seq(Tokens) /\ first \in Seq(Tokens) /\ last \in Seq(Tokens)
      BY <1>3 DEF Plain, LineInv, TypeOK
    <3>2. (out \o first) \o last = out \o (first \o last)
      BY <3>1
    <3> QED
      BY <1>1, <3>2
  <2> QED
    BY <2>1, <2>2
<1> HIDE DEF code, first, last
<1> QED
  BY <1>1, <1>2, <1>4, LineInvPlain

LEMMA LineInvNoDynamic ==
  ASSUME LineInv, TypeOK', NoDynamic
  PROVE  LineInv'
<1>1. /\ out' = out \o <<>> /\ Plain(<<>>) /\ UNCHANGED counts
      /\ walk_failed' = walk_failed /\ pc' = "finish"
  BY PlainLines DEF NoDynamic, Goto, LineInv, TypeOK
<1> QED
  BY <1>1, LineInvPlain

LEMMA LineInvariant == Spec => []LineInv
<1>1. Init => LineInv
  <2>1. Init => /\ DiagnosisCount = 0 /\ Statics = 0 /\ dynamic_missing_count = 0
                /\ pc = "resolve" /\ \A tokens : ~Printed(tokens)
    BY DEF Init, DiagnosisCount, Statics, Printed
  <2> QED
    BY <2>1, InitTypeOK DEF LineInv
<1>2. LineInv /\ [Next]_vars => LineInv'
  <2> SUFFICES ASSUME LineInv, [Next]_vars PROVE LineInv'
    OBVIOUS
  <2>1. TypeOK'
    BY TypeStep DEF LineInv
  <2>2. CASE Done \/ UNCHANGED vars
    <3>1. UNCHANGED vars
      BY <2>2 DEF Done
    <3> QED
      BY <2>1, <3>1 DEF LineInv, Printed, DiagnosisCount, Statics, vars, counts
  <2> QED
    BY <2>1, <2>2, LineInvQuiet, LineInvWalkFails, LineInvStatic, LineInvNoDynamic,
       LineInvDynamic, LineInvFinish DEF Next, Quiet
<1> QED
  BY <1>1, <1>2, PTL DEF Spec

\* In every mode, unless the walk failed, the exit code is 10 exactly when a
\* printed line names a missing or bad dll.
THEOREM TenIffDiagnosed == Spec => []TenMeansDiagnosed
<1>1. LineInv => TenMeansDiagnosed
  <2> SUFFICES ASSUME LineInv, pc = "done", ~walk_failed
               PROVE  exit = 10 <=> Printed(Diagnoses)
    BY DEF TenMeansDiagnosed
  <2>1. Printed(Diagnoses) <=> Printed(Kinds) \/ Printed({"DYNAMIC_MISSING"})
    BY DEF Printed, Diagnoses
  <2>2. DiagnosisCount > 0 <=> Statics > 0 \/ dynamic_missing_count > 0
    BY MaxFailuresAssumption DEF LineInv, TypeOK, DiagnosisCount, Statics
  <2> QED
    BY <2>1, <2>2 DEF LineInv
<1> QED
  BY <1>1, LineInvariant, PTL

\* One phase diagnoses: Phase C is silent once Phase B has printed a failure,
\* unless the walk failed after printing it.
OnePhaseDiagnoses ==
  ~walk_failed => ~(Printed(Kinds) /\ Printed({"DYNAMIC_MISSING"}))

\* In every mode, unless the walk failed, Phase C prints nothing once Phase B
\* has printed a failure.
THEOREM OneDiagnosingPhase == Spec => []OnePhaseDiagnoses
<1>1. LineInv => OnePhaseDiagnoses
  BY DEF LineInv, OnePhaseDiagnoses
<1> QED
  BY <1>1, LineInvariant, PTL

-----------------------------------------------------------------------------
(* The counters of SUMMARY                                                  *)

\* Occurs, of any lines.
OccursIn(lines, t) == Cardinality({i \in DOMAIN lines : lines[i] = t})

\* The lines t occur in is finite, so that its cardinality can be added.
LEMMA OccursFinite ==
  ASSUME NEW s \in Seq(Tokens), NEW t
  PROVE  IsFiniteSet({i \in DOMAIN s : s[i] = t})
<1>1. {i \in DOMAIN s : s[i] = t} \subseteq 1..Len(s) /\ IsFiniteSet(1..Len(s))
  BY FS_Interval
<1> QED
  BY <1>1, FS_Subset

LEMMA OccursConcat ==
  ASSUME NEW s \in Seq(Tokens), NEW r \in Seq(Tokens), NEW t
  PROVE  OccursIn(s \o r, t) = OccursIn(s, t) + OccursIn(r, t)
<1> DEFINE q == s \o r
           Hits(z) == {i \in DOMAIN z : z[i] = t}
           shifted == {Len(s) + i : i \in Hits(r)}
           f == [i \in Hits(r) |-> Len(s) + i]
<1>1. /\ Len(s) \in Nat /\ Len(r) \in Nat
      /\ DOMAIN s = 1..Len(s) /\ DOMAIN r = 1..Len(r)
      /\ DOMAIN q = 1..(Len(s) + Len(r))
  OBVIOUS
<1>2. /\ \A i \in 1..Len(s) : q[i] = s[i]
      /\ \A i \in 1..Len(r) : q[Len(s) + i] = r[i]
  OBVIOUS
<1>3. /\ \A i \in 1..Len(s) : i \in 1..(Len(s) + Len(r))
      /\ \A i \in 1..Len(r) : Len(s) + i \in 1..(Len(s) + Len(r))
      /\ \A i \in 1..(Len(s) + Len(r)) :
           i \in 1..Len(s) \/ \E j \in 1..Len(r) : i = Len(s) + j
  BY <1>1, IntervalSum
<1> HIDE DEF q
<1>4. Hits(q) = Hits(s) \cup shifted
  <2>1. ASSUME NEW i \in Hits(q) PROVE i \in Hits(s) \cup shifted
    <3>1. CASE i \in 1..Len(s)
      BY <1>1, <1>2, <2>1, <3>1
    <3>2. CASE \E j \in 1..Len(r) : i = Len(s) + j
      BY <1>1, <1>2, <2>1, <3>2
    <3> QED
      BY <1>1, <1>3, <2>1, <3>1, <3>2
  <2>2. \A i \in Hits(s) : i \in Hits(q)
    BY <1>1, <1>2, <1>3
  <2>3. \A i \in Hits(r) : Len(s) + i \in Hits(q)
    BY <1>1, <1>2, <1>3
  <2> QED
    BY <2>1, <2>2, <2>3
<1>5. Hits(s) \cap shifted = {}
  <2>1. \A i \in 1..Len(r) : Len(s) + i \notin 1..Len(s)
    BY <1>1
  <2> QED
    BY <1>1, <2>1
<1>6. IsFiniteSet(Hits(s)) /\ IsFiniteSet(Hits(r))
  BY OccursFinite
<1>7. IsFiniteSet(shifted) /\ Cardinality(shifted) = Cardinality(Hits(r))
  <2>1. \A i, j \in Hits(r) : Len(s) + i = Len(s) + j => i = j
    BY <1>1
  <2>2. f \in Bijection(Hits(r), shifted)
    BY <2>1, Zenon DEF Bijection, Injection, Surjection, IsInjective
  <2>3. ExistsBijection(Hits(r), shifted)
    BY <2>2 DEF ExistsBijection
  <2> QED
    BY <1>6, <2>3, FS_Bijection
<1>8. Cardinality(Hits(q)) = Cardinality(Hits(s)) + Cardinality(shifted)
                             - Cardinality(Hits(s) \cap shifted)
  BY <1>4, <1>6, <1>7, FS_Union
<1>9. Cardinality(Hits(s) \cap shifted) = 0
  BY <1>5, FS_EmptySet
<1>10. Cardinality(Hits(s)) \in Nat /\ Cardinality(Hits(r)) \in Nat
  BY <1>6, FS_CardinalityType
<1>11. Cardinality(Hits(q)) = Cardinality(Hits(s)) + Cardinality(Hits(r))
  <2> HIDE DEF Hits, shifted
  <2> QED
    BY <1>7, <1>8, <1>9, <1>10
<1> QED
  BY <1>11 DEF OccursIn, q

\* The lines of a phase that matter to the counters, one by one.
LEMMA OccursOne ==
  /\ \A t : OccursIn(<<>>, t) = 0
  /\ \A x, t : OccursIn(<<x>>, t) = IF x = t THEN 1 ELSE 0
<1>1. ASSUME NEW t PROVE OccursIn(<<>>, t) = 0
  <2>1. {i \in DOMAIN <<>> : <<>>[i] = t} = {}
    OBVIOUS
  <2> QED
    BY <2>1, FS_EmptySet DEF OccursIn
<1>2. ASSUME NEW x, NEW t PROVE OccursIn(<<x>>, t) = IF x = t THEN 1 ELSE 0
  <2>1. {i \in DOMAIN <<x>> : <<x>>[i] = t} = IF x = t THEN {1} ELSE {}
    OBVIOUS
  <2> QED
    BY <2>1, FS_EmptySet, FS_Singleton DEF OccursIn
<1> QED
  BY <1>1, <1>2

LEMMA OccursType ==
  ASSUME NEW s \in Seq(Tokens), NEW t
  PROVE  OccursIn(s, t) \in Nat
BY OccursFinite, FS_CardinalityType DEF OccursIn

\* A token no line has does not occur.
LEMMA OccursNone ==
  ASSUME NEW s \in Seq(Tokens), NEW t, ~PrintedIn(s, {t})
  PROVE  OccursIn(s, t) = 0
<1>1. {i \in DOMAIN s : s[i] = t} = {}
  BY DEF PrintedIn
<1> QED
  BY <1>1, FS_EmptySet DEF OccursIn

\* What a verbose SUMMARY will say, at every point before it is printed.
CountsLines ==
  /\ dynamic_missing_count = OccursIn(out, "DYNAMIC_MISSING")
  /\ ~walk_failed => /\ static_missing_count = OccursIn(out, "STATIC_MISSING")
                     /\ static_bad_image_count = OccursIn(out, "STATIC_BAD_IMAGE")
SummaryLast ==
  PrintedIn(out, {"SUMMARY"}) =>
    /\ VerboseTrace
    /\ \A i \in DOMAIN out : out[i] = "SUMMARY" <=> i = Len(out)
CountInv ==
  /\ LineInv
  /\ VerboseTrace => CountsLines
  /\ first_break <=> DiagnosisCount > 0
  /\ pc # "done" => ~PrintedIn(out, {"SUMMARY"})
  /\ SummaryLast

\* A step that adds lines which are neither diagnoses nor SUMMARY.
LEMMA CountInvPlain ==
  ASSUME CountInv, LineInv', NEW t \in Seq(Tokens), Plain(t), ~PrintedIn(t, {"SUMMARY"}),
         out' = out \o t, pc # "done", UNCHANGED counts, walk_failed' = walk_failed,
         opts' = opts
  PROVE  CountInv'
<1>1. out \in Seq(Tokens)
  BY DEF CountInv, LineInv, TypeOK
<1>2. ~PrintedIn(out', {"SUMMARY"})
  BY <1>1, PrintedConcat DEF CountInv
<1>3. \A d \in Diagnoses : OccursIn(out', d) = OccursIn(out, d)
  <2>1. TAKE d \in Diagnoses
  <2>2. OccursIn(t, d) = 0
    BY OccursNone DEF Plain, PrintedIn
  <2>3. OccursIn(out', d) = OccursIn(out, d) + 0
    BY <1>1, <2>2, OccursConcat
  <2> QED
    BY <1>1, <2>3, OccursType
<1>4. VerboseTrace' = VerboseTrace /\ DiagnosisCount' = DiagnosisCount
      /\ first_break' = first_break
  BY DEF VerboseTrace, DiagnosisCount, counts
<1>5. CountsLines => CountsLines'
  BY <1>3 DEF CountsLines, counts, Diagnoses, Kinds
<1> QED
  BY <1>2, <1>4, <1>5 DEF CountInv, SummaryLast

LEMMA CountInvQuiet ==
  ASSUME CountInv, LineInv', opts' = opts, Quiet, ~StaticWalkFails
  PROVE  CountInv'
<1>1. PICK t \in {<<>>, <<"detail">>} :
        out' = out \o t /\ UNCHANGED counts /\ walk_failed' = walk_failed
        /\ pc \in BeforePhases
  BY QuietOutput DEF CountInv
<1>2. Plain(t) /\ t \in Seq(Tokens)
  BY PlainLines DEF Plain
<1>3. ~PrintedIn(t, {"SUMMARY"})
  BY <1>1 DEF PrintedIn
<1>4. pc # "done"
  BY <1>1 DEF BeforePhases
<1> QED
  BY <1>1, <1>2, <1>3, <1>4, CountInvPlain

\* The failures of a walk are of the two kinds.
LEMMA FailuresOccur ==
  ASSUME NEW f \in Failures
  PROVE  /\ ~PrintedIn(f, {"SUMMARY"}) /\ OccursIn(f, "DYNAMIC_MISSING") = 0
         /\ \A k : OccursIn(f, k) = Count(f, k)
<1>1. f \in Seq(Kinds) /\ f \in Seq(Tokens)
  BY FailuresType
<1>2. ~PrintedIn(f, {"SUMMARY"}) /\ ~PrintedIn(f, {"DYNAMIC_MISSING"})
  BY <1>1 DEF PrintedIn, Kinds
<1> QED
  BY <1>1, <1>2, OccursNone DEF OccursIn, Count

\* The walk's own lines: in a verbose trace, every failure is one of them.
LEMMA StaticLinesOccur ==
  ASSUME LineInv, NEW f \in Failures, NEW issue \in Kinds
  PROVE  /\ ~PrintedIn(StaticLines(f, issue), {"SUMMARY"})
         /\ VerboseTrace =>
              \A d \in Diagnoses : OccursIn(StaticLines(f, issue), d) = OccursIn(f, d)
<1> DEFINE head == <<"detail">>
           broken == Lines(f # <<>>, <<"FIRST_BREAK">>)
<1>1. CASE summary_mode \/ ~opts.verbose
  <2>1. StaticLines(f, issue) \in {<<>>, <<issue>>, <<"detail", issue, "detail">>}
    BY <1>1 DEF StaticLines, Lines
  <2>2. issue # "SUMMARY"
    BY DEF Kinds
  <2>3. ~PrintedIn(<<>>, {"SUMMARY"}) /\ ~PrintedIn(<<issue>>, {"SUMMARY"})
    BY <2>2 DEF PrintedIn
  <2>4. ~PrintedIn(<<"detail", issue, "detail">>, {"SUMMARY"})
    <3> DEFINE three == <<"detail", issue, "detail">>
    <3>1. DOMAIN three = 1..3 /\ \A i \in 1..3 : three[i] \in {"detail", issue}
      OBVIOUS
    <3> HIDE DEF three
    <3>2. ~PrintedIn(three, {"SUMMARY"})
      BY <2>2, <3>1 DEF PrintedIn
    <3> QED
      BY <3>2 DEF three
  <2>5. ~VerboseTrace
    BY <1>1 DEF VerboseTrace, summary_mode
  <2> QED
    BY <2>1, <2>3, <2>4, <2>5
<1>2. CASE ~summary_mode /\ opts.verbose
  <2>1. StaticLines(f, issue) = (head \o f) \o broken
    BY <1>2 DEF StaticLines
  <2>2. /\ f \in Seq(Tokens) /\ head \in Seq(Tokens)
        /\ head \o f \in Seq(Tokens) /\ broken \in Seq(Tokens)
    BY FailuresType, PlainLines, ConcatType DEF Plain
  <2>3. ~PrintedIn(head, {"SUMMARY"}) /\ ~PrintedIn(broken, {"SUMMARY"})
    BY DEF PrintedIn, Lines
  <2>4. \A d \in Diagnoses : OccursIn(head, d) = 0 /\ OccursIn(broken, d) = 0
    BY OccursOne DEF Lines, Diagnoses, Kinds
  <2> HIDE DEF head, broken
  <2>5. ~PrintedIn(StaticLines(f, issue), {"SUMMARY"})
    <3>1. ~PrintedIn(head \o f, {"SUMMARY"})
      BY <2>2, <2>3, FailuresOccur, PrintedConcat
    <3>2. ~PrintedIn((head \o f) \o broken, {"SUMMARY"})
      BY <2>2, <2>3, <3>1, PrintedConcat
    <3> QED
      BY <2>1, <3>2
  <2>6. ASSUME NEW d \in Diagnoses
        PROVE  OccursIn(StaticLines(f, issue), d) = OccursIn(f, d)
    <3>1. OccursIn((head \o f) \o broken, d) = OccursIn(head \o f, d) + OccursIn(broken, d)
      BY <2>2, OccursConcat
    <3>2. OccursIn(head \o f, d) = OccursIn(head, d) + OccursIn(f, d)
      BY <2>2, OccursConcat
    <3>3. OccursIn(f, d) \in Nat /\ OccursIn(head, d) = 0 /\ OccursIn(broken, d) = 0
      BY <2>2, <2>4, OccursType
    <3> QED
      BY <2>1, <3>1, <3>2, <3>3
  <2> QED
    BY <2>5, <2>6
<1> QED
  BY <1>1, <1>2

\* Before the phases no diagnosis has been printed.
LEMMA NothingOccursYet ==
  ASSUME LineInv, pc \in BeforePhases
  PROVE  \A d \in Diagnoses : OccursIn(out, d) = 0
<1>1. TAKE d \in Diagnoses
<1>2. out \in Seq(Tokens) /\ ~PrintedIn(out, {d})
  BY <1>1, NothingPrintedYet
<1> QED
  BY <1>2, OccursNone

LEMMA CountInvStatic ==
  ASSUME CountInv, LineInv', opts' = opts, StaticWalk
  PROVE  CountInv'
<1>1. PICK f \in Failures, issue \in Kinds :
        /\ static_missing_count' = Count(f, "STATIC_MISSING")
        /\ static_bad_image_count' = Count(f, "STATIC_BAD_IMAGE")
        /\ out' = out \o StaticLines(f, issue)
        /\ first_break' = (f # <<>>)
  BY DEF StaticWalk
<1>2. /\ pc = "static" /\ pc \in BeforePhases /\ pc' = "dynamic" /\ LineInv
      /\ dynamic_missing_count' = dynamic_missing_count
      /\ walk_failed' = walk_failed /\ VerboseTrace' = VerboseTrace
  BY DEF StaticWalk, BeforePhases, Goto, CountInv, VerboseTrace
<1>3. out \in Seq(Tokens) /\ StaticLines(f, issue) \in Seq(Tokens)
  BY <1>2, StaticLinesType DEF LineInv, TypeOK
<1>4. ~PrintedIn(out', {"SUMMARY"})
  BY <1>1, <1>2, <1>3, StaticLinesOccur, PrintedConcat DEF CountInv
<1>5. dynamic_missing_count' = 0
  BY <1>2, MaxFailuresAssumption DEF LineInv, TypeOK, DiagnosisCount
<1>6. VerboseTrace => CountsLines'
  <2> SUFFICES ASSUME VerboseTrace PROVE CountsLines'
    OBVIOUS
  <2>1. \A d \in Diagnoses : OccursIn(out', d) = OccursIn(f, d)
    <3>1. TAKE d \in Diagnoses
    <3>2. OccursIn(StaticLines(f, issue), d) = OccursIn(f, d)
      BY <1>2, StaticLinesOccur
    <3>3. OccursIn(out', d) = 0 + OccursIn(f, d)
      BY <1>1, <1>2, <1>3, <3>2, NothingOccursYet, OccursConcat
    <3>4. OccursIn(f, d) \in Nat
      BY FailuresType, OccursType
    <3> QED
      BY <3>3, <3>4
  <2> QED
    BY <1>1, <1>5, <2>1, FailuresOccur DEF CountsLines, Diagnoses, Kinds
<1>7. first_break' <=> DiagnosisCount' > 0
  <2>1. /\ static_missing_count' \in Nat /\ static_bad_image_count' \in Nat
        /\ static_missing_count' + static_bad_image_count' = 0 <=> f = <<>>
    BY <1>1, CountType, CountsOfWalk, MaxFailuresAssumption
  <2>2. \A a, b \in Nat : a + b + 0 > 0 <=> a + b # 0
    OBVIOUS
  <2> QED
    BY <1>1, <1>5, <2>1, <2>2 DEF DiagnosisCount
<1> QED
  BY <1>2, <1>4, <1>6, <1>7 DEF CountInv, SummaryLast

LEMMA CountInvWalkFails ==
  ASSUME CountInv, LineInv', opts' = opts, StaticWalkFails
  PROVE  CountInv'
<1>1. /\ pc = "static" /\ pc \in BeforePhases /\ pc' = "dynamic" /\ LineInv
      /\ UNCHANGED counts /\ walk_failed' /\ VerboseTrace' = VerboseTrace
  BY DEF StaticWalkFails, BeforePhases, Goto, CountInv, VerboseTrace
<1>2. out \in Seq(Tokens) /\ ~PrintedIn(out, {"SUMMARY"})
  BY <1>1 DEF CountInv, LineInv, TypeOK
<1>3. CASE VerboseTrace
  <2>1. PICK f \in Failures : out' = out \o f \o <<"detail">>
    BY <1>3 DEF StaticWalkFails
  <2>2. /\ f \in Seq(Tokens) /\ <<"detail">> \in Seq(Tokens) /\ out \o f \in Seq(Tokens)
    BY <1>2, FailuresType, PlainLines, ConcatType DEF Plain
  <2>3. ~PrintedIn(<<"detail">>, {"SUMMARY"})
    BY DEF PrintedIn
  <2>4. ~PrintedIn(out', {"SUMMARY"})
    BY <1>2, <2>1, <2>2, <2>3, FailuresOccur, PrintedConcat
  <2>5. OccursIn(out', "DYNAMIC_MISSING") = 0
    <3>1. /\ OccursIn(out, "DYNAMIC_MISSING") = 0 /\ OccursIn(f, "DYNAMIC_MISSING") = 0
          /\ OccursIn(<<"detail">>, "DYNAMIC_MISSING") = 0
      BY <1>1, NothingOccursYet, FailuresOccur, OccursOne DEF Diagnoses
    <3>2. OccursIn(out \o f, "DYNAMIC_MISSING") = 0 + 0
      BY <1>2, <2>2, <3>1, OccursConcat
    <3> DEFINE note == <<"detail">>
               before == out \o f
    <3>3. note \in Seq(Tokens) /\ before \in Seq(Tokens) /\ out' = before \o note
      BY <2>1, <2>2
    <3>4. OccursIn(note, "DYNAMIC_MISSING") = 0 /\ OccursIn(before, "DYNAMIC_MISSING") = 0
      BY <3>1, <3>2
    <3> HIDE DEF note, before
    <3>5. OccursIn(before \o note, "DYNAMIC_MISSING") = 0 + 0
      BY <3>3, <3>4, OccursConcat
    <3> QED
      BY <3>3, <3>5
  <2>6. dynamic_missing_count' = 0
    BY <1>1, MaxFailuresAssumption DEF LineInv, TypeOK, DiagnosisCount, counts
  <2>7. (first_break <=> DiagnosisCount > 0)'
    BY <1>1 DEF CountInv, DiagnosisCount, counts
  <2> QED
    BY <1>1, <2>4, <2>5, <2>6, <2>7 DEF CountInv, SummaryLast, CountsLines
<1>4. CASE ~VerboseTrace
  <2>1. out' = out
    BY <1>4 DEF StaticWalkFails
  <2> QED
    BY <1>1, <1>2, <1>4, <2>1 DEF CountInv, SummaryLast, DiagnosisCount, counts
<1> QED
  BY <1>3, <1>4

LEMMA AppendIsConcat ==
  ASSUME NEW s \in Seq(Tokens), NEW t \in Tokens
  PROVE  Append(s, t) = s \o <<t>>
OBVIOUS

LEMMA CountInvDynamic ==
  ASSUME CountInv, LineInv', opts' = opts, DynamicMissing
  PROVE  CountInv'
<1>1. /\ pc = "dynamic" /\ dynamic_missing_count' = 1 /\ dynamic_missing_count = 0
      /\ first_break' /\ static_missing_count + static_bad_image_count = 0
      /\ UNCHANGED <<static_missing_count, static_bad_image_count, walk_failed>>
      /\ VerboseTrace' = VerboseTrace /\ pc' = "finish"
  BY DEF DynamicMissing, DynamicDue, CountInv, LineInv, VerboseTrace, Goto
<1>2. out \in Seq(Tokens) /\ ~PrintedIn(out, {"SUMMARY"})
  BY <1>1 DEF CountInv, LineInv, TypeOK
<1>3. PICK t : /\ t \in Seq(Tokens) /\ out' = out \o t
              /\ ~PrintedIn(t, {"SUMMARY"}) /\ OccursIn(t, "DYNAMIC_MISSING") = 1
              /\ OccursIn(t, "STATIC_MISSING") = 0 /\ OccursIn(t, "STATIC_BAD_IMAGE") = 0
  <2> DEFINE note == <<"detail">>
             line == <<"DYNAMIC_MISSING">>
  <2>1. /\ note \in Seq(Tokens) /\ line \in Seq(Tokens)
        /\ ~PrintedIn(note, {"SUMMARY"}) /\ ~PrintedIn(line, {"SUMMARY"})
        /\ OccursIn(line, "DYNAMIC_MISSING") = 1
        /\ OccursIn(line, "STATIC_MISSING") = 0 /\ OccursIn(line, "STATIC_BAD_IMAGE") = 0
    BY OccursOne DEF Tokens, Diagnoses, PrintedIn
  <2>2. \A d \in Diagnoses : OccursIn(note, d) = 0
    BY OccursOne DEF Diagnoses, Kinds
  <2>3. CASE out' = Append(out, "DYNAMIC_MISSING")
    <3>1. out' = out \o line
      BY <1>2, <2>3, AppendIsConcat DEF Tokens, Diagnoses
    <3> HIDE DEF note, line
    <3> QED
      BY <2>1, <3>1
  <2>4. CASE out' = out \o <<"detail", "DYNAMIC_MISSING", "detail">>
    <3>1. out' = out \o ((note \o line) \o note)
      BY <1>2, <2>4
    <3> HIDE DEF note, line
    <3> DEFINE pair == note \o line
    <3>2. pair \in Seq(Tokens) /\ ~PrintedIn(pair, {"SUMMARY"})
      BY <2>1, PrintedConcat
    <3>3. ASSUME NEW d \in Diagnoses PROVE OccursIn(pair, d) = OccursIn(line, d)
      <4>1. OccursIn(pair, d) = OccursIn(note, d) + OccursIn(line, d)
        BY <2>1, OccursConcat
      <4>2. OccursIn(note, d) = 0 /\ OccursIn(line, d) \in Nat
        BY <2>1, <2>2, OccursType
      <4> QED
        BY <4>1, <4>2
    <3> HIDE DEF pair
    <3>4. pair \o note \in Seq(Tokens) /\ ~PrintedIn(pair \o note, {"SUMMARY"})
      BY <2>1, <3>2, PrintedConcat
    <3>5. ASSUME NEW d \in Diagnoses PROVE OccursIn(pair \o note, d) = OccursIn(line, d)
      <4>1. OccursIn(pair \o note, d) = OccursIn(pair, d) + OccursIn(note, d)
        BY <2>1, <3>2, OccursConcat
      <4>2. OccursIn(note, d) = 0 /\ OccursIn(line, d) \in Nat
        BY <2>1, <2>2, OccursType
      <4> QED
        BY <3>3, <4>1, <4>2
    <3> QED
      BY <2>1, <3>1, <3>4, <3>5 DEF pair, Diagnoses, Kinds
  <2> QED
    BY <2>3, <2>4 DEF DynamicMissing
<1>4. ~PrintedIn(out', {"SUMMARY"})
  BY <1>2, <1>3, PrintedConcat
<1>5. CountsLines => CountsLines'
  <2> SUFFICES ASSUME CountsLines PROVE CountsLines'
    OBVIOUS
  <2>1. \A d : OccursIn(out', d) = OccursIn(out, d) + OccursIn(t, d)
    BY <1>2, <1>3, OccursConcat
  <2>2. \A d : OccursIn(out, d) \in Nat
    BY <1>2, OccursType
  <2>3. OccursIn(out', "DYNAMIC_MISSING") = 1
    BY <1>1, <1>3, <2>1 DEF CountsLines
  <2>4. /\ OccursIn(out', "STATIC_MISSING") = OccursIn(out, "STATIC_MISSING")
        /\ OccursIn(out', "STATIC_BAD_IMAGE") = OccursIn(out, "STATIC_BAD_IMAGE")
    BY <1>3, <2>1, <2>2
  <2> QED
    BY <1>1, <2>3, <2>4 DEF CountsLines
<1>6. DiagnosisCount' > 0
  BY <1>1 DEF DiagnosisCount
<1> QED
  BY <1>1, <1>4, <1>5, <1>6 DEF CountInv, SummaryLast

LEMMA CountInvNoDynamic ==
  ASSUME CountInv, LineInv', opts' = opts, NoDynamic
  PROVE  CountInv'
<1>1. /\ out' = out \o <<>> /\ <<>> \in Seq(Tokens) /\ Plain(<<>>)
      /\ ~PrintedIn(<<>>, {"SUMMARY"})
      /\ UNCHANGED counts /\ walk_failed' = walk_failed /\ pc # "done"
  BY PlainLines DEF NoDynamic, CountInv, LineInv, TypeOK, PrintedIn
<1> QED
  BY <1>1, CountInvPlain

\* The last line: SUMMARY in a verbose trace, at most SUCCESS without a trace.
LEMMA CountInvFinish ==
  ASSUME CountInv, LineInv', opts' = opts, Finish
  PROVE  CountInv'
<1> DEFINE success == summary_mode /\ ~summary_line_emitted /\ RunResultCode(outcome) = 0
<1>1. /\ pc = "finish" /\ pc' = "done" /\ UNCHANGED counts /\ walk_failed' = walk_failed
      /\ out' = out \o Lines(VerboseTrace, <<"SUMMARY">>) \o Lines(success, <<"SUCCESS">>)
  BY DEF Finish, Return, Goto
<1>2. out \in Seq(Tokens) /\ ~PrintedIn(out, {"SUMMARY"}) /\ "SUMMARY" \in Tokens
  BY <1>1 DEF CountInv, LineInv, TypeOK, Tokens
<1>3. CASE VerboseTrace
  <2>1. ~success
    BY <1>3 DEF VerboseTrace, summary_mode
  <2> HIDE DEF success
  <2>2. out' = Append(out, "SUMMARY")
    BY <1>1, <1>2, <1>3, <2>1 DEF Lines
  <2>3. \A i \in DOMAIN out' : out'[i] = "SUMMARY" <=> i = Len(out')
    <3>1. /\ DOMAIN out' = 1..(Len(out) + 1) /\ Len(out') = Len(out) + 1
          /\ out'[Len(out) + 1] = "SUMMARY"
          /\ \A i \in 1..Len(out) : out'[i] = out[i]
      BY <1>2, <2>2
    <3>2. \A i \in 1..Len(out) : out[i] # "SUMMARY"
      BY <1>2 DEF PrintedIn
    <3>3. \A n \in Nat : \A i \in 1..(n + 1) : i \in 1..n \/ i = n + 1
      OBVIOUS
    <3>4. Len(out) \in Nat /\ Len(out) + 1 \notin 1..Len(out)
      BY <1>2
    <3> QED
      BY <3>1, <3>2, <3>3, <3>4
  <2>4. VerboseTrace' = VerboseTrace /\ DiagnosisCount' = DiagnosisCount
        /\ first_break' = first_break
    BY <1>1 DEF VerboseTrace, DiagnosisCount, counts
  <2>5. CountsLines'
    <3>1. CountsLines
      BY <1>3 DEF CountInv
    <3> DEFINE last == <<"SUMMARY">>
    <3>2. last \in Seq(Tokens) /\ out' = out \o last
      BY <1>2, <2>2
    <3>3. \A d \in Diagnoses : OccursIn(last, d) = 0
      BY OccursOne DEF Diagnoses, Kinds
    <3> HIDE DEF last
    <3>4. ASSUME NEW d \in Diagnoses PROVE OccursIn(out', d) = OccursIn(out, d)
      BY <1>2, <3>2, <3>3, OccursConcat, OccursType
    <3> QED
      BY <1>1, <3>1, <3>4 DEF CountsLines, counts, Diagnoses, Kinds
  <2> QED
    BY <1>1, <1>3, <2>3, <2>4, <2>5 DEF CountInv, SummaryLast
<1>4. CASE ~VerboseTrace
  <2> DEFINE t == Lines(success, <<"SUCCESS">>)
  <2>1. t \in {<<>>, <<"SUCCESS">>}
    BY DEF Lines
  <2>2. out' = out \o t
    <3>1. out \o <<>> = out
      BY <1>2
    <3> HIDE DEF t
    <3> QED
      BY <1>1, <1>4, <3>1 DEF Lines, t
  <2> HIDE DEF t
  <2>3. t \in Seq(Tokens) /\ ~PrintedIn(t, {"SUMMARY"})
    <3>1. <<>> \in Seq(Tokens) /\ <<"SUCCESS">> \in Seq(Tokens)
      BY DEF Tokens
    <3>2. ~PrintedIn(<<>>, {"SUMMARY"}) /\ ~PrintedIn(<<"SUCCESS">>, {"SUMMARY"})
      BY DEF PrintedIn
    <3> QED
      BY <2>1, <3>1, <3>2
  <2>4. ~PrintedIn(out', {"SUMMARY"})
    BY <1>2, <2>2, <2>3, PrintedConcat
  <2>5. ~VerboseTrace' /\ DiagnosisCount' = DiagnosisCount /\ first_break' = first_break
    BY <1>1, <1>4 DEF VerboseTrace, DiagnosisCount, counts
  <2> QED
    BY <1>1, <2>4, <2>5 DEF CountInv, SummaryLast
<1> QED
  BY <1>3, <1>4

LEMMA CountInvariant == Spec => []CountInv
<1>1. Init /\ LineInv => CountInv
  <2> SUFFICES ASSUME Init, LineInv PROVE CountInv
    OBVIOUS
  <2>1. out = <<>> /\ DiagnosisCount = 0 /\ ~first_break /\ pc = "resolve"
    BY DEF Init, DiagnosisCount
  <2>2. CountsLines
    BY OccursOne DEF Init, CountsLines
  <2>3. ~PrintedIn(out, {"SUMMARY"})
    BY <2>1 DEF PrintedIn
  <2> QED
    BY <2>1, <2>2, <2>3 DEF CountInv, SummaryLast
<1>2. CountInv /\ [Next]_vars /\ LineInv' => CountInv'
  <2> SUFFICES ASSUME CountInv, [Next]_vars, LineInv' PROVE CountInv'
    OBVIOUS
  <2>1. opts' = opts
    BY OptsFixed
  <2>2. CASE Done \/ UNCHANGED vars
    <3>1. UNCHANGED vars
      BY <2>2 DEF Done
    <3> QED
      BY <3>1 DEF CountInv, LineInv, SummaryLast, CountsLines, VerboseTrace, TypeOK,
                  Printed, DiagnosisCount, Statics, vars, counts
  <2> QED
    BY <2>1, <2>2, CountInvQuiet, CountInvWalkFails, CountInvStatic, CountInvNoDynamic,
       CountInvDynamic, CountInvFinish DEF Next, Quiet
<1> QED
  BY <1>1, <1>2, LineInvariant, PTL DEF Spec

\* The counters of a verbose SUMMARY are the numbers of the lines before it,
\* unless the walk failed, and nothing follows it.
THEOREM SummaryIsCount == Spec => []SummaryCountsLines
<1>1. CountInv => SummaryCountsLines
  <2> SUFFICES ASSUME CountInv, Printed({"SUMMARY"}) PROVE SummaryCountsLines
    BY DEF SummaryCountsLines
  <2>1. PrintedIn(out, {"SUMMARY"})
    BY DEF Printed, PrintedIn
  <2>2. /\ VerboseTrace /\ CountsLines /\ (first_break <=> DiagnosisCount > 0)
        /\ \A i \in DOMAIN out : out[i] = "SUMMARY" <=> i = Len(out)
    BY <2>1 DEF CountInv, SummaryLast
  <2> QED
    BY <2>2 DEF SummaryCountsLines, CountsLines, OccursIn, Occurs
<1> QED
  BY <1>1, CountInvariant, PTL
=============================================================================
