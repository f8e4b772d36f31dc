----------------------------- MODULE RunCommand -----------------------------
(***************************************************************************)
(* The orchestration of `loadwhat run`: run_command of src/main.rs, from   *)
(* the resolved target to the exit code, as the release build does it      *)
(* (test_mode is a constant false there).                                  *)
(*                                                                         *)
(* The phases it calls are modelled in modules of their own; here each is  *)
(* what it may return: run_target a member of Outcomes or an error, the    *)
(* registry guard success or failure of each call, the static walk the     *)
(* failing imports in the order it met them or an error, Phase C a         *)
(* diagnosis or nothing.                                                   *)
(*                                                                         *)
(* A token line is its token.  The lines no property tells apart (NOTE,    *)
(* RUN_START, RUNTIME_LOADED, DEBUG_STRING, RUN_END, STATIC_START,         *)
(* STATIC_IMPORT, STATIC_FOUND, STATIC_END, SEARCH_ORDER, SEARCH_PATH) are *)
(* all "detail", and a group of them is one line.                          *)
(***************************************************************************)
EXTENDS Naturals, Sequences, FiniteSets

CONSTANTS
  Opts,         \* the RunOptions of the command line
  Outcomes,     \* the RunOutcomes of the target
  MaxFailures,  \* bound on the failing imports of a target
  None

Options == [trace : BOOLEAN, verbose : BOOLEAN, loader_snaps : BOOLEAN]

\* loader_exception: exception_code passes is_loader_related_code;
\* loaded: the number of loaded_modules.
RunOutcome == [end_kind : {"ExitProcess", "Exception", "Timeout"}, exit_code : Nat,
               loader_exception : BOOLEAN, elapsed_ms : Nat, loaded : Nat]

ASSUME OptsAssumption == Opts \subseteq Options
ASSUME OutcomesAssumption == Outcomes \subseteq RunOutcome
ASSUME MaxFailuresAssumption == MaxFailures \in Nat \ {0}
ASSUME NoneAssumption == None \notin Nat /\ None \notin RunOutcome

Kinds == {"STATIC_MISSING", "STATIC_BAD_IMAGE"}
Diagnoses == Kinds \cup {"DYNAMIC_MISSING"}
Tokens == Diagnoses \cup {"SUCCESS", "FIRST_BREAK", "SUMMARY", "detail"}

\* The failing imports of one walk, in the order it meets them.
Failures == UNION {[1..n -> Kinds] : n \in 0..MaxFailures}

VARIABLES
  opts,
  pc,
  flag,     \* the loader-snaps flag of the registry, as snaps_guard left it
  outcome,  \* of run_target: None before it returns, and if it fails
  static_missing_count, static_bad_image_count, dynamic_missing_count,
  first_break,
  summary_line_emitted,
  out,      \* the token lines on stdout
  err,      \* something was written to stderr
  exit,     \* what run_command returned
  walk_failed  \* history: the static walk returned an error

counts == <<static_missing_count, static_bad_image_count, dynamic_missing_count,
            first_break, summary_line_emitted>>
vars == <<opts, pc, flag, outcome, counts, out, err, exit, walk_failed>>

Locations == {"resolve", "launch", "enable", "relaunch", "restore", "launched",
              "static", "dynamic", "finish", "done"}

-----------------------------------------------------------------------------
summary_mode == ~opts.trace
VerboseTrace == opts.trace /\ opts.verbose

Lines(condition, tokens) == IF condition THEN tokens ELSE <<>>

HeuristicEarlyFail(o) ==
  /\ o.end_kind = "ExitProcess"
  /\ o.exit_code # 0
  /\ o.elapsed_ms < 1500
  /\ o.loaded <= 6

\* Phase B is for a target that seems to have failed while it was loading.
StaticDue == outcome.loader_exception \/ HeuristicEarlyFail(outcome)

DynamicDue == opts.loader_snaps /\ static_missing_count + static_bad_image_count = 0

BadCount(failures, kind) == 1 + Cardinality({i \in DOMAIN failures : failures[i] = kind})
Count(failures, kind) == Cardinality({i \in DOMAIN failures : failures[i] = kind})

DiagnosisCount == static_missing_count + static_bad_image_count + dynamic_missing_count

BadRunResultCode(o) ==
  IF o.end_kind = "ExitProcess" /\ o.exit_code = 0 THEN 0
  ELSE IF DiagnosisCount > 0 THEN 10
  ELSE IF o.end_kind = "Timeout" /\ o.loaded # 0 THEN 0
  ELSE 21
\* run_result_code
RunResultCode(o) ==
  IF DiagnosisCount > 0 THEN 10
  ELSE IF \/ o.end_kind = "ExitProcess" /\ o.exit_code = 0
          \/ o.end_kind = "Timeout" /\ o.loaded # 0 THEN 0
  ELSE 21

Goto(l) == pc' = l
Return(code) == exit' = code /\ Goto("done")

-----------------------------------------------------------------------------
Init ==
  /\ opts \in Opts
  /\ pc = "resolve"
  /\ flag = "clear"
  /\ outcome = None
  /\ static_missing_count = 0 /\ static_bad_image_count = 0
  /\ dynamic_missing_count = 0
  /\ first_break = FALSE /\ summary_line_emitted = FALSE
  /\ out = <<>>
  /\ err = FALSE
  /\ exit = None
  /\ walk_failed = FALSE

Resolve ==
  /\ pc = "resolve"
  /\ Goto("launch")
  /\ UNCHANGED <<opts, flag, outcome, counts, out, err, exit, walk_failed>>

\* normalize_existing_run_target finds no such file, nor one on PATH.
ResolveFails ==
  /\ pc = "resolve"
  /\ err' = TRUE
  /\ Return(20)
  /\ UNCHANGED <<opts, flag, outcome, counts, out, walk_failed>>

\* The first run_target, and its RunError::Message (outcome stays None).
Launch ==
  /\ pc = "launch"
  /\ outcome' \in Outcomes \cup {None}
  /\ Goto("launched")
  /\ UNCHANGED <<opts, flag, counts, out, err, exit, walk_failed>>

PebEnableFailed ==
  /\ pc = "launch" /\ opts.loader_snaps
  /\ Goto("enable")
  /\ UNCHANGED <<opts, flag, outcome, counts, out, err, exit, walk_failed>>

UnsupportedWow64Target ==
  /\ pc = "launch" /\ opts.loader_snaps
  /\ out' = out \o Lines(opts.trace, <<"detail">>)
  /\ Return(22)
  /\ UNCHANGED <<opts, flag, outcome, counts, err, walk_failed>>

\* LoaderSnapsGuard::enable_for_image
Enable ==
  /\ pc = "enable"
  /\ flag' = "set"
  /\ out' = out \o Lines(VerboseTrace, <<"detail">>)
  /\ Goto("relaunch")
  /\ UNCHANGED <<opts, outcome, counts, err, exit, walk_failed>>

EnableFails ==
  /\ pc = "enable"
  /\ err' = TRUE
  /\ out' = out \o Lines(opts.trace, <<"detail">>)
  /\ Return(21)
  /\ UNCHANGED <<opts, flag, outcome, counts, walk_failed>>

\* The second run_target, which leaves the PEB alone.
Relaunch ==
  /\ pc = "relaunch"
  /\ outcome' \in Outcomes \cup {None}
  /\ Goto("restore")
  /\ UNCHANGED <<opts, flag, counts, out, err, exit, walk_failed>>

Restore ==
  /\ pc = "restore"
  /\ flag' = "clear"
  /\ Goto("launched")
  /\ UNCHANGED <<opts, outcome, counts, out, err, exit, walk_failed>>

\* The explicit restore fails; the drop of the guard at the end of the block
\* tries once more.
RestoreFails ==
  /\ pc = "restore"
  /\ flag' \in {"clear", "stuck"}
  /\ out' = out \o Lines(opts.trace, <<"detail">>)
  /\ Goto("launched")
  /\ UNCHANGED <<opts, outcome, counts, err, exit, walk_failed>>

\* No outcome: the error is printed.  It is a RunError::Message: the other
\* errors have returned before, and a second run_target, which leaves the PEB
\* alone, has no others.
GiveUp ==
  /\ pc = "launched" /\ outcome = None
  /\ err' = TRUE
  /\ Return(21)
  /\ UNCHANGED <<opts, flag, outcome, counts, out, walk_failed>>

\* emit_loader_snaps_peb_note and emit_run_events
Observe ==
  /\ pc = "launched" /\ outcome # None
  /\ out' = out \o Lines(VerboseTrace, <<"detail">>)
  /\ Goto("static")
  /\ UNCHANGED <<opts, flag, outcome, counts, err, exit, walk_failed>>

SkipStatic ==
  /\ pc = "static" /\ ~StaticDue
  /\ Goto("dynamic")
  /\ UNCHANGED <<opts, flag, outcome, counts, out, err, exit, walk_failed>>

\* The lines of the walk itself (Full) and those of its first issue.
StaticLines(failures, issue) ==
  LET broken == failures # <<>> IN
  IF summary_mode THEN Lines(broken, <<issue>>)
  ELSE IF opts.verbose
    THEN <<"detail">> \o failures \o Lines(broken, <<"FIRST_BREAK">>)
    ELSE Lines(broken, <<"detail", issue, "detail">>)

BadStaticWalk ==
  /\ pc = "static" /\ StaticDue
  /\ \E failures \in Failures : \E issue \in Kinds :
       /\ failures # <<>> => \E i \in DOMAIN failures : failures[i] = issue
       /\ static_missing_count' = Count(failures, "STATIC_MISSING")
       /\ static_bad_image_count' = Count(failures, "STATIC_BAD_IMAGE")
       /\ out' = out \o StaticLines(failures, issue)
       /\ first_break' = (failures # <<>>)
  /\ summary_line_emitted' = FALSE
  /\ Goto("dynamic")
  /\ UNCHANGED <<opts, flag, outcome, dynamic_missing_count, err, exit, walk_failed>>
BadStaticBreak ==
  /\ pc = "static" /\ StaticDue
  /\ \E failures \in Failures : \E issue \in Kinds :
       /\ failures # <<>> => \E i \in DOMAIN failures : failures[i] = issue
       /\ static_missing_count' = Count(failures, "STATIC_MISSING")
       /\ static_bad_image_count' = Count(failures, "STATIC_BAD_IMAGE")
       /\ out' = out \o StaticLines(failures, issue)
       /\ first_break' = TRUE
       /\ summary_line_emitted' = (summary_mode /\ failures # <<>>)
  /\ Goto("dynamic")
  /\ UNCHANGED <<opts, flag, outcome, dynamic_missing_count, err, exit, walk_failed>>
\* Phase B: the issue reported is one of the failing imports.
StaticWalk ==
  /\ pc = "static" /\ StaticDue
  /\ \E failures \in Failures : \E issue \in Kinds :
       /\ failures # <<>> => \E i \in DOMAIN failures : failures[i] = issue
       /\ static_missing_count' = Count(failures, "STATIC_MISSING")
       /\ static_bad_image_count' = Count(failures, "STATIC_BAD_IMAGE")
       /\ out' = out \o StaticLines(failures, issue)
       /\ first_break' = (failures # <<>>)
       /\ summary_line_emitted' = (summary_mode /\ failures # <<>>)
  /\ Goto("dynamic")
  /\ UNCHANGED <<opts, flag, outcome, dynamic_missing_count, err, exit, walk_failed>>

\* The walk returns an error.  In Full mode the failures it met before are
\* printed already; their counts are lost in every mode.
StaticWalkFails ==
  /\ pc = "static" /\ StaticDue
  /\ walk_failed' = TRUE
  /\ IF VerboseTrace
       THEN /\ \E failures \in Failures : out' = out \o failures \o <<"detail">>
            /\ UNCHANGED err
       ELSE err' = TRUE /\ UNCHANGED out
  /\ Goto("dynamic")
  /\ UNCHANGED <<opts, flag, outcome, counts, exit>>

\* Phase C is not due or finds nothing.
NoDynamic ==
  /\ pc = "dynamic"
  /\ Goto("finish")
  /\ UNCHANGED <<opts, flag, outcome, counts, out, err, exit, walk_failed>>

\* detect_dynamic_missing_from_debug_strings finds a failure.  A trace shows
\* the search for the dll, unless the search context cannot be built.
DynamicMissing ==
  /\ pc = "dynamic" /\ DynamicDue
  /\ first_break' = TRUE
  /\ dynamic_missing_count' = 1
  /\ summary_line_emitted' = (summary_line_emitted \/ summary_mode)
  /\ \/ out' = Append(out, "DYNAMIC_MISSING")
     \/ opts.trace /\ out' = out \o <<"detail", "DYNAMIC_MISSING", "detail">>
  /\ Goto("finish")
  /\ UNCHANGED <<opts, flag, outcome, static_missing_count, static_bad_image_count,
                 err, exit, walk_failed>>

\* SUMMARY, the exit code, and in summary mode SUCCESS or
\* emit_non_diagnostic_run_error.
Finish ==
  /\ pc = "finish"
  /\ LET code == RunResultCode(outcome)
         silent == summary_mode /\ ~summary_line_emitted
     IN  /\ out' = out \o Lines(VerboseTrace, <<"SUMMARY">>)
                       \o Lines(silent /\ code = 0, <<"SUCCESS">>)
         /\ err' = (err \/ (silent /\ code # 0))
         /\ Return(code)
  /\ UNCHANGED <<opts, flag, outcome, counts, walk_failed>>

Done == pc = "done" /\ UNCHANGED vars

Next ==
  \/ Resolve \/ ResolveFails
  \/ Launch \/ PebEnableFailed \/ UnsupportedWow64Target
  \/ Enable \/ EnableFails \/ Relaunch \/ Restore \/ RestoreFails
  \/ GiveUp \/ Observe
  \/ SkipStatic \/ StaticWalk \/ StaticWalkFails
  \/ NoDynamic \/ DynamicMissing
  \/ Finish \/ Done

Spec == Init /\ [][Next]_vars

-----------------------------------------------------------------------------
(* Properties *)

\* The variables have the types of run_command's locals.
TypeOK ==
  /\ opts \in Opts
  /\ pc \in Locations
  /\ flag \in {"clear", "set", "stuck"}
  /\ outcome \in Outcomes \cup {None}
  /\ static_missing_count \in 0..MaxFailures
  /\ static_bad_image_count \in 0..MaxFailures
  /\ dynamic_missing_count \in 0..1
  /\ first_break \in BOOLEAN /\ summary_line_emitted \in BOOLEAN
  /\ out \in Seq(Tokens)
  /\ err \in BOOLEAN
  /\ exit \in {None, 0, 10, 20, 21, 22}
  /\ walk_failed \in BOOLEAN

Occurs(t) == Cardinality({i \in DOMAIN out : out[i] = t})
Printed(tokens) == \E i \in DOMAIN out : out[i] \in tokens

Verdict == INSTANCE RunVerdict
             WITH summary <- summary_mode, lines <- out, explained <- err

\* In summary mode, whatever the phases find and whichever of them fails, the
\* run prints at most one line, and it exits with 10 after a diagnosis, with 0
\* after SUCCESS, with 20 or 21 after an explanation on stderr and no line.
SummaryVerdict == Verdict!Spec

\* Unless the walk failed, the exit code is 10 exactly when a line of stdout
\* names a missing or bad dll, in every mode.
TenMeansDiagnosed ==
  (pc = "done" /\ ~walk_failed) => (exit = 10 <=> Printed(Diagnoses))

\* The counters of a verbose SUMMARY line are those of the lines before it,
\* unless the walk failed; nothing follows SUMMARY, and first_break is whether
\* there is a diagnosis.
SummaryCountsLines ==
  Printed({"SUMMARY"}) =>
    /\ \A i \in DOMAIN out : out[i] = "SUMMARY" <=> i = Len(out)
    /\ dynamic_missing_count = Occurs("DYNAMIC_MISSING")
    /\ first_break <=> DiagnosisCount > 0
    /\ ~walk_failed => /\ static_missing_count = Occurs("STATIC_MISSING")
                       /\ static_bad_image_count = Occurs("STATIC_BAD_IMAGE")
=============================================================================
