----------------------------- MODULE RunVerdict -----------------------------
(***************************************************************************)
(* What `loadwhat run` promises the script that calls it, in summary mode: *)
(* at most one line on stdout, and an exit code that agrees with it.  A    *)
(* trace promises nothing here.                                            *)
(*                                                                         *)
(*   10      the line is a diagnosis                                       *)
(*   0       the line is SUCCESS                                           *)
(*   20, 21  no line, and an explanation on stderr                         *)
(*   22      no line: the architecture of the target is not supported      *)
(***************************************************************************)
EXTENDS Naturals, Sequences

CONSTANTS
  Diagnoses,  \* STATIC_MISSING, STATIC_BAD_IMAGE, DYNAMIC_MISSING
  None

VARIABLES
  summary,    \* the run is in summary mode
  lines,      \* of stdout
  explained,  \* something was written to stderr
  exit        \* the exit code, None while running

Running == exit = None

Init == summary \in BOOLEAN /\ lines = <<>> /\ explained = FALSE /\ exit = None

Diagnose ==
  /\ Running /\ lines = <<>>
  /\ \E t \in Diagnoses : lines' = <<t>>
  /\ UNCHANGED <<explained, exit>>

\* A phase that could not be carried out says so, and the run goes on.
Explain ==
  /\ Running /\ lines = <<>>
  /\ explained' = TRUE
  /\ UNCHANGED <<lines, exit>>

ExitDiagnosed ==
  /\ Running /\ \E t \in Diagnoses : lines = <<t>>
  /\ exit' = 10
  /\ UNCHANGED <<lines, explained>>

ExitSuccess ==
  /\ Running /\ lines = <<>>
  /\ lines' = <<"SUCCESS">>
  /\ exit' = 0
  /\ UNCHANGED explained

ExitFailure ==
  /\ Running /\ lines = <<>>
  /\ explained' = TRUE
  /\ exit' \in {20, 21}
  /\ UNCHANGED lines

ExitUnsupported ==
  /\ Running /\ lines = <<>>
  /\ exit' = 22
  /\ UNCHANGED <<lines, explained>>

Speak == \/ Diagnose \/ Explain
         \/ ExitDiagnosed \/ ExitSuccess \/ ExitFailure \/ ExitUnsupported

Next == summary' = summary /\ (summary => Speak)

Spec == Init /\ [][Next]_<<summary, lines, explained, exit>>
=============================================================================
