----------------------------- MODULE ComVerdict -----------------------------
(***************************************************************************)
(* What `loadwhat com` promises the script that calls it, in summary mode: *)
(* one token, and the exit code that its statuses stand for                *)
(* (docs/loadwhat_spec_v2.md, sections 2 and 9).                           *)
(*                                                                         *)
(*   22  the architecture of the target is not supported                   *)
(*   21  something could not be read, so that the diagnosis is incomplete  *)
(*   10  a definite fault                                                  *)
(*   0   no fault                                                          *)
(***************************************************************************)
CONSTANTS
  Tokens,     \* the summary lines, [token, status, server_status]
  None

VARIABLES
  line,       \* the token printed, None before
  explained,  \* something was written to stderr
  exit        \* the exit code, None while running

Statuses(l) == {l.status, l.server_status}

Unanswered(l) == Statuses(l) \cap {"INDETERMINATE", "UNSUPPORTED_ARCHITECTURE"} # {}
Incomplete(l) == Statuses(l) \cap {"ACCESS_DENIED", "INDETERMINATE"} # {}
Healthy(l) == l.status \in {"OK", "REGISTERED"} /\ l.server_status \in {None, "OK", "SKIPPED"}

ExitCode(l) ==
  IF "UNSUPPORTED_ARCHITECTURE" \in Statuses(l) THEN 22
  ELSE IF Incomplete(l) THEN 21
  ELSE IF Healthy(l) THEN 0 ELSE 10

Init == line = None /\ explained = FALSE /\ exit = None

Conclude ==
  /\ exit = None
  /\ \E l \in Tokens :
       /\ line' = l
       /\ exit' = ExitCode(l)
       /\ explained' = Unanswered(l)

Spec == Init /\ [][Conclude]_<<line, explained, exit>>
=============================================================================
