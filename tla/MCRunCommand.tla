---------------------------- MODULE MCRunCommand ----------------------------
(***************************************************************************)
(* Values for RunCommand: both sides of each threshold of the early-exit   *)
(* heuristic, and every command line.                                      *)
(***************************************************************************)
EXTENDS RunCommand

\* A loader-related exit code is not 0, and a target that dies of a second
\* chance exception does not exit with 0.
MCOutcomes ==
  {o \in [end_kind : {"ExitProcess", "Exception", "Timeout"}, exit_code : {0, 1},
          loader_exception : BOOLEAN, elapsed_ms : {1499, 1500}, loaded : {0, 6, 7}] :
     /\ o.end_kind = "ExitProcess" /\ o.loader_exception => o.exit_code # 0
     /\ o.end_kind = "Exception" => o.exit_code # 0}
=============================================================================
