----------------------------- MODULE MCDebugRun -----------------------------
(***************************************************************************)
(* Values for the constants of DebugRun: one image and three codes, one of *)
(* them an NTSTATUS failure, are enough to tell an exit from a crash and a *)
(* timeout; the clock runs past timeout, drain limit and two polls.        *)
(***************************************************************************)
EXTENDS DebugRun

CONSTANTS ntdll, okCode, timeoutCode, faultCode

MCModules == {ntdll}
MCCodes == {okCode, timeoutCode, faultCode}
MCHighCodes == {faultCode}
MCPebCodes == {faultCode}
MCTimeouts == {0, 3}
=============================================================================
