---------------------------- MODULE LoaderSnaps -----------------------------
(***************************************************************************)
(* The registry fallback of loader-snaps: LoaderSnapsGuard of              *)
(* src/loader_snaps.rs, as run_command (src/main.rs) uses it around the    *)
(* second call of run_target.                                              *)
(*                                                                         *)
(* The value GlobalFlag under the image's key is machine-wide: every       *)
(* loadwhat process (a member of Instances) that runs the same image reads *)
(* and writes the same one.  A registry call is one step and may fail; a   *)
(* process may be killed between any two steps (Ctrl+C, or a panic of the  *)
(* release build, which aborts without running Drop).                      *)
(*                                                                         *)
(* A value is absent, a REG_DWORD, kept as the set of its flag bits, or    *)
(* other: some value of another type or too short, which enable_for_image  *)
(* takes for 0 and restore writes back byte by byte.                       *)
(***************************************************************************)
EXTENDS Naturals

CONSTANTS
  Instances,  \* concurrent loadwhat runs of one image
  Bits,       \* the other bits of GlobalFlag
  Snaps       \* FLG_SHOW_LDR_SNAPS

ASSUME SnapsAssumption == Snaps \notin Bits

Dword(flags) == [type |-> "REG_DWORD", flags |-> flags]
Absent == [type |-> "absent", flags |-> {}]
Other == [type |-> "other", flags |-> {}]
Values == {Dword(f) : f \in SUBSET (Bits \cup {Snaps})} \cup {Absent, Other}

VARIABLES
  initial,     \* what was in the registry before loadwhat
  value,       \* what is there now
  key_exists,  \* the image's key
  pc,
  original_value,
  launched,    \* what the loader of the instance's target found, if launched
  overlapped,  \* two instances were between open and restore at once
  abandoned    \* an instance left the flag behind: killed, or both restores failed

vars == <<initial, value, key_exists, pc, original_value, launched,
          overlapped, abandoned>>

\* An instance is at "drop" when its explicit restore failed and Drop is
\* about to try again.
Locations == {"idle", "opened", "queried", "enabled", "launched", "restoring",
              "drop", "dropping", "done", "failed", "killed"}
Active(i) == pc[i] \in {"opened", "queried", "enabled", "launched",
                        "restoring", "drop", "dropping"}
FlagSet(i) == pc[i] \in {"enabled", "launched", "restoring", "drop", "dropping"}

-----------------------------------------------------------------------------
\* current_flags: the bits of a REG_DWORD, 0 for anything else.
CurrentFlags(v) == IF v.type = "REG_DWORD" THEN v.flags ELSE {}

BadNewValue(v) == Dword({Snaps})
\* The REG_DWORD new_flags.
NewValue(v) == Dword(CurrentFlags(v) \cup {Snaps})

BadRestored(v) == Dword(CurrentFlags(v) \ {Snaps})
\* What restore leaves: the value as it was read, Absent by deleting it.
Restored(v) == v

-----------------------------------------------------------------------------
Init ==
  /\ initial \in Values
  /\ value = initial
  /\ key_exists \in BOOLEAN /\ (initial # Absent => key_exists)
  /\ pc = [i \in Instances |-> "idle"]
  /\ original_value = [i \in Instances |-> Absent]
  /\ launched = [i \in Instances |-> Absent]
  /\ overlapped = FALSE
  /\ abandoned = FALSE

Goto(i, l) == pc' = [pc EXCEPT ![i] = l]

\* enable_for_image: open_or_create_key
Open(i) ==
  /\ pc[i] = "idle"
  /\ Goto(i, "opened")
  /\ key_exists' = TRUE
  /\ overlapped' = (overlapped \/ \E j \in Instances \ {i} : Active(j))
  /\ UNCHANGED <<initial, value, original_value, launched, abandoned>>

\* enable_for_image: query_value_raw
Query(i) ==
  /\ pc[i] = "opened"
  /\ Goto(i, "queried")
  /\ original_value' = [original_value EXCEPT ![i] = value]
  /\ UNCHANGED <<initial, value, key_exists, launched, overlapped, abandoned>>

\* enable_for_image: set_value_dword
SetFlag(i) ==
  /\ pc[i] = "queried"
  /\ Goto(i, "enabled")
  /\ value' = NewValue(original_value[i])
  /\ UNCHANGED <<initial, key_exists, original_value, launched, overlapped, abandoned>>

\* A registry call of enable_for_image fails: run_command gives up, and there
\* is no guard yet to undo anything.
EnableFails(i) ==
  /\ pc[i] \in {"idle", "opened", "queried"}
  /\ Goto(i, "failed")
  /\ UNCHANGED <<initial, value, key_exists, original_value, launched,
                 overlapped, abandoned>>

\* run_target starts the target, whose loader reads the value.  It may return
\* an error before that, which leads to the same restore.
Launch(i) ==
  /\ pc[i] = "enabled"
  /\ Goto(i, "launched")
  /\ launched' = [launched EXCEPT ![i] = value]
  /\ UNCHANGED <<initial, value, key_exists, original_value, overlapped, abandoned>>

\* restore: open_or_create_key, first by run_command, then by Drop
RestoreOpen(i) ==
  /\ \/ pc[i] \in {"enabled", "launched"} /\ Goto(i, "restoring")
     \/ pc[i] = "drop" /\ Goto(i, "dropping")
  /\ key_exists' = TRUE
  /\ UNCHANGED <<initial, value, original_value, launched, overlapped, abandoned>>

\* restore: set_value_raw or delete_value; restored becomes TRUE, so that
\* Drop has nothing left to do.
RestoreWrite(i) ==
  /\ pc[i] \in {"restoring", "dropping"}
  /\ Goto(i, "done")
  /\ value' = Restored(original_value[i])
  /\ UNCHANGED <<initial, key_exists, original_value, launched, overlapped, abandoned>>

\* The explicit restore fails: a note, and Drop is still to come.
RestoreFails(i) ==
  /\ pc[i] \in {"enabled", "launched", "restoring"}
  /\ Goto(i, "drop")
  /\ UNCHANGED <<initial, value, key_exists, original_value, launched,
                 overlapped, abandoned>>

\* The restore of Drop fails, and its error is ignored.
DropFails(i) ==
  /\ pc[i] \in {"drop", "dropping"}
  /\ Goto(i, "done")
  /\ abandoned' = TRUE
  /\ UNCHANGED <<initial, value, key_exists, original_value, launched, overlapped>>

Killed(i) ==
  /\ Active(i)
  /\ Goto(i, "killed")
  /\ abandoned' = (abandoned \/ FlagSet(i))
  /\ UNCHANGED <<initial, value, key_exists, original_value, launched, overlapped>>

Run(i) == \/ Open(i) \/ Query(i) \/ SetFlag(i) \/ EnableFails(i) \/ Launch(i)
          \/ RestoreOpen(i) \/ RestoreWrite(i) \/ RestoreFails(i) \/ DropFails(i)

Over == (\A i \in Instances : pc[i] \in {"done", "failed", "killed"}) /\ UNCHANGED vars

Next == (\E i \in Instances : Run(i) \/ Killed(i)) \/ Over

Spec == Init /\ [][Next]_vars

-----------------------------------------------------------------------------
(* Properties *)

TypeOK ==
  /\ initial \in Values /\ value \in Values
  /\ key_exists \in BOOLEAN
  /\ pc \in [Instances -> Locations]
  /\ original_value \in [Instances -> Values]
  /\ launched \in [Instances -> Values]
  /\ overlapped \in BOOLEAN /\ abandoned \in BOOLEAN

Flagged(v) ==
  Dword({Snaps} \cup IF v.type = "REG_DWORD" THEN v.flags ELSE {})

\* However many runs overlap, fail or are killed, the registry holds the
\* original value or that value with the loader-snaps bit set, never a third:
\* no other bit is lost or invented, also by a run that read what another
\* had written.
OriginalOrFlagged == value \in {initial, Flagged(initial)}

\* Runs that do not overlap put the original value back: when none is active
\* and none was prevented from restoring, the registry is as it was, its type
\* included, even if an explicit restore failed and Drop had to do it.
SerialRestore ==
  (~overlapped /\ ~abandoned /\ \A i \in Instances : ~Active(i)) => value = initial

\* The same without the condition on overlap: what the documentation of the
\* fallback says of every run.
Restores == (~abandoned /\ \A i \in Instances : ~Active(i)) => value = initial

\* A target that is launched with the fallback finds the loader-snaps bit in
\* the registry, unless runs overlap.
LaunchFindsFlag ==
  \A i \in Instances :
    (pc[i] = "launched" /\ ~overlapped) => Snaps \in launched[i].flags
=============================================================================
