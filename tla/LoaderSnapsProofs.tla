------------------------- MODULE LoaderSnapsProofs --------------------------
(***************************************************************************)
(* Proofs about LoaderSnaps, for any number of overlapping runs and any    *)
(* set of flag bits.                                                       *)
(***************************************************************************)
EXTENDS LoaderSnaps, TLAPS

\* Every value an instance reads, keeps or writes is a registry value.
LEMMA ValuesClosed ==
  ASSUME NEW v \in Values
  PROVE  /\ Flagged(v) \in Values /\ Restored(v) \in Values
         /\ NewValue(v) = Flagged(v)
         /\ Flagged(Flagged(v)) = Flagged(v)
         /\ Snaps \in Flagged(v).flags
         /\ Flagged(v).type = "REG_DWORD"
  <1>1. Absent \in Values
    BY DEF Values
  <1>2. CurrentFlags(v) \in SUBSET (Bits \cup {Snaps})
    BY DEF Values, Dword, Absent, Other, CurrentFlags
  <1>3. NewValue(v) = Flagged(v)
    BY DEF NewValue, Flagged, CurrentFlags
  <1>4. NewValue(v) \in Values
    BY <1>2 DEF NewValue, Values
  <1>5. /\ Flagged(v).type = "REG_DWORD"
        /\ Flagged(v).flags = {Snaps} \cup CurrentFlags(v)
    BY DEF Flagged, Dword, CurrentFlags
  <1>6. Flagged(Flagged(v)) = Flagged(v)
    BY <1>5 DEF Flagged, Dword, CurrentFlags
  <1> QED
    BY <1>3, <1>4, <1>5, <1>6 DEF Restored

\* Type correctness of the guard and the registry value: no registry value
\* outside Values is ever read, kept or written.
THEOREM TypeCorrect == Spec => []TypeOK
  <1>1. Init => TypeOK
    BY DEF Init, TypeOK, Values, Locations
  <1>2. TypeOK /\ [Next]_vars => TypeOK'
    <2> SUFFICES ASSUME TypeOK, [Next]_vars PROVE TypeOK'
      OBVIOUS
    <2> USE DEF TypeOK, Locations, Goto
    <2>1. ASSUME NEW i \in Instances, Open(i) PROVE TypeOK'
      BY <2>1 DEF Open, Active
    <2>2. ASSUME NEW i \in Instances, Query(i) PROVE TypeOK'
      BY <2>2 DEF Query
    <2>3. ASSUME NEW i \in Instances, SetFlag(i) PROVE TypeOK'
      BY <2>3, ValuesClosed DEF SetFlag
    <2>4. ASSUME NEW i \in Instances, EnableFails(i) PROVE TypeOK'
      BY <2>4 DEF EnableFails
    <2>5. ASSUME NEW i \in Instances, Launch(i) PROVE TypeOK'
      BY <2>5 DEF Launch
    <2>6. ASSUME NEW i \in Instances, RestoreOpen(i) PROVE TypeOK'
      BY <2>6 DEF RestoreOpen
    <2>7. ASSUME NEW i \in Instances, RestoreWrite(i) PROVE TypeOK'
      BY <2>7, ValuesClosed DEF RestoreWrite
    <2>8. ASSUME NEW i \in Instances, RestoreFails(i) \/ DropFails(i) PROVE TypeOK'
      BY <2>8 DEF RestoreFails, DropFails
    <2>9. ASSUME NEW i \in Instances, Killed(i) PROVE TypeOK'
      BY <2>9 DEF Killed, FlagSet
    <2>10. CASE UNCHANGED vars
      BY <2>10 DEF vars
    <2> QED
      BY <2>1, <2>2, <2>3, <2>4, <2>5, <2>6, <2>7, <2>8, <2>9, <2>10
         DEF Next, Run, Over
  <1> QED
    BY <1>1, <1>2, PTL DEF Spec
-----------------------------------------------------------------------------
\* What makes OriginalOrFlagged inductive: what a run has read, and may
\* write back, is one of the two values as well.
ReadInv ==
  /\ OriginalOrFlagged
  /\ \A i \in Instances :
       pc[i] = "queried" \/ FlagSet(i) => original_value[i] \in {initial, Flagged(initial)}

\* However many runs of one image overlap, fail or are killed, the registry
\* holds the original value or that value with the loader-snaps bit set.
THEOREM RegistryNeverThird == Spec => []OriginalOrFlagged
  <1>1. Init => ReadInv
    BY DEF Init, ReadInv, OriginalOrFlagged, FlagSet
  <1>2. TypeOK /\ ReadInv /\ [Next]_vars => ReadInv'
    <2> SUFFICES ASSUME TypeOK, ReadInv, [Next]_vars PROVE ReadInv'
      OBVIOUS
    <2> USE DEF TypeOK, ReadInv, OriginalOrFlagged, FlagSet, Goto
    <2>1. ASSUME NEW i \in Instances,
                 Open(i) \/ EnableFails(i) \/ Launch(i) \/ RestoreOpen(i)
                   \/ RestoreFails(i) \/ DropFails(i) \/ Killed(i)
          PROVE  ReadInv'
      BY <2>1 DEF Open, EnableFails, Launch, RestoreOpen, RestoreFails, DropFails, Killed
    <2>2. ASSUME NEW i \in Instances, Query(i) PROVE ReadInv'
      BY <2>2 DEF Query
    <2>3. ASSUME NEW i \in Instances, SetFlag(i) PROVE ReadInv'
      <3>1. original_value[i] \in {initial, Flagged(initial)}
        BY <2>3 DEF SetFlag
      <3>2. NewValue(original_value[i]) = Flagged(initial)
        BY <3>1, ValuesClosed
      <3> QED
        BY <2>3, <3>1, <3>2 DEF SetFlag
    <2>4. ASSUME NEW i \in Instances, RestoreWrite(i) PROVE ReadInv'
      BY <2>4 DEF RestoreWrite, Restored
    <2>5. CASE UNCHANGED vars
      BY <2>5 DEF vars
    <2> QED
      BY <2>1, <2>2, <2>3, <2>4, <2>5 DEF Next, Run, Over
  <1>3. ReadInv => OriginalOrFlagged
    BY DEF ReadInv
  <1> QED
    BY <1>1, <1>2, <1>3, TypeCorrect, PTL DEF Spec
-----------------------------------------------------------------------------
\* As long as runs do not overlap at most one is active; and as long as none
\* has left the flag behind, what a run has read is the original value, and
\* the registry differs from it only while the flag is set by someone.
SerialInv ==
  ~overlapped =>
    /\ \A i, j \in Instances : Active(i) /\ Active(j) => i = j
    /\ ~abandoned =>
         /\ \A i \in Instances :
              pc[i] = "queried" \/ FlagSet(i) => original_value[i] = initial
         /\ (\A i \in Instances : ~FlagSet(i)) => value = initial

\* Runs that do not overlap put the original value back.
THEOREM SerialRunsRestore == Spec => []SerialRestore
  <1>1. Init => SerialInv
    BY DEF Init, SerialInv, Active, FlagSet
  <1>2. TypeOK /\ SerialInv /\ [Next]_vars => SerialInv'
    <2> SUFFICES ASSUME TypeOK, SerialInv, [Next]_vars PROVE SerialInv'
      OBVIOUS
    <2> USE DEF TypeOK, SerialInv, Active, FlagSet, Goto
    <2>1. ASSUME NEW i \in Instances, Open(i) PROVE SerialInv'
      <3>1. /\ pc[i] = "idle" /\ pc'[i] = "opened"
            /\ \A j \in Instances : j # i => pc'[j] = pc[j]
            /\ UNCHANGED <<initial, value, original_value, abandoned>>
        BY <2>1 DEF Open
      <3>2. ~overlapped' => ~overlapped /\ \A j \in Instances : Active(j) => j = i
        BY <2>1 DEF Open
      <3>3. \A j \in Instances : /\ FlagSet(j)' => FlagSet(j) /\ j # i
                                 /\ FlagSet(j) => FlagSet(j)'
                                 /\ j # i /\ Active(j)' => Active(j)
                                 /\ pc'[j] = "queried" => pc[j] = "queried"
        BY <3>1
      <3>4. ~overlapped' => \A j, k \in Instances : Active(j)' /\ Active(k)' => j = k
        BY <3>2, <3>3
      <3>5. ~overlapped' /\ ~abandoned' =>
              /\ \A j \in Instances :
                   pc'[j] = "queried" \/ FlagSet(j)' => original_value'[j] = initial'
              /\ (\A j \in Instances : ~FlagSet(j)') => value' = initial'
        BY <3>1, <3>2, <3>3
      <3> QED
        BY <3>4, <3>5
    <2>2. ASSUME NEW i \in Instances, Query(i) PROVE SerialInv'
      BY <2>2 DEF Query
    <2>3. ASSUME NEW i \in Instances, SetFlag(i) PROVE SerialInv'
      BY <2>3 DEF SetFlag
    <2>4. ASSUME NEW i \in Instances,
                 EnableFails(i) \/ Launch(i) \/ RestoreOpen(i) \/ RestoreFails(i)
          PROVE  SerialInv'
      BY <2>4 DEF EnableFails, Launch, RestoreOpen, RestoreFails
    <2>5. ASSUME NEW i \in Instances, RestoreWrite(i) PROVE SerialInv'
      BY <2>5 DEF RestoreWrite, Restored
    <2>6. ASSUME NEW i \in Instances, DropFails(i) PROVE SerialInv'
      BY <2>6 DEF DropFails
    <2>7. ASSUME NEW i \in Instances, Killed(i) PROVE SerialInv'
      <3>1. /\ pc'[i] = "killed"
            /\ \A j \in Instances : j # i => pc'[j] = pc[j]
            /\ abandoned' = (abandoned \/ FlagSet(i))
            /\ UNCHANGED <<initial, value, original_value, overlapped>>
        BY <2>7 DEF Killed
      <3>2. \A j \in Instances : /\ Active(j)' => Active(j) /\ j # i
                                 /\ FlagSet(j)' => FlagSet(j)
                                 /\ pc'[j] = "queried" => pc[j] = "queried"
        BY <3>1
      <3>3. ~overlapped' => \A j, k \in Instances : Active(j)' /\ Active(k)' => j = k
        BY <3>1, <3>2
      <3>4. ~overlapped' /\ ~abandoned' =>
              /\ \A j \in Instances :
                   pc'[j] = "queried" \/ FlagSet(j)' => original_value'[j] = initial'
              /\ (\A j \in Instances : ~FlagSet(j)') => value' = initial'
        BY <3>1, <3>2
      <3> QED
        BY <3>3, <3>4
    <2>8. CASE UNCHANGED vars
      BY <2>8 DEF vars
    <2> QED
      BY <2>1, <2>2, <2>3, <2>4, <2>5, <2>6, <2>7, <2>8 DEF Next, Run, Over
  <1>3. SerialInv => SerialRestore
    BY DEF SerialInv, SerialRestore, Active, FlagSet
  <1> QED
    BY <1>1, <1>2, <1>3, TypeCorrect, PTL DEF Spec
-----------------------------------------------------------------------------
\* Without overlap, the flag is in the registry from the moment a run has
\* set it until its target is launched.
FlagInv ==
  ~overlapped =>
    /\ \A i, j \in Instances : Active(i) /\ Active(j) => i = j
    /\ \A i \in Instances : pc[i] = "enabled" => Snaps \in value.flags
    /\ \A i \in Instances : pc[i] = "launched" => Snaps \in launched[i].flags

\* A target launched with the fallback finds the loader-snaps bit, unless
\* runs overlap.
THEOREM LaunchedWithFlag == Spec => []LaunchFindsFlag
  <1>1. Init => FlagInv
    BY DEF Init, FlagInv, Active
  <1>2. TypeOK /\ FlagInv /\ [Next]_vars => FlagInv'
    <2> SUFFICES ASSUME TypeOK, FlagInv, [Next]_vars PROVE FlagInv'
      OBVIOUS
    <2> USE DEF TypeOK, FlagInv, Active, Goto
    <2>1. ASSUME NEW i \in Instances, Open(i) PROVE FlagInv'
      BY <2>1 DEF Open
    <2>2. ASSUME NEW i \in Instances, SetFlag(i) PROVE FlagInv'
      <3>1. Snaps \in NewValue(original_value[i]).flags
        BY ValuesClosed
      <3> QED
        BY <2>2, <3>1 DEF SetFlag
    <2>3. ASSUME NEW i \in Instances,
                 Query(i) \/ EnableFails(i) \/ Launch(i) \/ RestoreOpen(i)
                   \/ RestoreWrite(i)
          PROVE  FlagInv'
      BY <2>3 DEF Query, EnableFails, Launch, RestoreOpen, RestoreWrite
    <2>4. ASSUME NEW i \in Instances, RestoreFails(i) \/ DropFails(i) \/ Killed(i)
          PROVE  FlagInv'
      BY <2>4 DEF RestoreFails, DropFails, Killed
    <2>5. CASE UNCHANGED vars
      BY <2>5 DEF vars
    <2> QED
      BY <2>1, <2>2, <2>3, <2>4, <2>5 DEF Next, Run, Over
  <1>3. FlagInv => LaunchFindsFlag
    BY DEF FlagInv, LaunchFindsFlag
  <1> QED
    BY <1>1, <1>2, <1>3, TypeCorrect, PTL DEF Spec
=============================================================================
