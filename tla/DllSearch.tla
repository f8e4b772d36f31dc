----------------------------- MODULE DllSearch -----------------------------
(***************************************************************************)
(* The DLL search order (src/search.rs) over the state of a machine.       *)
(*                                                                         *)
(* A directory is written in some spelling; spellings that differ in case  *)
(* only have one Key (normalize_cmp) and name one directory.  A machine is *)
(* a record:                                                               *)
(*   app_dir, cwd  spellings of two directories                            *)
(*   path          the entries of PATH, some of them Empty                 *)
(*   safe_mode     SafeDllSearchMode in the registry                       *)
(*   system16      there is a directory System in the Windows directory    *)
(*   files         what lies where: from a directory's key and a dll name  *)
(*                 to "absent", "image" (a PE layout that parses) or "bad" *)
(***************************************************************************)
EXTENDS Integers, Sequences, FiniteSets

CONSTANTS
  Key,                                 \* the directory that a spelling names
  Empty,                               \* an empty entry of PATH
  system_dir, windows_dir, system16_dir, \* spellings
  Absolute,                            \* the dll names that are absolute paths: from name to place
  NoFile                               \* Option::None, for a place

-----------------------------------------------------------------------------
(* SearchContext *)

\* safe_dll_search_mode: a value that is absent or no REG_DWORD is enabled.
SafeDllSearchMode(machine) == machine.safe_mode # "zero"

\* parse_path_dirs
PathDirs(machine) ==
  LET kept[n \in 0..Len(machine.path)] ==
        IF n = 0 THEN <<>>
        ELSE IF machine.path[n] = Empty THEN kept[n - 1]
        ELSE Append(kept[n - 1], machine.path[n])
  IN  kept[Len(machine.path)]

\* dedup_case_insensitive: the first of the spellings of a directory stays.
Dedup(dirs) ==
  LET kept[n \in 0..Len(dirs)] ==
        IF n = 0 THEN <<>>
        ELSE LET out == kept[n - 1]
             IN  IF \E i \in DOMAIN out : Key[out[i]] = Key[dirs[n]] THEN out
                 ELSE Append(out, dirs[n])
  IN  kept[Len(dirs)]

\* An operator named Bad... is the definition after it with a plausible
\* mistake; only mutation runs put it in place.
BadOrderedRoots(machine) ==
  LET cwd == IF Key[machine.cwd] # Key[machine.app_dir] THEN <<machine.cwd>> ELSE <<>>
  IN  Dedup(<<machine.app_dir, system_dir>>
              \o (IF machine.system16 THEN <<system16_dir>> ELSE <<>>)
              \o <<windows_dir>> \o cwd \o PathDirs(machine))
\* SearchContext::ordered_roots
OrderedRoots(machine) ==
  LET cwd == IF Key[machine.cwd] # Key[machine.app_dir] THEN <<machine.cwd>> ELSE <<>>
      system == <<system_dir>> \o (IF machine.system16 THEN <<system16_dir>> ELSE <<>>)
                  \o <<windows_dir>>
  IN  Dedup(<<machine.app_dir>>
              \o (IF SafeDllSearchMode(machine) THEN system \o cwd ELSE cwd \o system)
              \o PathDirs(machine))

-----------------------------------------------------------------------------
(* resolve_dll *)

Place(dir, dll) == <<Key[dir], dll>>

\* What resolve_dll tries for a name: an absolute path as it is, and no other.
Tried(machine, dll) ==
  IF dll \in DOMAIN Absolute THEN <<Absolute[dll]>>
  ELSE LET roots == OrderedRoots(machine)
       IN  [i \in DOMAIN roots |-> Place(roots[i], dll)]

BadStops(machine, place) == machine.files[place] = "image"
\* classify_candidate has an outcome that ends the search: HIT, or BAD_IMAGE.
Stops(machine, place) == machine.files[place] # "absent"

\* The search looks at the candidates in order, up to the first that is there.
ResolveDll(machine, dll) ==
  LET tried == Tried(machine, dll)
      stops == {i \in DOMAIN tried : Stops(machine, tried[i])}
      n == CHOOSE i \in stops : \A j \in stops : i <= j
  IN  IF stops = {} THEN [kind |-> "absent", chosen |-> NoFile, candidates |-> tried]
      ELSE [kind |-> machine.files[tried[n]], chosen |-> tried[n],
            candidates |-> SubSeq(tried, 1, n)]

-----------------------------------------------------------------------------
(* The documented order: directories with their ranks. *)

RankedDirs(machine) ==
  {<<1, machine.app_dir>>, <<3, system_dir>>, <<5, windows_dir>>,
   <<IF machine.safe_mode = "zero" THEN 2 ELSE 6, machine.cwd>>}
    \cup (IF machine.system16 THEN {<<4, system16_dir>>} ELSE {})
    \cup {<<6 + i, machine.path[i]>> : i \in {j \in DOMAIN machine.path : machine.path[j] # Empty}}

\* The places of a name, by rank, and those that hold a file.
RankedPlaces(machine, dll) ==
  IF dll \in DOMAIN Absolute THEN {<<1, Absolute[dll]>>}
  ELSE {<<x[1], Place(x[2], dll)>> : x \in RankedDirs(machine)}
Held(machine, dll) ==
  {x \in RankedPlaces(machine, dll) : machine.files[x[2]] # "absent"}

\* Where the documented order finds a name, or NoFile.
DocumentedPlace(machine, dll) ==
  LET held == Held(machine, dll)
  IN  IF held = {} THEN NoFile
      ELSE (CHOOSE x \in held : \A y \in held : x[1] <= y[1])[2]

\* The places that are to be looked at for a name.
DocumentedPlaces(machine, dll) ==
  {x[2] : x \in {r \in RankedPlaces(machine, dll) : \A y \in Held(machine, dll) : r[1] <= y[1]}}
=============================================================================
