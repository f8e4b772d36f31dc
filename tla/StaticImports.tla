--------------------------- MODULE StaticImports ---------------------------
(***************************************************************************)
(* The dependency walk over files: diagnose_static_imports of src/main.rs  *)
(* with the search order (DllSearch) and the PE reader (PeImage) that give *)
(* StaticWalk its world, for the two commands that call it:                *)
(*   imports   (imports_command), whose exit code comes from the report    *)
(*   run       Phase B of run_command, which knows where the observed run  *)
(*             loaded modules from (RunCommand has the rest of it)         *)
(*                                                                         *)
(* A system is a record: app_dir, cwd, path, safe_mode and system16 as in  *)
(* DllSearch, the content of each place (an image, Absent, or Opaque: a    *)
(* directory or a file that cannot be read), the caller, its emit_mode and *)
(* what it observed.  Files do not change during the walk.  Paths has the  *)
(* places where some system has an image.                                  *)
(***************************************************************************)
EXTENDS StaticWalk

CONSTANTS
  Key, Empty, system_dir, windows_dir, system16_dir, Absolute,  \* of DllSearch
  MaxU32, Lowercase,                                            \* of PeImage
  Names,           \* the dll names that images import, as ranks
  Absent, Opaque,  \* contents of a place that are no image
  Systems

VARIABLES
  system,
  exit  \* the exit code of `imports`, or None

INSTANCE DllSearch WITH NoFile <- None
INSTANCE PeImage WITH NoOffset <- None

allvars == <<vars, system, exit>>

-----------------------------------------------------------------------------

IsImage(s, p) == s.content[p] \notin {Absent, Opaque}

\* is_probably_pe_file: the layout of the file parses.
FileKind(s, p) ==
  IF s.content[p] = Absent THEN "absent"
  ELSE IF IsImage(s, p) /\ LayoutOk(s.content[p]) THEN "image" ELSE "bad"

\* SearchContext::from_environment: the application directory is the module's.
Machine(s) ==
  [app_dir |-> s.app_dir, cwd |-> s.cwd, path |-> s.path, safe_mode |-> s.safe_mode,
   system16 |-> s.system16, files |-> [p \in DOMAIN s.content |-> FileKind(s, p)]]

\* direct_imports of a file.
Parsed(s, p) == IF IsImage(s, p) THEN DirectImports(s.content[p]) ELSE ParseError

\* What resolve_dll returns, as the walk takes it.
Resolution(s, d) ==
  LET r == ResolveDll(Machine(s), d)
  IN  IF r.kind = "absent" THEN Missing ELSE IF r.kind = "bad" THEN BadImage ELSE r.chosen

\* What the walk gets to know of a system.
WorldOf(s) ==
  [imports |-> [p \in Paths |-> Parsed(s, p).names],
   malformed |-> {p \in Paths : ~Parsed(s, p).ok},
   resolve |-> [d \in Names |-> Resolution(s, d)],
   observed |-> s.observed,
   mode |-> s.mode]

-----------------------------------------------------------------------------

\* The worlds are those of the systems.
ASSUME SystemsAssumption == Worlds = {WorldOf(s) : s \in Systems}

\* The fields of images have their types.
ASSUME ImageAssumption ==
  /\ MaxU32 \in Nat
  /\ \A s \in Systems : \A p \in Paths : IsImage(s, p) => ImageTyped(s.content[p])

\* Images import Names, and what is looked for is a place.
ASSUME NamesAssumption ==
  /\ \A w \in Worlds : \A p \in Paths : w.imports[p] \subseteq Names \cup ApiSets
  /\ \A s \in Systems : \A d \in Names : LET tried == Tried(Machine(s), d) IN
       \A i \in DOMAIN tried : tried[i] \in DOMAIN s.content \ {Missing, BadImage, None}

\* imports_command asks for the full report, and observes no run.
ASSUME CallerAssumption ==
  \A s \in Systems : s.caller = "imports" =>
    s.mode = "Full" /\ \A d \in Names : s.observed[d] = None

\* The entries of PATH are spellings, or empty.
ASSUME PathAssumption == \A s \in Systems : s.path \in Seq(DOMAIN Key \cup {Empty})

ImportsInit ==
  /\ system \in Systems
  /\ world = WorldOf(system)
  /\ exit = None
  /\ Start

\* normalize_existing_path fails.
PathMissing ==
  /\ exit = None /\ status = "walking" /\ system.content[Root] = Absent
  /\ exit' = 20 /\ status' = "error"
  /\ UNCHANGED <<world, visited, queue, node, todo, first_issue, failures,
                 max_parent_depth_for_failures, system>>

Walk ==
  /\ system.content[Root] # Absent
  /\ Step
  /\ UNCHANGED <<system, exit>>

BadReport ==
  /\ system.caller = "imports" /\ exit = None /\ status # "walking"
  /\ exit' = IF status = "error" THEN 21
             ELSE IF \E i \in DOMAIN failures : failures[i].kind = Missing THEN 10 ELSE 0
  /\ UNCHANGED <<vars, system>>
\* The end of imports_command; a walk that gave up has no counts.
Report ==
  /\ system.caller = "imports" /\ exit = None /\ status # "walking"
  /\ exit' = IF status = "error" THEN 21 ELSE IF failures # <<>> THEN 10 ELSE 0
  /\ UNCHANGED <<vars, system>>

\* The command has ended, or Phase B has returned its report to run_command.
Returned ==
  /\ status # "walking" /\ (system.caller = "run" \/ exit # None)
  /\ UNCHANGED allvars

ImportsNext == PathMissing \/ Walk \/ Report \/ Returned

ImportsSpec == ImportsInit /\ [][ImportsNext]_allvars

-----------------------------------------------------------------------------
(* Properties *)

\* For a module that the walk has reached in a file and a name it imports, the
\* search is the documented one: it looks, once each, at the directories of
\* the documented order up to the first that has the file, and that file alone
\* decides, whether the later ones have a better one or not.
DocumentedSearch ==
  status # "walking" =>
    \A d \in (UNION {world.imports[p] : p \in visited}) \ ApiSets :
      LET m == Machine(system)
          r == ResolveDll(m, d)
      IN  /\ r.chosen = DocumentedPlace(m, d)
          /\ {r.candidates[i] : i \in DOMAIN r.candidates} = DocumentedPlaces(m, d)
          /\ Len(r.candidates) = Cardinality(DocumentedPlaces(m, d))
          /\ \A i \in DOMAIN r.candidates :
               m.files[r.candidates[i]] # "absent" => i = Len(r.candidates)

\* Of each image that the loader takes, the walk sees the imports that the
\* loader sees in the mapped image, however the sections are laid out in the
\* file and in memory.
ImportsAreMapped ==
  status # "walking" => \A p \in visited :
    IsImage(system, p) /\ Loadable(system.content[p]) =>
      p \notin world.malformed /\ world.imports[p] = LoaderImports(system.content[p])

\* The modules the program needs, by the loader's imports and the documented
\* order of directories.
Needs(p) == LoaderImports(system.content[p]) \ ApiSets
Served(d) ==
  LET m == Machine(system)
  IN  DocumentedPlace(m, d) # None /\ m.files[DocumentedPlace(m, d)] = "image"
ServedFor(p) == {DocumentedPlace(Machine(system), d) : d \in {x \in Needs(p) : Served(x)}}
NeededBeyond(near) == near \cup UNION {ServedFor(p) : p \in near}
Needed ==
  LET upTo[n \in 0..Cardinality(Paths)] == IF n = 0 THEN {Root} ELSE NeededBeyond(upTo[n - 1])
  IN  upTo[Cardinality(Paths)]

\* If every module that a program needs is an image that the loader takes, then
\* `imports` exits with 0 exactly when each name they import is found as an
\* image, and else with 10; if it gives up, one of them is no such image.
ExitIsTruth ==
  exit # None =>
    IF system.content[Root] = Absent THEN exit = 20
    ELSE IF \E p \in visited : ~(IsImage(system, p) /\ Loadable(system.content[p])) THEN TRUE
    ELSE exit = IF \A p \in Needed : \A d \in Needs(p) : Served(d) THEN 0 ELSE 10
=============================================================================
