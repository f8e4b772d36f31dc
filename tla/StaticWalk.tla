----------------------------- MODULE StaticWalk -----------------------------
(***************************************************************************)
(* The recursive missing-dependency walk of Phase B, of `imports` and of   *)
(* COM server validation: diagnose_static_imports_in_context of            *)
(* src/main.rs, with the helpers it calls.                                 *)
(*                                                                         *)
(* A module is its visit key (the canonical path), a member of Paths; a    *)
(* dll name is its rank in lexicographic order, a natural number.  What    *)
(* the file system, the search order and the observed run give the walk is *)
(* one record, chosen at the start from Worlds and fixed for the walk:     *)
(*   imports    the names pe::direct_imports returns for a module; it      *)
(*              returns them sorted and without repetition                 *)
(*   malformed  the modules whose imports it cannot parse; they pass for   *)
(*              PE files in the search all the same                        *)
(*   resolve    what search::resolve_dll finds for a name                  *)
(*   observed   runtime_observed: where the run loaded a name from.  The   *)
(*              keys of runtime_loaded are the same names: a module that   *)
(*              debug_run knows no path of is named UNKNOWN_<base>, which  *)
(*              no import is                                               *)
(*   mode       emit_mode                                                  *)
(***************************************************************************)
EXTENDS Integers, Sequences, FiniteSets

CONSTANTS
  Paths, Root,
  NameOf,    \* module_name_lower of a path, as a rank
  ApiSets,   \* the names is_api_set_dll accepts
  Missing, BadImage, None,
  Worlds

Modes == {"Full", "FailuresOnly", "SummaryOnly", "CollectOnly"}

ASSUME PathsAssumption ==
  /\ Root \in Paths /\ IsFiniteSet(Paths)
  /\ NameOf \in [Paths -> Nat]
  /\ ApiSets \subseteq Nat
  /\ Missing \notin Paths /\ BadImage \notin Paths /\ None \notin Paths
  /\ None # Missing /\ None # BadImage

\* The order of depths needs that None is no depth.
ASSUME NoneAssumption == None \notin Nat

ASSUME WorldsAssumption ==
  \A w \in Worlds :
    /\ \A p \in Paths : w.imports[p] \subseteq Nat
    /\ \A p \in Paths : \A d \in w.imports[p] \ ApiSets :
         /\ w.resolve[d] \in Paths \cup {Missing, BadImage}
         /\ w.observed[d] \in Paths \cup {None}
    /\ w.mode \in Modes

VARIABLES
  world,
  visited,
  queue,         \* of WalkNodes
  node,          \* the one being scanned
  todo,          \* its imports still to come
  first_issue,
  failures,
  max_parent_depth_for_failures,
  status         \* "walking", "stopped" (break), "done", "error" (Err)

vars == <<world, visited, queue, node, todo, first_issue, failures,
          max_parent_depth_for_failures, status>>

-----------------------------------------------------------------------------
WalkNode == [path : Paths, depth : Nat]
NoNode == [path |-> None, depth |-> 0]

\* A StaticFailure; a FirstIssue has the same fields and a fixed module.
Failure == [depth : Nat \ {0}, via : Nat, dll : Nat, kind : {Missing, BadImage}]
NoIssue == [depth |-> 0, via |-> 0, dll |-> 0, kind |-> None]

StopsEarly(mode) == mode \in {"FailuresOnly", "SummaryOnly"}

BadNewFailure(d) ==
  [depth |-> node.depth, via |-> NameOf[node.path], dll |-> d, kind |-> world.resolve[d]]
NewFailure(d) ==
  [depth |-> node.depth + 1, via |-> NameOf[node.path], dll |-> d, kind |-> world.resolve[d]]

\* The order of (depth, via, dll).
Before(x, y) ==
  \/ x.depth < y.depth
  \/ x.depth = y.depth /\ x.via < y.via
  \/ x.depth = y.depth /\ x.via = y.via /\ x.dll < y.dll

BadConsider(current, candidate) == IF current = NoIssue THEN candidate ELSE current
\* consider_first_issue
Consider(current, candidate) ==
  IF current = NoIssue \/ Before(candidate, current) THEN candidate ELSE current

BadUnrecorded(p) ==
  /\ UNCHANGED visited
  /\ queue' = IF p \in visited THEN queue
              ELSE Append(queue, [path |-> p, depth |-> node.depth + 1])
\* queue_module_if_unvisited
Enqueue(p) ==
  /\ visited' = visited \cup {p}
  /\ queue' = IF p \in visited THEN queue
              ELSE Append(queue, [path |-> p, depth |-> node.depth + 1])

\* An import of the root that the run loaded is not searched for.
RuntimeObserved(d) == node.depth = 0 /\ world.observed[d] # None

\* The module an import stands for, or why there is none.
Target(d) == IF RuntimeObserved(d) THEN world.observed[d] ELSE world.resolve[d]

BadBeyondLimit(n) ==
  /\ StopsEarly(world.mode)
  /\ max_parent_depth_for_failures # None
  /\ n.depth >= max_parent_depth_for_failures
\* The test at the head of the loop.
BeyondLimit(n) ==
  /\ StopsEarly(world.mode)
  /\ max_parent_depth_for_failures # None
  /\ n.depth > max_parent_depth_for_failures

-----------------------------------------------------------------------------
\* The walk before its first module.
Start ==
  /\ visited = {Root}
  /\ queue = <<[path |-> Root, depth |-> 0]>>
  /\ node = NoNode
  /\ todo = {}
  /\ first_issue = NoIssue
  /\ failures = <<>>
  /\ max_parent_depth_for_failures = None
  /\ status = "walking"

Init == world \in Worlds /\ Start

\* queue.pop_front(), and the imports of the node.
Scan ==
  /\ status = "walking" /\ todo = {} /\ queue # <<>>
  /\ ~BeyondLimit(Head(queue))
  /\ Head(queue).path \notin world.malformed
  /\ node' = Head(queue)
  /\ todo' = world.imports[Head(queue).path]
  /\ queue' = Tail(queue)
  /\ UNCHANGED <<world, visited, first_issue, failures,
                 max_parent_depth_for_failures, status>>

\* The imports cannot be read: the walk ends with an error, and what it has
\* found so far is dropped with it.
ScanFails ==
  /\ status = "walking" /\ todo = {} /\ queue # <<>>
  /\ ~BeyondLimit(Head(queue))
  /\ Head(queue).path \in world.malformed
  /\ status' = "error"
  /\ UNCHANGED <<world, visited, queue, node, todo, first_issue, failures,
                 max_parent_depth_for_failures>>

\* The early stop: the next module is deeper than one with a failing import.
Stop ==
  /\ status = "walking" /\ todo = {} /\ queue # <<>>
  /\ BeyondLimit(Head(queue))
  /\ status' = "stopped"
  /\ queue' = Tail(queue)
  /\ UNCHANGED <<world, visited, node, todo, first_issue, failures,
                 max_parent_depth_for_failures>>

Finish ==
  /\ status = "walking" /\ todo = {} /\ queue = <<>>
  /\ status' = "done"
  /\ UNCHANGED <<world, visited, queue, node, todo, first_issue, failures,
                 max_parent_depth_for_failures>>

\* Imports are taken in ascending order.
Due(d) == d \in todo /\ \A x \in todo : d <= x

SkipApiSet(d) ==
  /\ Due(d) /\ d \in ApiSets
  /\ todo' = todo \ {d}
  /\ UNCHANGED <<world, visited, queue, node, first_issue, failures,
                 max_parent_depth_for_failures, status>>

\* The dll was loaded by the run, or the search finds it: its module is
\* scanned later, unless it was reached before.
Found(d) ==
  /\ Due(d) /\ d \notin ApiSets
  /\ Target(d) \in Paths
  /\ Enqueue(Target(d))
  /\ todo' = todo \ {d}
  /\ UNCHANGED <<world, node, first_issue, failures,
                 max_parent_depth_for_failures, status>>

\* The search finds nothing, or a file that is no PE image.
Fail(d) ==
  /\ Due(d) /\ d \notin ApiSets
  /\ Target(d) \in {Missing, BadImage}
  /\ failures' = Append(failures, NewFailure(d))
  /\ first_issue' = Consider(first_issue, NewFailure(d))
  /\ max_parent_depth_for_failures' =
       IF StopsEarly(world.mode) /\ max_parent_depth_for_failures = None
         THEN node.depth ELSE max_parent_depth_for_failures
  /\ todo' = todo \ {d}
  /\ UNCHANGED <<world, visited, queue, node, status>>

Step == \/ Scan \/ ScanFails \/ Stop \/ Finish
        \/ \E d \in todo : SkipApiSet(d) \/ Found(d) \/ Fail(d)

\* The walk has returned.
Ended == status # "walking" /\ UNCHANGED vars

Next == Step \/ Ended

Spec == Init /\ [][Next]_vars

-----------------------------------------------------------------------------
(* The report as a function of the world, by distance from the root. *)

LoadedImport(w, p, d) == p = Root /\ w.observed[d] # None

\* What import d of module p stands for.
NeededFor(w, p, d) == IF LoadedImport(w, p, d) THEN w.observed[d] ELSE w.resolve[d]

NeededPaths(w, p) ==
  {q \in Paths : \E d \in w.imports[p] \ ApiSets : q = NeededFor(w, p, d)}

\* UpTo(w)[n]: the modules at distance n or less.  No module is further from
\* the root than there are modules.
Distances == 0..Cardinality(Paths)
Beyond(w, near) == near \cup UNION {NeededPaths(w, p) : p \in near \ w.malformed}
UpTo(w) ==
  LET upTo[n \in Distances] == IF n = 0 THEN {Root} ELSE Beyond(w, upTo[n - 1])
  IN  upTo

\* Level(w)[n]: the modules at distance n.
Level(w) ==
  LET upTo == UpTo(w)
  IN  [n \in Distances |-> IF n = 0 THEN {Root} ELSE upTo[n] \ upTo[n - 1]]

\* The failing imports, as <<module, failure>>, of modules that can be parsed.
FailedImports(w, p) ==
  {d \in w.imports[p] \ ApiSets :
     w.resolve[d] \in {Missing, BadImage} /\ ~LoadedImport(w, p, d)}
FailureAt(w, n, p, d) == [depth |-> n + 1, via |-> NameOf[p], dll |-> d, kind |-> w.resolve[d]]
FailingImports(w) ==
  LET level == Level(w)
  IN  UNION {UNION {{<<p, FailureAt(w, n, p, d)>> : d \in FailedImports(w, p)} :
                      p \in level[n] \ w.malformed} : n \in Distances}

\* An early stop is after the modules at the distance of the first failure.
Reported(w) ==
  LET failing == FailingImports(w)
  IN  IF StopsEarly(w.mode)
        THEN {x \in failing : \A y \in failing : x[2].depth <= y[2].depth}
        ELSE failing

(* Properties *)

\* The variables have the types of the code's locals; a failure is at depth 1
\* or more.
TypeOK ==
  /\ visited \subseteq Paths
  /\ queue \in Seq(WalkNode)
  /\ node \in WalkNode \cup {NoNode}
  /\ todo \subseteq Nat
  /\ first_issue \in Failure \cup {NoIssue}
  /\ failures \in Seq(Failure)
  /\ max_parent_depth_for_failures \in Nat \cup {None}
  /\ status \in {"walking", "stopped", "done", "error"}

\* The issue reported first is, among all failing imports that exist, the one
\* of lowest depth, then of the least name of the importing module, then of
\* the least dll name, also when the walk stopped early and has not seen them
\* all; there is none only if no import fails.  The walk gives up only for a
\* module it cannot parse, and if it may stop early not for one deeper than
\* the failures it has found.
FirstIssueIsReference ==
  /\ status \in {"done", "stopped"} =>
       LET all == {x[2] : x \in FailingImports(world)}
       IN  IF all = {} THEN first_issue = NoIssue
           ELSE first_issue \in all /\ \A f \in all : ~Before(f, first_issue)
  /\ status = "error" =>
       LET level == Level(world)
       IN  \E n \in Distances :
             /\ level[n] \cap world.malformed # {}
             /\ (first_issue # NoIssue /\ StopsEarly(world.mode)) => n < first_issue.depth

\* The report has each failing import of each reachable module once; if the
\* walk may stop early, each one at the distance of the first.
AllFailuresReported ==
  status \in {"done", "stopped"} =>
    LET reported == Reported(world)
    IN  /\ {failures[i] : i \in 1..Len(failures)} = {x[2] : x \in reported}
        /\ Len(failures) = Cardinality(reported)

\* When the walk returns, the first issue is the least of the failures it
\* found, and whatever the modules left in the queue import would be deeper.
FirstIssueStands ==
  status \in {"done", "stopped"} =>
    /\ failures = <<>> <=> first_issue = NoIssue
    /\ \A i \in 1..Len(failures) : ~Before(failures[i], first_issue)
    /\ \A i \in 1..Len(queue) : queue[i].depth + 1 > first_issue.depth

\* Each step of the walk makes progress: it returns, or reaches a new module,
\* or takes one from the queue, or takes one of the imports.  There are
\* finitely many of each, so the walk ends on every import graph, cyclic ones
\* included.
WalkProgresses ==
  [][\/ status = "walking" /\ status' # "walking"
     \/ visited \subseteq visited' /\ visited # visited'
     \/ visited' = visited /\ Len(queue') < Len(queue)
     \/ visited' = visited /\ queue' = queue /\ todo' \subseteq todo /\ todo' # todo]_vars
=============================================================================
