-------------------------- MODULE StaticWalkProofs --------------------------
(***************************************************************************)
(* Theorems about StaticWalk, for every set of import graphs.              *)
(***************************************************************************)
EXTENDS StaticImports, FiniteSetTheorems, WellFoundedInduction, TLAPS

\* The imports still to come are imports of the module being scanned.
ScanOK ==
  /\ world \in Worlds
  /\ todo # {} => /\ node \in WalkNode
                  /\ todo \subseteq world.imports[node.path]
                  /\ status = "walking"

Typed == TypeOK /\ ScanOK

-----------------------------------------------------------------------------
\* What Append, Head and Tail do to a sequence: used for the queue and for
\* the list of failures.
LEMMA AppendFacts ==
  ASSUME NEW S, NEW s \in Seq(S), NEW x \in S
  PROVE  /\ Append(s, x) \in Seq(S)
         /\ Len(Append(s, x)) = Len(s) + 1
         /\ \A i \in 1..Len(s) : Append(s, x)[i] = s[i]
         /\ Append(s, x)[Len(s) + 1] = x
         /\ Append(s, x) # <<>>
  OBVIOUS

LEMMA TailFacts ==
  ASSUME NEW S, NEW s \in Seq(S), s # <<>>
  PROVE  /\ Head(s) \in S /\ Head(s) = s[1]
         /\ Tail(s) \in Seq(S)
         /\ Len(Tail(s)) = Len(s) - 1
         /\ Len(s) \in Nat \ {0}
         /\ \A i \in 1..Len(Tail(s)) : Tail(s)[i] = s[i + 1]
  OBVIOUS

\* An import that is due belongs to a module of Paths, and the world says
\* what it stands for.
LEMMA DueFacts ==
  ASSUME Typed, NEW d \in todo, d \notin ApiSets
  PROVE  /\ node.depth \in Nat /\ node.path \in Paths /\ d \in Nat
         /\ Target(d) \in Paths \cup {Missing, BadImage}
         /\ ~RuntimeObserved(d) => Target(d) = world.resolve[d]
         /\ RuntimeObserved(d) => Target(d) \in Paths
  <1>1. /\ world \in Worlds /\ node \in WalkNode /\ d \in world.imports[node.path]
    BY DEF Typed, ScanOK
  <1>2. node.depth \in Nat /\ node.path \in Paths
    BY <1>1 DEF WalkNode
  <1>3. /\ d \in Nat
        /\ world.resolve[d] \in Paths \cup {Missing, BadImage}
        /\ world.observed[d] \in Paths \cup {None}
    BY <1>1, <1>2, WorldsAssumption
  <1>. QED
    BY <1>2, <1>3 DEF Target, RuntimeObserved

\* Appending to the queue keeps its type, and the module is visited then.
LEMMA EnqueueType ==
  ASSUME TypeOK, NEW p \in Paths, node.depth \in Nat, Enqueue(p)
  PROVE  visited' \subseteq Paths /\ queue' \in Seq(WalkNode)
  <1>. DEFINE n == [path |-> p, depth |-> node.depth + 1]
  <1>1. n \in WalkNode
    BY DEF WalkNode
  <1>2. Append(queue, n) \in Seq(WalkNode)
    BY <1>1, AppendFacts DEF TypeOK
  <1>. QED
    BY <1>2 DEF Enqueue, TypeOK

\* A failure has the type of one.
LEMMA FailureType ==
  ASSUME Typed, NEW d \in todo, d \notin ApiSets, Target(d) \in {Missing, BadImage}
  PROVE  /\ NewFailure(d) \in Failure
         /\ NewFailure(d).depth = node.depth + 1
  <1>1. node.depth \in Nat /\ node.path \in Paths /\ d \in Nat
    BY DueFacts
  <1>2. world.resolve[d] \in {Missing, BadImage}
    BY DueFacts, PathsAssumption
  <1>3. NameOf[node.path] \in Nat
    BY <1>1, PathsAssumption
  <1>. QED
    BY <1>1, <1>2, <1>3 DEF NewFailure, Failure

-----------------------------------------------------------------------------
\* TypeOK with ScanOK is an inductive invariant.
LEMMA TypedInvariant == Spec => []Typed
<1>1. Init => Typed
  <2>. SUFFICES ASSUME Init PROVE Typed
    OBVIOUS
  <2>1. [path |-> Root, depth |-> 0] \in WalkNode
    BY PathsAssumption DEF WalkNode
  <2>2. queue \in Seq(WalkNode)
    BY <2>1 DEF Init, Start
  <2>3. failures \in Seq(Failure)
    BY DEF Init, Start
  <2>. QED
    BY <2>2, <2>3, PathsAssumption DEF Init, Start, Typed, TypeOK, ScanOK
<1>2. Typed /\ [Next]_vars => Typed'
  <2>. SUFFICES ASSUME Typed, [Next]_vars PROVE Typed'
    OBVIOUS
  <2>1. CASE Scan
    <3>1. Head(queue) \in WalkNode /\ Tail(queue) \in Seq(WalkNode)
      BY <2>1, TailFacts DEF Scan, Typed, TypeOK
    <3>2. world.imports[Head(queue).path] \subseteq Nat
      BY <3>1, WorldsAssumption DEF Typed, ScanOK, WalkNode
    <3>. QED
      BY <2>1, <3>1, <3>2 DEF Scan, Typed, TypeOK, ScanOK
  <2>2. CASE ScanFails
    BY <2>2 DEF ScanFails, Typed, TypeOK, ScanOK
  <2>3. CASE Stop
    <3>1. Tail(queue) \in Seq(WalkNode)
      BY <2>3, TailFacts DEF Stop, Typed, TypeOK
    <3>. QED
      BY <2>3, <3>1 DEF Stop, Typed, TypeOK, ScanOK
  <2>4. CASE Finish
    BY <2>4 DEF Finish, Typed, TypeOK, ScanOK
  <2>5. ASSUME NEW d \in todo, SkipApiSet(d) PROVE Typed'
    BY <2>5 DEF SkipApiSet, Typed, TypeOK, ScanOK
  <2>6. ASSUME NEW d \in todo, Found(d) PROVE Typed'
    <3>1. node.depth \in Nat
      BY <2>6, DueFacts DEF Found
    <3>2. visited' \subseteq Paths /\ queue' \in Seq(WalkNode)
      BY <2>6, <3>1, EnqueueType DEF Found, Typed
    <3>. QED
      BY <2>6, <3>2 DEF Found, Typed, TypeOK, ScanOK
  <2>7. ASSUME NEW d \in todo, Fail(d) PROVE Typed'
    <3>1. NewFailure(d) \in Failure
      BY <2>7, FailureType DEF Fail
    <3>2. failures' \in Seq(Failure)
      BY <2>7, <3>1, AppendFacts DEF Fail, Typed, TypeOK
    <3>3. first_issue' \in Failure \cup {NoIssue}
      BY <2>7, <3>1 DEF Fail, Consider, Typed, TypeOK
    <3>4. max_parent_depth_for_failures' \in Nat \cup {None}
      <4>1. node.depth \in Nat
        BY <2>7, DueFacts DEF Fail
      <4>. QED
        BY <2>7, <4>1 DEF Fail, Typed, TypeOK
    <3>. QED
      BY <2>7, <3>2, <3>3, <3>4 DEF Fail, Typed, TypeOK, ScanOK
  <2>8. CASE UNCHANGED vars
    BY <2>8 DEF vars, Typed, TypeOK, ScanOK
  <2>. QED
    BY <2>1, <2>2, <2>3, <2>4, <2>5, <2>6, <2>7, <2>8 DEF Next, Step, Ended
<1>. QED
  BY <1>1, <1>2, PTL DEF Spec

\* Every variable of the walk keeps its type.
THEOREM TypeCorrect == Spec => []TypeOK
  BY TypedInvariant, PTL DEF Typed

\* No step of the walk goes on without having taken something from a finite
\* store: the modules not yet visited, the queue, the imports to come.  The
\* argument needs no invariant but the types.
THEOREM EveryStepProgresses == Spec => WalkProgresses
<1>. DEFINE Progress ==
       \/ status = "walking" /\ status' # "walking"
       \/ visited \subseteq visited' /\ visited # visited'
       \/ visited' = visited /\ Len(queue') < Len(queue)
       \/ visited' = visited /\ queue' = queue /\ todo' \subseteq todo /\ todo' # todo
<1>1. Typed /\ [Next]_vars => [Progress]_vars
  <2>. SUFFICES ASSUME Typed, Next PROVE Progress \/ UNCHANGED vars
    OBVIOUS
  <2>1. CASE Scan
    <3>1. Len(Tail(queue)) = Len(queue) - 1 /\ Len(queue) \in Nat
      BY <2>1, TailFacts DEF Scan, Typed, TypeOK
    <3>2. visited' = visited /\ queue' = Tail(queue)
      BY <2>1 DEF Scan
    <3>3. Len(queue') = Len(Tail(queue))
      BY <3>2
    <3>4. Len(queue') < Len(queue)
      BY <3>1, <3>3
    <3>. QED
      BY <3>2, <3>4
  <2>2. CASE ScanFails \/ Stop \/ Finish
    BY <2>2 DEF ScanFails, Stop, Finish
  <2>3. ASSUME NEW d \in todo, SkipApiSet(d) PROVE Progress
    BY <2>3 DEF SkipApiSet
  <2>4. ASSUME NEW d \in todo, Found(d) PROVE Progress
    <3>1. CASE Target(d) \in visited
      <4>1. visited' = visited /\ queue' = queue /\ todo' = todo \ {d}
        BY <2>4, <3>1 DEF Found, Enqueue
      <4>. QED
        BY <4>1
    <3>2. CASE Target(d) \notin visited
      <4>1. visited' = visited \cup {Target(d)}
        BY <2>4 DEF Found, Enqueue
      <4>. QED
        BY <4>1, <3>2
    <3>. QED
      BY <3>1, <3>2
  <2>5. ASSUME NEW d \in todo, Fail(d) PROVE Progress
    BY <2>5 DEF Fail
  <2>. QED
    BY <2>1, <2>2, <2>3, <2>4, <2>5 DEF Next, Step, Ended
<1>. QED
  BY <1>1, TypedInvariant, PTL DEF Spec, WalkProgresses

-----------------------------------------------------------------------------
(* The early stop.  The queue is in order of depth and spans at most one   *)
(* level beyond the module being scanned; the limit is one less than the   *)
(* depth of the first issue.  So when the head of the queue is beyond the  *)
(* limit, the rest of it is as well.                                       *)

QueueOrder ==
  /\ \A i \in 1..Len(queue) : /\ node.depth <= queue[i].depth
                              /\ queue[i].depth <= node.depth + 1
  /\ \A i, j \in 1..Len(queue) : i <= j => queue[i].depth <= queue[j].depth

LeastIssue ==
  /\ failures = <<>> <=> first_issue = NoIssue
  /\ \A i \in 1..Len(failures) : ~Before(failures[i], first_issue)

LimitIsFirstDepth ==
  /\ max_parent_depth_for_failures # None =>
       /\ first_issue # NoIssue
       /\ first_issue.depth = max_parent_depth_for_failures + 1
       /\ max_parent_depth_for_failures <= node.depth
  /\ first_issue # NoIssue /\ StopsEarly(world.mode) =>
       max_parent_depth_for_failures # None

ReturnedSound ==
  /\ status = "done" => queue = <<>>
  /\ status = "stopped" => \A i \in 1..Len(queue) : queue[i].depth + 1 > first_issue.depth

\* A failure that comes before the least one so far comes before all of them.
LEMMA NewLeast ==
  ASSUME NEW f \in Failure, NEW c \in Failure, NEW new \in Failure,
         ~Before(f, c), Before(new, c)
  PROVE  ~Before(f, new)
  <1>1. /\ f.depth \in Nat /\ c.depth \in Nat /\ new.depth \in Nat
        /\ f.via \in Nat /\ c.via \in Nat /\ new.via \in Nat
        /\ f.dll \in Nat /\ c.dll \in Nat /\ new.dll \in Nat
    BY DEF Failure
  <1>. QED
    BY <1>1 DEF Before

\* No failure comes before itself.
LEMMA NotBeforeItself == ASSUME NEW f \in Failure PROVE ~Before(f, f)
  BY DEF Failure, Before

\* A failure is never the absent issue.
LEMMA FailureIsIssue == ASSUME NEW f \in Failure PROVE f # NoIssue /\ f.depth \in Nat \ {0}
  BY DEF Failure, NoIssue

\* consider_first_issue keeps the first issue the least of the failures.
LEMMA ConsiderLeast ==
  ASSUME TypeOK, LeastIssue, NEW new \in Failure,
         failures' = Append(failures, new), first_issue' = Consider(first_issue, new)
  PROVE  LeastIssue' /\ first_issue' \in Failure
  <1>1. first_issue' \in Failure
    BY DEF Consider, TypeOK
  <1>2. /\ failures \in Seq(Failure)
        /\ Len(failures') = Len(failures) + 1
        /\ failures' # <<>>
        /\ failures'[Len(failures) + 1] = new
        /\ \A i \in 1..Len(failures) : failures'[i] = failures[i]
    BY AppendFacts DEF TypeOK
  <1>3. ~Before(new, first_issue')
    BY NotBeforeItself DEF Consider
  <1>4. ASSUME NEW i \in 1..Len(failures) PROVE ~Before(failures[i], first_issue')
    <2>1. failures[i] \in Failure /\ ~Before(failures[i], first_issue) /\ first_issue # NoIssue
      BY <1>2, FailureIsIssue DEF LeastIssue
    <2>2. first_issue \in Failure
      BY <2>1 DEF TypeOK
    <2>. QED
      BY <2>1, <2>2, NewLeast DEF Consider
  <1>5. ASSUME NEW i \in 1..Len(failures') PROVE ~Before(failures'[i], first_issue')
    <2>1. i \in 1..Len(failures) \/ i = Len(failures) + 1
      BY <1>2
    <2>. QED
      BY <2>1, <1>2, <1>3, <1>4
  <1>. QED
    BY <1>1, <1>2, <1>5, FailureIsIssue DEF LeastIssue

\* The nodes of the queue are nodes.
LEMMA QueueNodes ==
  ASSUME NEW q \in Seq(WalkNode), NEW i \in 1..Len(q)
  PROVE  q[i] \in WalkNode /\ q[i].depth \in Nat
  <1>1. q[i] \in WalkNode
    OBVIOUS
  <1>. QED
    BY <1>1 DEF WalkNode

\* Queueing a module at the next depth keeps the queue in order.
LEMMA EnqueueOrder ==
  ASSUME TypeOK, QueueOrder, NEW p \in Paths, node.depth \in Nat, Enqueue(p), node' = node
  PROVE  QueueOrder'
  <1>. DEFINE n == [path |-> p, depth |-> node.depth + 1]
  <1>1. CASE p \in visited
    BY <1>1 DEF Enqueue, QueueOrder
  <1>2. CASE p \notin visited
    <2>1. n \in WalkNode /\ n.depth = node.depth + 1
      BY DEF WalkNode
    <2>2. /\ queue \in Seq(WalkNode)
          /\ queue' = Append(queue, n)
      BY <1>2 DEF Enqueue, TypeOK
    <2>3. /\ Len(queue') = Len(queue) + 1 /\ Len(queue) \in Nat
          /\ queue'[Len(queue) + 1] = n
          /\ \A i \in 1..Len(queue) : queue'[i] = queue[i]
      BY <2>1, <2>2, AppendFacts
    <2>4. \A i \in 1..Len(queue) : queue[i].depth \in Nat
      BY <2>2, QueueNodes
    <2>5. ASSUME NEW i \in 1..Len(queue')
          PROVE  /\ node.depth <= queue'[i].depth
                 /\ queue'[i].depth <= node.depth + 1
                 /\ i \notin 1..Len(queue) => i = Len(queue) + 1
      BY <2>1, <2>3 DEF QueueOrder
    <2>6. ASSUME NEW i \in 1..Len(queue'), NEW j \in 1..Len(queue'), i <= j
          PROVE  queue'[i].depth <= queue'[j].depth
      <3>1. CASE j \in 1..Len(queue)
        BY <2>3, <2>6, <3>1 DEF QueueOrder
      <3>2. CASE j = Len(queue) + 1
        BY <2>1, <2>3, <2>5, <3>2
      <3>. QED
        BY <2>5, <3>1, <3>2
    <2>. QED
      BY <2>5, <2>6 DEF QueueOrder
  <1>. QED
    BY <1>1, <1>2

\* Taking the head of the queue leaves it in order, one level wide.
LEMMA DequeueOrder ==
  ASSUME TypeOK, QueueOrder, queue # <<>>, queue' = Tail(queue)
  PROVE  /\ node' = Head(queue) => QueueOrder'
         /\ node' = node => QueueOrder'
         /\ \A i \in 1..Len(queue') : Head(queue).depth <= queue'[i].depth
         /\ node.depth <= Head(queue).depth
         /\ Head(queue).depth \in Nat
  <1>1. /\ Head(queue) = queue[1] /\ Head(queue) \in WalkNode
        /\ Len(queue) \in Nat \ {0} /\ Len(queue') = Len(queue) - 1
        /\ \A i \in 1..Len(queue') : queue'[i] = queue[i + 1]
    BY TailFacts DEF TypeOK
  <1>2. ASSUME NEW i \in 1..Len(queue')
        PROVE  /\ i + 1 \in 1..Len(queue) /\ 1 <= i + 1
               /\ queue'[i] = queue[i + 1] /\ queue[i + 1].depth \in Nat
    <2>1. i + 1 \in 1..Len(queue) /\ 1 <= i + 1
      BY <1>1
    <2>. QED
      BY <1>1, <2>1, QueueNodes DEF TypeOK
  <1>3. /\ 1 \in 1..Len(queue) /\ queue[1].depth \in Nat
        /\ node.depth \in Nat
    BY <1>1 DEF WalkNode, TypeOK, NoNode
  <1>4. ASSUME NEW i \in 1..Len(queue')
        PROVE  /\ queue[1].depth <= queue'[i].depth
               /\ queue'[i].depth <= queue[1].depth + 1
               /\ node.depth <= queue'[i].depth
               /\ queue'[i].depth <= node.depth + 1
    BY <1>2, <1>3 DEF QueueOrder
  <1>5. ASSUME NEW i \in 1..Len(queue'), NEW j \in 1..Len(queue'), i <= j
        PROVE  queue'[i].depth <= queue'[j].depth
    BY <1>2, <1>5 DEF QueueOrder
  <1>. QED
    BY <1>1, <1>3, <1>4, <1>5 DEF QueueOrder

WalkInv == Typed /\ QueueOrder /\ LeastIssue /\ LimitIsFirstDepth /\ ReturnedSound

LEMMA WalkInvariant == Spec => []WalkInv
<1>1. Init => QueueOrder /\ LeastIssue /\ LimitIsFirstDepth /\ ReturnedSound
  <2>. SUFFICES ASSUME Init PROVE QueueOrder /\ LeastIssue /\ LimitIsFirstDepth /\ ReturnedSound
    OBVIOUS
  <2>1. /\ queue = <<[path |-> Root, depth |-> 0]>> /\ node.depth = 0
        /\ \A i \in 1..Len(queue) : queue[i].depth = 0
    BY DEF Init, Start, NoNode
  <2>2. QueueOrder
    BY <2>1 DEF QueueOrder
  <2>. QED
    BY <2>2 DEF Init, Start, LeastIssue, LimitIsFirstDepth, ReturnedSound
<1>2. WalkInv /\ Typed' /\ [Next]_vars => (QueueOrder /\ LeastIssue /\ LimitIsFirstDepth /\ ReturnedSound)'
  <2>. SUFFICES ASSUME WalkInv, Typed', [Next]_vars
                PROVE  QueueOrder' /\ LeastIssue' /\ LimitIsFirstDepth' /\ ReturnedSound'
    OBVIOUS
  <2>. USE DEF WalkInv, Typed
  <2>1. CASE Scan
    <3>1. /\ QueueOrder' /\ node.depth <= node'.depth
          /\ node.depth \in Nat /\ node'.depth \in Nat
      BY <2>1, DequeueOrder DEF Scan, TypeOK, WalkNode, NoNode
    <3>2. LeastIssue' /\ ReturnedSound'
      BY <2>1 DEF Scan, LeastIssue, ReturnedSound
    <3>3. LimitIsFirstDepth'
      BY <2>1, <3>1 DEF Scan, LimitIsFirstDepth, TypeOK
    <3>. QED
      BY <3>1, <3>2, <3>3
  <2>2. CASE ScanFails
    BY <2>2 DEF ScanFails, QueueOrder, LeastIssue, LimitIsFirstDepth, ReturnedSound
  <2>3. CASE Stop
    <3>1. /\ QueueOrder' /\ Head(queue).depth \in Nat
          /\ \A i \in 1..Len(queue') : Head(queue).depth <= queue'[i].depth
      BY <2>3, DequeueOrder DEF Stop
    <3>2. /\ max_parent_depth_for_failures \in Nat
          /\ max_parent_depth_for_failures < Head(queue).depth
          /\ first_issue'.depth = max_parent_depth_for_failures + 1
      BY <2>3 DEF Stop, BeyondLimit, LimitIsFirstDepth, TypeOK
    <3>3. ASSUME NEW i \in 1..Len(queue') PROVE queue'[i].depth + 1 > first_issue'.depth
      <4>1. queue'[i].depth \in Nat
        BY QueueNodes DEF TypeOK
      <4>. QED
        BY <3>1, <3>2, <4>1
    <3>4. LeastIssue' /\ LimitIsFirstDepth' /\ status' = "stopped"
      BY <2>3 DEF Stop, LeastIssue, LimitIsFirstDepth
    <3>. QED
      BY <3>1, <3>3, <3>4 DEF ReturnedSound
  <2>4. CASE Finish
    BY <2>4 DEF Finish, QueueOrder, LeastIssue, LimitIsFirstDepth, ReturnedSound
  <2>5. ASSUME NEW d \in todo, SkipApiSet(d)
        PROVE  QueueOrder' /\ LeastIssue' /\ LimitIsFirstDepth' /\ ReturnedSound'
    BY <2>5 DEF SkipApiSet, QueueOrder, LeastIssue, LimitIsFirstDepth, ReturnedSound
  <2>6. ASSUME NEW d \in todo, Found(d)
        PROVE  QueueOrder' /\ LeastIssue' /\ LimitIsFirstDepth' /\ ReturnedSound'
    <3>1. node.depth \in Nat /\ Target(d) \in Paths
      BY <2>6, DueFacts DEF Found
    <3>2. QueueOrder'
      BY <2>6, <3>1, EnqueueOrder DEF Found
    <3>3. status' = "walking"
      BY <2>6 DEF Found, ScanOK
    <3>. QED
      BY <2>6, <3>2, <3>3 DEF Found, LeastIssue, LimitIsFirstDepth, ReturnedSound
  <2>7. ASSUME NEW d \in todo, Fail(d)
        PROVE  QueueOrder' /\ LeastIssue' /\ LimitIsFirstDepth' /\ ReturnedSound'
    <3>1. /\ NewFailure(d) \in Failure /\ NewFailure(d).depth = node.depth + 1
          /\ node.depth \in Nat
      BY <2>7, FailureType, DueFacts DEF Fail
    <3>2. LeastIssue' /\ first_issue' \in Failure
      BY <2>7, <3>1, ConsiderLeast DEF Fail
    <3>3. QueueOrder' /\ status' = "walking"
      BY <2>7 DEF Fail, QueueOrder, ScanOK
    <3>4. LimitIsFirstDepth'
      <4>1. CASE max_parent_depth_for_failures # None
        <5>1. /\ max_parent_depth_for_failures \in Nat
              /\ max_parent_depth_for_failures' = max_parent_depth_for_failures
              /\ first_issue # NoIssue
              /\ first_issue.depth = max_parent_depth_for_failures + 1
              /\ max_parent_depth_for_failures <= node.depth
              /\ node' = node
          BY <2>7, <4>1 DEF Fail, LimitIsFirstDepth, TypeOK
        <5>2. first_issue'.depth = first_issue.depth
          BY <2>7, <3>1, <5>1 DEF Fail, Consider, Before
        <5>. QED
          BY <3>2, <4>1, <5>1, <5>2, FailureIsIssue DEF LimitIsFirstDepth
      <4>2. CASE max_parent_depth_for_failures = None /\ first_issue = NoIssue
        <5>1. first_issue' = NewFailure(d) /\ node' = node
          BY <2>7, <4>2 DEF Fail, Consider
        <5>2. /\ world' = world
              /\ max_parent_depth_for_failures' =
                   IF StopsEarly(world.mode) THEN node.depth ELSE None
          BY <2>7, <4>2 DEF Fail
        <5>3. /\ first_issue' # NoIssue
              /\ first_issue'.depth = node.depth + 1
              /\ node.depth \in Nat /\ node.depth <= node.depth
          BY <3>1, <5>1, FailureIsIssue
        <5>4. CASE StopsEarly(world.mode)
          BY <5>1, <5>2, <5>3, <5>4, NoneAssumption DEF LimitIsFirstDepth
        <5>5. CASE ~StopsEarly(world.mode)
          BY <5>2, <5>5 DEF LimitIsFirstDepth, StopsEarly
        <5>. QED
          BY <5>4, <5>5
      <4>3. CASE max_parent_depth_for_failures = None /\ first_issue # NoIssue
        <5>1. ~StopsEarly(world.mode) /\ UNCHANGED <<world, max_parent_depth_for_failures>>
          BY <2>7, <4>3 DEF Fail, LimitIsFirstDepth
        <5>. QED
          BY <4>3, <5>1 DEF LimitIsFirstDepth
      <4>. QED
        BY <4>1, <4>2, <4>3
    <3>. QED
      BY <3>2, <3>3, <3>4 DEF ReturnedSound
  <2>8. CASE UNCHANGED vars
    BY <2>8 DEF vars, QueueOrder, LeastIssue, LimitIsFirstDepth, ReturnedSound
  <2>. QED
    BY <2>1, <2>2, <2>3, <2>4, <2>5, <2>6, <2>7, <2>8 DEF Next, Step, Ended
<1>. QED
  BY <1>1, <1>2, TypedInvariant, PTL DEF Spec, WalkInv

\* The first issue that a returning walk reports stands: it is the least of
\* the failures found, and everything left in the queue is too deep to matter.
THEOREM EarlyStopIsSound == Spec => []FirstIssueStands
<1>1. WalkInv => FirstIssueStands
  BY DEF WalkInv, LeastIssue, ReturnedSound, FirstIssueStands
<1>. QED
  BY <1>1, WalkInvariant, PTL

-----------------------------------------------------------------------------
(* Induction.  A recursive function is for the provers a choice among the  *)
(* functions that satisfy its equation, so that there is one is a lemma.   *)

\* A set of naturals that is not empty has a least member.
LEMMA LeastNatural ==
  ASSUME NEW T \in SUBSET Nat, T # {}
  PROVE  \E x \in T : \A y \in T : x <= y
  <1>. DEFINE R == {ss \in Nat \X Nat : ss[1] < ss[2]}
  <1>1. IsWellFoundedOn(R, Nat)
    BY NatLessThanWellFounded DEF OpToRel
  <1>. HIDE DEF R
  <1>2. PICK x \in T : \A y \in T : ~(<<y, x>> \in R)
    BY <1>1, WFMin
  <1>3. \A y \in T : ~(y < x)
    BY <1>2 DEF R
  <1>. QED
    BY <1>3

\* Induction over the naturals, for a set in the place of a predicate.
LEMMA NatSetInduction ==
  ASSUME NEW T, 0 \in T, \A n \in Nat : n \in T => n + 1 \in T
  PROVE  Nat \subseteq T
  <1>. SUFFICES ASSUME Nat \ T # {} PROVE FALSE
    OBVIOUS
  <1>1. PICK x \in Nat \ T : \A y \in Nat \ T : x <= y
    BY LeastNatural
  <1>2. x # 0 /\ x - 1 \in Nat /\ x - 1 \in T
    BY <1>1
  <1>3. (x - 1) + 1 \in T
    BY <1>2
  <1>. QED
    BY <1>3

\* g is what n steps on the set S from e on make.
Iterates(g, n, S, e, step) ==
  /\ g \in [0..n -> S] /\ g[0] = e
  /\ \A k \in 1..n : g[k] = step[k][g[k - 1]]

\* Steps on a set can be taken one after the other.
LEMMA Iteration ==
  ASSUME NEW N \in Nat, NEW S, NEW e \in S, NEW step \in [1..N -> [S -> S]]
  PROVE  \E g : Iterates(g, N, S, e, step)
  <1>. DEFINE T == {n \in Nat : n <= N => \E g : Iterates(g, n, S, e, step)}
  <1>1. 0 \in T
    <2>. DEFINE g == [k \in 0..0 |-> e]
    <2>1. g \in [0..0 -> S] /\ g[0] = e /\ 1..0 = {}
      OBVIOUS
    <2>. HIDE DEF g
    <2>. QED
      BY <2>1 DEF Iterates
  <1>2. ASSUME NEW n \in Nat, n \in T PROVE n + 1 \in T
    <2>. SUFFICES ASSUME n + 1 <= N PROVE \E g : Iterates(g, n + 1, S, e, step)
      OBVIOUS
    <2>1. PICK f : Iterates(f, n, S, e, step)
      BY <1>2
    <2>. DEFINE g == [k \in 0..(n + 1) |-> IF k = n + 1 THEN step[n + 1][f[n]] ELSE f[k]]
    <2>2. f[n] \in S /\ step[n + 1][f[n]] \in S
      BY <2>1 DEF Iterates
    <2>3. g \in [0..(n + 1) -> S] /\ g[0] = e
      BY <2>1, <2>2 DEF Iterates
    <2>4. g[n + 1] = step[n + 1][f[n]] /\ \A k \in 0..n : g[k] = f[k]
      OBVIOUS
    <2>. HIDE DEF g
    <2>5. ASSUME NEW k \in 1..(n + 1) PROVE g[k] = step[k][g[k - 1]]
      <3>1. CASE k = n + 1
        BY <2>4, <3>1
      <3>2. CASE k \in 1..n
        <4>1. k - 1 \in 0..n /\ k \in 0..n
          BY <3>2
        <4>. QED
          BY <2>1, <2>4, <3>2, <4>1 DEF Iterates
      <3>. QED
        BY <3>1, <3>2
    <2>6. Iterates(g, n + 1, S, e, step)
      BY <2>3, <2>5 DEF Iterates
    <2>. QED
      BY <2>6
  <1>3. N \in T
    <2>. HIDE DEF T
    <2>. QED
      BY <1>1, <1>2, NatSetInduction
  <1>. QED
    BY <1>3

\* And in one way only.
LEMMA SameIterates ==
  ASSUME NEW N \in Nat, NEW S, NEW e, NEW step, NEW g, Iterates(g, N, S, e, step),
         NEW h, h[0] = e, \A k \in 1..N : h[k - 1] \in S => h[k] = step[k][h[k - 1]]
  PROVE  h[N] = g[N]
  <1>. DEFINE T == {n \in Nat : n <= N => h[n] = g[n]}
  <1>1. 0 \in T
    BY DEF Iterates
  <1>2. ASSUME NEW n \in Nat, n \in T PROVE n + 1 \in T
    <2>. SUFFICES ASSUME n + 1 <= N PROVE h[n + 1] = g[n + 1]
      OBVIOUS
    <2>1. n + 1 \in 1..N /\ (n + 1) - 1 = n /\ n \in 0..N
      OBVIOUS
    <2>2. h[n] = g[n] /\ g[n] \in S
      BY <1>2, <2>1 DEF Iterates
    <2>3. h[n + 1] = step[n + 1][h[n]]
      BY <2>1, <2>2
    <2>4. g[n + 1] = step[n + 1][g[n]]
      BY <2>1 DEF Iterates
    <2>. QED
      BY <2>2, <2>3, <2>4
  <1>3. N \in T
    <2>. HIDE DEF T
    <2>. QED
      BY <1>1, <1>2, NatSetInduction
  <1>. QED
    BY <1>3

-----------------------------------------------------------------------------
(* Distances.                                                              *)

LEMMA DistancesFacts == /\ Cardinality(Paths) \in Nat /\ 0 \in Distances
                        /\ Distances \subseteq Nat
  BY PathsAssumption, FS_CardinalityType DEF Distances

\* The equation of UpTo.
LEMMA UpToFacts ==
  ASSUME NEW w
  PROVE  /\ UpTo(w) \in [Distances -> SUBSET Paths]
         /\ UpTo(w)[0] = {Root}
         /\ \A n \in Distances \ {0} : UpTo(w)[n] = Beyond(w, UpTo(w)[n - 1])
  <1>. DEFINE S == SUBSET Paths
              step == [k \in 1..Cardinality(Paths) |-> [X \in S |-> Beyond(w, X)]]
  <1>1. step \in [1..Cardinality(Paths) -> [S -> S]] /\ {Root} \in S
    BY PathsAssumption DEF Beyond, NeededPaths
  <1>. HIDE DEF S, step
  <1>2. PICK g \in [Distances -> S] :
          g[0] = {Root} /\ \A n \in 1..Cardinality(Paths) : g[n] = step[n][g[n - 1]]
    <2>. DEFINE N == Cardinality(Paths)
                e == {Root}
    <2>1. N \in Nat /\ e \in S /\ step \in [1..N -> [S -> S]]
      BY <1>1, DistancesFacts
    <2>. HIDE DEF N, e
    <2>2. \E g : Iterates(g, N, S, e, step)
      BY <1>1, <2>1, Iteration
    <2>. QED
      BY <2>2 DEF N, e, Distances, Iterates
  <1>3. ASSUME NEW n \in Distances, n # 0 PROVE g[n] = Beyond(w, g[n - 1])
    <2>1. n \in 1..Cardinality(Paths) /\ n - 1 \in Distances
      BY <1>3, DistancesFacts DEF Distances
    <2>2. g[n - 1] \in S
      BY <1>2, <2>1
    <2>3. step[n][g[n - 1]] = Beyond(w, g[n - 1])
      BY <2>1, <2>2 DEF step
    <2>. QED
      BY <1>2, <2>1, <2>3
  <1>4. g = [n \in Distances |-> IF n = 0 THEN {Root} ELSE Beyond(w, g[n - 1])]
    BY <1>2, <1>3
  <1>5. UpTo(w) = [n \in Distances |-> IF n = 0 THEN {Root} ELSE Beyond(w, UpTo(w)[n - 1])]
    BY <1>4 DEF UpTo
  <1>6. /\ UpTo(w)[0] = {Root}
        /\ \A n \in Distances \ {0} : UpTo(w)[n] = Beyond(w, UpTo(w)[n - 1])
    BY <1>5, DistancesFacts
  <1>. DEFINE T == {n \in Nat : n \in Distances => UpTo(w)[n] \in S}
  <1>7. 0 \in T
    BY <1>1, <1>6
  <1>8. ASSUME NEW n \in Nat, n \in T PROVE n + 1 \in T
    <2>1. SUFFICES ASSUME n + 1 \in Distances PROVE UpTo(w)[n + 1] \in S
      OBVIOUS
    <2>2. n \in Distances /\ (n + 1) - 1 = n /\ n + 1 # 0
      BY <2>1, DistancesFacts DEF Distances
    <2>3. UpTo(w)[n + 1] = Beyond(w, UpTo(w)[n])
      BY <1>6, <2>1, <2>2
    <2>4. UpTo(w)[n] \in S
      BY <1>8, <2>2
    <2>. QED
      BY <2>3, <2>4 DEF S, Beyond, NeededPaths
  <1>9. Nat \subseteq T
    <2>. HIDE DEF T
    <2>. QED
      BY <1>7, <1>8, NatSetInduction
  <1>10. \A n \in Distances : UpTo(w)[n] \in SUBSET Paths
    BY <1>9, DistancesFacts DEF S
  <1>. QED
    BY <1>5, <1>6, <1>10

\* What is near is never further.
LEMMA UpToGrows ==
  ASSUME NEW w, NEW m \in Distances, NEW n \in Distances, m <= n
  PROVE  UpTo(w)[m] \subseteq UpTo(w)[n]
  <1>. DEFINE T == {k \in Nat : m + k \in Distances => UpTo(w)[m] \subseteq UpTo(w)[m + k]}
  <1>1. m \in Nat /\ n \in Nat
    BY DistancesFacts
  <1>2. 0 \in T
    BY <1>1
  <1>3. ASSUME NEW k \in Nat, k \in T PROVE k + 1 \in T
    <2>1. SUFFICES ASSUME m + (k + 1) \in Distances
                   PROVE  UpTo(w)[m] \subseteq UpTo(w)[m + (k + 1)]
      OBVIOUS
    <2>2. m + k \in Distances /\ m + (k + 1) # 0 /\ (m + (k + 1)) - 1 = m + k
      BY <1>1, <2>1, DistancesFacts DEF Distances
    <2>3. UpTo(w)[m + (k + 1)] = Beyond(w, UpTo(w)[m + k])
      BY <2>1, <2>2, UpToFacts
    <2>. QED
      BY <1>3, <2>2, <2>3 DEF Beyond
  <1>4. Nat \subseteq T
    <2>. HIDE DEF T
    <2>. QED
      BY <1>2, <1>3, NatSetInduction
  <1>5. n - m \in Nat /\ m + (n - m) = n
    BY <1>1
  <1>. QED
    BY <1>4, <1>5

\* What a level is.
LEMMA LevelFacts ==
  ASSUME NEW w, NEW n \in Distances
  PROVE  /\ Level(w)[n] = IF n = 0 THEN {Root} ELSE UpTo(w)[n] \ UpTo(w)[n - 1]
         /\ Level(w)[n] \subseteq UpTo(w)[n]
         /\ Level(w)[n] \subseteq Paths
  BY UpToFacts DEF Level

LEMMA LevelStep ==
  ASSUME NEW w, NEW n \in Distances, n # 0
  PROVE  Level(w)[n] = UpTo(w)[n] \ UpTo(w)[n - 1]
  BY LevelFacts, Zenon

\* A module of a level is not nearer.
LEMMA LevelIsDistance ==
  ASSUME NEW w, NEW n \in Distances, NEW p \in Level(w)[n],
         NEW m \in Distances, p \in UpTo(w)[m]
  PROVE  n <= m
  <1>. SUFFICES ASSUME m < n PROVE FALSE
    BY DistancesFacts
  <1>1. n # 0 /\ n - 1 \in Distances /\ m <= n - 1
    BY DistancesFacts DEF Distances
  <1>2. p \notin UpTo(w)[n - 1]
    <2>1. Level(w)[n] = IF n = 0 THEN {Root} ELSE UpTo(w)[n] \ UpTo(w)[n - 1]
      BY LevelFacts
    <2>. QED
      BY <1>1, <2>1
  <1>. QED
    BY <1>1, <1>2, UpToGrows

\* A module is at one distance only.
LEMMA OneLevel ==
  ASSUME NEW w, NEW m \in Distances, NEW n \in Distances,
         NEW p \in Level(w)[m], p \in Level(w)[n]
  PROVE  m = n
  <1>1. p \in UpTo(w)[m] /\ p \in UpTo(w)[n]
    BY LevelFacts
  <1>2. m <= n /\ n <= m
    BY <1>1, LevelIsDistance
  <1>. QED
    BY <1>2, DistancesFacts

\* Up to a distance at which there is a module there is one more at each: once
\* a level is empty, all further ones are.
LEMMA LevelsAreFilled ==
  ASSUME NEW w, NEW n \in Distances, Level(w)[n] # {}
  PROVE  IsFiniteSet(UpTo(w)[n]) /\ Cardinality(UpTo(w)[n]) >= n + 1
  <1>. DEFINE T == {k \in Nat : k \in Distances /\ Level(w)[k] # {}
                                  => Cardinality(UpTo(w)[k]) >= k + 1}
  <1>1. 0 \in T
    <2>1. UpTo(w)[0] = {Root} /\ Cardinality({Root}) = 1
      BY UpToFacts, FS_Singleton
    <2>. QED
      BY <2>1
  <1>2. ASSUME NEW k \in Nat, k \in T PROVE k + 1 \in T
    <2>. SUFFICES ASSUME k + 1 \in Distances, Level(w)[k + 1] # {}
                  PROVE  Cardinality(UpTo(w)[k + 1]) >= (k + 1) + 1
      OBVIOUS
    <2>1. k \in Distances /\ k + 1 # 0 /\ (k + 1) - 1 = k
      BY DistancesFacts DEF Distances
    <2>2. PICK q : q \in UpTo(w)[k + 1] \ UpTo(w)[k]
      <3>1. Level(w)[k + 1] = UpTo(w)[k + 1] \ UpTo(w)[(k + 1) - 1]
        BY <2>1, LevelStep, Zenon
      <3>2. Level(w)[k + 1] = UpTo(w)[k + 1] \ UpTo(w)[k]
        BY <2>1, <3>1, Zenon
      <3>. QED
        BY <3>2
    <2>3. UpTo(w)[k + 1] = Beyond(w, UpTo(w)[k])
      BY <2>1, UpToFacts
    <2>4. Level(w)[k] # {}
      <3>1. CASE k = 0
        BY <2>1, <3>1, LevelFacts
      <3>2. CASE k # 0
        <4>1. k - 1 \in Distances /\ UpTo(w)[k] = Beyond(w, UpTo(w)[k - 1])
          BY <2>1, <3>2, UpToFacts, DistancesFacts DEF Distances
        <4>2. UpTo(w)[k] # UpTo(w)[k - 1]
          BY <2>2, <2>3, <4>1
        <4>3. UpTo(w)[k - 1] \subseteq UpTo(w)[k]
          BY <4>1 DEF Beyond
        <4>4. Level(w)[k] = UpTo(w)[k] \ UpTo(w)[k - 1]
          BY <2>1, <3>2, LevelStep, Zenon
        <4>. QED
          BY <4>2, <4>3, <4>4
      <3>. QED
        BY <3>1, <3>2
    <2>5. Cardinality(UpTo(w)[k]) >= k + 1
      BY <1>2, <2>1, <2>4
    <2>6. /\ IsFiniteSet(UpTo(w)[k]) /\ IsFiniteSet(UpTo(w)[k + 1])
          /\ UpTo(w)[k] \cup {q} \subseteq UpTo(w)[k + 1]
      BY <2>1, <2>2, UpToFacts, UpToGrows, PathsAssumption, FS_Subset
    <2>7. /\ IsFiniteSet(UpTo(w)[k] \cup {q})
          /\ Cardinality(UpTo(w)[k] \cup {q}) = Cardinality(UpTo(w)[k]) + 1
      BY <2>2, <2>6, FS_AddElement
    <2>8. Cardinality(UpTo(w)[k] \cup {q}) <= Cardinality(UpTo(w)[k + 1])
      BY <2>6, FS_Subset
    <2>9. Cardinality(UpTo(w)[k]) \in Nat /\ Cardinality(UpTo(w)[k + 1]) \in Nat
      BY <2>6, FS_CardinalityType
    <2>. QED
      BY <2>5, <2>7, <2>8, <2>9
  <1>3. Nat \subseteq T
    <2>. HIDE DEF T
    <2>. QED
      BY <1>1, <1>2, NatSetInduction
  <1>4. IsFiniteSet(UpTo(w)[n])
    BY UpToFacts, PathsAssumption, FS_Subset
  <1>. QED
    BY <1>3, <1>4, DistancesFacts

\* A module that a module of level n needs and that is not as near is at
\* distance n + 1, which is a distance.
LEMMA NextLevel ==
  ASSUME NEW w, NEW n \in Distances, NEW p \in Level(w)[n] \ w.malformed,
         NEW q \in NeededPaths(w, p), q \notin UpTo(w)[n]
  PROVE  n + 1 \in Distances /\ q \in Level(w)[n + 1]
  <1>1. IsFiniteSet(UpTo(w)[n]) /\ Cardinality(UpTo(w)[n]) >= n + 1
    BY LevelsAreFilled
  <1>2. Cardinality(UpTo(w)[n] \cup {q}) = Cardinality(UpTo(w)[n]) + 1
    BY <1>1, FS_AddElement
  <1>3. UpTo(w)[n] \cup {q} \subseteq Paths
    BY UpToFacts DEF NeededPaths
  <1>4. Cardinality(UpTo(w)[n] \cup {q}) <= Cardinality(Paths)
    BY <1>3, PathsAssumption, FS_Subset
  <1>5. n + 1 \in Distances /\ n + 1 # 0 /\ (n + 1) - 1 = n
    BY <1>1, <1>2, <1>4, DistancesFacts, FS_CardinalityType DEF Distances
  <1>6. UpTo(w)[n + 1] = Beyond(w, UpTo(w)[n])
    BY <1>5, UpToFacts
  <1>7. q \in UpTo(w)[n + 1]
    <2>1. p \in UpTo(w)[n] \ w.malformed
      BY LevelFacts
    <2>. QED
      BY <1>6, <2>1 DEF Beyond
  <1>8. Level(w)[n + 1] = UpTo(w)[n + 1] \ UpTo(w)[(n + 1) - 1]
    BY <1>5, LevelStep, Zenon
  <1>9. Level(w)[n + 1] = UpTo(w)[n + 1] \ UpTo(w)[n]
    BY <1>5, <1>8, Zenon
  <1>. QED
    BY <1>5, <1>7, <1>9

-----------------------------------------------------------------------------
(* The walk is breadth first.  The modules visited and no longer queued    *)
(* have been scanned, or are being scanned; everything as near as the      *)
(* module being scanned is visited, so what it reaches first is one level  *)
(* further, and the queue knows its exact distance.                        *)

Queued == {queue[i].path : i \in 1..Len(queue)}
Scanned == visited \ Queued

\* The queue has visited modules, each once and with its distance.
QueueExact ==
  /\ Queued \subseteq visited
  /\ \A i, j \in 1..Len(queue) : queue[i].path = queue[j].path => i = j
  /\ \A i \in 1..Len(queue) : /\ queue[i].depth \in Distances
                              /\ queue[i].path \in Level(world)[queue[i].depth]

\* The module being scanned is at its distance, and everything as near as it
\* is visited; what was scanned is as near.
NodeExact ==
  /\ node.depth \in Distances
  /\ IF node = NoNode THEN Scanned = {}
     ELSE node.path \in Scanned /\ node.path \in Level(world)[node.depth]
  /\ UpTo(world)[node.depth] \subseteq visited
  /\ Scanned \subseteq UpTo(world)[node.depth] \ world.malformed

\* Import d of module p is behind the walk.
Handled(p, d) == ~(p = node.path /\ d \in todo)

\* The imports of what was scanned are visited or still to come.
ImportsReached ==
  \A p \in Scanned : \A d \in world.imports[p] \ ApiSets :
    Handled(p, d) /\ NeededFor(world, p, d) \in Paths => NeededFor(world, p, d) \in visited

\* The failures are those of the imports behind the walk, each once.
SoFar == {x \in FailingImports(world) : x[1] \in Scanned /\ Handled(x[1], x[2].dll)}
FailuresExact ==
  /\ {failures[i] : i \in 1..Len(failures)} = {x[2] : x \in SoFar}
  /\ IsFiniteSet(SoFar) /\ Len(failures) = Cardinality(SoFar)
  /\ first_issue # NoIssue => \E i \in 1..Len(failures) : failures[i] = first_issue

\* A walk that may stop early is at the distance of its first failure, as are
\* all failures it has found.
OneDepth ==
  StopsEarly(world.mode) /\ max_parent_depth_for_failures # None =>
    /\ node.depth = max_parent_depth_for_failures
    /\ \A i \in 1..Len(failures) : failures[i].depth = node.depth + 1

BreadthFirst == QueueExact /\ NodeExact /\ ImportsReached /\ FailuresExact /\ OneDepth

\* What the report of a walk is, once it has returned.
ReportExact == FirstIssueIsReference /\ AllFailuresReported

ReferenceInv == WalkInv /\ (status = "walking" => BreadthFirst) /\ ReportExact

\* A failing import, as the reference has it.
LEMMA FailingFacts ==
  ASSUME NEW w, NEW x
  PROVE  x \in FailingImports(w) <=>
           \E n \in Distances : \E p \in Level(w)[n] \ w.malformed :
             \E d \in FailedImports(w, p) : x = <<p, FailureAt(w, n, p, d)>>
  BY DEF FailingImports

LEMMA FailingImport ==
  ASSUME NEW w \in Worlds, NEW x \in FailingImports(w)
  PROVE  \E n \in Distances :
           /\ x[1] \in Level(w)[n] \ w.malformed /\ x[1] \in Paths
           /\ x[2].dll \in FailedImports(w, x[1])
           /\ x = <<x[1], FailureAt(w, n, x[1], x[2].dll)>>
           /\ x[2].depth = n + 1
           /\ x[2] \in Failure
  <1>1. PICK n, p, d : /\ n \in Distances /\ p \in Level(w)[n] \ w.malformed
                       /\ d \in FailedImports(w, p)
                       /\ x = <<p, FailureAt(w, n, p, d)>>
    BY FailingFacts
  <1>2. /\ x[1] = p /\ x[2] = FailureAt(w, n, p, d)
        /\ x[2].dll = d /\ x[2].depth = n + 1
    BY <1>1 DEF FailureAt
  <1>3. p \in Paths
    BY <1>1, LevelFacts
  <1>4. d \in Nat /\ w.resolve[d] \in {Missing, BadImage} /\ NameOf[p] \in Nat
    BY <1>1, <1>3, WorldsAssumption, PathsAssumption DEF FailedImports
  <1>5. n + 1 \in Nat \ {0}
    <2>1. n \in Distances
      BY <1>1
    <2>. QED
      BY <2>1, DistancesFacts
  <1>6. FailureAt(w, n, p, d) \in Failure
    BY <1>4, <1>5 DEF FailureAt, Failure
  <1>. QED
    BY <1>1, <1>2, <1>3, <1>6

\* Taking the head of the queue starts the scan of a module.
LEMMA DequeueExact ==
  ASSUME TypeOK, QueueExact, queue # <<>>, queue' = Tail(queue),
         visited' = visited, world' = world
  PROVE  /\ QueueExact'
         /\ Head(queue) \in WalkNode /\ Head(queue).depth \in Distances
         /\ Head(queue).path \in Level(world)[Head(queue).depth]
         /\ Head(queue).path \in Queued
         /\ Scanned' = Scanned \cup {Head(queue).path}
  <1>1. /\ Head(queue) = queue[1] /\ Head(queue) \in WalkNode
        /\ Len(queue) \in Nat \ {0} /\ Len(queue') = Len(queue) - 1
        /\ \A i \in 1..Len(queue') : queue'[i] = queue[i + 1]
    BY TailFacts DEF TypeOK
  <1>2. \A i \in 1..Len(queue') : i + 1 \in 1..Len(queue)
    BY <1>1
  <1>3. 1 \in 1..Len(queue)
    BY <1>1
  <1>4. /\ Head(queue).depth \in Distances /\ Head(queue).path \in Queued
        /\ Head(queue).path \in Level(world)[Head(queue).depth]
    BY <1>1, <1>3 DEF QueueExact, Queued
  <1>5. Queued' = Queued \ {Head(queue).path}
    <2>1. ASSUME NEW p \in Queued' PROVE p \in Queued /\ p # Head(queue).path
      <3>1. PICK i \in 1..Len(queue') : p = queue'[i].path
        BY <2>1 DEF Queued
      <3>2. i + 1 \in 1..Len(queue) /\ p = queue[i + 1].path /\ i + 1 # 1
        BY <1>1, <1>2, <3>1
      <3>. QED
        BY <1>1, <1>3, <3>2 DEF QueueExact, Queued
    <2>2. ASSUME NEW p \in Queued, p # Head(queue).path PROVE p \in Queued'
      <3>1. PICK i \in 1..Len(queue) : p = queue[i].path
        BY <2>2 DEF Queued
      <3>2. i # 1 /\ i - 1 \in 1..Len(queue') /\ (i - 1) + 1 = i
        BY <1>1, <2>2, <3>1
      <3>3. queue'[i - 1] = queue[i]
        BY <1>1, <3>2
      <3>. QED
        BY <3>1, <3>2, <3>3 DEF Queued
    <2>. QED
      BY <2>1, <2>2
  <1>6. QueueExact'
    <2>1. ASSUME NEW i \in 1..Len(queue')
          PROVE  /\ queue'[i].depth \in Distances
                 /\ queue'[i].path \in Level(world')[queue'[i].depth]
      BY <1>1, <1>2 DEF QueueExact
    <2>2. ASSUME NEW i \in 1..Len(queue'), NEW j \in 1..Len(queue'),
                 queue'[i].path = queue'[j].path
          PROVE  i = j
      <3>1. /\ i + 1 \in 1..Len(queue) /\ j + 1 \in 1..Len(queue)
            /\ queue[i + 1].path = queue[j + 1].path
        BY <1>1, <1>2, <2>2
      <3>. QED
        BY <3>1 DEF QueueExact
    <2>. QED
      BY <1>5, <2>1, <2>2 DEF QueueExact
  <1>7. Scanned' = Scanned \cup {Head(queue).path}
    BY <1>4, <1>5 DEF Scanned, QueueExact
  <1>. QED
    BY <1>1, <1>4, <1>6, <1>7

\* A module that is new goes to the queue, with its distance.
LEMMA EnqueueExact ==
  ASSUME TypeOK, QueueExact, NEW n \in WalkNode, n.path \notin visited,
         n.depth \in Distances, n.path \in Level(world)[n.depth],
         queue' = Append(queue, n), visited' = visited \cup {n.path}, world' = world
  PROVE  QueueExact' /\ Scanned' = Scanned
  <1>1. /\ Len(queue') = Len(queue) + 1 /\ Len(queue) \in Nat
        /\ queue'[Len(queue) + 1] = n
        /\ \A i \in 1..Len(queue) : queue'[i] = queue[i]
    BY AppendFacts DEF TypeOK
  <1>2. \A i \in 1..Len(queue') : i \in 1..Len(queue) \/ i = Len(queue) + 1
    BY <1>1
  <1>3. \A i \in 1..Len(queue) : queue[i].path \in visited /\ queue[i].path # n.path
    BY DEF QueueExact, Queued
  <1>4. Queued' = Queued \cup {n.path}
    <2>1. ASSUME NEW p \in Queued' PROVE p \in Queued \cup {n.path}
      BY <1>1, <1>2, <2>1 DEF Queued
    <2>2. ASSUME NEW p \in Queued \cup {n.path} PROVE p \in Queued'
      <3>1. CASE p \in Queued
        <4>1. PICK i \in 1..Len(queue) : p = queue[i].path
          BY <3>1 DEF Queued
        <4>. QED
          BY <1>1, <4>1 DEF Queued
      <3>2. CASE p = n.path
        BY <1>1, <3>2 DEF Queued
      <3>. QED
        BY <3>1, <3>2
    <2>. QED
      BY <2>1, <2>2
  <1>5. ASSUME NEW i \in 1..Len(queue')
        PROVE  /\ queue'[i].depth \in Distances
               /\ queue'[i].path \in Level(world')[queue'[i].depth]
    BY <1>1, <1>2 DEF QueueExact
  <1>6. ASSUME NEW i \in 1..Len(queue'), NEW j \in 1..Len(queue'),
               queue'[i].path = queue'[j].path
        PROVE  i = j
    <2>1. CASE i \in 1..Len(queue) /\ j \in 1..Len(queue)
      BY <1>1, <1>6, <2>1 DEF QueueExact
    <2>2. CASE i = Len(queue) + 1 \/ j = Len(queue) + 1
      BY <1>1, <1>2, <1>3, <1>6, <2>2
    <2>. QED
      BY <1>2, <2>1, <2>2
  <1>. QED
    BY <1>4, <1>5, <1>6 DEF QueueExact, Scanned

\* What the walk takes for the target of an import is what the reference does:
\* the root is the one module at depth zero.
LEMMA TargetIsNeeded ==
  ASSUME Typed, NodeExact, NEW d \in todo
  PROVE  /\ node \in WalkNode /\ node # NoNode /\ status = "walking"
         /\ node.path \in Scanned /\ node.path \in Level(world)[node.depth]
         /\ node.path \notin world.malformed
         /\ d \in world.imports[node.path]
         /\ Target(d) = NeededFor(world, node.path, d)
         /\ RuntimeObserved(d) <=> LoadedImport(world, node.path, d)
  <1>1. /\ node \in WalkNode /\ status = "walking"
        /\ d \in world.imports[node.path]
    BY DEF Typed, ScanOK
  <1>2. node # NoNode
    BY <1>1, PathsAssumption DEF WalkNode, NoNode
  <1>3. /\ node.path \in Scanned /\ node.path \in Level(world)[node.depth]
        /\ node.path \notin world.malformed /\ node.depth \in Distances
    BY <1>2 DEF NodeExact
  <1>4. node.depth = 0 <=> node.path = Root
    <2>1. Level(world)[0] = {Root}
      BY LevelFacts, DistancesFacts
    <2>2. ASSUME node.path = Root PROVE node.depth = 0
      BY <1>3, <2>1, <2>2, OneLevel, DistancesFacts
    <2>3. ASSUME node.depth = 0 PROVE node.path = Root
      BY <1>3, <2>1, <2>3
    <2>. QED
      BY <2>2, <2>3
  <1>. QED
    BY <1>1, <1>2, <1>3, <1>4 DEF Target, RuntimeObserved, NeededFor, LoadedImport

\* The start of the walk.
LEMMA StartBreadthFirst == ASSUME Init PROVE BreadthFirst
  <1>1. /\ visited = {Root} /\ node = NoNode /\ todo = {} /\ failures = <<>>
        /\ first_issue = NoIssue /\ max_parent_depth_for_failures = None
        /\ queue = <<[path |-> Root, depth |-> 0]>>
    BY DEF Init, Start
  <1>2. /\ Len(queue) = 1 /\ \A i \in 1..Len(queue) : i = 1
        /\ queue[1].path = Root /\ queue[1].depth = 0
    BY <1>1
  <1>3. Queued = {Root} /\ Scanned = {}
    BY <1>1, <1>2 DEF Queued, Scanned
  <1>4. Level(world)[0] = {Root} /\ UpTo(world)[0] = {Root} /\ 0 \in Distances
    BY LevelFacts, UpToFacts, DistancesFacts
  <1>5. QueueExact
    BY <1>1, <1>2, <1>3, <1>4 DEF QueueExact
  <1>6. NodeExact /\ ImportsReached
    BY <1>1, <1>3, <1>4 DEF NodeExact, ImportsReached, NoNode
  <1>7. FailuresExact
    <2>1. SoFar = {}
      BY <1>3 DEF SoFar
    <2>2. Len(failures) = 0 /\ {failures[i] : i \in 1..Len(failures)} = {}
      BY <1>1
    <2>. QED
      BY <1>1, <2>1, <2>2, FS_EmptySet DEF FailuresExact
  <1>. QED
    BY <1>1, <1>5, <1>6, <1>7 DEF BreadthFirst, OneDepth

\* The failures stay exact where neither they nor the imports behind the walk
\* change.
LEMMA FailuresStay ==
  ASSUME FailuresExact, SoFar' = SoFar, failures' = failures, first_issue' = first_issue
  PROVE  FailuresExact'
  BY DEF FailuresExact

LEMMA ScanBreadthFirst ==
  ASSUME WalkInv, BreadthFirst, Scan
  PROVE  BreadthFirst'
  <1>. DEFINE h == Head(queue)
  <1>1. /\ world \in Worlds /\ TypeOK /\ QueueOrder /\ LimitIsFirstDepth
        /\ QueueExact /\ NodeExact /\ ImportsReached /\ FailuresExact /\ OneDepth
    BY DEF WalkInv, Typed, ScanOK, BreadthFirst
  <1>2. /\ queue # <<>> /\ queue' = Tail(queue) /\ node' = h
        /\ todo = {} /\ todo' = world.imports[h.path]
        /\ world' = world /\ visited' = visited /\ failures' = failures
        /\ first_issue' = first_issue
        /\ max_parent_depth_for_failures' = max_parent_depth_for_failures
        /\ h.path \notin world.malformed /\ ~BeyondLimit(h)
    BY DEF Scan
  <1>3. /\ QueueExact' /\ h \in WalkNode /\ h.depth \in Distances
        /\ h.path \in Level(world)[h.depth] /\ h.path \in Queued
        /\ Scanned' = Scanned \cup {h.path}
    BY <1>1, <1>2, DequeueExact
  <1>4. h.path \notin Scanned /\ h.path \in Paths
    BY <1>3 DEF Scanned, WalkNode
  <1>5. /\ node.depth \in Nat /\ h.depth \in Nat /\ node.depth \in Distances
        /\ node.depth <= h.depth /\ h.depth <= node.depth + 1
        /\ \A i \in 1..Len(queue) : h.depth <= queue[i].depth
    <2>1. h = queue[1] /\ Len(queue) \in Nat \ {0}
      BY <1>1, <1>2, TailFacts DEF TypeOK
    <2>2. 1 \in 1..Len(queue) /\ \A i \in 1..Len(queue) : 1 <= i
      BY <2>1
    <2>. QED
      BY <1>1, <1>3, <2>1, <2>2, DistancesFacts DEF QueueOrder, NodeExact
  <1>. HIDE DEF h
  <1>6. UpTo(world)[h.depth] \subseteq visited
    <2>1. CASE h.depth = node.depth
      BY <1>1, <2>1 DEF NodeExact
    <2>2. CASE h.depth = node.depth + 1
      <3>. SUFFICES ASSUME NEW q \in UpTo(world)[h.depth], q \notin UpTo(world)[node.depth]
                    PROVE  q \in visited
        BY <1>1 DEF NodeExact
      <3>1. UpTo(world)[h.depth] = Beyond(world, UpTo(world)[node.depth])
        <4>1. h.depth # 0 /\ h.depth - 1 = node.depth
          BY <1>5, <2>2
        <4>. QED
          BY <1>3, <4>1, UpToFacts
      <3>2. PICK p \in UpTo(world)[node.depth] \ world.malformed : q \in NeededPaths(world, p)
        BY <3>1 DEF Beyond
      <3>3. p \notin Queued
        <4>. SUFFICES ASSUME NEW i \in 1..Len(queue), p = queue[i].path PROVE FALSE
          BY DEF Queued
        <4>1. queue[i].depth \in Distances /\ p \in Level(world)[queue[i].depth]
          BY <1>1 DEF QueueExact
        <4>2. queue[i].depth <= node.depth
          BY <1>5, <4>1, LevelIsDistance
        <4>. QED
          <5>1. queue[i].depth \in Nat /\ h.depth <= queue[i].depth
            BY <1>5, <4>1, DistancesFacts
          <5>. QED
            BY <1>5, <2>2, <4>2, <5>1
      <3>4. p \in Scanned
        BY <1>1, <3>3 DEF NodeExact, Scanned
      <3>5. PICK d \in world.imports[p] \ ApiSets : q = NeededFor(world, p, d) /\ q \in Paths
        BY <3>2 DEF NeededPaths
      <3>6. Handled(p, d)
        BY <1>2 DEF Handled
      <3>. QED
        BY <1>1, <3>4, <3>5, <3>6 DEF ImportsReached
    <2>. QED
      BY <1>5, <2>1, <2>2
  <1>7. NodeExact'
    <2>1. h # NoNode
      BY <1>4, PathsAssumption DEF NoNode
    <2>2. /\ UpTo(world)[node.depth] \subseteq UpTo(world)[h.depth]
          /\ h.path \in UpTo(world)[h.depth]
      BY <1>3, <1>5, UpToGrows, LevelFacts
    <2>3. Scanned' \subseteq UpTo(world)[h.depth] \ world.malformed
      BY <1>1, <1>2, <1>3, <2>2 DEF NodeExact
    <2>4. node'.path \in Scanned'
      BY <1>2, <1>3
    <2>. QED
      BY <1>2, <1>3, <1>6, <2>1, <2>3, <2>4 DEF NodeExact
  <1>8. ImportsReached'
    <2>. SUFFICES ASSUME NEW p \in Scanned', NEW d \in world.imports[p] \ ApiSets,
                         ~(p = node'.path /\ d \in todo'), NeededFor(world, p, d) \in Paths
                  PROVE  NeededFor(world, p, d) \in visited
      BY <1>2 DEF ImportsReached, Handled
    <2>1. p \in Scanned /\ Handled(p, d)
      BY <1>2, <1>3 DEF Handled
    <2>. QED
      BY <1>1, <2>1 DEF ImportsReached
  <1>9. SoFar' = SoFar
    <2>. SUFFICES ASSUME NEW x \in FailingImports(world)
                  PROVE  x[1] \in Scanned' /\ ~(x[1] = node'.path /\ x[2].dll \in todo')
                           <=> x[1] \in Scanned /\ Handled(x[1], x[2].dll)
      BY <1>2 DEF SoFar, Handled
    <2>1. x[2].dll \in world.imports[x[1]]
      BY <1>1, FailingImport DEF FailedImports
    <2>. QED
      BY <1>2, <1>3, <1>4, <2>1 DEF Handled
  <1>10. OneDepth'
    <2>. SUFFICES ASSUME StopsEarly(world.mode), max_parent_depth_for_failures # None
                  PROVE  h.depth = node.depth
      BY <1>1, <1>2 DEF OneDepth
    <2>1. h.depth <= node.depth
      BY <1>1, <1>2, <1>5 DEF BeyondLimit, OneDepth
    <2>. QED
      BY <1>5, <2>1
  <1>. QED
    BY <1>1, <1>2, <1>3, <1>7, <1>8, <1>9, <1>10, FailuresStay DEF BreadthFirst

LEMMA SkipBreadthFirst ==
  ASSUME WalkInv, BreadthFirst, NEW d \in todo, SkipApiSet(d)
  PROVE  BreadthFirst'
  <1>1. /\ world \in Worlds
        /\ QueueExact /\ NodeExact /\ ImportsReached /\ FailuresExact /\ OneDepth
    BY DEF WalkInv, Typed, ScanOK, BreadthFirst
  <1>2. /\ d \in ApiSets /\ todo' = todo \ {d}
        /\ queue' = queue /\ node' = node /\ world' = world /\ visited' = visited
        /\ failures' = failures /\ first_issue' = first_issue
        /\ max_parent_depth_for_failures' = max_parent_depth_for_failures
    BY DEF SkipApiSet
  <1>3. Queued' = Queued /\ Scanned' = Scanned
    BY <1>2 DEF Queued, Scanned
  <1>4. QueueExact' /\ NodeExact' /\ OneDepth'
    BY <1>1, <1>2, <1>3 DEF QueueExact, NodeExact, OneDepth
  <1>5. ImportsReached'
    BY <1>1, <1>2, <1>3 DEF ImportsReached, Handled
  <1>6. SoFar' = SoFar
    <2>. SUFFICES ASSUME NEW x \in FailingImports(world)
                  PROVE  ~(x[1] = node.path /\ x[2].dll \in todo') <=> Handled(x[1], x[2].dll)
      BY <1>2, <1>3 DEF SoFar, Handled
    <2>1. x[2].dll \notin ApiSets
      BY <1>1, FailingImport DEF FailedImports
    <2>. QED
      BY <1>2, <2>1 DEF Handled
  <1>. QED
    BY <1>1, <1>2, <1>4, <1>5, <1>6, FailuresStay DEF BreadthFirst

LEMMA FoundBreadthFirst ==
  ASSUME WalkInv, BreadthFirst, NEW d \in todo, Found(d)
  PROVE  BreadthFirst'
  <1>. DEFINE q == Target(d)
  <1>1. /\ world \in Worlds /\ TypeOK /\ Typed
        /\ QueueExact /\ NodeExact /\ ImportsReached /\ FailuresExact /\ OneDepth
    BY DEF WalkInv, Typed, ScanOK, BreadthFirst
  <1>2. /\ d \notin ApiSets /\ todo' = todo \ {d} /\ q \in Paths /\ Enqueue(q)
        /\ node' = node /\ world' = world
        /\ failures' = failures /\ first_issue' = first_issue
        /\ max_parent_depth_for_failures' = max_parent_depth_for_failures
    BY DEF Found
  <1>3. /\ node \in WalkNode /\ node # NoNode
        /\ node.path \in Scanned /\ node.path \in Level(world)[node.depth] \ world.malformed
        /\ d \in world.imports[node.path]
        /\ q = NeededFor(world, node.path, d)
        /\ RuntimeObserved(d) <=> LoadedImport(world, node.path, d)
    BY <1>1, TargetIsNeeded
  <1>4. node.depth \in Distances /\ UpTo(world)[node.depth] \subseteq visited
    BY <1>1 DEF NodeExact
  <1>5. ~RuntimeObserved(d) => world.resolve[d] = q
    BY DEF Target
  <1>. HIDE DEF q
  <1>6. QueueExact' /\ Scanned' = Scanned /\ visited' = visited \cup {q}
    <2>1. CASE q \in visited
      <3>1. visited' = visited /\ queue' = queue
        BY <1>2, <2>1 DEF Enqueue
      <3>. QED
        BY <1>1, <1>2, <2>1, <3>1 DEF QueueExact, Scanned, Queued
    <2>2. CASE q \notin visited
      <3>. DEFINE n == [path |-> q, depth |-> node.depth + 1]
      <3>1. q \in NeededPaths(world, node.path)
        BY <1>2, <1>3 DEF NeededPaths
      <3>2. node.depth + 1 \in Distances /\ q \in Level(world)[node.depth + 1]
        BY <1>3, <1>4, <2>2, <3>1, NextLevel
      <3>3. n \in WalkNode /\ n.path = q /\ n.depth = node.depth + 1
        BY <1>2, <3>2, DistancesFacts DEF WalkNode
      <3>4. visited' = visited \cup {q} /\ queue' = Append(queue, n)
        BY <1>2, <2>2 DEF Enqueue
      <3>. HIDE DEF n
      <3>. QED
        BY <1>1, <1>2, <2>2, <3>2, <3>3, <3>4, EnqueueExact
    <2>. QED
      BY <2>1, <2>2
  <1>7. NodeExact' /\ OneDepth'
    BY <1>1, <1>2, <1>6 DEF NodeExact, OneDepth
  <1>8. ImportsReached'
    BY <1>1, <1>2, <1>3, <1>6 DEF ImportsReached, Handled
  <1>9. SoFar' = SoFar
    <2>. SUFFICES ASSUME NEW x \in FailingImports(world)
                  PROVE  ~(x[1] = node.path /\ x[2].dll \in todo') <=> Handled(x[1], x[2].dll)
      BY <1>2, <1>6 DEF SoFar, Handled
    <2>1. x[2].dll \in FailedImports(world, x[1])
      BY <1>1, FailingImport
    <2>2. ASSUME x[1] = node.path PROVE x[2].dll # d
      BY <1>2, <1>3, <1>5, <2>1, <2>2, PathsAssumption DEF FailedImports
    <2>. QED
      BY <1>2, <2>2 DEF Handled
  <1>. QED
    BY <1>1, <1>2, <1>6, <1>7, <1>8, <1>9, FailuresStay DEF BreadthFirst

LEMMA FailBreadthFirst ==
  ASSUME WalkInv, BreadthFirst, NEW d \in todo, Fail(d), LeastIssue'
  PROVE  BreadthFirst'
  <1>. DEFINE new == NewFailure(d)
              x == <<node.path, new>>
  <1>1. /\ world \in Worlds /\ TypeOK /\ Typed /\ LeastIssue /\ LimitIsFirstDepth
        /\ QueueExact /\ NodeExact /\ ImportsReached /\ FailuresExact /\ OneDepth
    BY DEF WalkInv, Typed, ScanOK, BreadthFirst
  <1>2. /\ d \notin ApiSets /\ todo' = todo \ {d} /\ Target(d) \in {Missing, BadImage}
        /\ node' = node /\ world' = world /\ visited' = visited /\ queue' = queue
        /\ failures' = Append(failures, new) /\ first_issue' = Consider(first_issue, new)
        /\ max_parent_depth_for_failures' =
             IF StopsEarly(world.mode) /\ max_parent_depth_for_failures = None
               THEN node.depth ELSE max_parent_depth_for_failures
    BY DEF Fail
  <1>3. /\ node.path \in Scanned /\ node.path \in Level(world)[node.depth]
        /\ node.path \notin world.malformed
        /\ d \in world.imports[node.path]
        /\ Target(d) = NeededFor(world, node.path, d)
        /\ RuntimeObserved(d) <=> LoadedImport(world, node.path, d)
        /\ node.depth \in Distances
    BY <1>1, TargetIsNeeded DEF NodeExact
  <1>4. /\ Target(d) \notin Paths /\ ~RuntimeObserved(d)
        /\ world.resolve[d] \in {Missing, BadImage}
    BY <1>1, <1>2, DueFacts, PathsAssumption
  <1>5. /\ new \in Failure /\ new.depth = node.depth + 1 /\ new.dll = d
        /\ new = FailureAt(world, node.depth, node.path, d)
    BY <1>1, <1>2, FailureType DEF NewFailure, FailureAt
  <1>. HIDE DEF new
  <1>6. x \in FailingImports(world) /\ x[1] = node.path /\ x[2] = new
    <2>1. d \in FailedImports(world, node.path)
      BY <1>2, <1>3, <1>4 DEF FailedImports
    <2>2. x = <<node.path, FailureAt(world, node.depth, node.path, d)>>
      BY <1>5
    <2>. QED
      BY <1>3, <2>1, <2>2, FailingFacts
  <1>7. Queued' = Queued /\ Scanned' = Scanned
    BY <1>2 DEF Queued, Scanned
  <1>8. QueueExact' /\ NodeExact'
    BY <1>1, <1>2, <1>7 DEF QueueExact, NodeExact
  <1>9. ImportsReached'
    BY <1>1, <1>2, <1>3, <1>4, <1>7 DEF ImportsReached, Handled
  <1>10. SoFar' = SoFar \cup {x} /\ x \notin SoFar
    <2>1. ASSUME NEW y \in FailingImports(world), y[1] = node.path, y[2].dll = d PROVE y = x
      <3>1. PICK n \in Distances : /\ y[1] \in Level(world)[n]
                                   /\ y = <<y[1], FailureAt(world, n, y[1], y[2].dll)>>
        BY <1>1, FailingImport
      <3>2. n = node.depth
        BY <1>3, <2>1, <3>1, OneLevel
      <3>. QED
        BY <1>5, <2>1, <3>1, <3>2
    <2>2. x \notin SoFar
      BY <1>5, <1>6 DEF SoFar, Handled
    <2>3. ASSUME NEW y \in FailingImports(world)
          PROVE  (y[1] \in Scanned /\ ~(y[1] = node.path /\ y[2].dll \in todo'))
                   <=> (y[1] \in Scanned /\ Handled(y[1], y[2].dll)) \/ y = x
      BY <1>2, <1>3, <1>5, <1>6, <2>1 DEF Handled
    <2>4. SoFar' = {y \in FailingImports(world) :
                      y[1] \in Scanned /\ ~(y[1] = node.path /\ y[2].dll \in todo')}
      BY <1>2, <1>7 DEF SoFar, Handled
    <2>. QED
      BY <1>6, <2>2, <2>3, <2>4 DEF SoFar
  <1>11. /\ Len(failures') = Len(failures) + 1 /\ Len(failures) \in Nat
         /\ failures'[Len(failures) + 1] = new
         /\ \A i \in 1..Len(failures) : failures'[i] = failures[i]
    BY <1>1, <1>2, <1>5, AppendFacts DEF TypeOK
  <1>12. FailuresExact'
    <2>1. IsFiniteSet(SoFar') /\ Cardinality(SoFar') = Cardinality(SoFar) + 1
      BY <1>1, <1>10, FS_AddElement DEF FailuresExact
    <2>2. {failures'[i] : i \in 1..Len(failures')} = {failures[i] : i \in 1..Len(failures)} \cup {new}
      <3>1. \A i \in 1..Len(failures') : i \in 1..Len(failures) \/ i = Len(failures) + 1
        BY <1>11
      <3>2. Len(failures) + 1 \in 1..Len(failures') /\ 1..Len(failures) \subseteq 1..Len(failures')
        BY <1>11
      <3>. QED
        BY <1>11, <3>1, <3>2
    <2>3. {y[2] : y \in SoFar'} = {y[2] : y \in SoFar} \cup {new}
      BY <1>6, <1>10
    <2>4. \E i \in 1..Len(failures') : failures'[i] = first_issue'
      <3>1. CASE first_issue' = new
        <4>1. Len(failures) + 1 \in 1..Len(failures')
          BY <1>11
        <4>. QED
          BY <1>11, <3>1, <4>1
      <3>2. CASE first_issue' = first_issue /\ first_issue # NoIssue
        <4>1. PICK i \in 1..Len(failures) : failures[i] = first_issue
          BY <1>1, <3>2 DEF FailuresExact
        <4>2. i \in 1..Len(failures')
          BY <1>11
        <4>. QED
          BY <1>11, <3>2, <4>1, <4>2
      <3>. QED
        BY <1>2, <3>1, <3>2 DEF Consider
    <2>5. {failures[i] : i \in 1..Len(failures)} = {y[2] : y \in SoFar}
      BY <1>1 DEF FailuresExact
    <2>6. Len(failures') = Cardinality(SoFar')
      BY <1>1, <1>11, <2>1 DEF FailuresExact
    <2>7. {failures'[i] : i \in 1..Len(failures')} = {y[2] : y \in SoFar'}
      BY <2>2, <2>3, <2>5
    <2>. QED
      BY <2>1, <2>4, <2>6, <2>7 DEF FailuresExact
  <1>13. OneDepth'
    <2>. SUFFICES ASSUME StopsEarly(world.mode)
                  PROVE  /\ node.depth = max_parent_depth_for_failures'
                         /\ \A i \in 1..Len(failures') : failures'[i].depth = node.depth + 1
      BY <1>2 DEF OneDepth
    <2>1. /\ node.depth = max_parent_depth_for_failures'
          /\ \A i \in 1..Len(failures) : failures[i].depth = node.depth + 1
      <3>1. CASE max_parent_depth_for_failures = None
        <4>1. failures = <<>>
          BY <1>1, <3>1 DEF LimitIsFirstDepth, LeastIssue
        <4>. QED
          BY <1>2, <3>1, <4>1
      <3>2. CASE max_parent_depth_for_failures # None
        BY <1>1, <1>2, <3>2 DEF OneDepth
      <3>. QED
        BY <3>1, <3>2
    <2>2. \A i \in 1..Len(failures') : i \in 1..Len(failures) \/ i = Len(failures) + 1
      BY <1>11
    <2>. QED
      BY <1>5, <1>11, <2>1, <2>2
  <1>. QED
    BY <1>8, <1>9, <1>12, <1>13 DEF BreadthFirst

-----------------------------------------------------------------------------
(* The report.                                                             *)

\* Once nothing is queued and no import is to come, everything there is has
\* been visited.
LEMMA Closed ==
  ASSUME NodeExact, ImportsReached, todo = {}, queue = <<>>
  PROVE  /\ Scanned = visited
         /\ \A n \in Distances : UpTo(world)[n] \subseteq visited
  <1>1. Scanned = visited
    BY DEF Scanned, Queued
  <1>. DEFINE T == {n \in Nat : n \in Distances => UpTo(world)[n] \subseteq visited}
  <1>2. 0 \in T
    <2>1. UpTo(world)[0] \subseteq UpTo(world)[node.depth]
      <3>1. node.depth \in Distances
        BY DEF NodeExact
      <3>2. 0 \in Distances /\ 0 <= node.depth
        BY <3>1, DistancesFacts DEF Distances
      <3>. QED
        BY <3>1, <3>2, UpToGrows
    <2>. QED
      BY <2>1 DEF NodeExact
  <1>3. ASSUME NEW n \in Nat, n \in T PROVE n + 1 \in T
    <2>. SUFFICES ASSUME n + 1 \in Distances, NEW q \in UpTo(world)[n + 1]
                  PROVE  q \in visited
      OBVIOUS
    <2>1. n \in Distances /\ n + 1 # 0 /\ (n + 1) - 1 = n
      BY DistancesFacts DEF Distances
    <2>2. UpTo(world)[n + 1] = Beyond(world, UpTo(world)[n])
      BY <2>1, UpToFacts
    <2>3. UpTo(world)[n] \subseteq visited
      BY <1>3, <2>1
    <2>4. CASE q \in UpTo(world)[n]
      BY <2>3, <2>4
    <2>5. CASE q \notin UpTo(world)[n]
      <3>1. PICK p \in UpTo(world)[n] \ world.malformed : q \in NeededPaths(world, p)
        BY <2>2, <2>5 DEF Beyond
      <3>2. PICK d \in world.imports[p] \ ApiSets : q = NeededFor(world, p, d) /\ q \in Paths
        BY <3>1 DEF NeededPaths
      <3>3. p \in Scanned /\ Handled(p, d)
        BY <1>1, <2>3 DEF Handled
      <3>. QED
        BY <3>2, <3>3 DEF ImportsReached
    <2>. QED
      BY <2>4, <2>5
  <1>4. Nat \subseteq T
    <2>. HIDE DEF T
    <2>. QED
      BY <1>2, <1>3, NatSetInduction
  <1>. QED
    BY <1>1, <1>4, DistancesFacts

\* The failures that the walk has not found when it returns: none, or, after
\* an early stop, deeper ones than those it has.
OthersAreDeeper ==
  \A y \in FailingImports(world) \ SoFar :
    /\ StopsEarly(world.mode) /\ max_parent_depth_for_failures # None
    /\ y[2].depth > max_parent_depth_for_failures + 1

\* A failing import that was not found is of a module still to be scanned.
LEMMA NotFoundYet ==
  ASSUME WalkInv, BreadthFirst, todo = {}, NEW y \in FailingImports(world) \ SoFar
  PROVE  \E n \in Distances : /\ y[1] \in Level(world)[n] /\ y[2].depth = n + 1
                              /\ y[1] \notin Scanned
  <1>1. world \in Worlds
    BY DEF WalkInv, Typed, ScanOK
  <1>2. y[1] \notin Scanned
    BY DEF SoFar, Handled
  <1>. QED
    BY <1>1, <1>2, FailingImport

LEMMA DoneOthers ==
  ASSUME WalkInv, BreadthFirst, Finish
  PROVE  OthersAreDeeper
  <1>. SUFFICES ASSUME NEW y \in FailingImports(world) \ SoFar PROVE FALSE
    BY DEF OthersAreDeeper
  <1>1. NodeExact /\ ImportsReached /\ todo = {} /\ queue = <<>>
    BY DEF BreadthFirst, Finish
  <1>2. PICK n \in Distances : y[1] \in Level(world)[n] /\ y[1] \notin Scanned
    BY <1>1, NotFoundYet
  <1>3. y[1] \in UpTo(world)[n]
    BY <1>2, LevelFacts
  <1>. QED
    BY <1>1, <1>2, <1>3, Closed

LEMMA StoppedOthers ==
  ASSUME WalkInv, BreadthFirst, Stop
  PROVE  OthersAreDeeper
  <1>. SUFFICES ASSUME NEW y \in FailingImports(world) \ SoFar
                PROVE  /\ StopsEarly(world.mode) /\ max_parent_depth_for_failures # None
                       /\ y[2].depth > max_parent_depth_for_failures + 1
    BY DEF OthersAreDeeper
  <1>1. /\ NodeExact /\ QueueExact /\ OneDepth /\ QueueOrder /\ TypeOK
        /\ todo = {} /\ queue # <<>> /\ BeyondLimit(Head(queue))
    BY DEF WalkInv, Typed, BreadthFirst, Stop
  <1>2. /\ StopsEarly(world.mode) /\ max_parent_depth_for_failures # None
        /\ max_parent_depth_for_failures = node.depth /\ node.depth \in Nat
        /\ node.depth \in Distances /\ Head(queue).depth > node.depth
    BY <1>1, DistancesFacts DEF BeyondLimit, OneDepth, NodeExact
  <1>3. PICK n \in Distances : /\ y[1] \in Level(world)[n] /\ y[2].depth = n + 1
                               /\ y[1] \notin Scanned
    BY <1>1, NotFoundYet
  <1>4. ~(n <= node.depth)
    <2>. SUFFICES ASSUME n <= node.depth PROVE FALSE
      OBVIOUS
    <2>1. y[1] \in UpTo(world)[node.depth]
      BY <1>2, <1>3, UpToGrows, LevelFacts
    <2>2. y[1] \in Queued
      BY <1>1, <1>3, <2>1 DEF NodeExact, Scanned
    <2>3. PICK i \in 1..Len(queue) : y[1] = queue[i].path
      BY <2>2 DEF Queued
    <2>4. queue[i].depth = n
      BY <1>1, <1>3, <2>3, OneLevel DEF QueueExact
    <2>5. Head(queue) = queue[1] /\ 1 \in 1..Len(queue) /\ 1 <= i
      BY <1>1, <2>3, TailFacts DEF TypeOK
    <2>6. queue[1].depth <= queue[i].depth /\ queue[1].depth \in Nat
      BY <1>1, <2>3, <2>5, QueueNodes DEF QueueOrder, TypeOK
    <2>. QED
      BY <1>2, <1>3, <2>4, <2>5, <2>6, DistancesFacts
  <1>. QED
    BY <1>2, <1>3, <1>4, DistancesFacts

\* With that, the report is the reference's.
LEMMA ReportedIsSoFar ==
  ASSUME WalkInv, BreadthFirst, OthersAreDeeper
  PROVE  /\ Reported(world) = SoFar
         /\ SoFar = {} => FailingImports(world) = {}
  <1>1. /\ world \in Worlds /\ LeastIssue /\ LimitIsFirstDepth /\ FailuresExact /\ OneDepth
        /\ node.depth \in Nat /\ SoFar \subseteq FailingImports(world)
    BY DistancesFacts DEF WalkInv, Typed, ScanOK, BreadthFirst, NodeExact, SoFar
  <1>2. \A x \in FailingImports(world) : x[2].depth \in Nat
    BY <1>1, FailingImport, DistancesFacts
  <1>3. CASE ~StopsEarly(world.mode)
    <2>1. FailingImports(world) = SoFar
      BY <1>1, <1>3 DEF OthersAreDeeper
    <2>. QED
      BY <1>3, <2>1 DEF Reported
  <1>4. CASE StopsEarly(world.mode) /\ max_parent_depth_for_failures = None
    <2>1. FailingImports(world) = SoFar
      BY <1>1, <1>4 DEF OthersAreDeeper
    <2>2. failures = <<>>
      BY <1>1, <1>4 DEF LeastIssue, LimitIsFirstDepth
    <2>3. SoFar = {}
      <3>1. {failures[i] : i \in 1..Len(failures)} = {}
        BY <2>2
      <3>. QED
        BY <1>1, <3>1 DEF FailuresExact
    <2>. QED
      BY <2>1, <2>3 DEF Reported
  <1>5. CASE StopsEarly(world.mode) /\ max_parent_depth_for_failures # None
    <2>1. \A x \in SoFar : x[2].depth = node.depth + 1
      <3>1. ASSUME NEW x \in SoFar PROVE \E i \in 1..Len(failures) : failures[i] = x[2]
        BY <1>1 DEF FailuresExact
      <3>. QED
        BY <1>1, <1>5, <3>1 DEF OneDepth
    <2>2. \A x \in FailingImports(world) \ SoFar : x[2].depth > node.depth + 1
      BY <1>1, <1>5 DEF OthersAreDeeper, OneDepth
    <2>3. SoFar # {}
      <3>1. failures # <<>> /\ first_issue # NoIssue
        BY <1>1, <1>5 DEF LeastIssue, LimitIsFirstDepth
      <3>2. PICK i \in 1..Len(failures) : failures[i] = first_issue
        BY <1>1, <3>1 DEF FailuresExact
      <3>. QED
        BY <1>1, <3>2 DEF FailuresExact
    <2>4. Reported(world) = {x \in FailingImports(world) :
                               \A y \in FailingImports(world) : x[2].depth <= y[2].depth}
      BY <1>5 DEF Reported
    <2>5. ASSUME NEW x \in SoFar, NEW y \in FailingImports(world) PROVE x[2].depth <= y[2].depth
      <3>1. x[2].depth = node.depth + 1 /\ (y[2].depth = node.depth + 1 \/ y[2].depth > node.depth + 1)
        BY <2>1, <2>2
      <3>. QED
        BY <1>1, <1>2, <3>1
    <2>6. ASSUME NEW x \in FailingImports(world) \ SoFar
          PROVE  \E y \in FailingImports(world) : ~(x[2].depth <= y[2].depth)
      <3>1. PICK y \in SoFar : TRUE
        BY <2>3
      <3>2. y[2].depth = node.depth + 1 /\ x[2].depth > node.depth + 1 /\ x[2].depth \in Nat
        BY <1>2, <2>1, <2>2
      <3>3. ~(x[2].depth <= y[2].depth)
        BY <1>1, <3>2
      <3>. QED
        BY <1>1, <3>3
    <2>. QED
      BY <1>1, <2>3, <2>4, <2>5, <2>6
  <1>. QED
    BY <1>3, <1>4, <1>5

LEMMA ReportIsReference ==
  ASSUME WalkInv, BreadthFirst, OthersAreDeeper
  PROVE  LET all == {x[2] : x \in FailingImports(world)}
         IN  /\ IF all = {} THEN first_issue = NoIssue
                ELSE first_issue \in all /\ \A f \in all : ~Before(f, first_issue)
             /\ {failures[i] : i \in 1..Len(failures)} = {x[2] : x \in Reported(world)}
             /\ Len(failures) = Cardinality(Reported(world))
  <1>. DEFINE all == {x[2] : x \in FailingImports(world)}
  <1>1. /\ world \in Worlds /\ TypeOK /\ LeastIssue /\ LimitIsFirstDepth /\ FailuresExact
        /\ node.depth \in Nat /\ SoFar \subseteq FailingImports(world)
    BY DistancesFacts DEF WalkInv, Typed, ScanOK, BreadthFirst, NodeExact, SoFar
  <1>2. Reported(world) = SoFar /\ (SoFar = {} => FailingImports(world) = {})
    BY ReportedIsSoFar
  <1>3. /\ {failures[i] : i \in 1..Len(failures)} = {x[2] : x \in SoFar}
        /\ Len(failures) = Cardinality(SoFar)
    BY <1>1 DEF FailuresExact
  <1>4. CASE SoFar = {}
    <2>1. all = {}
      BY <1>2, <1>4
    <2>2. first_issue = NoIssue
      <3>1. ~\E i \in 1..Len(failures) : TRUE
        BY <1>3, <1>4
      <3>. QED
        BY <1>1, <3>1 DEF FailuresExact
    <2>. QED
      BY <1>2, <1>3, <2>1, <2>2
  <1>5. CASE SoFar # {}
    <2>1. first_issue # NoIssue
      <3>1. \E i \in 1..Len(failures) : TRUE
        BY <1>3, <1>5
      <3>. QED
        BY <1>1, <3>1 DEF LeastIssue
    <2>2. first_issue \in Failure /\ first_issue.depth \in Nat
      BY <1>1, <2>1, FailureIsIssue DEF TypeOK
    <2>3. PICK z \in SoFar : z[2] = first_issue
      BY <1>1, <1>3, <2>1 DEF FailuresExact
    <2>4. first_issue \in all /\ all # {}
      BY <1>1, <2>3
    <2>5. ASSUME NEW x \in FailingImports(world) PROVE ~Before(x[2], first_issue)
      <3>1. CASE x \in SoFar
        <4>1. PICK i \in 1..Len(failures) : failures[i] = x[2]
          BY <1>3, <3>1
        <4>. QED
          BY <1>1, <4>1 DEF LeastIssue
      <3>2. CASE x \notin SoFar
        <4>1. /\ max_parent_depth_for_failures # None
              /\ x[2].depth > max_parent_depth_for_failures + 1
          BY <3>2 DEF OthersAreDeeper
        <4>2. first_issue.depth = max_parent_depth_for_failures + 1
          BY <1>1, <4>1 DEF LimitIsFirstDepth
        <4>3. x[2].depth \in Nat
          BY <1>1, FailingImport, DistancesFacts
        <4>. QED
          BY <2>2, <4>1, <4>2, <4>3 DEF Before
      <3>. QED
        BY <3>1, <3>2
    <2>6. \A f \in all : ~Before(f, first_issue)
      BY <2>5
    <2>. QED
      BY <1>2, <1>3, <2>4, <2>6
  <1>. QED
    BY <1>4, <1>5

\* The walk gives up at a module that cannot be parsed, at its distance.
LEMMA GivesUp ==
  ASSUME WalkInv, BreadthFirst, ScanFails
  PROVE  \E n \in Distances :
           /\ Level(world)[n] \cap world.malformed # {}
           /\ (first_issue # NoIssue /\ StopsEarly(world.mode)) => n < first_issue.depth
  <1>. DEFINE h == Head(queue)
  <1>1. /\ TypeOK /\ QueueExact /\ LimitIsFirstDepth
        /\ queue # <<>> /\ h.path \in world.malformed /\ ~BeyondLimit(h)
    BY DEF WalkInv, Typed, BreadthFirst, ScanFails
  <1>2. h = queue[1] /\ 1 \in 1..Len(queue)
    BY <1>1, TailFacts DEF TypeOK
  <1>3. h.depth \in Distances /\ h.path \in Level(world)[h.depth]
    BY <1>1, <1>2 DEF QueueExact
  <1>. HIDE DEF h
  <1>4. ASSUME first_issue # NoIssue, StopsEarly(world.mode) PROVE h.depth < first_issue.depth
    <2>1. /\ max_parent_depth_for_failures # None
          /\ first_issue.depth = max_parent_depth_for_failures + 1
          /\ max_parent_depth_for_failures \in Nat
      BY <1>1, <1>4 DEF LimitIsFirstDepth, TypeOK
    <2>2. ~(h.depth > max_parent_depth_for_failures)
      BY <1>1, <1>4, <2>1 DEF BeyondLimit
    <2>. QED
      BY <1>3, <2>1, <2>2, DistancesFacts
  <1>. QED
    BY <1>1, <1>3, <1>4

\* A step that leaves the report open only has to keep the walk breadth first.
LEMMA StillWalking ==
  ASSUME status' = "walking"
  PROVE  ReportExact'
  BY DEF ReportExact, FirstIssueIsReference, AllFailuresReported

\* So does one that changes nothing of it.
LEMMA ReportStays ==
  ASSUME ReportExact, world' = world, status' = status, failures' = failures,
         first_issue' = first_issue
  PROVE  ReportExact'
  BY DEF ReportExact, FirstIssueIsReference, AllFailuresReported

LEMMA WalkReturns ==
  ASSUME WalkInv, BreadthFirst, OthersAreDeeper, status' \in {"done", "stopped"},
         world' = world, failures' = failures, first_issue' = first_issue
  PROVE  ReportExact'
  <1>1. status' # "error"
    OBVIOUS
  <1>. QED
    BY <1>1, ReportIsReference DEF ReportExact, FirstIssueIsReference, AllFailuresReported

LEMMA ReferenceInvariant == Spec => []ReferenceInv
<1>1. Init => (status = "walking" => BreadthFirst) /\ ReportExact
  <2>. SUFFICES ASSUME Init PROVE BreadthFirst /\ ReportExact
    OBVIOUS
  <2>1. status = "walking"
    BY DEF Init, Start
  <2>. QED
    BY <2>1, StartBreadthFirst DEF ReportExact, FirstIssueIsReference, AllFailuresReported
<1>2. ReferenceInv /\ WalkInv' /\ [Next]_vars
        => ((status = "walking" => BreadthFirst) /\ ReportExact)'
  <2>. SUFFICES ASSUME ReferenceInv, WalkInv', [Next]_vars
                PROVE  (status' = "walking" => BreadthFirst') /\ ReportExact'
    OBVIOUS
  <2>. USE DEF ReferenceInv
  <2>1. CASE Scan
    <3>1. status' = "walking" /\ status = "walking"
      BY <2>1 DEF Scan
    <3>. QED
      BY <2>1, <3>1, ScanBreadthFirst, StillWalking
  <2>2. CASE ScanFails
    <3>1. /\ status = "walking" /\ status' = "error"
          /\ world' = world /\ first_issue' = first_issue
      BY <2>2 DEF ScanFails
    <3>2. \E n \in Distances :
            /\ Level(world)[n] \cap world.malformed # {}
            /\ (first_issue # NoIssue /\ StopsEarly(world.mode)) => n < first_issue.depth
      BY <2>2, <3>1, GivesUp
    <3>. QED
      BY <3>1, <3>2 DEF ReportExact, FirstIssueIsReference, AllFailuresReported
  <2>3. CASE Stop
    <3>1. /\ status = "walking" /\ status' = "stopped"
          /\ world' = world /\ failures' = failures /\ first_issue' = first_issue
      BY <2>3 DEF Stop
    <3>. QED
      BY <2>3, <3>1, StoppedOthers, WalkReturns
  <2>4. CASE Finish
    <3>1. /\ status = "walking" /\ status' = "done"
          /\ world' = world /\ failures' = failures /\ first_issue' = first_issue
      BY <2>4 DEF Finish
    <3>. QED
      BY <2>4, <3>1, DoneOthers, WalkReturns
  <2>5. ASSUME NEW d \in todo, SkipApiSet(d) \/ Found(d) \/ Fail(d)
        PROVE  BreadthFirst' /\ ReportExact'
    <3>1. status = "walking" /\ status' = status
      BY <2>5 DEF WalkInv, Typed, ScanOK, SkipApiSet, Found, Fail
    <3>2. LeastIssue'
      BY DEF WalkInv
    <3>. QED
      BY <2>5, <3>1, <3>2, SkipBreadthFirst, FoundBreadthFirst, FailBreadthFirst, StillWalking
  <2>6. CASE UNCHANGED vars
    <3>1. /\ world' = world /\ visited' = visited /\ queue' = queue /\ node' = node
          /\ todo' = todo /\ first_issue' = first_issue /\ failures' = failures
          /\ max_parent_depth_for_failures' = max_parent_depth_for_failures
          /\ status' = status
      BY <2>6 DEF vars
    <3>2. BreadthFirst => BreadthFirst'
      <4>. SUFFICES ASSUME BreadthFirst PROVE BreadthFirst'
        OBVIOUS
      <4>1. Queued' = Queued /\ Scanned' = Scanned
        BY <3>1 DEF Queued, Scanned
      <4>2. SoFar' = SoFar
        BY <3>1, <4>1 DEF SoFar, Handled
      <4>3. QueueExact' /\ NodeExact' /\ ImportsReached' /\ OneDepth'
        BY <3>1, <4>1
          DEF BreadthFirst, QueueExact, NodeExact, ImportsReached, Handled, OneDepth
      <4>. QED
        BY <3>1, <4>2, <4>3, FailuresStay DEF BreadthFirst
    <3>. QED
      BY <3>1, <3>2, ReportStays
  <2>. QED
    BY <2>1, <2>2, <2>3, <2>4, <2>5, <2>6 DEF Next, Step, Ended
<1>. QED
  BY <1>1, <1>2, WalkInvariant, PTL DEF Spec, ReferenceInv

\* The first issue is that of the reference, the nearest and least of all
\* failing imports there are, and a walk that gives up has a reason to.
THEOREM FirstIssueCorrect == Spec => []FirstIssueIsReference
  BY ReferenceInvariant, PTL DEF ReferenceInv, ReportExact

\* Each failing import is reported once, or each of the nearest ones.
THEOREM ReportComplete == Spec => []AllFailuresReported
  BY ReferenceInvariant, PTL DEF ReferenceInv, ReportExact

-----------------------------------------------------------------------------
(* The walk over files.  The worlds that the search and the PE reader make *)
(* out of systems are worlds of the walk; only a program that is not there *)
(* keeps it from starting.                                                 *)

Startable == system.content[Root] # Absent

\* A walk that did not start.
Unstarted ==
  /\ ~Startable
  /\ world = WorldOf(system)
  /\ visited = {Root} /\ queue = <<[path |-> Root, depth |-> 0]>> /\ node = NoNode
  /\ todo = {} /\ first_issue = NoIssue /\ failures = <<>>
  /\ max_parent_depth_for_failures = None
  /\ status \in {"walking", "error"}

LEMMA StartedStep == Startable /\ [ImportsNext]_allvars => Startable' /\ [Next]_vars
  <1>. SUFFICES ASSUME Startable, [ImportsNext]_allvars PROVE Startable' /\ [Next]_vars
    OBVIOUS
  <1>1. CASE PathMissing
    BY <1>1 DEF PathMissing, Startable
  <1>2. CASE Walk
    BY <1>2 DEF Walk, Startable, Next
  <1>3. CASE Report
    BY <1>3 DEF Report, Startable, vars
  <1>4. CASE Returned \/ UNCHANGED allvars
    BY <1>4 DEF Returned, allvars, Startable
  <1>. QED
    BY <1>1, <1>2, <1>3, <1>4 DEF ImportsNext

LEMMA UnstartedStep == Unstarted /\ [ImportsNext]_allvars => Unstarted'
  <1>. SUFFICES ASSUME Unstarted, [ImportsNext]_allvars PROVE Unstarted'
    OBVIOUS
  <1>1. CASE PathMissing
    BY <1>1 DEF PathMissing, Unstarted, Startable
  <1>2. CASE Walk
    BY <1>2 DEF Walk, Unstarted, Startable
  <1>3. CASE Report
    BY <1>3 DEF Report, Unstarted, Startable, vars
  <1>4. CASE Returned \/ UNCHANGED allvars
    BY <1>4 DEF Returned, allvars, vars, Unstarted, Startable
  <1>. QED
    BY <1>1, <1>2, <1>3, <1>4 DEF ImportsNext

\* diagnose_static_imports over files is the walk of StaticWalk over what
\* resolve_dll and direct_imports say of them, or it does not start.
LEMMA ImportsAreWalks == ImportsSpec => Spec \/ []Unstarted
  <1>1. ImportsInit => Init
    BY SystemsAssumption DEF ImportsInit, Init
  <1>2. ImportsInit => Startable \/ Unstarted
    BY DEF ImportsInit, Start, Startable, Unstarted
  <1>. QED
    BY <1>1, <1>2, StartedStep, UnstartedStep, PTL DEF ImportsSpec, Spec

\* What is observed of a walk that does not start: its root cannot be parsed.
LEMMA UnstartedFacts ==
  ASSUME Unstarted
  PROVE  TypeOK /\ FirstIssueStands /\ ReportExact
  <1>1. queue \in Seq(WalkNode)
    BY PathsAssumption DEF Unstarted, WalkNode
  <1>2. TypeOK /\ FirstIssueStands
    BY <1>1, PathsAssumption DEF Unstarted, TypeOK, FirstIssueStands
  <1>3. Root \in world.malformed
    BY PathsAssumption DEF Unstarted, Startable, WorldOf, Parsed, IsImage, ParseError
  <1>4. 0 \in Distances /\ Root \in Level(world)[0]
    BY LevelFacts, DistancesFacts
  <1>5. first_issue = NoIssue /\ status \notin {"done", "stopped"}
    BY DEF Unstarted
  <1>6. FirstIssueIsReference /\ AllFailuresReported
    BY <1>3, <1>4, <1>5 DEF FirstIssueIsReference, AllFailuresReported
  <1>. QED
    BY <1>2, <1>6 DEF ReportExact

\* imports_command and Phase B keep the types of the walk's locals.
THEOREM ImportsTypeCorrect == ImportsSpec => []TypeOK
  BY ImportsAreWalks, TypeCorrect, UnstartedFacts, PTL

\* Both come to an end, whatever files there are: no step of the walk is
\* without progress.
THEOREM ImportsProgress == ImportsSpec => WalkProgresses
  <1>. DEFINE Progress ==
         \/ status = "walking" /\ status' # "walking"
         \/ visited \subseteq visited' /\ visited # visited'
         \/ visited' = visited /\ Len(queue') < Len(queue)
         \/ visited' = visited /\ queue' = queue /\ todo' \subseteq todo /\ todo' # todo
  <1>1. Unstarted /\ [ImportsNext]_allvars => [Progress]_vars
    BY DEF Unstarted, Startable, ImportsNext, PathMissing, Walk, Report, Returned, allvars, vars
  <1>. QED
    BY <1>1, ImportsAreWalks, EveryStepProgresses, PTL DEF ImportsSpec, WalkProgresses

\* The first issue that both report stands, however early the walk stopped.
THEOREM ImportsIssueStands == ImportsSpec => []FirstIssueStands
  BY ImportsAreWalks, EarlyStopIsSound, UnstartedFacts, PTL

\* It is the nearest and least of all failing imports.
THEOREM ImportsIssueCorrect == ImportsSpec => []FirstIssueIsReference
  BY ImportsAreWalks, FirstIssueCorrect, UnstartedFacts, PTL DEF ReportExact

\* The counts that imports_command takes its exit code from are complete.
THEOREM ImportsReportComplete == ImportsSpec => []AllFailuresReported
  BY ImportsAreWalks, ReportComplete, UnstartedFacts, PTL DEF ReportExact
-----------------------------------------------------------------------------
(* The search order.  A list of directories is ranked when its members, in *)
(* this order, have rising ranks, and every ranked directory has one of the *)
(* same key in the list that comes no later than its rank allows.          *)

Ranking(dirs, ranked, rank, lo, hi) ==
  /\ rank \in [1..Len(dirs) -> lo..hi]
  /\ \A i, j \in 1..Len(dirs) : i < j => rank[i] < rank[j]
  /\ \A i \in 1..Len(dirs) : <<rank[i], dirs[i]>> \in ranked
  /\ \A x \in ranked : x[1] \in lo..hi
  /\ \A x \in ranked : \E i \in 1..Len(dirs) : Key[dirs[i]] = Key[x[2]] /\ rank[i] <= x[1]
Ranked(dirs, ranked, lo, hi) == \E rank : Ranking(dirs, ranked, rank, lo, hi)

\* One directory, or none.
LEMMA RankOne ==
  ASSUME NEW d, NEW r \in Nat, NEW c \in BOOLEAN
  PROVE  Ranked(IF c THEN <<d>> ELSE <<>>, IF c THEN {<<r, d>>} ELSE {}, r, r)
  <1>1. CASE c
    <2>. DEFINE dirs == <<d>>
                ranked == {<<r, d>>}
                rank == [i \in 1..1 |-> r]
    <2>1. Len(dirs) = 1 /\ 1..1 = {1} /\ dirs[1] = d /\ rank[1] = r
      OBVIOUS
    <2>2. rank \in [1..Len(dirs) -> r..r]
      BY <2>1
    <2>3. \A x \in ranked : x[1] = r /\ x[2] = d
      OBVIOUS
    <2>4. <<r, d>> \in ranked
      OBVIOUS
    <2>. HIDE DEF dirs, ranked, rank
    <2>5. Ranking(dirs, ranked, rank, r, r)
      BY <2>1, <2>2, <2>3, <2>4 DEF Ranking
    <2>. QED
      BY <1>1, <2>5 DEF Ranked, dirs, ranked
  <1>2. CASE ~c
    <2>. DEFINE dirs == <<>>
                rank == [i \in 1..0 |-> r]
    <2>1. Len(dirs) = 0 /\ 1..0 = {} /\ rank \in [1..0 -> r..r]
      OBVIOUS
    <2>. HIDE DEF dirs, rank
    <2>2. Ranking(dirs, {}, rank, r, r)
      BY <2>1 DEF Ranking
    <2>. QED
      BY <1>2, <2>2 DEF Ranked, dirs
  <1>. QED
    BY <1>1, <1>2

\* One list after another, with higher ranks.
LEMMA RankJoin ==
  ASSUME NEW D, NEW a \in Seq(D), NEW b \in Seq(D), NEW A, NEW B,
         NEW l \in Nat, NEW m \in Nat, NEW n \in Nat, NEW h \in Nat, l <= n, m < n, m <= h,
         Ranked(a, A, l, m), Ranked(b, B, n, h)
  PROVE  Ranked(a \o b, A \cup B, l, h)
  <1>1. PICK ra : Ranking(a, A, ra, l, m)
    BY DEF Ranked
  <1>2. PICK rb : Ranking(b, B, rb, n, h)
    BY DEF Ranked
  <1>. DEFINE c == a \o b
              rank == [i \in 1..Len(c) |-> IF i <= Len(a) THEN ra[i] ELSE rb[i - Len(a)]]
  <1>3. /\ Len(a) \in Nat /\ Len(b) \in Nat /\ Len(c) = Len(a) + Len(b)
        /\ \A i \in 1..Len(a) : c[i] = a[i]
        /\ \A i \in 1..Len(b) : c[Len(a) + i] = b[i]
    OBVIOUS
  <1>4. /\ \A i \in 1..Len(a) : i \in 1..Len(c) /\ rank[i] = ra[i]
        /\ \A i \in 1..Len(b) : Len(a) + i \in 1..Len(c) /\ rank[Len(a) + i] = rb[i]
    <2>1. \A i \in 1..Len(b) : ~(Len(a) + i <= Len(a)) /\ (Len(a) + i) - Len(a) = i
      BY <1>3
    <2>. QED
      BY <1>3, <2>1
  <1>5. \A i \in 1..Len(c) : i \in 1..Len(a) \/ \E k \in 1..Len(b) : i = Len(a) + k
    <2>1. \A i \in 1..Len(c) : i \in 1..Len(a) \/ (i - Len(a) \in 1..Len(b) /\ i = Len(a) + (i - Len(a)))
      BY <1>3
    <2>. QED
      BY <2>1
  <1>6. /\ \A i \in 1..Len(a) : ra[i] \in l..m
        /\ \A i \in 1..Len(b) : rb[i] \in n..h
    BY <1>1, <1>2 DEF Ranking
  <1>7. rank \in [1..Len(c) -> l..h]
    <2>1. ASSUME NEW i \in 1..Len(c) PROVE rank[i] \in l..h
      <3>1. CASE i \in 1..Len(a)
        BY <1>4, <1>6, <3>1
      <3>2. ASSUME NEW k \in 1..Len(b), i = Len(a) + k PROVE rank[i] \in l..h
        BY <1>4, <1>6, <3>2
      <3>. QED
        BY <1>5, <3>1, <3>2
    <2>. QED
      BY <2>1
  <1>. HIDE DEF c, rank
  <1>8. ASSUME NEW i \in 1..Len(c), NEW j \in 1..Len(c), i < j PROVE rank[i] < rank[j]
    <2>1. CASE i \in 1..Len(a) /\ j \in 1..Len(a)
      BY <1>1, <1>4, <1>8, <2>1 DEF Ranking
    <2>2. ASSUME NEW k \in 1..Len(b), j = Len(a) + k, i \in 1..Len(a) PROVE rank[i] < rank[j]
      <3>1. rank[i] = ra[i] /\ rank[j] = rb[k]
        BY <1>4, <2>2
      <3>2. ra[i] \in l..m /\ rb[k] \in n..h
        BY <1>6, <2>2
      <3>. QED
        BY <3>1, <3>2
    <2>3. ASSUME NEW k \in 1..Len(b), j = Len(a) + k, NEW q \in 1..Len(b), i = Len(a) + q
          PROVE  rank[i] < rank[j]
      <3>1. rank[i] = rb[q] /\ rank[j] = rb[k] /\ q < k
        BY <1>3, <1>4, <1>8, <2>3
      <3>. QED
        BY <1>2, <3>1 DEF Ranking
    <2>4. ASSUME NEW q \in 1..Len(b), i = Len(a) + q, j \in 1..Len(a) PROVE FALSE
      BY <1>3, <1>8, <2>4
    <2>. QED
      BY <1>5, <2>1, <2>2, <2>3, <2>4
  <1>9. ASSUME NEW i \in 1..Len(c) PROVE <<rank[i], c[i]>> \in A \cup B
    <2>1. CASE i \in 1..Len(a)
      BY <1>1, <1>3, <1>4, <2>1 DEF Ranking
    <2>2. ASSUME NEW k \in 1..Len(b), i = Len(a) + k PROVE <<rank[i], c[i]>> \in B
      BY <1>2, <1>3, <1>4, <2>2 DEF Ranking
    <2>. QED
      BY <1>5, <2>1, <2>2
  <1>10. ASSUME NEW x \in A \cup B
         PROVE  /\ x[1] \in l..h
                /\ \E i \in 1..Len(c) : Key[c[i]] = Key[x[2]] /\ rank[i] <= x[1]
    <2>1. CASE x \in A
      <3>1. x[1] \in l..m /\ \E i \in 1..Len(a) : Key[a[i]] = Key[x[2]] /\ ra[i] <= x[1]
        BY <1>1, <2>1 DEF Ranking
      <3>. QED
        BY <1>3, <1>4, <3>1
    <2>2. CASE x \in B
      <3>1. x[1] \in n..h /\ \E i \in 1..Len(b) : Key[b[i]] = Key[x[2]] /\ rb[i] <= x[1]
        BY <1>2, <2>2 DEF Ranking
      <3>2. PICK i \in 1..Len(b) : Key[b[i]] = Key[x[2]] /\ rb[i] <= x[1]
        BY <3>1
      <3>3. Len(a) + i \in 1..Len(c) /\ c[Len(a) + i] = b[i] /\ rank[Len(a) + i] = rb[i]
        BY <1>3, <1>4
      <3>4. x[1] \in l..h
        BY <3>1
      <3>. QED
        BY <3>2, <3>3, <3>4
    <2>. QED
      BY <2>1, <2>2
  <1>11. Ranking(c, A \cup B, rank, l, h)
    BY <1>7, <1>8, <1>9, <1>10 DEF Ranking
  <1>. QED
    BY <1>11 DEF Ranked, c

\* A directory that is left out because an earlier one has its key.
LEMMA RankAbsorb ==
  ASSUME NEW dirs, NEW A, NEW l \in Nat, NEW h \in Nat, NEW r \in l..h, NEW d,
         NEW y \in A, Key[y[2]] = Key[d], y[1] <= r, Ranked(dirs, A, l, h)
  PROVE  Ranked(dirs, A \cup {<<r, d>>}, l, h)
  <1>1. PICK rank : Ranking(dirs, A, rank, l, h)
    BY DEF Ranked
  <1>2. PICK i \in 1..Len(dirs) : Key[dirs[i]] = Key[y[2]] /\ rank[i] <= y[1]
    BY <1>1 DEF Ranking
  <1>3. rank[i] \in l..h /\ y[1] \in l..h
    BY <1>1, <1>2 DEF Ranking
  <1>4. Key[dirs[i]] = Key[d] /\ rank[i] <= r
    BY <1>2, <1>3
  <1>5. ASSUME NEW x \in A \cup {<<r, d>>}
        PROVE  /\ x[1] \in l..h
               /\ \E k \in 1..Len(dirs) : Key[dirs[k]] = Key[x[2]] /\ rank[k] <= x[1]
    <2>1. CASE x \in A
      BY <1>1, <2>1 DEF Ranking
    <2>2. CASE x = <<r, d>>
      BY <1>4, <2>2
    <2>. QED
      BY <2>1, <2>2
  <1>6. Ranking(dirs, A \cup {<<r, d>>}, rank, l, h)
    BY <1>1, <1>5 DEF Ranking
  <1>. QED
    BY <1>6 DEF Ranked

\* The recursion of parse_path_dirs: the entries that are not empty, in order.
LEMMA PathDirsFacts ==
  ASSUME NEW machine, NEW D, machine.path \in Seq(D)
  PROVE  \E g \in [0..Len(machine.path) -> Seq(D)] :
           /\ g[0] = <<>> /\ PathDirs(machine) = g[Len(machine.path)]
           /\ \A n \in 1..Len(machine.path) :
                g[n] = IF machine.path[n] = Empty THEN g[n - 1]
                       ELSE Append(g[n - 1], machine.path[n])
  <1>. DEFINE path == machine.path
              N == Len(path)
              S == Seq(D)
              next(q, n) == IF path[n] = Empty THEN q ELSE Append(q, path[n])
              step == [n \in 1..N |-> [q \in S |-> next(q, n)]]
              e == <<>>
  <1>1. N \in Nat /\ e \in S /\ \A n \in 1..N : path[n] \in D
    OBVIOUS
  <1>2. \A n \in 1..N : \A q \in S : next(q, n) \in S
    BY <1>1
  <1>3. step \in [1..N -> [S -> S]]
    BY <1>2
  <1>4. PICK g : Iterates(g, N, S, e, step)
    <2>. HIDE DEF N, S, e, step
    <2>. QED
      BY <1>1, <1>3, Iteration
  <1>5. g \in [0..N -> S] /\ g[0] = e
    BY <1>4 DEF Iterates
  <1>6. ASSUME NEW n \in 1..N PROVE g[n] = next(g[n - 1], n)
    <2>1. n - 1 \in 0..N
      BY <1>1
    <2>2. g[n - 1] \in S
      BY <1>5, <2>1
    <2>3. step[n][g[n - 1]] = next(g[n - 1], n)
      BY <2>2
    <2>. QED
      BY <1>4, <2>3 DEF Iterates
  <1>. DEFINE kept[n \in 0..N] == IF n = 0 THEN e ELSE next(kept[n - 1], n)
  <1>7. kept = [n \in 0..N |-> IF n = 0 THEN e ELSE next(kept[n - 1], n)]
    <2>. HIDE DEF S, e, next, step
    <2>1. \A n \in 0..N : n = 0 \/ n \in 1..N
      BY <1>1
    <2>2. g = [n \in 0..N |-> IF n = 0 THEN e ELSE next(g[n - 1], n)]
      BY <1>5, <1>6, <2>1
    <2>. QED
      BY <2>2
  <1>8. PathDirs(machine) = kept[N]
    BY DEF PathDirs
  <1>. HIDE DEF kept
  <1>9. kept[N] = g[N]
    <2>1. kept[0] = e
      BY <1>1, <1>7
    <2>2. ASSUME NEW n \in 1..N, kept[n - 1] \in S PROVE kept[n] = step[n][kept[n - 1]]
      <3>1. kept[n] = next(kept[n - 1], n)
        <4>. HIDE DEF next, e
        <4>1. n \in 0..N /\ n # 0
          BY <1>1
        <4>. QED
          BY <1>7, <4>1
      <3>. QED
        BY <2>2, <3>1
    <2>. HIDE DEF N, S, e, step
    <2>3. \A n \in 1..N : kept[n - 1] \in S => kept[n] = step[n][kept[n - 1]]
      BY <2>2
    <2>4. N \in Nat /\ Iterates(g, N, S, e, step)
      BY <1>1, <1>4
    <2>. QED
      BY <2>1, <2>3, <2>4, SameIterates
  <1>. QED
    BY <1>5, <1>6, <1>8, <1>9

PathRanks(path, n) == {<<6 + i, path[i]>> : i \in {j \in 1..n : path[j] # Empty}}

\* The directories of PATH keep their order.
LEMMA PathRanked ==
  ASSUME NEW machine, NEW D, machine.path \in Seq(D)
  PROVE  /\ PathDirs(machine) \in Seq(D)
         /\ Ranked(PathDirs(machine), PathRanks(machine.path, Len(machine.path)),
                   7, 6 + Len(machine.path))
  <1>. DEFINE path == machine.path
              N == Len(path)
  <1>1. N \in Nat /\ \A n \in 1..N : path[n] \in D
    OBVIOUS
  <1>2. PICK g \in [0..N -> Seq(D)] :
          /\ g[0] = <<>> /\ PathDirs(machine) = g[N]
          /\ \A n \in 1..N : g[n] = IF path[n] = Empty THEN g[n - 1] ELSE Append(g[n - 1], path[n])
    BY PathDirsFacts
  <1>. HIDE DEF N, path
  <1>. DEFINE T == {n \in Nat : n <= N => Ranked(g[n], PathRanks(path, n), 7, 6 + n)}
  <1>3. 0 \in T
    <2>. DEFINE none == <<>>
                no == {}
    <2>1. none \in Seq(D) /\ Len(none) = 0 /\ \A i \in 1..0 : FALSE
      OBVIOUS
    <2>2. PathRanks(path, 0) = no /\ g[0] = none
      BY <1>2 DEF PathRanks
    <2>3. Ranking(none, no, [i \in 1..0 |-> 7], 7, 6)
      BY <2>1 DEF Ranking
    <2>. HIDE DEF none, no
    <2>4. Ranked(none, no, 7, 6 + 0)
      BY <2>3 DEF Ranked
    <2>. QED
      BY <2>2, <2>4
  <1>4. ASSUME NEW n \in Nat, n \in T PROVE n + 1 \in T
    <2>. SUFFICES ASSUME n + 1 <= N
                  PROVE  Ranked(g[n + 1], PathRanks(path, n + 1), 7, 6 + (n + 1))
      OBVIOUS
    <2>. DEFINE d == path[n + 1]
                c == d # Empty
                r == 6 + (n + 1)
                b == IF c THEN <<d>> ELSE <<>>
                B == IF c THEN {<<r, d>>} ELSE {}
    <2>1. n \in 0..N /\ n + 1 \in 1..N /\ (n + 1) - 1 = n
      BY <1>1
    <2>2. Ranked(g[n], PathRanks(path, n), 7, 6 + n)
      BY <1>4, <2>1
    <2>3. Ranked(b, B, r, r)
      <3>. r \in Nat /\ c \in BOOLEAN
        OBVIOUS
      <3>. HIDE DEF c, r, d
      <3>. QED
        BY RankOne
    <2>4. g[n] \in Seq(D) /\ b \in Seq(D) /\ d \in D
      BY <1>1, <1>2, <2>1
    <2>5. g[n + 1] = g[n] \o b
      <3>1. g[n + 1] = IF path[n + 1] = Empty THEN g[n] ELSE Append(g[n], path[n + 1])
        BY <1>2, <2>1
      <3>. DEFINE q == g[n]
      <3>. HIDE DEF q, d
      <3>2. q \in Seq(D) => Append(q, d) = q \o <<d>> /\ q = q \o <<>>
        BY <2>4
      <3>. QED
        BY <2>4, <3>1, <3>2 DEF q, d
    <2>6. PathRanks(path, n + 1) = PathRanks(path, n) \cup B
      <3>1. {j \in 1..(n + 1) : path[j] # Empty}
              = {j \in 1..n : path[j] # Empty} \cup (IF c THEN {n + 1} ELSE {})
        OBVIOUS
      <3>. QED
        BY <3>1 DEF PathRanks
    <2>7. Ranked(g[n] \o b, PathRanks(path, n) \cup B, 7, r)
      <3>. DEFINE a == g[n]
                  A == PathRanks(path, n)
                  l == 7
                  m == 6 + n
      <3>1. l \in Nat /\ m \in Nat /\ r \in Nat /\ l <= r /\ m < r /\ m <= r
        OBVIOUS
      <3>2. a \in Seq(D) /\ b \in Seq(D) /\ Ranked(a, A, l, m) /\ Ranked(b, B, r, r)
        BY <2>2, <2>3, <2>4
      <3>. HIDE DEF a, A, b, B, l, m, r
      <3>3. Ranked(a \o b, A \cup B, l, r)
        BY <3>1, <3>2, RankJoin
      <3>. QED
        BY <3>3 DEF a, A, l
    <2>. HIDE DEF b, B
    <2>. QED
      BY <2>5, <2>6, <2>7
  <1>5. N \in T
    <2>. HIDE DEF T
    <2>. QED
      BY <1>1, <1>3, <1>4, NatSetInduction
  <1>6. Ranked(g[N], PathRanks(path, N), 7, 6 + N) /\ g[N] \in Seq(D)
    BY <1>1, <1>2, <1>5
  <1>. QED
    BY <1>2, <1>6 DEF N, path

\* What is ranked within some bounds is ranked within wider ones.
LEMMA RankWiden ==
  ASSUME NEW dirs, NEW A, NEW l \in Nat, NEW h \in Nat, NEW lo \in Nat, NEW hi \in Nat,
         lo <= l, h <= hi, Ranked(dirs, A, l, h)
  PROVE  Ranked(dirs, A, lo, hi)
  <1>1. PICK rank : Ranking(dirs, A, rank, l, h)
    BY DEF Ranked
  <1>2. \A x \in l..h : x \in lo..hi
    OBVIOUS
  <1>3. rank \in [1..Len(dirs) -> lo..hi] /\ \A x \in A : x[1] \in lo..hi
    BY <1>1, <1>2 DEF Ranking
  <1>4. Ranking(dirs, A, rank, lo, hi)
    BY <1>1, <1>3 DEF Ranking
  <1>. QED
    BY <1>4 DEF Ranked

\* ordered_roots before the dedup: every directory of the documented order,
\* in this order.
RootList(machine) ==
  LET cwd == IF Key[machine.cwd] # Key[machine.app_dir] THEN <<machine.cwd>> ELSE <<>>
      own == <<system_dir>> \o (IF machine.system16 THEN <<system16_dir>> ELSE <<>>)
               \o <<windows_dir>>
  IN  <<machine.app_dir>>
        \o (IF SafeDllSearchMode(machine) THEN own \o cwd ELSE cwd \o own)
        \o PathDirs(machine)

LEMMA RootListRanked ==
  ASSUME NEW machine, NEW P, machine.path \in Seq(P)
  PROVE  /\ \E D : RootList(machine) \in Seq(D)
         /\ Ranked(RootList(machine), RankedDirs(machine), 1, 6 + Len(machine.path))
  <1>. DEFINE D == P \cup {machine.app_dir, machine.cwd, system_dir, windows_dir, system16_dir}
              N == Len(machine.path)
              differs == Key[machine.cwd] # Key[machine.app_dir]
              r == IF SafeDllSearchMode(machine) THEN 6 ELSE 2
              cwd == IF differs THEN <<machine.cwd>> ELSE <<>>
              Cwd == IF differs THEN {<<r, machine.cwd>>} ELSE {}
              sys16 == IF machine.system16 THEN <<system16_dir>> ELSE <<>>
              Sys16 == IF machine.system16 THEN {<<4, system16_dir>>} ELSE {}
              sys == <<system_dir>>
              Sys == {<<3, system_dir>>}
              win == <<windows_dir>>
              Win == {<<5, windows_dir>>}
              app == <<machine.app_dir>>
              App == {<<1, machine.app_dir>>}
              path == PathDirs(machine)
              Path == PathRanks(machine.path, N)
              system_ == sys \o sys16 \o win
              System == Sys \cup Sys16 \cup Win
              mid == IF SafeDllSearchMode(machine) THEN system_ \o cwd ELSE cwd \o system_
  <1>1. /\ N \in Nat /\ machine.path \in Seq(D)
        /\ cwd \in Seq(D) /\ sys16 \in Seq(D) /\ sys \in Seq(D) /\ win \in Seq(D) /\ app \in Seq(D)
    <2>1. /\ machine.app_dir \in D /\ machine.cwd \in D /\ system_dir \in D
          /\ windows_dir \in D /\ system16_dir \in D /\ P \subseteq D
      OBVIOUS
    <2>2. N \in Nat /\ machine.path \in Seq(D)
      BY <2>1
    <2>. HIDE DEF D, N
    <2>3. \A d \in D : <<d>> \in Seq(D)
      OBVIOUS
    <2>4. <<>> \in Seq(D)
      OBVIOUS
    <2>5. cwd \in Seq(D) /\ sys16 \in Seq(D)
      BY <2>1, <2>3, <2>4, Zenon
    <2>6. sys \in Seq(D) /\ win \in Seq(D) /\ app \in Seq(D)
      BY <2>1, <2>3, Zenon
    <2>. QED
      BY <2>2, <2>5, <2>6
  <1>2. path \in Seq(D) /\ Ranked(path, Path, 7, 6 + N)
    <2>. HIDE DEF D
    <2>. QED
      BY <1>1, PathRanked
  <1>3. \A d, x : x \in Nat => Ranked(<<d>>, {<<x, d>>}, x, x) /\ Ranked(<<>>, {}, x, x)
    <2>. SUFFICES ASSUME NEW d, NEW x \in Nat
                  PROVE  Ranked(<<d>>, {<<x, d>>}, x, x) /\ Ranked(<<>>, {}, x, x)
      OBVIOUS
    <2>1. \A c \in BOOLEAN : Ranked(IF c THEN <<d>> ELSE <<>>, IF c THEN {<<x, d>>} ELSE {}, x, x)
      BY RankOne
    <2>. QED
      BY <2>1, Zenon
  <1>4. /\ Ranked(app, App, 1, 1) /\ Ranked(sys, Sys, 3, 3) /\ Ranked(win, Win, 5, 5)
        /\ Ranked(sys16, Sys16, 4, 4) /\ Ranked(cwd, Cwd, r, r)
    <2>1. 1 \in Nat /\ 3 \in Nat /\ 4 \in Nat /\ 5 \in Nat /\ r \in Nat
      OBVIOUS
    <2>. HIDE DEF r
    <2>2. Ranked(app, App, 1, 1) /\ Ranked(sys, Sys, 3, 3) /\ Ranked(win, Win, 5, 5)
      BY <1>3, <2>1, Zenon
    <2>3. Ranked(sys16, Sys16, 4, 4)
      BY <1>3, <2>1, Zenon
    <2>4. Ranked(cwd, Cwd, r, r)
      BY <1>3, <2>1, Zenon
    <2>. QED
      BY <2>2, <2>3, <2>4
  <1>5. RankedDirs(machine) = App \cup Sys \cup Win \cup {<<r, machine.cwd>>} \cup Sys16 \cup Path
    <2>1. DOMAIN machine.path = 1..N
      BY <1>1
    <2>2. (IF machine.safe_mode = "zero" THEN 2 ELSE 6) = r
      BY DEF SafeDllSearchMode
    <2>. HIDE DEF r, N
    <2>3. Path = {<<6 + i, machine.path[i]>> : i \in {j \in DOMAIN machine.path : machine.path[j] # Empty}}
      BY <2>1, Zenon DEF PathRanks
    <2>. DEFINE Cw == {<<IF machine.safe_mode = "zero" THEN 2 ELSE 6, machine.cwd>>}
    <2>4. RankedDirs(machine) = {<<1, machine.app_dir>>, <<3, system_dir>>, <<5, windows_dir>>,
             <<IF machine.safe_mode = "zero" THEN 2 ELSE 6, machine.cwd>>} \cup Sys16 \cup Path
      BY <2>3, Zenon DEF RankedDirs
    <2>. DEFINE x1 == <<1, machine.app_dir>>
                x3 == <<3, system_dir>>
                x5 == <<5, windows_dir>>
                xr == <<r, machine.cwd>>
    <2>5. RankedDirs(machine) = {x1, x3, x5, xr} \cup Sys16 \cup Path
      BY <2>2, <2>4, Zenon
    <2>. HIDE DEF x1, x3, x5, xr, Sys16, Path
    <2>6. {x1, x3, x5, xr} \cup Sys16 \cup Path
            = {x1} \cup {x3} \cup {x5} \cup {xr} \cup Sys16 \cup Path
      OBVIOUS
    <2>. QED
      BY <2>5, <2>6 DEF x1, x3, x5, xr
  <1>. HIDE DEF D, N, differs, r, cwd, Cwd, sys16, Sys16, sys, Sys, win, Win, app, App, path, Path
  <1>6. system_ \in Seq(D) /\ Ranked(system_, System, 3, 5)
    <2>. DEFINE half == sys \o sys16
                Half == Sys \cup Sys16
    <2>1. half \in Seq(D)
      BY <1>1
    <2>2. Ranked(half, Half, 3, 4)
      BY <1>1, <1>4, RankJoin
    <2>. HIDE DEF half, Half
    <2>3. half \o win \in Seq(D)
      BY <1>1, <2>1
    <2>4. Ranked(half \o win, Half \cup Win, 3, 5)
      BY <1>1, <1>4, <2>1, <2>2, RankJoin
    <2>. QED
      BY <2>3, <2>4 DEF half, Half
  <1>. HIDE DEF system_, System
  <1>7. mid \in Seq(D) /\ Ranked(mid, System \cup Cwd, 2, 6)
    <2>1. CASE SafeDllSearchMode(machine)
      <3>1. Ranked(cwd, Cwd, 6, 6)
        BY <1>4, <2>1 DEF r
      <3>2. Ranked(system_ \o cwd, System \cup Cwd, 3, 6)
        BY <1>1, <1>6, <3>1, RankJoin
      <3>3. Ranked(system_ \o cwd, System \cup Cwd, 2, 6)
        BY <3>2, RankWiden
      <3>. QED
        BY <1>1, <1>6, <2>1, <3>3
    <2>2. CASE ~SafeDllSearchMode(machine)
      <3>1. Ranked(cwd, Cwd, 2, 2)
        BY <1>4, <2>2 DEF r
      <3>2. Ranked(cwd \o system_, Cwd \cup System, 2, 5)
        <4>1. cwd \in Seq(D) /\ system_ \in Seq(D) /\ Ranked(system_, System, 3, 5)
          BY <1>1, <1>6
        <4>. QED
          BY <3>1, <4>1, RankJoin
      <3>3. Ranked(cwd \o system_, Cwd \cup System, 2, 6)
        BY <3>2, RankWiden
      <3>4. Cwd \cup System = System \cup Cwd
        OBVIOUS
      <3>5. mid = cwd \o system_
        BY <2>2, Zenon
      <3>. HIDE DEF mid
      <3>6. mid \in Seq(D)
        BY <1>1, <1>6, <3>5
      <3>7. Ranked(mid, System \cup Cwd, 2, 6)
        BY <3>3, <3>4, <3>5, Zenon
      <3>. QED
        BY <3>6, <3>7
    <2>. QED
      BY <2>1, <2>2
  <1>. DEFINE Mid == System \cup Cwd
              list == app \o mid \o path
              List == App \cup Mid \cup Path
  <1>8. list \in Seq(D) /\ Ranked(list, List, 1, 6 + N)
    <2>. HIDE DEF mid, Mid
    <2>. DEFINE half == app \o mid
                Half == App \cup Mid
                h == 6 + N
    <2>1. half \in Seq(D)
      BY <1>1, <1>7
    <2>2. Ranked(half, Half, 1, 6)
      <3>1. app \in Seq(D) /\ mid \in Seq(D) /\ Ranked(app, App, 1, 1) /\ Ranked(mid, Mid, 2, 6)
        BY <1>1, <1>4, <1>7 DEF Mid
      <3>. QED
        BY <3>1, RankJoin
    <2>3. h \in Nat /\ 6 <= h
      BY <1>1
    <2>. HIDE DEF half, Half, h
    <2>4. half \o path \in Seq(D)
      BY <1>2, <2>1
    <2>5. Ranked(half \o path, Half \cup Path, 1, h)
      BY <1>2, <2>1, <2>2, <2>3, RankJoin DEF h
    <2>. QED
      BY <2>4, <2>5 DEF half, Half, h
  <1>9. RootList(machine) = list
    BY DEF RootList, list, app, mid, path, cwd, system_, sys, sys16, win, differs
  <1>. HIDE DEF mid, list
  <1>10. Ranked(list, RankedDirs(machine), 1, 6 + N)
    <2>1. CASE differs
      <3>1. Cwd = {<<r, machine.cwd>>}
        BY <2>1 DEF Cwd
      <3>2. List = RankedDirs(machine)
        BY <1>5, <3>1 DEF System
      <3>. QED
        BY <1>8, <3>2
    <2>2. CASE ~differs
      <3>1. Cwd = {}
        BY <2>2 DEF Cwd
      <3>2. List \cup {<<r, machine.cwd>>} = RankedDirs(machine)
        BY <1>5, <3>1 DEF System
      <3>. DEFINE y == <<1, machine.app_dir>>
                  d == machine.cwd
                  h == 6 + N
      <3>3. y \in List /\ y[1] = 1 /\ Key[y[2]] = Key[d]
        BY <2>2 DEF App, differs
      <3>4. h \in Nat /\ r \in 1..h
        BY <1>1 DEF r
      <3>. HIDE DEF y, d, List, h
      <3>5. y[1] <= r
        BY <3>3, <3>4
      <3>6. Ranked(list, List \cup {<<r, d>>}, 1, h)
        BY <1>8, <3>3, <3>4, <3>5, RankAbsorb DEF h
      <3>. QED
        BY <3>2, <3>6 DEF d, h
    <2>. QED
      BY <2>1, <2>2
  <1>11. \E X : RootList(machine) \in Seq(X)
    BY <1>8, <1>9
  <1>. QED
    BY <1>9, <1>10, <1>11 DEF N

\* out has the first directory of each key among the first n of dirs; at says
\* where they come from.
Firsts(out, dirs, n, at) ==
  /\ at \in [1..Len(out) -> 1..n]
  /\ \A i, j \in 1..Len(out) : i < j => at[i] < at[j] /\ Key[out[i]] # Key[out[j]]
  /\ \A j \in 1..Len(out) : out[j] = dirs[at[j]]
  /\ \A i \in 1..n : \E j \in 1..Len(out) : Key[out[j]] = Key[dirs[i]] /\ at[j] <= i

\* One more directory.
LEMMA OneMore ==
  ASSUME NEW D, NEW dirs \in Seq(D), NEW out \in Seq(D), NEW n \in Nat, n + 1 <= Len(dirs),
         NEW at, Firsts(out, dirs, n, at),
         NEW more, more = IF \E i \in DOMAIN out : Key[out[i]] = Key[dirs[n + 1]] THEN out
                          ELSE Append(out, dirs[n + 1])
  PROVE  \E b : Firsts(more, dirs, n + 1, b)
  <1>. DEFINE L == Len(out)
              d == dirs[n + 1]
  <1>1. L \in Nat /\ DOMAIN out = 1..L /\ d \in D
    OBVIOUS
  <1>2. \A i \in 1..n : i \in 1..(n + 1)
    OBVIOUS
  <1>3. CASE \E i \in 1..L : Key[out[i]] = Key[d]
    <2>1. more = out
      BY <1>1, <1>3, Zenon
    <2>2. PICK k \in 1..L : Key[out[k]] = Key[d]
      BY <1>3
    <2>3. at \in [1..L -> 1..(n + 1)] /\ at[k] <= n + 1
      BY <1>2, <2>2 DEF Firsts
    <2>4. ASSUME NEW i \in 1..(n + 1)
          PROVE  \E j \in 1..L : Key[out[j]] = Key[dirs[i]] /\ at[j] <= i
      <3>1. CASE i = n + 1
        BY <2>2, <2>3, <3>1
      <3>2. CASE i \in 1..n
        BY <3>2 DEF Firsts
      <3>. QED
        BY <3>1, <3>2
    <2>. HIDE DEF d
    <2>5. Firsts(out, dirs, n + 1, at)
      BY <2>3, <2>4 DEF Firsts
    <2>. QED
      BY <2>1, <2>5
  <1>4. CASE ~ \E i \in 1..L : Key[out[i]] = Key[d]
    <2>. DEFINE b == [j \in 1..(L + 1) |-> IF j = L + 1 THEN n + 1 ELSE at[j]]
    <2>1. more = Append(out, d)
      BY <1>1, <1>4, Zenon
    <2>2. Len(more) = L + 1 /\ more[L + 1] = d /\ \A j \in 1..L : more[j] = out[j]
      BY <1>1, <2>1
    <2>3. b[L + 1] = n + 1 /\ \A j \in 1..L : b[j] = at[j] /\ at[j] \in 1..n
      BY <1>1 DEF Firsts
    <2>4. b \in [1..Len(more) -> 1..(n + 1)]
      <3>1. ASSUME NEW j \in 1..(L + 1) PROVE (IF j = L + 1 THEN n + 1 ELSE at[j]) \in 1..(n + 1)
        <4>1. CASE j = L + 1
          BY <4>1
        <4>2. CASE j # L + 1
          <5>1. j \in 1..L
            BY <1>1, <4>2
          <5>. QED
            BY <1>2, <2>3, <4>2, <5>1
        <4>. QED
          BY <4>1, <4>2
      <3>2. b \in [1..(L + 1) -> 1..(n + 1)]
        BY <3>1
      <3>. HIDE DEF b
      <3>. QED
        BY <2>2, <3>2
    <2>5. \A j \in 1..(L + 1) : j \in 1..L \/ j = L + 1
      BY <1>1
    <2>. HIDE DEF b, L, d
    <2>6. ASSUME NEW i \in 1..(L + 1), NEW j \in 1..(L + 1), i < j
          PROVE  b[i] < b[j] /\ Key[more[i]] # Key[more[j]]
      <3>1. i \in 1..L
        BY <1>1, <2>6
      <3>2. CASE j \in 1..L
        <4>1. at[i] < at[j] /\ Key[out[i]] # Key[out[j]]
          BY <2>6, <3>1, <3>2 DEF Firsts, L
        <4>. QED
          BY <2>2, <2>3, <3>1, <3>2, <4>1
      <3>3. CASE j = L + 1
        <4>1. b[i] \in 1..n /\ b[j] = n + 1
          BY <2>3, <3>1, <3>3
        <4>2. more[i] = out[i] /\ more[j] = d
          BY <2>2, <3>1, <3>3
        <4>. QED
          <5>1. b[i] < b[j]
            BY <4>1
          <5>2. Key[out[i]] # Key[d]
            BY <1>4, <3>1
          <5>. QED
            BY <4>2, <5>1, <5>2
      <3>. QED
        BY <2>5, <3>2, <3>3
    <2>7. ASSUME NEW j \in 1..(L + 1) PROVE more[j] = dirs[b[j]]
      <3>1. CASE j \in 1..L
        <4>1. out[j] = dirs[at[j]]
          BY <3>1 DEF Firsts, L
        <4>. QED
          BY <2>2, <2>3, <3>1, <4>1
      <3>2. CASE j = L + 1
        BY <2>2, <2>3, <3>2 DEF d
      <3>. QED
        BY <2>5, <3>1, <3>2
    <2>8. ASSUME NEW i \in 1..(n + 1)
          PROVE  \E j \in 1..(L + 1) : Key[more[j]] = Key[dirs[i]] /\ b[j] <= i
      <3>1. CASE i = n + 1
        <4>1. L + 1 \in 1..(L + 1) /\ b[L + 1] <= i /\ more[L + 1] = dirs[i]
          BY <1>1, <2>2, <2>3, <3>1 DEF d
        <4>. QED
          BY <4>1
      <3>2. CASE i \in 1..n
        <4>1. PICK j \in 1..L : Key[out[j]] = Key[dirs[i]] /\ at[j] <= i
          BY <3>2 DEF Firsts, L
        <4>2. j \in 1..(L + 1) /\ more[j] = out[j] /\ b[j] = at[j]
          BY <1>1, <2>2, <2>3
        <4>. QED
          BY <4>1, <4>2
      <3>3. i = n + 1 \/ i \in 1..n
        OBVIOUS
      <3>. QED
        BY <3>1, <3>2, <3>3, Zenon
    <2>. HIDE DEF b, d, L
    <2>9. Firsts(more, dirs, n + 1, b)
      <3>0. Len(more) = L + 1
        BY <2>2
      <3>1. \A i, j \in 1..Len(more) : i < j => b[i] < b[j] /\ Key[more[i]] # Key[more[j]]
        BY <2>6, <3>0
      <3>2. \A j \in 1..Len(more) : more[j] = dirs[b[j]]
        BY <2>7, <3>0
      <3>3. \A i \in 1..(n + 1) : \E j \in 1..Len(more) : Key[more[j]] = Key[dirs[i]] /\ b[j] <= i
        BY <2>8, <3>0
      <3>. QED
        BY <2>4, <3>1, <3>2, <3>3, Zenon DEF Firsts
    <2>. QED
      BY <2>9
  <1>. QED
    BY <1>3, <1>4

\* dedup_case_insensitive keeps the first directory of each key, in order.
LEMMA DedupFacts ==
  ASSUME NEW D, NEW dirs \in Seq(D)
  PROVE  \E at : Dedup(dirs) \in Seq(D) /\ Firsts(Dedup(dirs), dirs, Len(dirs), at)
  <1>. DEFINE N == Len(dirs)
              S == Seq(D)
              next(q, n) == IF \E i \in DOMAIN q : Key[q[i]] = Key[dirs[n]] THEN q
                            ELSE Append(q, dirs[n])
              step == [n \in 1..N |-> [q \in S |-> next(q, n)]]
              e == <<>>
  <1>1. N \in Nat /\ e \in S /\ \A n \in 1..N : dirs[n] \in D
    OBVIOUS
  <1>2. \A n \in 1..N : \A q \in S : next(q, n) \in S
    BY <1>1
  <1>3. step \in [1..N -> [S -> S]]
    BY <1>2
  <1>4. PICK g : Iterates(g, N, S, e, step)
    <2>. HIDE DEF N, S, e, step
    <2>. QED
      BY <1>1, <1>3, Iteration
  <1>5. g \in [0..N -> S] /\ g[0] = e
    BY <1>4 DEF Iterates
  <1>6. ASSUME NEW n \in 1..N PROVE g[n] = next(g[n - 1], n)
    <2>1. g[n - 1] \in S
      BY <1>1, <1>5
    <2>2. step[n][g[n - 1]] = next(g[n - 1], n)
      BY <2>1
    <2>. QED
      BY <1>4, <2>2 DEF Iterates
  <1>. DEFINE kept[n \in 0..N] == IF n = 0 THEN e ELSE next(kept[n - 1], n)
  <1>7. kept = [n \in 0..N |-> IF n = 0 THEN e ELSE next(kept[n - 1], n)]
    <2>. HIDE DEF S, e, next, step
    <2>1. \A n \in 0..N : n = 0 \/ n \in 1..N
      BY <1>1
    <2>2. g = [n \in 0..N |-> IF n = 0 THEN e ELSE next(g[n - 1], n)]
      BY <1>5, <1>6, <2>1
    <2>. QED
      BY <2>2
  <1>8. Dedup(dirs) = kept[N]
    BY DEF Dedup
  <1>. HIDE DEF kept
  <1>9. kept[N] = g[N]
    <2>1. kept[0] = e
      BY <1>1, <1>7
    <2>2. ASSUME NEW n \in 1..N, kept[n - 1] \in S PROVE kept[n] = step[n][kept[n - 1]]
      <3>1. kept[n] = next(kept[n - 1], n)
        <4>. HIDE DEF next, e
        <4>1. n \in 0..N /\ n # 0
          BY <1>1
        <4>. QED
          BY <1>7, <4>1
      <3>. QED
        BY <2>2, <3>1
    <2>. HIDE DEF N, S, e, step
    <2>. QED
      BY <1>1, <1>4, <2>1, <2>2, SameIterates
  <1>. DEFINE T == {n \in Nat : n <= N => \E at : Firsts(g[n], dirs, n, at)}
  <1>10. 0 \in T
    <2>1. Len(e) = 0 /\ \A i \in 1..0 : FALSE
      OBVIOUS
    <2>. HIDE DEF e
    <2>2. Firsts(e, dirs, 0, [i \in 1..0 |-> 1])
      BY <2>1 DEF Firsts
    <2>. QED
      BY <1>5, <2>2
  <1>11. ASSUME NEW n \in Nat, n \in T PROVE n + 1 \in T
    <2>. SUFFICES ASSUME n + 1 <= N PROVE \E at : Firsts(g[n + 1], dirs, n + 1, at)
      OBVIOUS
    <2>1. n \in 0..N /\ n + 1 \in 1..N /\ (n + 1) - 1 = n
      BY <1>1
    <2>2. PICK at : Firsts(g[n], dirs, n, at)
      BY <1>11, <2>1
    <2>3. g[n] \in Seq(D)
      BY <1>5, <2>1
    <2>4. g[n + 1] = IF \E i \in DOMAIN g[n] : Key[g[n][i]] = Key[dirs[n + 1]] THEN g[n]
                     ELSE Append(g[n], dirs[n + 1])
      BY <1>6, <2>1
    <2>5. n + 1 <= Len(dirs)
      OBVIOUS
    <2>. HIDE DEF N, S, e, next, step
    <2>. QED
      BY <2>2, <2>3, <2>4, <2>5, OneMore
  <1>12. N \in T
    <2>. HIDE DEF T
    <2>. QED
      BY <1>1, <1>10, <1>11, NatSetInduction
  <1>. QED
    BY <1>1, <1>5, <1>8, <1>9, <1>12

\* The order of the search: the rank of each directory that it looks at.
SearchOrder(tried, places, rank, lo, hi) ==
  /\ rank \in [1..Len(tried) -> lo..hi]
  /\ \A i, j \in 1..Len(tried) : i < j => rank[i] < rank[j] /\ tried[i] # tried[j]
  /\ \A i \in 1..Len(tried) : <<rank[i], tried[i]>> \in places
  /\ \A x \in places : x[1] \in lo..hi
  /\ \A x \in places : \E i \in 1..Len(tried) : tried[i] = x[2] /\ rank[i] <= x[1]

\* The dedup leaves the order as it is.
LEMMA DedupRanked ==
  ASSUME NEW D, NEW dirs \in Seq(D), NEW A, NEW l \in Nat, NEW h \in Nat, Ranked(dirs, A, l, h)
  PROVE  /\ Dedup(dirs) \in Seq(D) /\ Ranked(Dedup(dirs), A, l, h)
         /\ \A i, j \in 1..Len(Dedup(dirs)) :
              i < j => Key[Dedup(dirs)[i]] # Key[Dedup(dirs)[j]]
  <1>. DEFINE out == Dedup(dirs)
  <1>1. PICK at : out \in Seq(D) /\ Firsts(out, dirs, Len(dirs), at)
    BY DedupFacts
  <1>2. PICK rank : Ranking(dirs, A, rank, l, h)
    BY DEF Ranked
  <1>. HIDE DEF out
  <1>. DEFINE of == [i \in 1..Len(out) |-> rank[at[i]]]
  <1>3. \A i \in 1..Len(out) : at[i] \in 1..Len(dirs) /\ of[i] = rank[at[i]]
    BY <1>1 DEF Firsts
  <1>4. of \in [1..Len(out) -> l..h]
    BY <1>2, <1>3 DEF Ranking
  <1>. HIDE DEF of
  <1>5. ASSUME NEW i \in 1..Len(out), NEW j \in 1..Len(out), i < j
        PROVE  of[i] < of[j] /\ Key[out[i]] # Key[out[j]]
    <2>1. at[i] < at[j] /\ Key[out[i]] # Key[out[j]]
      BY <1>1, <1>5 DEF Firsts
    <2>2. rank[at[i]] < rank[at[j]]
      BY <1>2, <1>3, <2>1 DEF Ranking
    <2>. QED
      BY <1>3, <2>1, <2>2
  <1>6. ASSUME NEW i \in 1..Len(out) PROVE <<of[i], out[i]>> \in A
    <2>1. out[i] = dirs[at[i]]
      BY <1>1 DEF Firsts
    <2>2. <<rank[at[i]], dirs[at[i]]>> \in A
      BY <1>2, <1>3 DEF Ranking
    <2>. QED
      BY <1>3, <2>1, <2>2
  <1>7. ASSUME NEW x \in A
        PROVE  x[1] \in l..h /\ \E i \in 1..Len(out) : Key[out[i]] = Key[x[2]] /\ of[i] <= x[1]
    <2>1. PICK k \in 1..Len(dirs) : Key[dirs[k]] = Key[x[2]] /\ rank[k] <= x[1]
      BY <1>2 DEF Ranking
    <2>2. PICK i \in 1..Len(out) : Key[out[i]] = Key[dirs[k]] /\ at[i] <= k
      BY <1>1 DEF Firsts
    <2>3. rank[at[i]] <= rank[k]
      <3>1. CASE at[i] = k
        <4>1. rank[k] \in l..h
          BY <1>2 DEF Ranking
        <4>. QED
          BY <3>1, <4>1
      <3>2. CASE at[i] # k
        <4>1. at[i] < k
          BY <1>3, <2>2, <3>2
        <4>2. rank[at[i]] < rank[k]
          BY <1>2, <1>3, <4>1 DEF Ranking
        <4>. QED
          BY <1>2, <1>3, <4>2 DEF Ranking
      <3>. QED
        BY <3>1, <3>2
    <2>4. x[1] \in l..h /\ rank[k] \in l..h /\ of[i] \in l..h
      BY <1>2, <1>4 DEF Ranking
    <2>5. of[i] <= x[1]
      BY <1>3, <2>1, <2>3, <2>4
    <2>. QED
      BY <2>1, <2>2, <2>4, <2>5
  <1>8. Ranking(out, A, of, l, h)
    BY <1>4, <1>5, <1>6, <1>7 DEF Ranking
  <1>9. Ranked(out, A, l, h)
    BY <1>8 DEF Ranked
  <1>. QED
    BY <1>1, <1>5, <1>9 DEF out

\* What resolve_dll tries for a name is in the documented order, each place once.
LEMMA TriedInOrder ==
  ASSUME NEW machine, NEW P, machine.path \in Seq(P), NEW dll
  PROVE  \E rank, hi : /\ hi \in Nat /\ Len(Tried(machine, dll)) \in Nat
                       /\ Tried(machine, dll) = [i \in 1..Len(Tried(machine, dll)) |->
                                                   Tried(machine, dll)[i]]
                       /\ SearchOrder(Tried(machine, dll), RankedPlaces(machine, dll), rank, 1, hi)
  <1>. DEFINE tried == Tried(machine, dll)
              places == RankedPlaces(machine, dll)
  <1>1. CASE dll \in DOMAIN Absolute
    <2>. DEFINE p == Absolute[dll]
                one == <<p>>
                ones == {<<1, p>>}
                rank == [i \in 1..1 |-> 1]
    <2>1. tried = one /\ places = ones
      BY <1>1 DEF Tried, RankedPlaces
    <2>2. Len(one) = 1 /\ DOMAIN one = 1..1 /\ one[1] = p /\ 1..1 = {1} /\ rank[1] = 1
      OBVIOUS
    <2>3. rank \in [1..Len(one) -> 1..1]
      OBVIOUS
    <2>4. <<1, p>> \in ones /\ \A x \in ones : x[1] = 1 /\ x[2] = p
      OBVIOUS
    <2>. HIDE DEF p, one, ones, rank
    <2>5. SearchOrder(one, ones, rank, 1, 1)
      BY <2>2, <2>3, <2>4 DEF SearchOrder
    <2>6. 1 \in Nat /\ Len(one) \in Nat /\ one = [i \in 1..Len(one) |-> one[i]]
      BY <2>2 DEF one
    <2>. HIDE DEF tried, places
    <2>7. \E k, hi : hi \in Nat /\ Len(tried) \in Nat /\ tried = [i \in 1..Len(tried) |-> tried[i]]
                     /\ SearchOrder(tried, places, k, 1, hi)
      BY <2>1, <2>5, <2>6
    <2>. QED
      BY <2>7 DEF tried, places
  <1>2. CASE dll \notin DOMAIN Absolute
    <2>. DEFINE list == RootList(machine)
                A == RankedDirs(machine)
                h == 6 + Len(machine.path)
                roots == Dedup(list)
    <2>1. PICK D : list \in Seq(D)
      BY RootListRanked
    <2>2. Ranked(list, A, 1, h) /\ h \in Nat
      BY RootListRanked
    <2>3. OrderedRoots(machine) = roots
      BY DEF OrderedRoots, RootList
    <2>. HIDE DEF list, A, h
    <2>4. /\ roots \in Seq(D) /\ Ranked(roots, A, 1, h)
          /\ \A i, j \in 1..Len(roots) : i < j => Key[roots[i]] # Key[roots[j]]
      BY <2>1, <2>2, DedupRanked
    <2>5. PICK rank : Ranking(roots, A, rank, 1, h)
      BY <2>4 DEF Ranked
    <2>. HIDE DEF roots
    <2>6. tried = [i \in DOMAIN roots |-> Place(roots[i], dll)]
      BY <1>2, <2>3 DEF Tried
    <2>7. places = {<<x[1], Place(x[2], dll)>> : x \in A}
      BY <1>2 DEF RankedPlaces, A
    <2>8. /\ DOMAIN roots = 1..Len(roots) /\ Len(roots) \in Nat
          /\ DOMAIN tried = 1..Len(roots) /\ Len(tried) = Len(roots)
          /\ \A i \in 1..Len(roots) : tried[i] = Place(roots[i], dll)
      BY <2>4, <2>6
    <2>. HIDE DEF tried, places
    <2>9. rank \in [1..Len(tried) -> 1..h]
      BY <2>5, <2>8 DEF Ranking
    <2>10. ASSUME NEW i \in 1..Len(tried), NEW j \in 1..Len(tried), i < j
           PROVE  rank[i] < rank[j] /\ tried[i] # tried[j]
      <3>1. rank[i] < rank[j] /\ Key[roots[i]] # Key[roots[j]]
        BY <2>4, <2>5, <2>8, <2>10 DEF Ranking
      <3>2. tried[i] = Place(roots[i], dll) /\ tried[j] = Place(roots[j], dll)
        BY <2>8
      <3>. QED
        BY <3>1, <3>2 DEF Place
    <2>11. ASSUME NEW i \in 1..Len(tried) PROVE <<rank[i], tried[i]>> \in places
      <3>1. <<rank[i], roots[i]>> \in A
        BY <2>5, <2>8 DEF Ranking
      <3>2. <<rank[i], Place(roots[i], dll)>> \in places
        BY <2>7, <3>1
      <3>. QED
        BY <2>8, <3>2
    <2>12. ASSUME NEW y \in places
           PROVE  y[1] \in 1..h /\ \E i \in 1..Len(tried) : tried[i] = y[2] /\ rank[i] <= y[1]
      <3>1. PICK x \in A : y = <<x[1], Place(x[2], dll)>>
        BY <2>7
      <3>2. /\ x[1] \in 1..h
            /\ \E i \in 1..Len(roots) : Key[roots[i]] = Key[x[2]] /\ rank[i] <= x[1]
        BY <2>5 DEF Ranking
      <3>3. PICK i \in 1..Len(roots) : Key[roots[i]] = Key[x[2]] /\ rank[i] <= x[1]
        BY <3>2
      <3>4. y[1] = x[1] /\ y[2] = Place(x[2], dll)
        BY <3>1
      <3>5. tried[i] = y[2]
        BY <2>8, <3>3, <3>4 DEF Place
      <3>. QED
        BY <2>8, <3>2, <3>3, <3>4, <3>5
    <2>13. SearchOrder(tried, places, rank, 1, h)
      BY <2>9, <2>10, <2>11, <2>12 DEF SearchOrder
    <2>14. h \in Nat /\ Len(tried) \in Nat /\ tried = [i \in 1..Len(tried) |-> tried[i]]
      BY <2>2, <2>6, <2>8
    <2>. QED
      BY <2>13, <2>14 DEF tried, places
  <1>. QED
    BY <1>1, <1>2

\* One search, for any name: what DocumentedSearch says of it.
SearchedAsDocumented(m, d) ==
  LET r == ResolveDll(m, d)
  IN  /\ r.chosen = DocumentedPlace(m, d)
      /\ {r.candidates[i] : i \in DOMAIN r.candidates} = DocumentedPlaces(m, d)
      /\ Len(r.candidates) = Cardinality(DocumentedPlaces(m, d))
      /\ \A i \in DOMAIN r.candidates :
           m.files[r.candidates[i]] # "absent" => i = Len(r.candidates)

\* The number of different members of a list without duplicates.
LEMMA CountOnce ==
  ASSUME NEW S, NEW n \in Nat, NEW q, DOMAIN q = 1..n, S = {q[i] : i \in 1..n},
         \A i, j \in 1..n : i < j => q[i] # q[j]
  PROVE  Cardinality(S) = n
  <1>. DEFINE f == [i \in 1..n |-> q[i]]
  <1>1. f \in Surjection(1..n, S)
    BY DEF Surjection
  <1>2. f \in Injection(1..n, S)
    <2>1. f \in [1..n -> S] /\ DOMAIN f = 1..n
      OBVIOUS
    <2>2. \A i, j \in 1..n : f[i] = f[j] => i = j
      <3>. SUFFICES ASSUME NEW i \in 1..n, NEW j \in 1..n, i # j PROVE f[i] # f[j]
        OBVIOUS
      <3>1. i < j \/ j < i
        OBVIOUS
      <3>. QED
        BY <3>1
    <2>. QED
      BY <2>1, <2>2 DEF Injection, IsInjective
  <1>3. ExistsBijection(1..n, S)
    BY <1>1, <1>2 DEF ExistsBijection, Bijection
  <1>. QED
    BY <1>3, FS_CountingElements

LEMMA SearchFollowsOrder ==
  ASSUME NEW machine, NEW dll, NEW rank, NEW hi \in Nat, Len(Tried(machine, dll)) \in Nat,
         Tried(machine, dll) = [i \in 1..Len(Tried(machine, dll)) |-> Tried(machine, dll)[i]],
         SearchOrder(Tried(machine, dll), RankedPlaces(machine, dll), rank, 1, hi)
  PROVE  SearchedAsDocumented(machine, dll)
  <1>. DEFINE tried == Tried(machine, dll)
              places == RankedPlaces(machine, dll)
              held == Held(machine, dll)
              r == ResolveDll(machine, dll)
              documented == DocumentedPlaces(machine, dll)
              there(p) == machine.files[p] # "absent"
              stops == {i \in DOMAIN tried : Stops(machine, tried[i])}
              L == Len(tried)
  <1>1. held = {x \in places : there(x[2])}
    BY DEF Held
  <1>2. documented = {x[2] : x \in {y \in places : \A z \in held : y[1] <= z[1]}}
    BY DEF DocumentedPlaces
  <1>3. stops = {i \in 1..L : there(tried[i])}
    BY DEF Stops
  <1>4. L \in Nat /\ DOMAIN tried = 1..L
    OBVIOUS
  <1>5. /\ \A i \in 1..L : rank[i] \in 1..hi /\ <<rank[i], tried[i]>> \in places
        /\ \A i, j \in 1..L : i < j => rank[i] < rank[j] /\ tried[i] # tried[j]
        /\ \A x \in places : x[1] \in 1..hi /\ \E i \in 1..L : tried[i] = x[2] /\ rank[i] <= x[1]
    BY DEF SearchOrder
  <1>6. \A i \in 1..L : i \in stops => <<rank[i], tried[i]>> \in held
    <2>. HIDE DEF held, stops, places, tried, L, there
    <2>. QED
      BY <1>1, <1>3, <1>5
  <1>7. \A y \in held : \E i \in stops : tried[i] = y[2] /\ rank[i] <= y[1]
    <2>. HIDE DEF held, stops, places, tried, L, there
    <2>. QED
      BY <1>1, <1>3, <1>5
  <1>8. CASE stops = {}
    <2>1. r.chosen = None /\ r.candidates = tried
      BY <1>8 DEF ResolveDll
    <2>. HIDE DEF held, stops, places, tried, L, r, documented, there
    <2>2. held = {}
      BY <1>7, <1>8
    <2>3. DocumentedPlace(machine, dll) = None
      BY <2>2 DEF DocumentedPlace, held
    <2>4. documented = {x[2] : x \in places}
      BY <1>2, <2>2
    <2>5. \A i \in 1..L : tried[i] \in documented
      <3>. SUFFICES ASSUME NEW i \in 1..L PROVE tried[i] \in documented
        OBVIOUS
      <3>1. <<rank[i], tried[i]>> \in places /\ <<rank[i], tried[i]>>[2] = tried[i]
        BY <1>5
      <3>. QED
        BY <2>4, <3>1
    <2>6. \A p \in documented : \E i \in 1..L : tried[i] = p
      BY <1>5, <2>4
    <2>7. {tried[i] : i \in 1..L} = documented
      BY <2>5, <2>6
    <2>8. Cardinality(documented) = L
      BY <1>4, <1>5, <2>7, CountOnce
    <2>9. \A i \in 1..L : ~there(tried[i])
      BY <1>3, <1>8
    <2>. QED
      BY <1>4, <2>1, <2>3, <2>7, <2>8, <2>9 DEF SearchedAsDocumented, r, documented, there, L
  <1>9. CASE stops # {}
    <2>. DEFINE n == CHOOSE i \in stops : \A j \in stops : i <= j
                q == SubSeq(tried, 1, n)
    <2>1. r.chosen = tried[n] /\ r.candidates = q
      BY <1>9 DEF ResolveDll
    <2>. HIDE DEF stops
    <2>2. n \in stops /\ \A j \in stops : n <= j
      <3>1. stops \in SUBSET Nat
        BY <1>3, <1>4
      <3>2. \E i \in stops : \A j \in stops : i <= j
        BY <1>9, <3>1, LeastNatural
      <3>. QED
        BY <3>2
    <2>. HIDE DEF n, held, places, r, documented, there
    <2>3. n \in 1..L /\ there(tried[n])
      BY <1>3, <2>2
    <2>4. Len(q) = n /\ DOMAIN q = 1..n /\ \A i \in 1..n : i \in 1..L /\ q[i] = tried[i]
      <3>1. tried = [i \in 1..L |-> tried[i]]
        OBVIOUS
      <3>. HIDE DEF tried, L
      <3>. QED
        BY <1>4, <2>3, <3>1
    <2>. HIDE DEF tried, L, q
    <2>. DEFINE x == <<rank[n], tried[n]>>
    <2>5. x \in held /\ x[1] = rank[n] /\ x[2] = tried[n] /\ rank[n] \in 1..hi
      BY <1>5, <1>6, <2>2, <2>3
    <2>. HIDE DEF x
    <2>6. \A i, j \in 1..L : i <= j => rank[i] <= rank[j]
      <3>. SUFFICES ASSUME NEW i \in 1..L, NEW j \in 1..L, i <= j PROVE rank[i] <= rank[j]
        OBVIOUS
      <3>1. rank[i] \in 1..hi /\ rank[j] \in 1..hi
        BY <1>5
      <3>2. i < j \/ i = j
        BY <1>4
      <3>. QED
        BY <1>5, <3>1, <3>2
    <2>7. \A y \in held : rank[n] <= y[1]
      <3>. SUFFICES ASSUME NEW y \in held PROVE rank[n] <= y[1]
        OBVIOUS
      <3>1. PICK i \in stops : tried[i] = y[2] /\ rank[i] <= y[1]
        BY <1>7
      <3>2. i \in 1..L /\ n <= i
        BY <1>3, <2>2
      <3>3. rank[n] <= rank[i] /\ rank[n] \in 1..hi /\ rank[i] \in 1..hi
        BY <1>5, <2>3, <2>6, <3>2
      <3>4. y[1] \in 1..hi
        BY <1>1, <1>5
      <3>. QED
        BY <3>1, <3>3, <3>4
    <2>8. ASSUME NEW y \in held, \A z \in held : y[1] <= z[1] PROVE y[2] = tried[n]
      <3>1. PICK i \in stops : tried[i] = y[2] /\ rank[i] <= y[1]
        BY <1>7
      <3>2. i \in 1..L /\ n <= i
        BY <1>3, <2>2
      <3>3. y[1] <= rank[n]
        BY <2>5, <2>8
      <3>4. y[1] \in 1..hi /\ rank[i] \in 1..hi /\ rank[n] \in 1..hi
        BY <1>1, <1>5, <2>3, <3>2
      <3>5. ~(n < i)
        BY <1>5, <2>3, <3>1, <3>2, <3>3, <3>4
      <3>6. i = n
        BY <1>4, <2>3, <3>2, <3>5
      <3>. QED
        BY <3>1, <3>6
    <2>9. DocumentedPlace(machine, dll) = tried[n]
      <3>1. held # {} /\ \E y \in held : \A z \in held : y[1] <= z[1]
        BY <2>5, <2>7
      <3>. DEFINE y == CHOOSE y \in held : \A z \in held : y[1] <= z[1]
      <3>2. y \in held /\ \A z \in held : y[1] <= z[1]
        BY <3>1
      <3>3. DocumentedPlace(machine, dll) = y[2]
        BY <3>1 DEF DocumentedPlace, held
      <3>. HIDE DEF y
      <3>. QED
        BY <2>8, <3>2, <3>3
    <2>10. ASSUME NEW i \in 1..n PROVE q[i] \in documented
      <3>. DEFINE y == <<rank[i], tried[i]>>
      <3>1. i \in 1..L /\ i <= n
        BY <2>3, <2>4
      <3>2. y \in places /\ y[1] = rank[i] /\ y[2] = tried[i] /\ rank[i] \in 1..hi
        BY <1>5, <3>1
      <3>. HIDE DEF y
      <3>3. rank[i] <= rank[n]
        BY <2>3, <2>6, <3>1
      <3>4. \A z \in held : z[1] \in 1..hi
        BY <1>1, <1>5
      <3>5. \A z \in held : y[1] <= z[1]
        BY <2>5, <2>7, <3>2, <3>3, <3>4
      <3>6. y[2] \in documented
        BY <1>2, <3>2, <3>5
      <3>. QED
        BY <2>4, <3>2, <3>6
    <2>11. ASSUME NEW p \in documented PROVE \E i \in 1..n : q[i] = p
      <3>1. PICK y \in places : y[2] = p /\ \A z \in held : y[1] <= z[1]
        BY <1>2
      <3>2. PICK i \in 1..L : tried[i] = y[2] /\ rank[i] <= y[1]
        BY <1>5
      <3>3. y[1] <= rank[n]
        BY <2>5, <3>1
      <3>4. y[1] \in 1..hi /\ rank[i] \in 1..hi /\ rank[n] \in 1..hi
        BY <1>5, <2>3
      <3>5. ~(n < i)
        BY <1>5, <2>3, <3>2, <3>3, <3>4
      <3>6. i \in 1..n
        BY <1>4, <2>3, <3>5
      <3>. QED
        BY <2>4, <3>1, <3>2, <3>6
    <2>12. {q[i] : i \in 1..n} = documented
      BY <2>10, <2>11
    <2>13. Cardinality(documented) = n
      <3>1. \A i, j \in 1..n : i < j => q[i] # q[j]
        BY <1>5, <2>4
      <3>2. n \in Nat
        BY <1>4, <2>3
      <3>. QED
        BY <2>4, <2>12, <3>1, <3>2, CountOnce
    <2>14. \A i \in 1..n : there(q[i]) => i = n
      <3>. SUFFICES ASSUME NEW i \in 1..n, there(q[i]) PROVE i = n
        OBVIOUS
      <3>1. i \in stops
        BY <1>3, <2>4
      <3>. QED
        BY <2>2, <2>3, <3>1, <1>4
    <2>. QED
      BY <2>1, <2>4, <2>9, <2>12, <2>13, <2>14 DEF SearchedAsDocumented, r, documented, there
  <1>. QED
    BY <1>8, <1>9

\* The walk over files reads a system of Systems.
LEMMA SystemStays == ImportsSpec => [](system \in Systems)
  <1>1. ImportsInit => system \in Systems
    BY DEF ImportsInit
  <1>2. system \in Systems /\ [ImportsNext]_allvars => (system \in Systems)'
    BY DEF ImportsNext, PathMissing, Walk, Report, Returned, allvars
  <1>. QED
    BY <1>1, <1>2, PTL DEF ImportsSpec

\* resolve_dll searches in the documented order, with each directory once, and
\* stops at the first that has the file: for every PATH, whatever spellings the
\* directories have and whichever of them coincide.
THEOREM SearchIsDocumented == ImportsSpec => []DocumentedSearch
  <1>1. system \in Systems => DocumentedSearch
    <2>. SUFFICES ASSUME system \in Systems PROVE DocumentedSearch
      OBVIOUS
    <2>. DEFINE m == Machine(system)
                P == DOMAIN Key \cup {Empty}
    <2>1. m.path \in Seq(P)
      BY PathAssumption DEF Machine
    <2>. HIDE DEF m, P
    <2>2. \A d : SearchedAsDocumented(m, d)
      BY <2>1, TriedInOrder, SearchFollowsOrder
    <2>. QED
      BY <2>2 DEF DocumentedSearch, SearchedAsDocumented, m
  <1>. QED
    BY <1>1, SystemStays, PTL

-----------------------------------------------------------------------------
(* The PE reader.  In an image that the loader takes, the file and the      *)
(* mapped image have the same words where a section backs them.             *)

\* The section that backs some bytes is the only one at their address.
LEMMA BackedOnce ==
  ASSUME NEW img, ImageTyped(img), Loadable(img), NEW i \in DOMAIN img.sections,
         NEW s, s = img.sections[i], NEW rva \in Int,
         s.va <= rva, rva < s.va + s.raw_size, rva < s.va + MappedSize(s)
  PROVE  /\ RvaToOffset(img, rva) = s.raw_ptr + (rva - s.va)
         /\ MappedU32(img, rva) = ReadU32(img, s.raw_ptr + (rva - s.va))
  <1>. DEFINE sec == img.sections
              top(t) == t.va + Larger(t.vsize, t.raw_size)
  <1>1. MaxU32 \in Nat
    BY ImageAssumption
  <1>2. /\ DOMAIN sec = 1..Len(sec) /\ Len(sec) \in Nat
        /\ \A j \in DOMAIN sec : /\ sec[j].va \in Nat /\ sec[j].vsize \in Nat
                                 /\ sec[j].raw_ptr \in Nat /\ sec[j].raw_size \in Nat
    <2>1. sec \in Seq(SectionHeader)
      BY DEF ImageTyped
    <2>2. ASSUME NEW x \in SectionHeader
          PROVE  x.va \in Nat /\ x.vsize \in Nat /\ x.raw_ptr \in Nat /\ x.raw_size \in Nat
      BY <1>1 DEF SectionHeader
    <2>. HIDE DEF sec
    <2>3. DOMAIN sec = 1..Len(sec) /\ Len(sec) \in Nat /\ \A j \in DOMAIN sec : sec[j] \in SectionHeader
      BY <2>1
    <2>. QED
      BY <2>2, <2>3
  <1>3. /\ sec[i].raw_ptr + sec[i].raw_size <= MaxU32
        /\ \A j \in DOMAIN sec : top(sec[j]) <= MaxU32
        /\ \A j \in DOMAIN sec \ {i} : top(sec[i]) <= sec[j].va \/ top(sec[j]) <= sec[i].va
    BY DEF Loadable, SectionsApart
  <1>4. \A j \in DOMAIN sec : /\ top(sec[j]) \in Nat
                              /\ sec[j].va + sec[j].raw_size <= top(sec[j])
                              /\ sec[j].va + MappedSize(sec[j]) <= top(sec[j])
    <2>. HIDE DEF sec
    <2>. SUFFICES ASSUME NEW j \in DOMAIN sec
                  PROVE  /\ top(sec[j]) \in Nat
                         /\ sec[j].va + sec[j].raw_size <= top(sec[j])
                         /\ sec[j].va + MappedSize(sec[j]) <= top(sec[j])
      OBVIOUS
    <2>. DEFINE x == sec[j]
    <2>1. x.va \in Nat /\ x.vsize \in Nat /\ x.raw_size \in Nat
      BY <1>2
    <2>. HIDE DEF x
    <2>2. top(x) \in Nat /\ x.va + x.raw_size <= top(x) /\ x.va + MappedSize(x) <= top(x)
      BY <2>1 DEF Larger, MappedSize
    <2>. QED
      BY <2>2 DEF x
  <1>5. \A j \in DOMAIN sec : Holds(sec[j], rva) <=> sec[j].va <= rva /\ rva < top(sec[j])
    <2>. SUFFICES ASSUME NEW j \in DOMAIN sec
                  PROVE  Holds(sec[j], rva) <=> sec[j].va <= rva /\ rva < top(sec[j])
      OBVIOUS
    <2>1. top(sec[j]) <= MaxU32 /\ top(sec[j]) \in Nat
      BY <1>3, <1>4
    <2>2. SaturatingAdd(sec[j].va, Larger(sec[j].vsize, sec[j].raw_size)) = top(sec[j])
      <3>. DEFINE a == sec[j].va
                  b == Larger(sec[j].vsize, sec[j].raw_size)
      <3>1. ~(a + b > MaxU32)
        BY <1>1, <2>1
      <3>. QED
        BY <3>1 DEF SaturatingAdd
    <2>. QED
      BY <2>2 DEF Holds
  <1>. HIDE DEF top, sec
  <1>6. s = sec[i] /\ i \in DOMAIN sec /\ rva < top(sec[i])
    BY <1>2, <1>4 DEF sec
  <1>7. \A j \in DOMAIN sec : (sec[j].va <= rva /\ rva < top(sec[j])) => j = i
    <2>. SUFFICES ASSUME NEW j \in DOMAIN sec \ {i}, sec[j].va <= rva, rva < top(sec[j])
                  PROVE  FALSE
      OBVIOUS
    <2>1. top(sec[i]) <= sec[j].va \/ top(sec[j]) <= sec[i].va
      BY <1>3
    <2>2. top(sec[i]) \in Nat /\ top(sec[j]) \in Nat /\ sec[i].va \in Nat /\ sec[j].va \in Nat
      BY <1>2, <1>4, <1>6
    <2>. QED
      BY <1>6, <2>1, <2>2
  <1>8. {j \in DOMAIN sec : Holds(sec[j], rva)} = {i}
    BY <1>5, <1>6, <1>7
  <1>9. Mapped(img, rva) = {i}
    <2>1. \A j \in DOMAIN sec : (sec[j].va <= rva /\ rva < sec[j].va + MappedSize(sec[j])) <=> j = i
      <3>. SUFFICES ASSUME NEW j \in DOMAIN sec
                    PROVE  (sec[j].va <= rva /\ rva < sec[j].va + MappedSize(sec[j])) <=> j = i
        OBVIOUS
      <3>1. CASE j = i
        BY <1>6, <3>1
      <3>2. CASE j # i
        <4>1. ~(sec[j].va <= rva /\ rva < top(sec[j]))
          BY <1>7, <3>2
        <4>2. /\ top(sec[j]) \in Nat /\ sec[j].va + MappedSize(sec[j]) <= top(sec[j])
              /\ sec[j].va + MappedSize(sec[j]) \in Nat
          BY <1>2, <1>4 DEF MappedSize
        <4>. QED
          BY <3>2, <4>1, <4>2
      <3>. QED
        BY <3>1, <3>2
    <2>. QED
      BY <1>6, <2>1 DEF Mapped, sec
  <1>10. rva - s.va < s.raw_size /\ ~(s.raw_ptr + (rva - s.va) > MaxU32)
    BY <1>1, <1>2, <1>3, <1>6
  <1>11. Least({i}) = i
    BY <1>2, <1>6 DEF Least
  <1>12. RvaToOffset(img, rva) = s.raw_ptr + (rva - s.va)
    BY <1>6, <1>8, <1>10, <1>11 DEF RvaToOffset, sec
  <1>13. MappedU32(img, rva) = ReadU32(img, s.raw_ptr + (rva - s.va))
    BY <1>6, <1>9, <1>10 DEF MappedU32, sec
  <1>. QED
    BY <1>12, <1>13

Fields == {0, 4, 8, NameField, 16}

LEMMA LeastFacts ==
  ASSUME NEW S \in SUBSET Nat, S # {}
  PROVE  Least(S) \in S /\ \A x \in S : Least(S) <= x
  <1>1. \E x \in S : \A y \in S : x <= y
    BY LeastNatural
  <1>. QED
    BY <1>1 DEF Least

\* Nothing is mapped at the end of the address space.
LEMMA BeyondMapped ==
  ASSUME NEW img, ImageTyped(img), Loadable(img), NEW rva \in Int, MaxU32 <= rva
  PROVE  MappedU32(img, rva) = 0
  <1>. DEFINE sec == img.sections
  <1>1. MaxU32 \in Nat
    BY ImageAssumption
  <1>2. ASSUME NEW j \in DOMAIN sec PROVE sec[j].va + MappedSize(sec[j]) <= MaxU32
    <2>. DEFINE x == sec[j]
    <2>1. x \in SectionHeader
      BY DEF ImageTyped
    <2>2. x.va + Larger(x.vsize, x.raw_size) <= MaxU32
      BY DEF Loadable, SectionsApart
    <2>. HIDE DEF x
    <2>3. x.va \in Nat /\ x.vsize \in Nat /\ x.raw_size \in Nat
      BY <1>1, <2>1 DEF SectionHeader
    <2>4. MappedSize(x) <= Larger(x.vsize, x.raw_size) /\ MappedSize(x) \in Nat
          /\ Larger(x.vsize, x.raw_size) \in Nat
      BY <2>3 DEF MappedSize, Larger
    <2>5. x.va + MappedSize(x) <= MaxU32
      BY <1>1, <2>2, <2>3, <2>4
    <2>. QED
      BY <2>5 DEF x
  <1>3. ASSUME NEW j \in DOMAIN sec PROVE ~(rva < sec[j].va + MappedSize(sec[j]))
    <2>. DEFINE x == sec[j]
    <2>1. x \in SectionHeader
      BY DEF ImageTyped
    <2>2. x.va + MappedSize(x) <= MaxU32
      BY <1>2
    <2>. HIDE DEF x
    <2>3. x.va + MappedSize(x) \in Nat
      BY <1>1, <2>1 DEF SectionHeader, MappedSize
    <2>4. ~(rva < x.va + MappedSize(x))
      BY <1>1, <2>2, <2>3
    <2>. QED
      BY <2>4 DEF x
  <1>4. Mapped(img, rva) = {}
    BY <1>3 DEF Mapped
  <1>. QED
    BY <1>4 DEF MappedU32

\* Bytes that are backed: where the code reads them is where the loader does.
LEMMA BackedFacts ==
  ASSUME NEW img, ImageTyped(img), Loadable(img), NEW rva \in Nat, NEW size \in Nat \ {0},
         Backed(img, rva, size)
  PROVE  \E off \in Nat :
           /\ RvaToOffset(img, rva) = off /\ off + size <= img.size
           /\ \A x \in 0..size - 1 : MappedU32(img, rva + x) = ReadU32(img, off + x)
  <1>. DEFINE sec == img.sections
  <1>1. PICK i \in DOMAIN sec : /\ sec[i].va <= rva
                                /\ rva + size <= sec[i].va + sec[i].raw_size
                                /\ rva + size <= sec[i].va + MappedSize(sec[i])
    BY DEF Backed
  <1>. DEFINE s == sec[i]
              off == s.raw_ptr + (rva - s.va)
  <1>2. MaxU32 \in Nat /\ img.size \in Nat
    BY ImageAssumption DEF ImageTyped
  <1>3. s.va \in Nat /\ s.vsize \in Nat /\ s.raw_ptr \in Nat /\ s.raw_size \in Nat
    <2>1. s \in SectionHeader
      BY DEF ImageTyped
    <2>. HIDE DEF s
    <2>. QED
      BY <1>2, <2>1 DEF SectionHeader
  <1>4. s.raw_ptr + s.raw_size <= img.size
    BY DEF Loadable, SectionsApart
  <1>5. s.va <= rva /\ rva + size <= s.va + s.raw_size /\ rva + size <= s.va + MappedSize(s)
    BY <1>1
  <1>6. s = img.sections[i] /\ i \in DOMAIN img.sections
    OBVIOUS
  <1>. HIDE DEF s, sec
  <1>7. off \in Nat /\ off + size <= img.size
    BY <1>2, <1>3, <1>4, <1>5
  <1>8. MappedSize(s) \in Nat
    BY <1>3 DEF MappedSize
  <1>9. ASSUME NEW x \in 0..size - 1
        PROVE  /\ RvaToOffset(img, rva + x) = off + x
               /\ MappedU32(img, rva + x) = ReadU32(img, off + x)
    <2>. DEFINE a == rva + x
    <2>1. a \in Int /\ s.va <= a /\ a < s.va + s.raw_size /\ a < s.va + MappedSize(s)
      BY <1>3, <1>5, <1>8
    <2>2. s.raw_ptr + (a - s.va) = off + x
      BY <1>3
    <2>. HIDE DEF a, off
    <2>3. /\ RvaToOffset(img, a) = s.raw_ptr + (a - s.va)
          /\ MappedU32(img, a) = ReadU32(img, s.raw_ptr + (a - s.va))
      BY <1>6, <2>1, BackedOnce
    <2>. QED
      BY <2>2, <2>3 DEF a
  <1>. HIDE DEF off
  <1>10. 0 \in 0..size - 1 /\ rva + 0 = rva /\ off + 0 = off
    BY <1>7
  <1>11. RvaToOffset(img, rva) = off
    BY <1>9, <1>10
  <1>. QED
    BY <1>7, <1>9, <1>11

\* The loop over descriptors meets those of the mapped image.
LEMMA DescriptorsMapped ==
  ASSUME NEW img, ImageTyped(img), Loadable(img), img.import_rva # 0
  PROVE  \E n \in Nat, off \in Nat :
           /\ RvaToOffset(img, img.import_rva) = off
           /\ DescriptorTable(img, off) =
                [last |-> off + 20 * n, offsets |-> {off + 20 * k : k \in 0..n - 1}]
           /\ InFile(img, off + 20 * n, 20)
           /\ MappedDescriptors(img) = {img.import_rva + 20 * k : k \in 0..n - 1}
           /\ \A k \in 0..n - 1 : MappedU32(img, (img.import_rva + 20 * k) + NameField)
                                    = ReadU32(img, (off + 20 * k) + NameField)
  <1>. DEFINE rva == img.import_rva
              M == MaxU32 \div 20
              IsNull(k) == \A field \in {0, 4, 8, NameField, 16} :
                             MappedU32(img, img.import_rva + 20 * k + field) = 0
              nulls == {k \in 0..M + 1 : IsNull(k)}
              n == Least(nulls)
              table == {img.import_rva + 20 * k : k \in 0..n - 1}
  <1>1. MaxU32 \in Nat /\ rva \in Nat /\ img.size \in Nat
    BY ImageAssumption DEF ImageTyped, IsU32
  <1>2. M \in Nat /\ MaxU32 < 20 * (M + 1)
    BY <1>1
  <1>3. MappedDescriptors(img) = table
    BY DEF MappedDescriptors
  <1>4. M + 1 \in nulls
    <2>. SUFFICES ASSUME NEW field \in {0, 4, 8, NameField, 16}
                  PROVE  MappedU32(img, img.import_rva + 20 * (M + 1) + field) = 0
      BY <1>2
    <2>. DEFINE a == img.import_rva + 20 * (M + 1) + field
    <2>1. field \in Nat
      BY DEF NameField
    <2>2. a \in Int /\ MaxU32 <= a
      BY <1>1, <1>2, <2>1
    <2>. HIDE DEF a
    <2>3. MappedU32(img, a) = 0
      BY <2>2, BeyondMapped
    <2>. QED
      BY <2>3 DEF a
  <1>5. nulls \in SUBSET Nat
    BY <1>2
  <1>6. n \in nulls /\ n \in Nat /\ \A k \in nulls : n <= k
    <2>. HIDE DEF nulls
    <2>. QED
      BY <1>4, <1>5, LeastFacts
  <1>7. IsNull(n) /\ \A k \in 0..n - 1 : ~IsNull(k)
    <2>1. \A k \in 0..n - 1 : k \in 0..M + 1 /\ k \notin nulls
      BY <1>2, <1>6
    <2>. QED
      BY <1>6, <2>1
  <1>. HIDE DEF M, nulls, n
  <1>8. Cardinality(table) = n
    <2>. DEFINE q == [k \in 1..n |-> img.import_rva + 20 * (k - 1)]
    <2>1. DOMAIN q = 1..n /\ \A i, j \in 1..n : i < j => q[i] # q[j]
      BY <1>1, <1>6
    <2>2. ASSUME NEW k \in 0..n - 1 PROVE \E j \in 1..n : q[j] = img.import_rva + 20 * k
      <3>1. k + 1 \in 1..n /\ (k + 1) - 1 = k
        BY <1>6
      <3>2. q[k + 1] = img.import_rva + 20 * k
        BY <3>1
      <3>. QED
        BY <3>1, <3>2
    <2>3. ASSUME NEW j \in 1..n PROVE q[j] \in table
      <3>1. j - 1 \in 0..n - 1
        BY <1>6
      <3>. QED
        BY <3>1
    <2>. HIDE DEF q
    <2>4. table = {q[i] : i \in 1..n}
      BY <2>2, <2>3
    <2>. HIDE DEF table
    <2>. QED
      BY <1>6, <2>1, <2>4, CountOnce
  <1>. DEFINE size == 20 * (n + 1)
  <1>9. Backed(img, rva, size)
    <2>. HIDE DEF table
    <2>. QED
      BY <1>3, <1>8 DEF Loadable
  <1>10. size \in Nat \ {0}
    BY <1>6
  <1>11. PICK off \in Nat :
          /\ RvaToOffset(img, rva) = off /\ off + size <= img.size
          /\ \A x \in 0..size - 1 : MappedU32(img, rva + x) = ReadU32(img, off + x)
    <2>. HIDE DEF rva, size
    <2>. QED
      BY <1>1, <1>9, <1>10, BackedFacts
  <1>12. ASSUME NEW k \in 0..n, NEW field \in Fields
         PROVE  MappedU32(img, img.import_rva + 20 * k + field) = ReadU32(img, off + 20 * k + field)
    <2>. DEFINE x == 20 * k + field
    <2>1. field \in 0..16
      BY DEF Fields, NameField
    <2>2. x \in 0..size - 1
      BY <1>6, <2>1
    <2>3. rva + x = img.import_rva + 20 * k + field /\ off + x = off + 20 * k + field
      BY <1>1, <2>1
    <2>. HIDE DEF x, size, rva
    <2>4. MappedU32(img, rva + x) = ReadU32(img, off + x)
      BY <1>11, <2>2
    <2>. QED
      BY <2>3, <2>4
  <1>13. \A k \in 0..n : NullDescriptor(img, off + 20 * k) <=> IsNull(k)
    BY <1>12 DEF NullDescriptor, Fields
  <1>14. \A k \in 0..n : InFile(img, off + 20 * k, 20)
    BY <1>1, <1>6, <1>11 DEF InFile
  <1>. DEFINE L == img.size \div 20
              ends == {k \in 0..L : ~InFile(img, off + 20 * k, 20) \/ NullDescriptor(img, off + 20 * k)}
  <1>15. n \in 0..L
    <2>1. 20 * n <= img.size
      BY <1>1, <1>6, <1>11
    <2>2. L \in Nat /\ img.size < 20 * (L + 1)
      BY <1>1
    <2>. HIDE DEF L
    <2>. QED
      BY <1>1, <1>6, <2>1, <2>2
  <1>16. n \in ends /\ \A k \in ends : n <= k
    <2>1. n \in ends
      BY <1>6, <1>7, <1>13, <1>15
    <2>2. ASSUME NEW k \in ends, ~(n <= k) PROVE FALSE
      <3>1. k \in 0..n - 1 /\ k \in 0..n
        BY <1>6, <2>2
      <3>. QED
        BY <1>7, <1>13, <1>14, <2>2, <3>1
    <2>. QED
      BY <2>1, <2>2
  <1>17. Least(ends) = n
    <2>1. ends \in SUBSET Nat
      BY <1>1
    <2>. HIDE DEF ends
    <2>2. Least(ends) \in ends /\ \A k \in ends : Least(ends) <= k
      BY <1>16, <2>1, LeastFacts
    <2>. DEFINE m == Least(ends)
    <2>3. m \in Nat /\ m <= n /\ n <= m
      BY <1>16, <2>1, <2>2
    <2>. HIDE DEF m
    <2>4. m = n
      BY <1>6, <2>3
    <2>. QED
      BY <2>4 DEF m
  <1>18. DescriptorTable(img, off) =
           [last |-> off + 20 * n, offsets |-> {off + 20 * k : k \in 0..n - 1}]
    BY <1>17, Zenon DEF DescriptorTable
  <1>19. InFile(img, off + 20 * n, 20)
    BY <1>6, <1>14
  <1>20. \A k \in 0..n - 1 : MappedU32(img, (img.import_rva + 20 * k) + NameField)
                               = ReadU32(img, (off + 20 * k) + NameField)
    BY <1>6, <1>12 DEF Fields
  <1>. QED
    BY <1>3, <1>6, <1>11, <1>18, <1>19, <1>20

\* direct_imports sees the imports that the loader sees.
LEMMA LoadableIsRead ==
  ASSUME NEW img, ImageTyped(img), Loadable(img)
  PROVE  DirectImports(img) = [ok |-> TRUE, names |-> LoaderImports(img)]
  <1>0. LayoutOk(img)
    BY DEF Loadable
  <1>1. CASE img.import_rva = 0
    <2>1. LoaderImports(img) = {} /\ DirectImports(img) = NoImports
      BY <1>0, <1>1 DEF LoaderImports, DirectImports
    <2>. QED
      BY <2>1 DEF NoImports
  <1>2. CASE img.import_rva # 0
    <2>1. PICK n \in Nat, off \in Nat :
            /\ RvaToOffset(img, img.import_rva) = off
            /\ DescriptorTable(img, off) =
                 [last |-> off + 20 * n, offsets |-> {off + 20 * k : k \in 0..n - 1}]
            /\ InFile(img, off + 20 * n, 20)
            /\ MappedDescriptors(img) = {img.import_rva + 20 * k : k \in 0..n - 1}
            /\ \A k \in 0..n - 1 : MappedU32(img, (img.import_rva + 20 * k) + NameField)
                                     = ReadU32(img, (off + 20 * k) + NameField)
      BY <1>2, DescriptorsMapped
    <2>. DEFINE from(k) == img.import_rva + 20 * k
                at(k) == off + 20 * k
                Name(k) == MappedU32(img, from(k) + NameField)
                NameOff(o) == RvaToOffset(img, ReadU32(img, o + NameField))
    <2>2. ASSUME NEW k \in 0..n - 1
          PROVE  /\ NameOff(at(k)) # None /\ CString(img, NameOff(at(k)))
                 /\ ReadU32(img, NameOff(at(k))) = MappedU32(img, Name(k))
      <3>1. from(k) \in MappedDescriptors(img)
        BY <2>1
      <3>2. Backed(img, Name(k), 4) /\ MappedU32(img, Name(k)) \in DOMAIN Lowercase
        BY <1>2, <3>1 DEF Loadable
      <3>3. ReadU32(img, at(k) + NameField) = Name(k)
        BY <2>1
      <3>4. Name(k) \in Nat
        <4>1. MaxU32 \in Nat
          BY ImageAssumption
        <4>2. \A o : ReadU32(img, o) \in Nat
          BY <4>1 DEF ReadU32, ImageTyped, IsU32
        <4>. QED
          BY <3>3, <4>2
      <3>. DEFINE a == Name(k)
                  four == 4
      <3>5. four \in Nat \ {0} /\ Backed(img, a, four)
        BY <3>2
      <3>. HIDE DEF a, four
      <3>6. PICK o \in Nat : /\ RvaToOffset(img, a) = o /\ o + four <= img.size
                             /\ \A x \in 0..four - 1 : MappedU32(img, a + x) = ReadU32(img, o + x)
        BY <3>4, <3>5, BackedFacts DEF a
      <3>7. 0 \in 0..four - 1 /\ a + 0 = a /\ o + 0 = o
        BY <3>4 DEF four, a
      <3>8. MappedU32(img, a) = ReadU32(img, o)
        BY <3>6, <3>7
      <3>9. NameOff(at(k)) = o
        BY <3>3, <3>6 DEF a
      <3>10. InFile(img, o, 1)
        <4>1. img.size \in Nat
          BY DEF ImageTyped
        <4>. QED
          BY <3>6, <4>1 DEF InFile, four
      <3>11. o # None
        BY NoneAssumption
      <3>. QED
        BY <3>2, <3>8, <3>9, <3>10, <3>11 DEF CString, a
    <2>. DEFINE table == DescriptorTable(img, RvaToOffset(img, img.import_rva))
                offs == {at(k) : k \in 0..n - 1}
    <2>3. table.last = off + 20 * n /\ table.offsets = offs
      BY <2>1
    <2>4. \A o \in offs : NameOff(o) # None /\ CString(img, NameOff(o))
      <3>. HIDE DEF NameOff
      <3>. QED
        BY <2>2
    <2>5. off # None
      BY NoneAssumption
    <2>6. DirectImports(img) = [ok |-> TRUE, names |-> {Lowercase[ReadU32(img, NameOff(o))] : o \in offs}]
      <3>. DEFINE result == [ok |-> TRUE,
                             names |-> {Lowercase[ReadU32(img, NameOff(o))] : o \in table.offsets}]
      <3>1. ~(\/ RvaToOffset(img, img.import_rva) = None
              \/ ~InFile(img, table.last, 20)
              \/ \E o \in table.offsets : NameOff(o) = None \/ ~CString(img, NameOff(o)))
        <4>. HIDE DEF table, offs, NameOff
        <4>. QED
          BY <2>1, <2>3, <2>4, <2>5
      <3>2. DirectImports(img) = result
        BY <1>0, <1>2, <3>1, Zenon DEF DirectImports
      <3>. HIDE DEF table
      <3>. QED
        BY <2>3, <3>2
    <2>7. LoaderImports(img) = {Lowercase[MappedU32(img, Name(k))] : k \in 0..n - 1}
      <3>1. LoaderImports(img) = {Lowercase[MappedU32(img, MappedU32(img, rva + NameField))] :
                                    rva \in MappedDescriptors(img)}
        BY <1>2 DEF LoaderImports
      <3>2. MappedDescriptors(img) = {from(k) : k \in 0..n - 1}
        BY <2>1
      <3>. QED
        BY <3>1, <3>2
    <2>8. {Lowercase[ReadU32(img, NameOff(o))] : o \in offs}
            = {Lowercase[MappedU32(img, Name(k))] : k \in 0..n - 1}
      <3>1. {Lowercase[ReadU32(img, NameOff(o))] : o \in offs}
              = {Lowercase[ReadU32(img, NameOff(at(k)))] : k \in 0..n - 1}
        <4>. HIDE DEF NameOff
        <4>. QED
          OBVIOUS
      <3>2. \A k \in 0..n - 1 : ReadU32(img, NameOff(at(k))) = MappedU32(img, Name(k))
        BY <2>2
      <3>. HIDE DEF NameOff, Name, at
      <3>. QED
        BY <3>1, <3>2
    <2>. QED
      BY <2>6, <2>7, <2>8
  <1>. QED
    BY <1>1, <1>2

\* The world of the walk is that of its system.
LEMMA WorldStays == ImportsSpec => [](world = WorldOf(system) /\ system \in Systems)
  <1>1. ImportsInit => world = WorldOf(system) /\ system \in Systems
    BY DEF ImportsInit
  <1>2. world = WorldOf(system) /\ system \in Systems /\ [ImportsNext]_allvars
          => (world = WorldOf(system) /\ system \in Systems)'
    BY DEF ImportsNext, PathMissing, Walk, Report, Returned, allvars, vars, Step, Scan, ScanFails,
           Stop, Finish, SkipApiSet, Found, Fail
  <1>. QED
    BY <1>1, <1>2, PTL DEF ImportsSpec

\* The imports that the walk sees are those of the mapped image, for every
\* layout of sections that the loader takes.
THEOREM ReadsWhatIsMapped == ImportsSpec => []ImportsAreMapped
  <1>1. world = WorldOf(system) /\ system \in Systems /\ TypeOK => ImportsAreMapped
    <2>. SUFFICES ASSUME world = WorldOf(system), system \in Systems, TypeOK,
                         NEW p \in visited, IsImage(system, p), Loadable(system.content[p])
                  PROVE  p \notin world.malformed
                         /\ world.imports[p] = LoaderImports(system.content[p])
      BY DEF ImportsAreMapped
    <2>. DEFINE img == system.content[p]
    <2>1. p \in Paths
      BY DEF TypeOK
    <2>2. ImageTyped(img)
      BY <2>1, ImageAssumption
    <2>3. DirectImports(img) = [ok |-> TRUE, names |-> LoaderImports(img)]
      <3>. HIDE DEF img
      <3>. QED
        BY <2>2, LoadableIsRead DEF img
    <2>4. Parsed(system, p).ok /\ Parsed(system, p).names = LoaderImports(img)
      BY <2>3 DEF Parsed
    <2>. QED
      BY <2>1, <2>4 DEF WorldOf
  <1>. QED
    BY <1>1, WorldStays, ImportsTypeCorrect, PTL

-----------------------------------------------------------------------------
(* The exit code of `imports`.                                             *)

\* How a walk ends: with all modules at every distance, or at one that cannot
\* be parsed, or early, if its mode lets it.
EndInv ==
  /\ status = "done" => \A n \in Distances : UpTo(world)[n] \subseteq visited
  /\ status = "error" => visited \cap world.malformed # {}
  /\ status = "stopped" => StopsEarly(world.mode)
  /\ todo # {} => status = "walking"
  /\ world \in Worlds

LEMMA EndInvariant == Spec => []EndInv
<1>1. Init => EndInv
  BY DEF Init, Start, EndInv
<1>2. EndInv /\ ReferenceInv /\ [Next]_vars => EndInv'
  <2>. SUFFICES ASSUME EndInv, ReferenceInv, [Next]_vars PROVE EndInv'
    OBVIOUS
  <2>1. CASE Scan
    BY <2>1 DEF Scan, EndInv
  <2>2. CASE ScanFails
    <3>1. /\ queue # <<>> /\ Head(queue).path \in world.malformed
          /\ status' = "error" /\ todo' = {} /\ visited' = visited /\ world' = world
      BY <2>2 DEF ScanFails
    <3>2. TypeOK /\ QueueExact
      BY <2>2 DEF ScanFails, ReferenceInv, WalkInv, Typed, BreadthFirst
    <3>3. Head(queue) = queue[1] /\ 1 \in 1..Len(queue)
      BY <3>1, <3>2, TailFacts DEF TypeOK
    <3>4. Head(queue).path \in visited
      BY <3>2, <3>3 DEF QueueExact, Queued
    <3>. QED
      BY <3>1, <3>4 DEF EndInv
  <2>3. CASE Stop
    BY <2>3 DEF Stop, EndInv, BeyondLimit
  <2>4. CASE Finish
    <3>1. /\ status' = "done" /\ todo = {} /\ todo' = {} /\ queue = <<>>
          /\ visited' = visited /\ world' = world
      BY <2>4 DEF Finish
    <3>2. NodeExact /\ ImportsReached
      BY <2>4 DEF Finish, ReferenceInv, BreadthFirst
    <3>3. \A n \in Distances : UpTo(world)[n] \subseteq visited
      BY <3>1, <3>2, Closed
    <3>. QED
      BY <3>1, <3>3 DEF EndInv
  <2>5. ASSUME NEW d \in todo, SkipApiSet(d) \/ Found(d) \/ Fail(d) PROVE EndInv'
    BY <2>5 DEF SkipApiSet, Found, Fail, EndInv
  <2>6. CASE UNCHANGED vars
    BY <2>6 DEF vars, EndInv
  <2>. QED
    BY <2>1, <2>2, <2>3, <2>4, <2>5, <2>6 DEF Next, Step, Ended
<1>. QED
  BY <1>1, <1>2, ReferenceInvariant, PTL DEF Spec

\* The exit code once there is one: it comes from the walk that has ended, or
\* there was no program to walk from.
ExitInv ==
  /\ ~Startable /\ exit = None => status = "walking"
  /\ exit # None =>
       IF Startable
         THEN /\ system.caller = "imports" /\ status # "walking"
              /\ exit = IF status = "error" THEN 21 ELSE IF failures # <<>> THEN 10 ELSE 0
         ELSE exit = 20

LEMMA ExitInvariant == ImportsSpec => []ExitInv
<1>1. ImportsInit => ExitInv
  BY DEF ImportsInit, Start, ExitInv
<1>2. (Startable => EndInv) /\ ExitInv /\ [ImportsNext]_allvars => ExitInv'
  <2>. SUFFICES ASSUME Startable => EndInv, ExitInv, [ImportsNext]_allvars PROVE ExitInv'
    OBVIOUS
  <2>0. 20 # None
    BY NoneAssumption
  <2>1. CASE PathMissing
    BY <2>0, <2>1 DEF PathMissing, Startable, ExitInv
  <2>2. CASE Walk
    <3>1. Startable /\ Startable' /\ exit' = exit /\ system' = system
      BY <2>2 DEF Walk, Startable
    <3>2. status = "walking"
      BY <2>2, <3>1 DEF Walk, Step, Scan, ScanFails, Stop, Finish, EndInv
    <3>. QED
      BY <3>1, <3>2 DEF ExitInv
  <2>3. CASE Report
    <3>1. Startable
      BY <2>3 DEF Report, ExitInv
    <3>. QED
      BY <2>3, <3>1 DEF Report, ExitInv, Startable, vars
  <2>4. CASE Returned \/ UNCHANGED allvars
    BY <2>4 DEF Returned, allvars, vars, ExitInv, Startable
  <2>. QED
    BY <2>1, <2>2, <2>3, <2>4 DEF ImportsNext
<1>3. Unstarted => ~Startable
  BY DEF Unstarted
<1>. QED
  BY <1>1, <1>2, <1>3, ImportsAreWalks, EndInvariant, PTL DEF ImportsSpec

\* What the walk gets for an import is what the documented order has for it.
LEMMA ResolvedIsServed ==
  ASSUME system \in Systems, world = WorldOf(system), world \in Worlds,
         NEW p \in Paths, NEW d \in world.imports[p] \ ApiSets
  PROVE  /\ d \in Names
         /\ Served(d) <=> world.resolve[d] \in Paths
         /\ Served(d) => world.resolve[d] = DocumentedPlace(Machine(system), d)
         /\ world.resolve[d] \in Paths \cup {Missing, BadImage}
  <1>. DEFINE m == Machine(system)
              r == ResolveDll(m, d)
              tried == Tried(m, d)
  <1>1. d \in Names /\ world.resolve[d] \in Paths \cup {Missing, BadImage}
    BY NamesAssumption, WorldsAssumption
  <1>2. world.resolve[d] = IF r.kind = "absent" THEN Missing
                           ELSE IF r.kind = "bad" THEN BadImage ELSE r.chosen
    BY <1>1 DEF WorldOf, Resolution
  <1>3. r.chosen = DocumentedPlace(m, d)
    <2>1. m.path \in Seq(DOMAIN Key \cup {Empty})
      BY PathAssumption DEF Machine
    <2>. HIDE DEF m
    <2>2. SearchedAsDocumented(m, d)
      BY <2>1, TriedInOrder, SearchFollowsOrder
    <2>. QED
      BY <2>2 DEF SearchedAsDocumented
  <1>4. \A i \in DOMAIN tried : tried[i] \in DOMAIN system.content \ {Missing, BadImage, None}
    BY <1>1, NamesAssumption
  <1>5. Served(d) <=> r.chosen # None /\ m.files[r.chosen] = "image"
    BY <1>3 DEF Served
  <1>6. \/ r.kind = "absent" /\ r.chosen = None
        \/ \E n \in DOMAIN tried : /\ r.chosen = tried[n] /\ r.kind = m.files[tried[n]]
                                   /\ m.files[tried[n]] # "absent"
    <2>. DEFINE stops == {i \in DOMAIN tried : Stops(m, tried[i])}
                n == CHOOSE i \in stops : \A j \in stops : i <= j
    <2>1. CASE stops = {}
      BY <2>1 DEF ResolveDll
    <2>2. CASE stops # {}
      <3>1. r.chosen = tried[n] /\ r.kind = m.files[tried[n]]
        BY <2>2 DEF ResolveDll
      <3>2. n \in stops
        <4>1. PICK P : m.path \in Seq(P)
          BY PathAssumption DEF Machine
        <4>. HIDE DEF m
        <4>2. Len(tried) \in Nat /\ tried = [i \in 1..Len(tried) |-> tried[i]]
          BY <4>1, TriedInOrder
        <4>3. DOMAIN tried = 1..Len(tried)
          <5>. HIDE DEF tried
          <5>. QED
            BY <4>2
        <4>4. stops \in SUBSET Nat
          BY <4>2, <4>3
        <4>. HIDE DEF stops
        <4>5. \E i \in stops : \A j \in stops : i <= j
          BY <2>2, <4>4, LeastNatural
        <4>. QED
          BY <4>5
      <3>. HIDE DEF n
      <3>. QED
        BY <3>1, <3>2 DEF Stops
    <2>. QED
      BY <2>1, <2>2
  <1>7. ASSUME NEW n \in DOMAIN tried, r.chosen = tried[n], r.kind = m.files[tried[n]],
               m.files[tried[n]] # "absent"
        PROVE  /\ Served(d) <=> world.resolve[d] \in Paths
               /\ Served(d) => world.resolve[d] = r.chosen
    <2>1. tried[n] \in DOMAIN system.content /\ tried[n] \notin {Missing, BadImage, None}
      BY <1>4
    <2>2. m.files[tried[n]] \in {"absent", "image", "bad"}
      <3>. HIDE DEF tried
      <3>. QED
        BY <2>1 DEF Machine, FileKind
    <2>. HIDE DEF m, r, tried
    <2>3. CASE m.files[tried[n]] = "bad"
      BY <1>2, <1>5, <1>7, <2>3, PathsAssumption
    <2>4. CASE m.files[tried[n]] = "image"
      BY <1>1, <1>2, <1>5, <1>7, <2>1, <2>4
    <2>. QED
      BY <1>7, <2>2, <2>3, <2>4
  <1>8. ASSUME r.kind = "absent", r.chosen = None
        PROVE  ~Served(d) /\ world.resolve[d] \notin Paths
    <2>. HIDE DEF m, r
    <2>. QED
      BY <1>2, <1>5, <1>8, PathsAssumption
  <1>9. Served(d) => world.resolve[d] = r.chosen
    BY <1>6, <1>7, <1>8
  <1>10. Served(d) <=> world.resolve[d] \in Paths
    BY <1>6, <1>7, <1>8
  <1>. QED
    BY <1>1, <1>3, <1>9, <1>10

\* When the loader takes every module that was visited, the walk has reached
\* the modules that the program needs.
LEMMA NeededIsReached ==
  ASSUME system \in Systems, world = WorldOf(system), world \in Worlds, TypeOK,
         system.caller = "imports", ImportsAreMapped, status = "done", EndInv,
         \A p \in visited : IsImage(system, p) /\ Loadable(system.content[p])
  PROVE  /\ Needed = UpTo(world)[Cardinality(Paths)] /\ Needed \subseteq visited
         /\ \A p \in visited : p \notin world.malformed /\ Needs(p) = world.imports[p] \ ApiSets
  <1>. DEFINE N == Cardinality(Paths)
              S == SUBSET visited
              e == {Root}
              step == [k \in 1..N |-> [X \in S |-> NeededBeyond(X)]]
              g == UpTo(world)
  <1>1. N \in Nat /\ Distances = 0..N
    BY DistancesFacts DEF Distances
  <1>2. visited \subseteq Paths
    BY DEF TypeOK
  <1>3. \A p \in visited : p \notin world.malformed /\ Needs(p) = world.imports[p] \ ApiSets
    BY DEF ImportsAreMapped, Needs
  <1>4. \A n \in Distances : g[n] \in S
    BY DEF EndInv
  <1>5. ASSUME NEW p \in visited PROVE NeededPaths(world, p) = ServedFor(p)
    <2>1. ASSUME NEW d \in world.imports[p] \ ApiSets
          PROVE  /\ NeededFor(world, p, d) = world.resolve[d]
                 /\ Served(d) <=> world.resolve[d] \in Paths
                 /\ Served(d) => world.resolve[d] = DocumentedPlace(Machine(system), d)
      <3>1. /\ d \in Names
            /\ Served(d) <=> world.resolve[d] \in Paths
            /\ Served(d) => world.resolve[d] = DocumentedPlace(Machine(system), d)
        BY <1>2, ResolvedIsServed
      <3>2. world.observed[d] = None
        <4>1. world.observed = system.observed
          BY DEF WorldOf
        <4>. QED
          BY <3>1, <4>1, CallerAssumption
      <3>3. NeededFor(world, p, d) = world.resolve[d]
        BY <3>2, Zenon DEF NeededFor, LoadedImport
      <3>. QED
        BY <3>1, <3>3
    <2>2. Needs(p) = world.imports[p] \ ApiSets
      BY <1>3
    <2>3. ASSUME NEW q \in NeededPaths(world, p) PROVE q \in ServedFor(p)
      <3>1. PICK d \in world.imports[p] \ ApiSets : q = NeededFor(world, p, d) /\ q \in Paths
        BY DEF NeededPaths
      <3>. QED
        BY <2>1, <2>2, <3>1 DEF ServedFor
    <2>4. ASSUME NEW q \in ServedFor(p) PROVE q \in NeededPaths(world, p)
      <3>1. PICK d \in world.imports[p] \ ApiSets :
              Served(d) /\ q = DocumentedPlace(Machine(system), d)
        BY <2>2 DEF ServedFor
      <3>2. q = NeededFor(world, p, d) /\ q \in Paths
        BY <2>1, <3>1
      <3>. QED
        BY <3>2 DEF NeededPaths
    <2>. QED
      BY <2>3, <2>4
  <1>6. ASSUME NEW X \in S PROVE Beyond(world, X) = NeededBeyond(X)
    <2>1. X \ world.malformed = X
      BY <1>3
    <2>2. {NeededPaths(world, p) : p \in X} = {ServedFor(p) : p \in X}
      BY <1>5
    <2>. QED
      BY <2>1, <2>2 DEF Beyond, NeededBeyond
  <1>7. g \in [0..N -> S] /\ g[0] = e
    <2>1. g \in [Distances -> SUBSET Paths] /\ g[0] = {Root}
      BY UpToFacts
    <2>. HIDE DEF g, S
    <2>. QED
      BY <1>1, <1>4, <2>1
  <1>8. ASSUME NEW k \in 1..N PROVE g[k] = step[k][g[k - 1]] /\ g[k] = NeededBeyond(g[k - 1])
    <2>1. k \in Distances \ {0} /\ k - 1 \in Distances
      BY <1>1
    <2>2. g[k] = Beyond(world, g[k - 1]) /\ g[k - 1] \in S
      BY <1>4, <2>1, UpToFacts
    <2>3. g[k] = NeededBeyond(g[k - 1])
      BY <1>6, <2>2
    <2>. HIDE DEF g
    <2>4. step[k][g[k - 1]] = NeededBeyond(g[k - 1])
      BY <2>2
    <2>. QED
      BY <2>3, <2>4
  <1>9. Iterates(g, N, S, e, step)
    <2>. HIDE DEF g, N, S, e, step
    <2>. QED
      BY <1>7, <1>8 DEF Iterates
  <1>. DEFINE upTo[n \in 0..N] == IF n = 0 THEN e ELSE NeededBeyond(upTo[n - 1])
  <1>10. upTo = [n \in 0..N |-> IF n = 0 THEN e ELSE NeededBeyond(upTo[n - 1])]
    <2>. HIDE DEF S, step, e
    <2>1. \A n \in 0..N : n = 0 \/ n \in 1..N
      BY <1>1
    <2>2. g = [n \in 0..N |-> IF n = 0 THEN e ELSE NeededBeyond(g[n - 1])]
      <3>. HIDE DEF g, N
      <3>. QED
        BY <1>7, <1>8, <2>1
    <2>. QED
      BY <2>2
  <1>11. Needed = upTo[N]
    BY DEF Needed
  <1>. HIDE DEF upTo
  <1>12. upTo[N] = g[N]
    <2>1. upTo[0] = e
      BY <1>1, <1>10
    <2>2. ASSUME NEW k \in 1..N, upTo[k - 1] \in S PROVE upTo[k] = step[k][upTo[k - 1]]
      <3>. HIDE DEF S, e, N
      <3>1. k \in 0..N /\ k # 0
        BY <1>1
      <3>2. upTo[k] = NeededBeyond(upTo[k - 1])
        BY <1>10, <3>1
      <3>. QED
        BY <2>2, <3>2
    <2>. HIDE DEF N, S, e, step, g
    <2>. QED
      BY <1>1, <1>9, <2>1, <2>2, SameIterates
  <1>13. g[N] \in S
    BY <1>1, <1>4
  <1>. QED
    BY <1>3, <1>11, <1>12, <1>13

\* What is within some distance is at one.
LEMMA AtSomeDistance ==
  ASSUME NEW w, NEW m \in Distances, NEW p \in UpTo(w)[m]
  PROVE  \E n \in Distances : p \in Level(w)[n]
  <1>. DEFINE T == {n \in Distances : p \in UpTo(w)[n]}
  <1>1. T \in SUBSET Nat /\ T # {}
    BY DistancesFacts
  <1>2. PICK n \in T : \A k \in T : n <= k
    BY <1>1, LeastNatural
  <1>3. Level(w)[n] = IF n = 0 THEN {Root} ELSE UpTo(w)[n] \ UpTo(w)[n - 1]
    BY LevelFacts
  <1>4. CASE n = 0
    BY <1>2, <1>3, <1>4, UpToFacts
  <1>5. CASE n # 0
    <2>1. n - 1 \in Distances /\ ~(n <= n - 1)
      BY <1>2, <1>5, DistancesFacts DEF Distances
    <2>2. n - 1 \notin T
      BY <1>2, <2>1
    <2>. QED
      BY <1>2, <1>3, <1>5, <2>1, <2>2
  <1>. QED
    BY <1>4, <1>5

\* The exit code of `imports` is true: if the loader takes all the modules that
\* were visited, it is 0 when every name that the needed modules import is
\* found as an image by the documented order, and 10 when one is not.
THEOREM ExitCodeIsTrue == ImportsSpec => []ExitIsTruth
<1>. DEFINE Known == /\ ExitInv /\ ImportsAreMapped /\ AllFailuresReported /\ TypeOK
                     /\ world = WorldOf(system) /\ system \in Systems
<1>1. Known /\ (Startable => EndInv) => ExitIsTruth
  <2>. SUFFICES ASSUME Known, Startable => EndInv, exit # None PROVE ExitIsTruth
    BY DEF ExitIsTruth
  <2>1. CASE ~Startable
    BY <2>1 DEF ExitIsTruth, ExitInv, Startable
  <2>2. CASE Startable /\ \E p \in visited : ~(IsImage(system, p) /\ Loadable(system.content[p]))
    BY <2>2 DEF ExitIsTruth, Startable
  <2>3. CASE /\ Startable
             /\ \A p \in visited : IsImage(system, p) /\ Loadable(system.content[p])
    <3>1. /\ EndInv /\ world \in Worlds /\ system.caller = "imports" /\ status # "walking"
          /\ exit = IF status = "error" THEN 21 ELSE IF failures # <<>> THEN 10 ELSE 0
      BY <2>3 DEF EndInv, ExitInv
    <3>2. \A p \in visited : p \notin world.malformed
      BY <2>3, <3>1 DEF ImportsAreMapped
    <3>3. world.mode = "Full"
      BY <3>1, CallerAssumption DEF WorldOf
    <3>4. status = "done"
      BY <3>1, <3>2, <3>3 DEF EndInv, TypeOK, StopsEarly
    <3>5. /\ Needed = UpTo(world)[Cardinality(Paths)] /\ Needed \subseteq visited
          /\ \A p \in visited : p \notin world.malformed /\ Needs(p) = world.imports[p] \ ApiSets
      BY <2>3, <3>1, <3>4, NeededIsReached
    <3>6. visited \subseteq Paths
      BY DEF TypeOK
    <3>7. {failures[i] : i \in 1..Len(failures)} = {x[2] : x \in FailingImports(world)}
      BY <3>3, <3>4 DEF AllFailuresReported, Reported, StopsEarly
    <3>8. failures # <<>> <=> FailingImports(world) # {}
      <4>1. failures \in Seq(Failure)
        BY DEF TypeOK
      <4>2. failures # <<>> <=> \E i \in 1..Len(failures) : TRUE
        BY <4>1
      <4>3. (\E i \in 1..Len(failures) : TRUE) <=> {failures[i] : i \in 1..Len(failures)} # {}
        OBVIOUS
      <4>4. {x[2] : x \in FailingImports(world)} # {} <=> FailingImports(world) # {}
        OBVIOUS
      <4>. QED
        BY <3>7, <4>2, <4>3, <4>4, Zenon
    <3>9. Cardinality(Paths) \in Distances /\ \A n \in Distances : n <= Cardinality(Paths)
      BY DistancesFacts DEF Distances
    <3>10. ASSUME NEW x \in FailingImports(world)
           PROVE  \E p \in Needed : \E d \in Needs(p) : ~Served(d)
      <4>1. PICK n, p, d : /\ n \in Distances /\ p \in Level(world)[n] \ world.malformed
                           /\ d \in FailedImports(world, p)
        BY FailingFacts
      <4>2. p \in Needed /\ p \in visited /\ p \in Paths
        <5>1. p \in UpTo(world)[n]
          BY <4>1, LevelFacts
        <5>. QED
          BY <3>5, <3>6, <3>9, <4>1, <5>1, UpToGrows
      <4>3. d \in Needs(p) /\ d \in world.imports[p] \ ApiSets
            /\ world.resolve[d] \in {Missing, BadImage}
        BY <3>5, <4>1, <4>2 DEF FailedImports
      <4>4. ~Served(d)
        BY <3>1, <4>2, <4>3, ResolvedIsServed, PathsAssumption
      <4>. QED
        BY <4>2, <4>3, <4>4
    <3>11. ASSUME NEW p \in Needed, NEW d \in Needs(p), ~Served(d)
           PROVE  FailingImports(world) # {}
      <4>1. p \in visited /\ p \in Paths /\ p \notin world.malformed
            /\ d \in world.imports[p] \ ApiSets
        BY <3>5, <3>6
      <4>2. d \in Names /\ world.resolve[d] \in {Missing, BadImage}
        BY <3>1, <3>11, <4>1, ResolvedIsServed
      <4>3. world.observed[d] = None
        BY <3>1, <4>2, CallerAssumption DEF WorldOf
      <4>4. d \in FailedImports(world, p)
        BY <4>1, <4>2, <4>3 DEF FailedImports, LoadedImport
      <4>5. PICK n \in Distances : p \in Level(world)[n]
        BY <3>5, <3>9, AtSomeDistance
      <4>6. <<p, FailureAt(world, n, p, d)>> \in FailingImports(world)
        BY <4>1, <4>4, <4>5, FailingFacts
      <4>. QED
        BY <4>6
    <3>12. failures # <<>> <=> ~ \A p \in Needed : \A d \in Needs(p) : Served(d)
      BY <3>8, <3>10, <3>11
    <3>13. exit = IF \A p \in Needed : \A d \in Needs(p) : Served(d) THEN 0 ELSE 10
      BY <3>1, <3>4, <3>12
    <3>. QED
      BY <2>3, <3>13 DEF ExitIsTruth, Startable
  <2>. QED
    BY <2>1, <2>2, <2>3
<1>2. Unstarted => ~Startable
  BY DEF Unstarted
<1>. QED
  BY <1>1, <1>2, ExitInvariant, ReadsWhatIsMapped, ImportsReportComplete, ImportsTypeCorrect,
     WorldStays, ImportsAreWalks, EndInvariant, PTL

=============================================================================
