-------------------------- MODULE ComLookupProofs --------------------------
(***************************************************************************)
(* Proofs about ComLookup, for any names and spellings, any chain limit    *)
(* and a registry that others may write to at every step.                  *)
(***************************************************************************)
EXTENDS ComLookup, WellFoundedInduction, TLAPS

ProgidPlaces == {"progid", "curver", "progid_clsid"}
ClsidPlaces == {"clsid", "treatas", "inproc", "local", "unserved"}

LEMMA PlacesOf ==
  /\ Places = ProgidPlaces \cup ClsidPlaces
  /\ "done" \notin Places
  /\ Sub["progid"] = "" /\ Sub["curver"] = "CurVer" /\ Sub["progid_clsid"] = "CLSID"
  /\ Sub["clsid"] = "" /\ Sub["treatas"] = "TreatAs" /\ Sub["unserved"] = ""
  /\ Sub["inproc"] = "InprocServer32" /\ Sub["local"] = "LocalServer32"
  BY DEF Places, Sub, ProgidPlaces, ClsidPlaces

LEMMA TextsOf ==
  /\ Texts("") = {}
  /\ Texts("CurVer") = Progids
  /\ Texts("CLSID") \subseteq Clsids
  /\ Texts("TreatAs") = Clsids
  BY DEF Texts, ServerKinds

\* A call of the registry finds a content of the key it looks at.
LEMMA SeesTyped ==
  ASSUME TypeOK, pc \in Places, NEW c, Sees(c)
  PROVE  /\ DOMAIN known' \subseteq Keys
         /\ \A k \in DOMAIN known' : known'[k] \in Contents(k[3])
<1>1. Key \in Keys /\ Key[3] = Sub[pc]
  BY DEF TypeOK, Key, Keys, SubKeys, Places, Ids
<1>2. CASE shared
  BY <1>2 DEF Sees, TypeOK
<1>3. CASE ~shared
  BY <1>1, <1>3 DEF Sees, TypeOK
<1> QED
  BY <1>2, <1>3

LEMMA AnswerTyped ==
  ASSUME TypeOK, pc \in Places, NEW c, Answer(c)
  PROVE  /\ c \in Contents(Sub[pc])
         /\ shared' \in BOOLEAN
         /\ DOMAIN known' \subseteq Keys
         /\ \A k \in DOMAIN known' : known'[k] \in Contents(k[3])
         /\ hive' \in Hives /\ probing' \in BOOLEAN
         /\ query' \in Starts
<1>1. Sees(c) /\ hive' = "HKCU" /\ probing' = FALSE /\ shared' = shared /\ query' = query
  BY DEF Answer
<1> QED
  BY <1>1, SeesTyped DEF Sees, TypeOK, Hives

\* What an answer leaves to prove: the rest of the type invariant.
Rest ==
  /\ pc \in Places \cup {"done"}
  /\ current \in Names
  /\ pc # "done" =>
       (current \in IF pc \in {"progid", "curver", "progid_clsid"} THEN Progids ELSE Clsids)
  /\ visited \subseteq Ids
  /\ progid_chain \in Seq(Progids)
  /\ treatas_chain \in Seq(Clsids)
  /\ result \in Results

LEMMA AnswerTypeOK ==
  ASSUME TypeOK, pc \in Places, NEW c, Answer(c), Rest'
  PROVE  TypeOK'
  BY AnswerTyped DEF TypeOK, Rest

LEMMA Initial == Init => TypeOK
<1> SUFFICES ASSUME Init PROVE TypeOK
  OBVIOUS
<1>1. query \in Names /\ (query \in Progids \/ (query \in Clsids /\ query \notin Progids))
  BY NamesAssumption DEF Init, Names
<1>2. progid_chain \in Seq(Progids) /\ treatas_chain \in Seq(Clsids)
  BY <1>1 DEF Init
<1>3. result \in Results
  BY DEF Init, Result, Results, Statuses
<1>4. known = <<>> /\ DOMAIN known = {}
  BY DEF Init
<1>5. visited \subseteq Ids
  BY <1>1 DEF Init, Ids
<1> QED
  BY <1>1, <1>2, <1>3, <1>4, <1>5 DEF Init, TypeOK, Hives, Places, Sub, Names

LEMMA ResultTyped ==
  ASSUME NEW s \in Statuses, NEW c \in Clsids \cup {None}, NEW h \in Hives \cup {None},
         NEW k \in ServerKinds \cup {None}
  PROVE  Result(s, c, h, k) \in Results
  BY DEF Result, Results

LEMMA AppendTyped ==
  ASSUME NEW S, NEW s \in Seq(S), NEW e \in S
  PROVE  /\ Append(s, e) \in Seq(S)
         /\ Len(Append(s, e)) = Len(s) + 1
         /\ \A i \in DOMAIN s : i \in DOMAIN Append(s, e) /\ Append(s, e)[i] = s[i]
         /\ \A i \in DOMAIN Append(s, e) : i \in DOMAIN s \/ Append(s, e)[i] = e
  OBVIOUS

LEMMA EndsRest ==
  ASSUME TypeOK, NEW r \in Results, Ends(r)
  PROVE  Rest'
  BY DEF TypeOK, Rest, Ends, Places

LEMMA GoesToRest ==
  ASSUME TypeOK, NEW p \in Places, GoesTo(p), pc \in Places,
         pc \in ProgidPlaces <=> p \in ProgidPlaces
  PROVE  Rest'
  BY PlacesOf DEF TypeOK, Rest, GoesTo, ProgidPlaces

LEMMA TypedStep == TypeOK /\ [Next]_vars => TypeOK'
<1> SUFFICES ASSUME TypeOK, [Next]_vars PROVE TypeOK'
  OBVIOUS
<1> USE PlacesOf
<1>1. CASE Read
  <2>1. pc \in Places
    BY <1>1 DEF Read, TypeOK
  <2>2. PICK c \in Contents(Sub[pc]) : Sees(c) /\ GoesOn(c)
    BY <1>1 DEF Read
  <2>3. hive' \in Hives /\ probing' \in BOOLEAN
    BY <2>2 DEF GoesOn, TypeOK, Hives
  <2> QED
    BY <1>1, <2>1, <2>2, <2>3, SeesTyped DEF Read, TypeOK
<1>2. CASE DeniedKey
  <2>1. pc \in Places
    BY <1>2 DEF DeniedKey, TypeOK
  <2>2. PICK c : Answer(c)
    BY <1>2 DEF DeniedKey
  <2>3. [result EXCEPT !.status = "ACCESS_DENIED"] \in Results
    BY DEF TypeOK, Results, Statuses
  <2>4. Rest'
    BY <1>2, <2>3, EndsRest DEF DeniedKey
  <2> QED
    BY <2>1, <2>2, <2>4, AnswerTypeOK
<1>3. CASE ProgidExists
  <2>1. Rest'
    BY <1>3, GoesToRest DEF ProgidExists, ProgidPlaces
  <2> QED
    BY <1>3, <2>1, AnswerTypeOK DEF ProgidExists, ProgidPlaces
<1>4. CASE ProgidBroken
  <2>1. Rest'
    BY <1>4, EndsRest, ResultTyped DEF ProgidBroken, Statuses
  <2>2. pc \in Places /\ \E c : Answer(c)
    BY <1>4 DEF ProgidBroken, ProgidPlaces
  <2> QED
    BY <2>1, <2>2, AnswerTypeOK
<1>5. CASE CurVerEnds
  <2>1. Rest'
    BY <1>5, GoesToRest DEF CurVerEnds, ProgidPlaces
  <2> QED
    BY <1>5, <2>1, AnswerTypeOK DEF CurVerEnds, ProgidPlaces
<1>6. CASE CurVerFollows
  <2>1. PICK c : /\ Answer(c) /\ Finds(c) /\ current' = c
                 /\ visited' = visited \cup {Upper[c]}
                 /\ progid_chain' = Append(progid_chain, c)
    BY <1>6 DEF CurVerFollows
  <2>2. pc = "curver" /\ pc' = "progid" /\ c \in Progids
    BY <1>6, <2>1, TextsOf DEF CurVerFollows, Finds
  <2>3. Append(progid_chain, c) \in Seq(Progids)
    BY <2>2, AppendTyped DEF TypeOK
  <2>4. Rest'
    BY <1>6, <2>1, <2>2, <2>3 DEF CurVerFollows, TypeOK, Rest, Names, Ids, ProgidPlaces
  <2> QED
    BY <2>1, <2>2, <2>4, AnswerTypeOK DEF ProgidPlaces
<1>7. CASE CurVerCycle
  <2>1. Rest'
    BY <1>7, EndsRest, ResultTyped DEF CurVerCycle, Statuses
  <2> QED
    BY <1>7, <2>1, AnswerTypeOK DEF CurVerCycle, ProgidPlaces
<1>8. CASE ProgidResolved
  <2>1. PICK c : Answer(c) /\ Finds(c) /\ current' = c /\ visited' = {Upper[c]}
    BY <1>8 DEF ProgidResolved
  <2>2. pc = "progid_clsid" /\ pc' = "clsid" /\ c \in Clsids
    BY <1>8, <2>1, TextsOf DEF ProgidResolved, Finds
  <2>3. Rest'
    BY <1>8, <2>1, <2>2 DEF ProgidResolved, TypeOK, Rest, Names, Ids, ClsidPlaces
  <2> QED
    BY <2>1, <2>2, <2>3, AnswerTypeOK DEF ProgidPlaces
<1>9. CASE ClsidExists
  <2>1. Rest'
    BY <1>9, GoesToRest DEF ClsidExists, ProgidPlaces, ClsidPlaces
  <2> QED
    BY <1>9, <2>1, AnswerTypeOK DEF ClsidExists, ClsidPlaces
<1>10. CASE ClsidMissing
  <2>1. AbsentStatus \in Statuses
    BY DEF AbsentStatus, Statuses
  <2>2. pc = "clsid" /\ current \in Clsids
    BY <1>10 DEF ClsidMissing, TypeOK
  <2>3. Rest'
    BY <1>10, <2>1, <2>2, EndsRest, ResultTyped DEF ClsidMissing
  <2> QED
    BY <1>10, <2>2, <2>3, AnswerTypeOK DEF ClsidMissing, ClsidPlaces
<1>11. CASE TreatAsFollows
  <2>1. PICK c : /\ Answer(c) /\ Finds(c) /\ current' = c
                 /\ visited' = visited \cup {Upper[c]}
                 /\ treatas_chain' = Append(treatas_chain, c)
    BY <1>11 DEF TreatAsFollows
  <2>2. pc = "treatas" /\ pc' = "clsid" /\ c \in Clsids
    BY <1>11, <2>1, TextsOf DEF TreatAsFollows, Finds
  <2>3. Append(treatas_chain, c) \in Seq(Clsids)
    BY <2>2, AppendTyped DEF TypeOK
  <2>4. Rest'
    BY <1>11, <2>1, <2>2, <2>3 DEF TreatAsFollows, TypeOK, Rest, Names, Ids, ClsidPlaces
  <2> QED
    BY <2>1, <2>2, <2>4, AnswerTypeOK DEF ClsidPlaces
<1>12. CASE TreatAsBroken
  <2>1. Rest'
    BY <1>12, EndsRest, ResultTyped DEF TreatAsBroken, Statuses
  <2> QED
    BY <1>12, <2>1, AnswerTypeOK DEF TreatAsBroken, ClsidPlaces
<1>13. CASE TreatAsEnds
  <2>1. pc = "treatas" /\ pc' = "inproc" /\ current \in Clsids
    BY <1>13 DEF TreatAsEnds, TypeOK
  <2>2. [result EXCEPT !.clsid = current] \in Results
    BY <2>1 DEF TypeOK, Results
  <2>3. Rest'
    BY <1>13, <2>1, <2>2 DEF TreatAsEnds, TypeOK, Rest, ClsidPlaces
  <2> QED
    BY <1>13, <2>1, <2>3, AnswerTypeOK DEF TreatAsEnds, ClsidPlaces
<1>14. CASE ServerFound
  <2>1. pc \in {"inproc", "local"} /\ current \in Clsids /\ Sub[pc] \in ServerKinds
    BY <1>14 DEF ServerFound, TypeOK, ServerKinds
  <2>2. Rest'
    BY <1>14, <2>1, EndsRest, ResultTyped DEF ServerFound, Statuses, TypeOK
  <2> QED
    BY <1>14, <2>1, <2>2, AnswerTypeOK DEF ServerFound, ClsidPlaces
<1>15. CASE ServerBroken
  <2>1. pc \in {"inproc", "local"} /\ current \in Clsids
    BY <1>15 DEF ServerBroken, TypeOK
  <2>2. Rest'
    BY <1>15, <2>1, EndsRest, ResultTyped DEF ServerBroken, Statuses, TypeOK
  <2> QED
    BY <1>15, <2>1, <2>2, AnswerTypeOK DEF ServerBroken, ClsidPlaces
<1>16. CASE ServerMissing
  <2>1. Rest'
    BY <1>16, GoesToRest DEF ServerMissing, ProgidPlaces, ClsidPlaces
  <2> QED
    BY <1>16, <2>1, AnswerTypeOK DEF ServerMissing, ClsidPlaces
<1>17. CASE Unserved
  <2>1. pc = "unserved" /\ current \in Clsids /\ hive \in Hives
    BY <1>17 DEF Unserved, TypeOK
  <2>2. Result("BROKEN_REGISTRATION", current, hive, None) \in Results
        /\ Result("BROKEN_REGISTRATION", current, None, None) \in Results
    BY <2>1, ResultTyped DEF Statuses
  <2>3. Rest' /\ \E c : Answer(c)
    BY <1>17, <2>2, EndsRest DEF Unserved
  <2> QED
    BY <2>1, <2>3, AnswerTypeOK DEF ClsidPlaces
<1>18. CASE UNCHANGED vars
  BY <1>18 DEF vars, read, TypeOK
<1> QED
  BY <1>1, <1>2, <1>3, <1>4, <1>5, <1>6, <1>7, <1>8, <1>9, <1>10, <1>11, <1>12,
     <1>13, <1>14, <1>15, <1>16, <1>17, <1>18 DEF Next, Step, Done

\* Type correctness of resolve_progid and resolve_clsid.
THEOREM TypeCorrect == Spec => []TypeOK
  BY Initial, TypedStep, PTL DEF Spec

-----------------------------------------------------------------------------
(* The chains *)

\* visited holds what is in the chain under way, and where it started.
ChainInv ==
  /\ ChainsAreSimple
  /\ query \in Progids <=> progid_chain # <<>>
  /\ pc \in ProgidPlaces =>
       /\ query \in Progids /\ treatas_chain = <<>>
       /\ \A i \in DOMAIN progid_chain : Upper[progid_chain[i]] \in visited
  /\ pc \in ClsidPlaces =>
       /\ \A i \in DOMAIN treatas_chain : Upper[treatas_chain[i]] \in visited
       /\ query \in Clsids => Upper[query] \in visited

\* A new name makes a chain longer and leaves it simple.
LEMMA AppendSimple ==
  ASSUME NEW S, NEW s \in Seq(S), NEW e \in S, Simple(s),
         \A i \in DOMAIN s : Upper[s[i]] # Upper[e]
  PROVE  Simple(Append(s, e))
<1>1. \A i \in DOMAIN Append(s, e) : (i \in DOMAIN s /\ Append(s, e)[i] = s[i]) \/ (i = Len(s) + 1 /\ Append(s, e)[i] = e)
  OBVIOUS
<1> QED
  BY <1>1 DEF Simple

LEMMA ChainInit == Init => ChainInv
<1> SUFFICES ASSUME Init PROVE ChainInv
  OBVIOUS
<1>1. query \in Names /\ treatas_chain = <<>> /\ visited = {Upper[query]}
  BY NamesAssumption DEF Init
<1>2. CASE query \in Progids
  <2>1. progid_chain = <<query>> /\ pc = "progid" /\ query \notin Clsids
    BY <1>2, NamesAssumption DEF Init
  <2> QED
    BY <1>1, <1>2, <2>1, MaxChainHopsAssumption
    DEF ChainInv, ChainsAreSimple, Simple, ProgidPlaces, ClsidPlaces
<1>3. CASE query \notin Progids
  <2>1. progid_chain = <<>> /\ pc = "clsid"
    BY <1>3 DEF Init
  <2> QED
    BY <1>1, <1>3, <2>1, MaxChainHopsAssumption
    DEF ChainInv, ChainsAreSimple, Simple, ProgidPlaces, ClsidPlaces
<1> QED
  BY <1>2, <1>3

\* Most steps leave the chains alone and the lookup in the same one, or end it.
LEMMA ChainKept ==
  ASSUME ChainInv, UNCHANGED <<query, visited, progid_chain, treatas_chain>>,
         \/ pc' = "done"
         \/ pc \in ProgidPlaces /\ pc' \in ProgidPlaces
         \/ pc \in ClsidPlaces /\ pc' \in ClsidPlaces
  PROVE  ChainInv'
  BY DEF ChainInv, ChainsAreSimple, Simple, ProgidPlaces, ClsidPlaces

LEMMA AnswerQuery == ASSUME NEW c, Answer(c) PROVE query' = query
  BY DEF Answer

LEMMA ChainEnds ==
  ASSUME ChainInv, NEW r, Ends(r), \E c : Answer(c)
  PROVE  ChainInv'
  BY ChainKept, AnswerQuery DEF Ends

LEMMA ChainGoesTo ==
  ASSUME ChainInv, NEW p, GoesTo(p), \E c : Answer(c),
         \/ pc \in ProgidPlaces /\ p \in ProgidPlaces
         \/ pc \in ClsidPlaces /\ p \in ClsidPlaces
  PROVE  ChainInv'
  BY ChainKept, AnswerQuery DEF GoesTo

LEMMA CurVerExtends == TypeOK /\ ChainInv /\ CurVerFollows => ChainInv'
<1> SUFFICES ASSUME TypeOK, ChainInv, CurVerFollows PROVE ChainInv'
  OBVIOUS
<1>1. PICK c : /\ Answer(c) /\ Finds(c) /\ ~Seen(Upper[c]) /\ Len(progid_chain) < MAX_CHAIN_HOPS
               /\ visited' = visited \cup {Upper[c]}
               /\ progid_chain' = Append(progid_chain, c)
  BY DEF CurVerFollows
<1>2. pc = "curver" /\ pc' = "progid" /\ treatas_chain' = treatas_chain /\ query' = query
  BY <1>1, AnswerQuery DEF CurVerFollows
<1>3. c \in Progids
  BY <1>1, <1>2, TextsOf, PlacesOf DEF Finds
<1>4. progid_chain \in Seq(Progids) /\ treatas_chain = <<>> /\ query \in Progids
  BY <1>2 DEF TypeOK, ChainInv, ProgidPlaces
<1>5. \A i \in DOMAIN progid_chain : Upper[progid_chain[i]] \in visited
  BY <1>2 DEF ChainInv, ProgidPlaces
<1>6. Simple(progid_chain')
  BY <1>1, <1>3, <1>4, <1>5, AppendSimple DEF Seen, ChainInv, ChainsAreSimple
<1>7. Len(progid_chain') <= MAX_CHAIN_HOPS /\ progid_chain' # <<>>
  BY <1>1, <1>3, <1>4, AppendTyped, MaxChainHopsAssumption
<1>8. \A i \in DOMAIN progid_chain' : Upper[progid_chain'[i]] \in visited'
  BY <1>1, <1>3, <1>4, <1>5, AppendTyped
<1>9. ChainsAreSimple'
  BY <1>2, <1>4, <1>6, <1>7 DEF ChainInv, ChainsAreSimple, Simple
<1> QED
  BY <1>2, <1>4, <1>7, <1>8, <1>9 DEF ChainInv, ProgidPlaces, ClsidPlaces

LEMMA TreatAsExtends == TypeOK /\ ChainInv /\ TreatAsFollows => ChainInv'
<1> SUFFICES ASSUME TypeOK, ChainInv, TreatAsFollows PROVE ChainInv'
  OBVIOUS
<1>1. PICK c : /\ Answer(c) /\ Finds(c) /\ ~Seen(Upper[c]) /\ Len(treatas_chain) < MAX_CHAIN_HOPS
               /\ visited' = visited \cup {Upper[c]}
               /\ treatas_chain' = Append(treatas_chain, c)
  BY DEF TreatAsFollows
<1>2. pc = "treatas" /\ pc' = "clsid" /\ progid_chain' = progid_chain /\ query' = query
  BY <1>1, AnswerQuery DEF TreatAsFollows
<1>3. c \in Clsids
  BY <1>1, <1>2, TextsOf, PlacesOf DEF Finds
<1>4. treatas_chain \in Seq(Clsids)
  BY DEF TypeOK
<1>5. /\ \A i \in DOMAIN treatas_chain : Upper[treatas_chain[i]] \in visited
      /\ query \in Clsids => Upper[query] \in visited
  BY <1>2 DEF ChainInv, ClsidPlaces
<1>6. Simple(treatas_chain')
  BY <1>1, <1>3, <1>4, <1>5, AppendSimple DEF Seen, ChainInv, ChainsAreSimple
<1>7. Len(treatas_chain') <= MAX_CHAIN_HOPS
  BY <1>1, <1>3, <1>4, AppendTyped, MaxChainHopsAssumption
<1>8. \A i \in DOMAIN treatas_chain' : Upper[treatas_chain'[i]] \in visited'
  BY <1>1, <1>3, <1>4, <1>5, AppendTyped
<1>9. query \in Clsids =>
        \A i \in DOMAIN treatas_chain' : Upper[treatas_chain'[i]] # Upper[query]
  BY <1>1, <1>3, <1>4, <1>5, AppendTyped DEF Seen, ChainInv, ChainsAreSimple
<1>10. ChainsAreSimple'
  BY <1>2, <1>6, <1>7, <1>9 DEF ChainInv, ChainsAreSimple, Simple
<1> QED
  BY <1>1, <1>2, <1>5, <1>8, <1>10 DEF ChainInv, ProgidPlaces, ClsidPlaces

LEMMA ChainStep == TypeOK /\ ChainInv /\ [Next]_vars => ChainInv'
<1> SUFFICES ASSUME TypeOK, ChainInv, [Next]_vars PROVE ChainInv'
  OBVIOUS
<1>1. CASE Read
  <2>1. UNCHANGED <<query, visited, progid_chain, treatas_chain, pc>>
    BY <1>1 DEF Read
  <2> QED
    BY <2>1 DEF ChainInv, ChainsAreSimple, Simple
<1>2. CASE DeniedKey
  BY <1>2, ChainEnds DEF DeniedKey
<1>3. CASE ProgidBroken
  BY <1>3, ChainEnds DEF ProgidBroken
<1>4. CASE CurVerCycle
  BY <1>4, ChainEnds DEF CurVerCycle
<1>5. CASE ClsidMissing
  BY <1>5, ChainEnds DEF ClsidMissing
<1>6. CASE TreatAsBroken
  BY <1>6, ChainEnds DEF TreatAsBroken
<1>7. CASE ServerFound \/ ServerBroken
  BY <1>7, ChainEnds DEF ServerFound, ServerBroken
<1>8. CASE Unserved
  BY <1>8, ChainEnds DEF Unserved
<1>9. CASE ProgidExists \/ CurVerEnds
  BY <1>9, ChainGoesTo DEF ProgidExists, CurVerEnds, ProgidPlaces
<1>10. CASE ClsidExists \/ ServerMissing
  BY <1>10, ChainGoesTo DEF ClsidExists, ServerMissing, ClsidPlaces
<1>11. CASE TreatAsEnds
  <2>1. UNCHANGED <<query, visited, progid_chain, treatas_chain>>
    BY <1>11, AnswerQuery DEF TreatAsEnds
  <2> QED
    BY <1>11, <2>1, ChainKept DEF TreatAsEnds, ClsidPlaces
<1>12. CASE ProgidResolved
  <2>1. UNCHANGED <<query, progid_chain, treatas_chain>> /\ pc = "progid_clsid" /\ pc' = "clsid"
    BY <1>12, AnswerQuery DEF ProgidResolved
  <2>2. query \in Progids /\ query \notin Clsids /\ treatas_chain = <<>>
    BY <2>1, NamesAssumption DEF ChainInv, ProgidPlaces
  <2> QED
    BY <2>1, <2>2 DEF ChainInv, ChainsAreSimple, Simple, ProgidPlaces, ClsidPlaces
<1>13. CASE UNCHANGED vars
  BY <1>13 DEF vars, read, ChainInv, ChainsAreSimple, Simple
<1> QED
  BY <1>1, <1>2, <1>3, <1>4, <1>5, <1>6, <1>7, <1>8, <1>9, <1>10, <1>11, <1>12, <1>13,
     CurVerExtends, TreatAsExtends DEF Next, Step, Done

LEMMA ChainInvariant == Spec => [](TypeOK /\ ChainInv)
  BY Initial, TypedStep, ChainInit, ChainStep, PTL DEF Spec

\* CurVer and TreatAs are followed at most MAX_CHAIN_HOPS times and never to a
\* name twice, whatever the registry answers.
THEOREM NoNameTwice == Spec => []ChainsAreSimple
<1>1. ChainInv => ChainsAreSimple
  BY DEF ChainInv
<1> QED
  BY <1>1, ChainInvariant, PTL

-----------------------------------------------------------------------------
(* Progress *)

Left == <<HopsLeft, PlacesLeft, CallsLeft>>

LEMMA LimitIsEnough ==
  \A max, p, t \in Nat :
    t <= max /\ (p <= max \/ p = 1) => 2 * max + 1 - p - t \in Nat
  OBVIOUS

LEMMA HopsAreLeft == TypeOK /\ ChainInv => HopsLeft \in Nat
<1> SUFFICES ASSUME TypeOK, ChainInv PROVE HopsLeft \in Nat
  OBVIOUS
<1>1. Len(progid_chain) \in Nat /\ Len(treatas_chain) \in Nat /\ Len(<<query>>) = 1
  BY DEF TypeOK
<1>2. Len(treatas_chain) <= MAX_CHAIN_HOPS
      /\ (Len(progid_chain) <= MAX_CHAIN_HOPS \/ Len(progid_chain) = 1)
  BY <1>1 DEF ChainInv, ChainsAreSimple
<1> QED
  BY <1>1, <1>2, LimitIsEnough, MaxChainHopsAssumption DEF HopsLeft

LEMMA PlacesLeftOf ==
  ASSUME TypeOK
  PROVE  /\ PlacesLeft \in Nat
         /\ pc = "progid" => PlacesLeft = 8
         /\ pc = "curver" => PlacesLeft = 7
         /\ pc = "progid_clsid" => PlacesLeft = 6
         /\ pc = "clsid" => PlacesLeft = 5
         /\ pc = "treatas" => PlacesLeft = 4
         /\ pc = "inproc" => PlacesLeft = 3
         /\ pc = "local" => PlacesLeft = 2
         /\ pc = "unserved" => PlacesLeft = 1
         /\ pc = "done" => PlacesLeft = 0
<1>1. pc \in {"progid", "curver", "progid_clsid", "clsid", "treatas", "inproc",
              "local", "unserved", "done"}
  BY PlacesOf DEF TypeOK, ProgidPlaces, ClsidPlaces
<1> QED
  BY <1>1 DEF PlacesLeft

LEMMA PlaceDrops ==
  ASSUME TypeOK, TypeOK', UNCHANGED <<progid_chain, treatas_chain>>, PlacesLeft' < PlacesLeft
  PROVE  Shrinks(Left, Left')
  BY DEF Shrinks, Left, HopsLeft

LEMMA EndDrops ==
  ASSUME TypeOK, TypeOK', pc # "done", NEW r, Ends(r)
  PROVE  Shrinks(Left, Left')
<1>1. PlacesLeft' = 0 /\ PlacesLeft # 0 /\ PlacesLeft \in Nat
  <2>1. pc' = "done"
    BY DEF Ends
  <2>2. PlacesLeft' = 0
    BY <2>1 DEF PlacesLeft
  <2>3. pc \in {"progid", "curver", "progid_clsid", "clsid", "treatas", "inproc",
                "local", "unserved"}
    BY PlacesOf DEF TypeOK, ProgidPlaces, ClsidPlaces
  <2> QED
    BY <2>2, <2>3, PlacesLeftOf
<1>2. UNCHANGED <<progid_chain, treatas_chain>>
  BY DEF Ends
<1> QED
  BY <1>1, <1>2, PlaceDrops

\* One hop fewer is fewer, wherever it leads.
LEMMA HopDrops ==
  ASSUME TypeOK, HopsLeft' < HopsLeft
  PROVE  Shrinks(Left, Left')
  BY DEF Shrinks, Left

LEMMA ProgressStep == TypeOK /\ TypeOK' /\ ChainInv /\ Step => Shrinks(Left, Left')
<1> SUFFICES ASSUME TypeOK, TypeOK', ChainInv, Step PROVE Shrinks(Left, Left')
  OBVIOUS
<1> USE DEF ProgidPlaces, ClsidPlaces
<1>1. CASE Read
  <2>1. HopsLeft' = HopsLeft /\ PlacesLeft' = PlacesLeft
    BY <1>1 DEF Read, HopsLeft, PlacesLeft
  <2>2. PICK c : GoesOn(c)
    BY <1>1 DEF Read
  <2>3. CallsLeft' < CallsLeft
    BY <2>2 DEF GoesOn, CallsLeft, TypeOK
  <2> QED
    BY <2>1, <2>3 DEF Shrinks, Left
<1>2. CASE DeniedKey
  BY <1>2, EndDrops DEF DeniedKey
<1>3. CASE ProgidBroken
  BY <1>3, EndDrops DEF ProgidBroken
<1>4. CASE CurVerCycle
  BY <1>4, EndDrops DEF CurVerCycle
<1>5. CASE ClsidMissing
  BY <1>5, EndDrops DEF ClsidMissing
<1>6. CASE TreatAsBroken
  BY <1>6, EndDrops DEF TreatAsBroken
<1>7. CASE ServerFound \/ ServerBroken
  BY <1>7, EndDrops DEF ServerFound, ServerBroken
<1>8. CASE Unserved
  BY <1>8, EndDrops DEF Unserved
<1>9. CASE ProgidExists
  <2>1. pc = "progid" /\ pc' = "curver" /\ UNCHANGED <<progid_chain, treatas_chain>>
    BY <1>9 DEF ProgidExists, GoesTo
  <2>2. PlacesLeft = 8 /\ PlacesLeft' = 7
    BY <2>1 DEF PlacesLeft
  <2> QED
    BY <2>1, <2>2, PlaceDrops
<1>10. CASE CurVerEnds
  <2>1. pc = "curver" /\ pc' = "progid_clsid" /\ UNCHANGED <<progid_chain, treatas_chain>>
    BY <1>10 DEF CurVerEnds, GoesTo
  <2>2. PlacesLeft = 7 /\ PlacesLeft' = 6
    BY <2>1 DEF PlacesLeft
  <2> QED
    BY <2>1, <2>2, PlaceDrops
<1>11. CASE ProgidResolved
  <2>1. pc = "progid_clsid" /\ pc' = "clsid" /\ UNCHANGED <<progid_chain, treatas_chain>>
    BY <1>11 DEF ProgidResolved
  <2>2. PlacesLeft = 6 /\ PlacesLeft' = 5
    BY <2>1 DEF PlacesLeft
  <2> QED
    BY <2>1, <2>2, PlaceDrops
<1>12. CASE ClsidExists
  <2>1. pc = "clsid" /\ pc' = "treatas" /\ UNCHANGED <<progid_chain, treatas_chain>>
    BY <1>12 DEF ClsidExists, GoesTo
  <2>2. PlacesLeft = 5 /\ PlacesLeft' = 4
    BY <2>1 DEF PlacesLeft
  <2> QED
    BY <2>1, <2>2, PlaceDrops
<1>13. CASE TreatAsEnds
  <2>1. pc = "treatas" /\ pc' = "inproc" /\ UNCHANGED <<progid_chain, treatas_chain>>
    BY <1>13 DEF TreatAsEnds
  <2>2. PlacesLeft = 4 /\ PlacesLeft' = 3
    BY <2>1 DEF PlacesLeft
  <2> QED
    BY <2>1, <2>2, PlaceDrops
<1>14. CASE ServerMissing
  <2>1. /\ \/ pc = "inproc" /\ pc' = "local"
           \/ pc = "local" /\ pc' = "unserved"
        /\ UNCHANGED <<progid_chain, treatas_chain>>
    BY <1>14 DEF ServerMissing, GoesTo
  <2>2. PlacesLeft' < PlacesLeft
    BY <2>1 DEF PlacesLeft
  <2> QED
    BY <2>1, <2>2, PlaceDrops
<1>15. CASE CurVerFollows
  <2>1. PICK c : Answer(c) /\ Finds(c) /\ progid_chain' = Append(progid_chain, c)
    BY <1>15 DEF CurVerFollows
  <2>2. c \in Progids /\ treatas_chain' = treatas_chain
    BY <1>15, <2>1, TextsOf, PlacesOf DEF CurVerFollows, Finds
  <2>3. Len(progid_chain') = Len(progid_chain) + 1 /\ Len(progid_chain) \in Nat
        /\ Len(treatas_chain) \in Nat
    BY <2>1, <2>2, AppendTyped DEF TypeOK
  <2> QED
    BY <2>2, <2>3, HopDrops, MaxChainHopsAssumption DEF HopsLeft
<1>16. CASE TreatAsFollows
  <2>1. PICK c : Answer(c) /\ Finds(c) /\ treatas_chain' = Append(treatas_chain, c)
    BY <1>16 DEF TreatAsFollows
  <2>2. c \in Clsids /\ progid_chain' = progid_chain
    BY <1>16, <2>1, TextsOf, PlacesOf DEF TreatAsFollows, Finds
  <2>3. Len(treatas_chain') = Len(treatas_chain) + 1 /\ Len(treatas_chain) \in Nat
        /\ Len(progid_chain) \in Nat
    BY <2>1, <2>2, AppendTyped DEF TypeOK
  <2> QED
    BY <2>2, <2>3, HopDrops, MaxChainHopsAssumption DEF HopsLeft
<1> QED
  BY <1>1, <1>2, <1>3, <1>4, <1>5, <1>6, <1>7, <1>8, <1>9, <1>10, <1>11, <1>12,
     <1>13, <1>14, <1>15, <1>16 DEF Step

\* Every step of a lookup leaves less to do, in a lexicographic order on three
\* natural numbers, so that each lookup ends, whatever others write meanwhile.
THEOREM EveryStepProgresses == Spec => LookupProgresses
<1>1. TypeOK /\ ChainInv /\ TypeOK' /\ [Next]_vars =>
        [/\ HopsLeft \in Nat
         /\ Shrinks(Left, Left')]_vars
  BY HopsAreLeft, ProgressStep DEF Next, Done
<1>2. TypeOK /\ ChainInv /\ TypeOK' /\ [Next]_vars =>
        [/\ HopsLeft \in Nat
         /\ Shrinks(<<HopsLeft, PlacesLeft, CallsLeft>>,
                    <<HopsLeft, PlacesLeft, CallsLeft>>')]_vars
  BY <1>1 DEF Left
<1> QED
  BY <1>2, ChainInvariant, PTL DEF Spec, LookupProgresses

-----------------------------------------------------------------------------
(* Results *)

\* What is known of the result on the way, and at the end.
ResultInv ==
  /\ pc # "done" =>
       /\ result.status = "REGISTERED" /\ result.hive = None /\ result.server_kind = None
       /\ result.clsid = IF pc \in {"inproc", "local", "unserved"} THEN current ELSE None
  /\ treatas_chain # <<>> => current = treatas_chain[Len(treatas_chain)]
  /\ ResultFits

LEMMA ResultInit == Init => ResultInv
  BY NoneAssumption DEF Init, ResultInv, ResultFits, Result

\* A lookup that ends with a status that tells of nothing found.
LEMMA FitsWithout ==
  ASSUME pc' = "done", UNCHANGED <<query, current, treatas_chain>>, ResultInv,
         NEW s \in Statuses \ {"REGISTERED"}, result' = Result(s, None, None, None),
         s = "NOT_REGISTERED" => query \in Clsids /\ treatas_chain = <<>>,
         s = "PROGID_BROKEN" => query \in Progids /\ treatas_chain = <<>>
  PROVE  ResultInv'
  BY NoneAssumption DEF ResultInv, ResultFits, Result

\* One that found a class, and maybe its hive and its server.
LEMMA FitsClass ==
  ASSUME pc' = "done", UNCHANGED <<query, current, treatas_chain>>, ResultInv,
         current \in Clsids, NEW s \in {"REGISTERED", "BROKEN_REGISTRATION", "ACCESS_DENIED"},
         NEW h \in Hives \cup {None}, NEW k \in ServerKinds \cup {None},
         result' = Result(s, current, h, k),
         s = "REGISTERED" <=> k # None, k # None => h # None
  PROVE  ResultInv'
<1>1. current # None
  BY NoneAssumption DEF Names
<1> QED
  BY <1>1 DEF ResultInv, ResultFits, Result

\* A step that goes on within the lookup.
LEMMA FitsOn ==
  ASSUME pc # "done", pc' # "done", UNCHANGED <<current, treatas_chain, result>>, ResultInv,
         pc \in {"inproc", "local", "unserved"} <=> pc' \in {"inproc", "local", "unserved"}
  PROVE  ResultInv'
  BY DEF ResultInv, ResultFits

LEMMA ResultStep == TypeOK /\ ChainInv /\ ResultInv /\ [Next]_vars => ResultInv'
<1> SUFFICES ASSUME TypeOK, ChainInv, ResultInv, [Next]_vars PROVE ResultInv'
  OBVIOUS
<1> USE DEF ProgidPlaces, ClsidPlaces
<1>1. CASE Read
  BY <1>1, FitsOn DEF Read
<1>2. CASE DeniedKey
  <2>1. pc' = "done" /\ pc # "done" /\ UNCHANGED <<query, current, treatas_chain>>
        /\ result' = [result EXCEPT !.status = "ACCESS_DENIED"]
    BY <1>2, AnswerQuery DEF DeniedKey, Ends
  <2>2. result \in Results
    BY DEF TypeOK
  <2>3. result' = Result("ACCESS_DENIED", result.clsid, None, None)
    BY <2>1, <2>2 DEF Results, Result, ResultInv
  <2>4. CASE pc \in {"inproc", "local", "unserved"}
    <3>1. current \in Clsids /\ result.clsid = current
      BY <2>1, <2>4 DEF TypeOK, ResultInv
    <3> QED
      BY <2>1, <2>3, <3>1, FitsClass
  <2>5. CASE pc \notin {"inproc", "local", "unserved"}
    <3>1. result.clsid = None
      BY <2>1, <2>5 DEF ResultInv
    <3> QED
      BY <2>1, <2>3, <3>1, FitsWithout DEF Statuses
  <2> QED
    BY <2>4, <2>5
<1>3. CASE ProgidBroken \/ CurVerCycle
  <2>1. pc' = "done" /\ pc \in ProgidPlaces /\ UNCHANGED <<query, current, treatas_chain>>
        /\ result' = Result("PROGID_BROKEN", None, None, None)
    BY <1>3, AnswerQuery DEF ProgidBroken, CurVerCycle, Ends
  <2>2. query \in Progids /\ treatas_chain = <<>>
    BY <2>1 DEF ChainInv
  <2> QED
    BY <2>1, <2>2, FitsWithout DEF Statuses
<1>4. CASE ClsidMissing
  <2>1. pc' = "done" /\ pc = "clsid" /\ UNCHANGED <<query, current, treatas_chain>>
        /\ result' = Result(AbsentStatus, IF AbsentStatus = "PROGID_BROKEN" THEN current ELSE None,
                            None, None)
    BY <1>4, AnswerQuery DEF ClsidMissing, Ends
  <2>2. (query \in Progids <=> progid_chain # <<>>) /\ query \in Names /\ current \in Clsids
    BY <2>1, NamesAssumption DEF ChainInv, TypeOK
  <2>3. CASE AbsentStatus = "PROGID_BROKEN"
    <3>1. query \in Progids /\ treatas_chain = <<>>
      BY <2>2, <2>3 DEF AbsentStatus
    <3>2. result' = Result("PROGID_BROKEN", current, None, None)
      BY <2>1, <2>3
    <3> QED
      BY <2>1, <2>2, <3>1, <3>2, NoneAssumption DEF ResultInv, ResultFits, Result
  <2>4. CASE AbsentStatus # "PROGID_BROKEN"
    <3>1. AbsentStatus = "NOT_REGISTERED" => query \in Clsids /\ treatas_chain = <<>>
      BY <2>2 DEF AbsentStatus, Names
    <3>2. AbsentStatus \in Statuses \ {"REGISTERED"}
      BY DEF AbsentStatus, Statuses
    <3>3. result' = Result(AbsentStatus, None, None, None)
      BY <2>1, <2>4
    <3> QED
      BY <2>1, <2>4, <3>1, <3>2, <3>3, FitsWithout
  <2> QED
    BY <2>3, <2>4
<1>5. CASE TreatAsBroken
  <2>1. pc' = "done" /\ UNCHANGED <<query, current, treatas_chain>>
        /\ result' = Result("TREATAS_BROKEN", None, None, None)
    BY <1>5, AnswerQuery DEF TreatAsBroken, Ends
  <2> QED
    BY <2>1, FitsWithout DEF Statuses
<1>6. CASE ServerFound
  <2>1. pc' = "done" /\ UNCHANGED <<query, current, treatas_chain>>
        /\ result' = Result("REGISTERED", current, hive, Sub[pc])
    BY <1>6, AnswerQuery DEF ServerFound, Ends
  <2>2. Sub[pc] \in ServerKinds /\ hive \in Hives /\ current \in Clsids
    BY <1>6, PlacesOf DEF ServerFound, ServerKinds, TypeOK
  <2> QED
    BY <2>1, <2>2, FitsClass, NoneAssumption
<1>7. CASE ServerBroken
  <2>1. pc' = "done" /\ UNCHANGED <<query, current, treatas_chain>>
        /\ result' = Result("BROKEN_REGISTRATION", current, hive, None)
    BY <1>7, AnswerQuery DEF ServerBroken, Ends
  <2>2. hive \in Hives /\ current \in Clsids
    BY <1>7 DEF ServerBroken, TypeOK
  <2> QED
    BY <2>1, <2>2, FitsClass
<1>8. CASE Unserved
  <2>1. pc' = "done" /\ UNCHANGED <<query, current, treatas_chain>>
        /\ \E h \in {hive, None} : result' = Result("BROKEN_REGISTRATION", current, h, None)
    BY <1>8, AnswerQuery DEF Unserved, Ends
  <2>2. hive \in Hives /\ current \in Clsids
    BY <1>8 DEF Unserved, TypeOK
  <2> QED
    BY <2>1, <2>2, FitsClass
<1>9. CASE ProgidExists \/ CurVerEnds \/ ClsidExists
  BY <1>9, FitsOn DEF ProgidExists, CurVerEnds, ClsidExists, GoesTo
<1>10. CASE ServerMissing
  BY <1>10, FitsOn DEF ServerMissing, GoesTo
<1>11. CASE ProgidResolved \/ CurVerFollows
  <2>1. pc \in ProgidPlaces /\ pc' \in {"clsid", "progid"} /\ UNCHANGED <<treatas_chain, result>>
    BY <1>11 DEF ProgidResolved, CurVerFollows
  <2>2. treatas_chain = <<>>
    BY <2>1 DEF ChainInv
  <2> QED
    BY <2>1, <2>2 DEF ResultInv, ResultFits
<1>12. CASE TreatAsFollows
  <2>1. PICK c : Answer(c) /\ Finds(c) /\ current' = c /\ treatas_chain' = Append(treatas_chain, c)
    BY <1>12 DEF TreatAsFollows
  <2>2. pc = "treatas" /\ pc' = "clsid" /\ result' = result
    BY <1>12 DEF TreatAsFollows
  <2>3. c \in Clsids
    BY <2>1, <2>2, TextsOf, PlacesOf DEF Finds
  <2>4. treatas_chain'[Len(treatas_chain')] = c
    BY <2>1, <2>3 DEF TypeOK
  <2> QED
    BY <2>1, <2>2, <2>4 DEF ResultInv, ResultFits
<1>13. CASE TreatAsEnds
  <2>1. pc = "treatas" /\ pc' = "inproc" /\ result' = [result EXCEPT !.clsid = current]
        /\ UNCHANGED <<current, treatas_chain>>
    BY <1>13 DEF TreatAsEnds
  <2>2. result \in Results
    BY DEF TypeOK
  <2>3. result' = Result("REGISTERED", current, None, None)
    BY <2>1, <2>2 DEF Results, Result, ResultInv
  <2> QED
    BY <2>1, <2>3 DEF ResultInv, ResultFits, Result
<1>14. CASE UNCHANGED vars
  BY <1>14 DEF vars, read, ResultInv, ResultFits
<1> QED
  BY <1>1, <1>2, <1>3, <1>4, <1>5, <1>6, <1>7, <1>8, <1>9, <1>10, <1>11, <1>12, <1>13,
     <1>14 DEF Next, Step, Done

\* A result tells of a server exactly when the class is registered, of a hive
\* only with its class, and of the class at the end of the TreatAs chain.
THEOREM ResultsFit == Spec => []ResultFits
<1>1. ResultInv => ResultFits
  BY DEF ResultInv
<1>2. Init => ResultInv
  BY ResultInit
<1> QED
  BY <1>1, <1>2, ResultStep, ChainInvariant, PTL DEF Spec

-----------------------------------------------------------------------------
(* The path from a name, in a registry that nobody writes to               *)

\* A set of naturals that is not empty has a least member.
LEMMA LeastNatural ==
  ASSUME NEW T \in SUBSET Nat, T # {}
  PROVE  \E x \in T : \A y \in T : x <= y
  <1>. DEFINE R == {ss \in Nat \X Nat : ss[1] < ss[2]}
  <1>1. IsWellFoundedOn(R, Nat)
    BY NatLessThanWellFounded DEF OpToRel
  <1>. HIDE DEF R
  <1>2. PICK x \in T : \A y \in T : ~(<<y, x>> \in R)
    BY <1>1, WFMin
  <1>3. \A y \in T : ~(y < x)
    BY <1>2 DEF R
  <1>. QED
    BY <1>3

\* Induction over the naturals, for a set in the place of a predicate.
LEMMA NatSetInduction ==
  ASSUME NEW T, 0 \in T, \A n \in Nat : n \in T => n + 1 \in T
  PROVE  Nat \subseteq T
  <1>. SUFFICES ASSUME Nat \ T # {} PROVE FALSE
    OBVIOUS
  <1>1. PICK x \in Nat \ T : \A y \in Nat \ T : x <= y
    BY LeastNatural
  <1>2. x # 0 /\ x - 1 \in Nat /\ x - 1 \in T
    BY <1>1
  <1>3. (x - 1) + 1 \in T
    BY <1>2
  <1>. QED
    BY <1>3

\* The chain s leads from key to key, to a new name each time.
Follows(reg, sub, s) ==
  /\ s \in Seq(Names) /\ s # <<>> /\ Simple(s)
  /\ \A i \in 1..(Len(s) - 1) : Points(reg, sub, s[i], s[i + 1])

\* From its end no key leads to a new name.
Stuck(reg, sub, s) ==
  \A n \in Names : ~(Points(reg, sub, s[Len(s)], n) /\ \A i \in DOMAIN s : Upper[s[i]] # Upper[n])

\* The names that a path goes on to.
Further(reg, sub, s) ==
  {n \in Names : Points(reg, sub, Last(s), n) /\ \A i \in DOMAIN s : Upper[s[i]] # Upper[n]}

\* A key leads to one name.
LEMMA OneFurther ==
  ASSUME NEW reg, NEW sub, NEW s, Follows(reg, sub, s), NEW k \in 1..(Len(s) - 1)
  PROVE  Further(reg, sub, SubSeq(s, 1, k)) = {s[k + 1]}
<1>. DEFINE t == SubSeq(s, 1, k)
<1>1. s \in Seq(Names) /\ Len(s) \in Nat /\ k \in Nat /\ k >= 1 /\ k + 1 <= Len(s)
  BY DEF Follows
<1>2. Len(t) = k /\ DOMAIN t = 1..k /\ \A i \in 1..k : t[i] = s[i]
  BY <1>1
<1>. HIDE DEF t
<1>3. Last(t) = s[k] /\ s[k + 1] \in Names
  BY <1>1, <1>2 DEF Last
<1>4. Points(reg, sub, s[k], s[k + 1])
  BY DEF Follows
<1>5. \A i \in DOMAIN t : Upper[t[i]] # Upper[s[k + 1]]
  BY <1>1, <1>2 DEF Follows, Simple
<1>6. ASSUME NEW n, Points(reg, sub, s[k], n) PROVE n = s[k + 1]
  BY <1>4, <1>6 DEF Points
<1>. QED
  BY <1>3, <1>4, <1>5, <1>6 DEF Further, t

LEMMA HeadOnly ==
  ASSUME NEW S, NEW s \in Seq(S), Len(s) >= 1
  PROVE  SubSeq(s, 1, 1) = <<s[1]>>
<1>. DEFINE t == SubSeq(s, 1, 1)
            u == <<s[1]>>
<1>1. s[1] \in S /\ Len(s) \in Nat
  OBVIOUS
<1>2. t \in Seq(S) /\ Len(t) = 1 /\ t[1] = s[1]
  BY <1>1
<1>3. u \in Seq(S) /\ Len(u) = 1 /\ u[1] = s[1]
  BY <1>1
<1>. HIDE DEF t, u
<1>4. t = u
  BY <1>2, <1>3
<1>. QED
  BY <1>4 DEF t, u

\* A chain that cannot go on, or is as long as it may be, is the path.
LEMMA PathIs ==
  ASSUME NEW reg, NEW sub, NEW s, Follows(reg, sub, s), NEW len \in Nat, Len(s) <= len,
         Len(s) = len \/ Stuck(reg, sub, s)
  PROVE  Path(reg, sub, s[1], len) = s
<1>. DEFINE start == s[1]
            Next1(p) == IF Further(reg, sub, p) = {} THEN p
                        ELSE Append(p, CHOOSE n \in Further(reg, sub, p) : TRUE)
            path[k \in 1..len] == IF k = 1 THEN <<start>> ELSE Next1(path[k - 1])
            f == [k \in 1..len |-> IF k <= Len(s) THEN SubSeq(s, 1, k) ELSE s]
<1>1. s \in Seq(Names) /\ Len(s) \in Nat /\ Len(s) >= 1 /\ len >= 1
  BY DEF Follows
<1>2. SubSeq(s, 1, 1) = <<start>>
  BY <1>1, HeadOnly
<1>3. SubSeq(s, 1, Len(s)) = s
  BY <1>1
<1>4. \A k \in 1..len : /\ k <= Len(s) => f[k] = SubSeq(s, 1, k)
                        /\ k >= Len(s) => f[k] = s
  <2>1. \A k \in 1..len : f[k] = IF k <= Len(s) THEN SubSeq(s, 1, k) ELSE s
    OBVIOUS
  <2>. HIDE DEF f
  <2>2. ASSUME NEW k \in 1..len, k >= Len(s) PROVE f[k] = s
    <3>1. CASE k = Len(s)
      <4>0. k <= Len(s)
        BY <1>1, <3>1
      <4>1. f[k] = SubSeq(s, 1, k)
        BY <2>1, <4>0, Zenon
      <4>. QED
        BY <1>3, <3>1, <4>1, Zenon
    <3>2. CASE k # Len(s)
      <4>1. ~(k <= Len(s))
        BY <1>1, <2>2, <3>2
      <4>. QED
        BY <2>1, <4>1, Zenon
    <3>. QED
      BY <3>1, <3>2
  <2>. QED
    BY <2>1, <2>2, Zenon
<1>5. f[1] = <<start>>
  <2>1. 1 \in 1..len /\ 1 <= Len(s)
    BY <1>1
  <2>. HIDE DEF f
  <2>. QED
    BY <1>2, <1>4, <2>1, Zenon
<1>6. ASSUME NEW k \in 2..len PROVE f[k] = Next1(f[k - 1])
  <2>. HIDE DEF f
  <2>0. k \in 1..len /\ k - 1 \in 1..len
    BY <1>1
  <2>1. CASE k <= Len(s)
    <3>2. k - 1 \in 1..(Len(s) - 1) /\ (k - 1) + 1 = k /\ k - 1 <= Len(s)
      BY <1>1, <2>1
    <3>1. f[k] = SubSeq(s, 1, k) /\ f[k - 1] = SubSeq(s, 1, k - 1)
      BY <1>4, <2>0, <2>1, <3>2, Zenon
    <3>3. Further(reg, sub, SubSeq(s, 1, k - 1)) = {s[k]}
      <4>1. PICK m \in 1..(Len(s) - 1) : m = k - 1 /\ m + 1 = k
        BY <3>2
      <4>2. Further(reg, sub, SubSeq(s, 1, m)) = {s[m + 1]}
        BY OneFurther
      <4>. QED
        BY <4>1, <4>2, Zenon
    <3>4. SubSeq(s, 1, k) = Append(SubSeq(s, 1, k - 1), s[k])
      BY <1>1, <2>1
    <3>5. \A x : {x} # {} /\ (CHOOSE n \in {x} : TRUE) = x
      OBVIOUS
    <3>. QED
      BY <3>1, <3>3, <3>4, <3>5, Zenon
  <2>2. CASE k > Len(s)
    <3>0. k >= Len(s) /\ k - 1 >= Len(s)
      BY <1>1, <2>2
    <3>1. f[k] = s /\ f[k - 1] = s
      BY <1>4, <2>0, <3>0, Zenon
    <3>2. Stuck(reg, sub, s)
      BY <1>1, <2>2
    <3>3. Further(reg, sub, s) = {}
      BY <3>2 DEF Stuck, Further, Last
    <3>. QED
      BY <3>1, <3>3, Zenon
  <2>3. k <= Len(s) \/ k > Len(s)
    BY <1>1
  <2>. QED
    BY <2>1, <2>2, <2>3, Zenon
<1>7. f[len] = s
  <2>1. len \in 1..len
    BY <1>1
  <2>. HIDE DEF f
  <2>. QED
    BY <1>4, <2>1
<1>8. DOMAIN f = 1..len /\ f = [k \in 1..len |-> f[k]]
  OBVIOUS
<1>. HIDE DEF f, Next1
<1>9. f = [k \in 1..len |-> IF k = 1 THEN <<start>> ELSE Next1(f[k - 1])]
  <2>1. \A k \in 1..len : f[k] = IF k = 1 THEN <<start>> ELSE Next1(f[k - 1])
    BY <1>5, <1>6
  <2>. QED
    BY <1>8, <2>1
<1>10. path = [k \in 1..len |-> IF k = 1 THEN <<start>> ELSE Next1(path[k - 1])]
  BY <1>9
<1>. HIDE DEF path
<1>11. \A k \in Nat : k \in 1..len => path[k] = f[k]
  <2>. DEFINE T == {k \in Nat : k \in 1..len => path[k] = f[k]}
  <2>1. 0 \in T
    OBVIOUS
  <2>2. ASSUME NEW k \in T PROVE k + 1 \in T
    <3>. SUFFICES ASSUME k + 1 \in 1..len PROVE path[k + 1] = f[k + 1]
      OBVIOUS
    <3>1. CASE k = 0
      BY <1>5, <1>10, <3>1
    <3>2. CASE k # 0
      <4>1. k \in 1..len /\ k + 1 # 1 /\ (k + 1) - 1 = k /\ k + 1 \in 2..len
        BY <3>2
      <4>2. path[k + 1] = Next1(path[k])
        BY <1>10, <4>1
      <4>3. f[k + 1] = Next1(f[k])
        BY <1>6, <4>1
      <4>4. path[k] = f[k]
        BY <4>1
      <4>. QED
        BY <4>2, <4>3, <4>4, Zenon
    <3>. QED
      BY <3>1, <3>2
  <2>. HIDE DEF T
  <2>3. \A k \in Nat : k \in T
    BY <2>1, <2>2, NatSetInduction
  <2>. QED
    BY <2>3 DEF T
<1>12. Path(reg, sub, start, len) = path[len]
  BY DEF Path, path, Next1, Further
<1>. QED
  BY <1>1, <1>7, <1>11, <1>12

\* A chain goes on to a new name.
LEMMA FollowsOn ==
  ASSUME NEW reg, NEW sub, NEW s, Follows(reg, sub, s), NEW n \in Names,
         Points(reg, sub, s[Len(s)], n), \A i \in DOMAIN s : Upper[s[i]] # Upper[n]
  PROVE  Follows(reg, sub, Append(s, n))
<1>. DEFINE t == Append(s, n)
<1>1. s \in Seq(Names) /\ Len(s) \in Nat /\ Len(s) >= 1
  BY DEF Follows
<1>2. t \in Seq(Names) /\ t # <<>> /\ Len(t) = Len(s) + 1 /\ t[Len(s) + 1] = n
      /\ \A i \in 1..Len(s) : t[i] = s[i]
  BY <1>1
<1>3. Simple(t)
  BY <1>1, AppendSimple DEF Follows
<1>. HIDE DEF t
<1>4. ASSUME NEW i \in 1..(Len(t) - 1) PROVE Points(reg, sub, t[i], t[i + 1])
  <2>1. CASE i = Len(s)
    BY <1>1, <1>2, <2>1
  <2>2. CASE i # Len(s)
    <3>1. i \in 1..(Len(s) - 1) /\ t[i] = s[i] /\ t[i + 1] = s[i + 1]
      BY <1>1, <1>2, <2>2
    <3>. QED
      BY <3>1 DEF Follows
  <2>. QED
    BY <2>1, <2>2
<1>5. Follows(reg, sub, t)
  BY <1>2, <1>3, <1>4 DEF Follows
<1>. QED
  BY <1>5 DEF t

-----------------------------------------------------------------------------
(* The answer, once the end of the path is known                           *)

\* s is the whole path, of len names at most.
Whole(reg, sub, s, len) ==
  /\ Follows(reg, sub, s)
  /\ Len(s) <= len
  /\ Len(s) = len \/ Stuck(reg, sub, s)

LEMMA PathIsWhole ==
  ASSUME NEW reg, NEW sub, NEW s, NEW len \in Nat, Whole(reg, sub, s, len)
  PROVE  Path(reg, sub, s[1], len) = s /\ Last(s) = s[Len(s)]
  BY PathIs DEF Whole, Last

\* What ClsidAnswer is, when the chain s of classes is whole.
ClsidAt(reg, s) ==
  LET end == s[Len(s)]
  IN IF "denied" \in {Merged(reg, end, "")} \cup
                     (IF Opens(Merged(reg, end, "")) THEN {Merged(reg, end, "TreatAs")} ELSE {})
       THEN Result("ACCESS_DENIED", None, None, None)
     ELSE IF Merged(reg, end, "") = "absent"
       THEN IF Len(s) > 1 THEN Result("TREATAS_BROKEN", None, None, None)
            ELSE IF query \in Progids THEN Result("PROGID_BROKEN", s[1], None, None)
            ELSE Result("NOT_REGISTERED", None, None, None)
     ELSE IF Merged(reg, end, "TreatAs") = "absent" THEN ServerAnswer(reg, end)
     ELSE Result("TREATAS_BROKEN", None, None, None)

LEMMA ClsidAnswerIs ==
  ASSUME NEW reg, NEW s, Whole(reg, "TreatAs", s, MAX_CHAIN_HOPS + 1)
  PROVE  ClsidAnswer(reg, s[1]) = ClsidAt(reg, s)
<1>1. MAX_CHAIN_HOPS + 1 \in Nat
  BY MaxChainHopsAssumption
<1>2. Path(reg, "TreatAs", s[1], MAX_CHAIN_HOPS + 1) = s /\ Last(s) = s[Len(s)]
  BY <1>1, PathIsWhole
<1> QED
  BY <1>2, Zenon DEF ClsidAnswer, ClsidAt

\* The same for ProgidAnswer and a chain of ProgIDs.
CurVerDone(reg, n) ==
  \/ Merged(reg, n, "CurVer") = "absent"
  \/ Merged(reg, n, "CurVer") \in Progids /\ Upper[Merged(reg, n, "CurVer")] = Upper[n]

ProgidDenied(reg, n) ==
  \/ Merged(reg, n, "") = "denied"
  \/ Opens(Merged(reg, n, "")) /\ (Merged(reg, n, "CurVer") = "denied"
        \/ (CurVerDone(reg, n) /\ Merged(reg, n, "CLSID") = "denied"))

ProgidAt(reg, s) ==
  LET end == s[Len(s)]
  IN IF ProgidDenied(reg, end)
       THEN Result("ACCESS_DENIED", None, None, None)
     ELSE IF Opens(Merged(reg, end, "")) /\ CurVerDone(reg, end) /\ Merged(reg, end, "CLSID") \in Clsids
       THEN ClsidAnswer(reg, Merged(reg, end, "CLSID"))
     ELSE Result("PROGID_BROKEN", None, None, None)

LEMMA ProgidAnswerIs ==
  ASSUME NEW reg, NEW s, Whole(reg, "CurVer", s, MAX_CHAIN_HOPS)
  PROVE  ProgidAnswer(reg, s[1]) = ProgidAt(reg, s)
<1>1. MAX_CHAIN_HOPS \in Nat
  BY MaxChainHopsAssumption
<1>2. Path(reg, "CurVer", s[1], MAX_CHAIN_HOPS) = s /\ Last(s) = s[Len(s)]
  BY <1>1, PathIsWhole
<1> QED
  BY <1>2, Zenon DEF ProgidAnswer, ProgidAt, ProgidDenied, CurVerDone

\* The cases of ProgidAt.
LEMMA ProgidCases ==
  ASSUME NEW reg, NEW s
  PROVE  LET end == s[Len(s)] IN
         /\ Merged(reg, end, "") = "denied" =>
              ProgidAt(reg, s) = Result("ACCESS_DENIED", None, None, None)
         /\ Merged(reg, end, "") = "absent" =>
              ProgidAt(reg, s) = Result("PROGID_BROKEN", None, None, None)
         /\ Opens(Merged(reg, end, "")) /\ Merged(reg, end, "CurVer") = "denied" =>
              ProgidAt(reg, s) = Result("ACCESS_DENIED", None, None, None)
         /\ Opens(Merged(reg, end, "")) /\ Merged(reg, end, "CurVer") # "denied" /\ ~CurVerDone(reg, end) =>
              ProgidAt(reg, s) = Result("PROGID_BROKEN", None, None, None)
<1>1. "absent" # "denied" /\ ~Opens("absent") /\ ~Opens("denied")
  BY DEF Opens
<1>. DEFINE end == s[Len(s)]
            m == Merged(reg, end, "")
            v == Merged(reg, end, "CurVer")
            k == Merged(reg, end, "CLSID")
            d == CurVerDone(reg, end)
<1>0. d \in BOOLEAN /\ Opens(m) \in BOOLEAN
  BY DEF CurVerDone, Opens
<1>2. ProgidAt(reg, s) =
        IF ProgidDenied(reg, end)
          THEN Result("ACCESS_DENIED", None, None, None)
        ELSE IF Opens(m) /\ d /\ k \in Clsids THEN ClsidAnswer(reg, k)
        ELSE Result("PROGID_BROKEN", None, None, None)
  BY Zenon DEF ProgidAt
<1>. DEFINE x == ProgidDenied(reg, end)
<1>4. x <=> m = "denied" \/ (Opens(m) /\ (v = "denied" \/ (d /\ k = "denied")))
  BY DEF ProgidDenied
<1>. HIDE DEF m, v, k, d, x
<1>3. /\ m = "denied" => ProgidAt(reg, s) = Result("ACCESS_DENIED", None, None, None)
      /\ m = "absent" => ProgidAt(reg, s) = Result("PROGID_BROKEN", None, None, None)
      /\ Opens(m) /\ v = "denied" => ProgidAt(reg, s) = Result("ACCESS_DENIED", None, None, None)
      /\ Opens(m) /\ v # "denied" /\ ~d => ProgidAt(reg, s) = Result("PROGID_BROKEN", None, None, None)
  BY <1>0, <1>1, <1>2, <1>4 DEF x
<1> QED
  BY <1>3 DEF m, v, k, d

LEMMA ProgidClass ==
  ASSUME NEW reg, NEW s, Opens(Merged(reg, s[Len(s)], "")), CurVerDone(reg, s[Len(s)])
  PROVE  LET end == s[Len(s)] IN
         /\ Merged(reg, end, "CLSID") = "denied" =>
              ProgidAt(reg, s) = Result("ACCESS_DENIED", None, None, None)
         /\ Merged(reg, end, "CLSID") \in Clsids =>
              ProgidAt(reg, s) = ClsidAnswer(reg, Merged(reg, end, "CLSID"))
         /\ Merged(reg, end, "CLSID") \in {"absent", "blank"} =>
              ProgidAt(reg, s) = Result("PROGID_BROKEN", None, None, None)
<1>. DEFINE end == s[Len(s)]
            m == Merged(reg, end, "")
            v == Merged(reg, end, "CurVer")
            k == Merged(reg, end, "CLSID")
<1>1. m # "denied" /\ v # "denied" /\ \A c \in Clsids : c \notin {"absent", "denied", "blank"}
  BY NamesAssumption DEF Opens, CurVerDone, Names
<1>2. ProgidAt(reg, s) =
        IF ProgidDenied(reg, end)
          THEN Result("ACCESS_DENIED", None, None, None)
        ELSE IF Opens(m) /\ CurVerDone(reg, end) /\ k \in Clsids THEN ClsidAnswer(reg, k)
        ELSE Result("PROGID_BROKEN", None, None, None)
  BY Zenon DEF ProgidAt
<1>3. Opens(m)
  OBVIOUS
<1>5. ProgidDenied(reg, end) <=> k = "denied"
  BY <1>1, <1>3 DEF ProgidDenied
<1>. HIDE DEF m, v, k
<1>4. /\ k = "denied" => ProgidAt(reg, s) = Result("ACCESS_DENIED", None, None, None)
      /\ k \in Clsids => ProgidAt(reg, s) = ClsidAnswer(reg, k)
      /\ k \in {"absent", "blank"} => ProgidAt(reg, s) = Result("PROGID_BROKEN", None, None, None)
  BY <1>1, <1>2, <1>3, <1>5
<1> QED
  BY <1>4 DEF k

\* The cases of ClsidAt.
LEMMA ClsidCases ==
  ASSUME NEW reg, NEW s, NEW end, end = s[Len(s)]
  PROVE  /\ Merged(reg, end, "") = "denied" =>
              ClsidAt(reg, s) = Result("ACCESS_DENIED", None, None, None)
         /\ Merged(reg, end, "") = "absent" =>
              ClsidAt(reg, s) =
                IF Len(s) > 1 THEN Result("TREATAS_BROKEN", None, None, None)
                ELSE IF query \in Progids THEN Result("PROGID_BROKEN", s[1], None, None)
                ELSE Result("NOT_REGISTERED", None, None, None)
         /\ Opens(Merged(reg, end, "")) =>
              /\ Merged(reg, end, "TreatAs") = "denied" =>
                   ClsidAt(reg, s) = Result("ACCESS_DENIED", None, None, None)
              /\ Merged(reg, end, "TreatAs") = "absent" => ClsidAt(reg, s) = ServerAnswer(reg, end)
              /\ Merged(reg, end, "TreatAs") \notin {"denied", "absent"} =>
                   ClsidAt(reg, s) = Result("TREATAS_BROKEN", None, None, None)
<1>. DEFINE m == Merged(reg, end, "")
            t == Merged(reg, end, "TreatAs")
            missing == IF Len(s) > 1 THEN Result("TREATAS_BROKEN", None, None, None)
                       ELSE IF query \in Progids THEN Result("PROGID_BROKEN", s[1], None, None)
                       ELSE Result("NOT_REGISTERED", None, None, None)
            denied == "denied" \in {m} \cup (IF Opens(m) THEN {t} ELSE {})
<1>1. ClsidAt(reg, s) =
        IF denied THEN Result("ACCESS_DENIED", None, None, None)
        ELSE IF m = "absent" THEN missing
        ELSE IF t = "absent" THEN ServerAnswer(reg, end)
        ELSE Result("TREATAS_BROKEN", None, None, None)
  BY Zenon DEF ClsidAt
<1>. HIDE DEF m, t, missing
<1>2. /\ denied <=> m = "denied" \/ (Opens(m) /\ t = "denied")
      /\ "absent" # "denied" /\ ~Opens("absent") /\ ~Opens("denied")
  BY DEF Opens
<1>. HIDE DEF denied
<1>3. /\ m = "denied" => ClsidAt(reg, s) = Result("ACCESS_DENIED", None, None, None)
      /\ m = "absent" => ClsidAt(reg, s) = missing
      /\ Opens(m) =>
           /\ t = "denied" => ClsidAt(reg, s) = Result("ACCESS_DENIED", None, None, None)
           /\ t = "absent" => ClsidAt(reg, s) = ServerAnswer(reg, end)
           /\ t \notin {"denied", "absent"} => ClsidAt(reg, s) = Result("TREATAS_BROKEN", None, None, None)
  BY <1>1, <1>2
<1> QED
  BY <1>3, Zenon DEF m, t, missing

\* The server key that is there, in-process first, decides.
LEMMA ServerCases ==
  ASSUME NEW reg, NEW n, NEW k \in ServerKinds, Merged(reg, n, k) # "absent",
         k = "LocalServer32" => Merged(reg, n, "InprocServer32") = "absent"
  PROVE  /\ Merged(reg, n, k) = "denied" =>
              ServerAnswer(reg, n) = Result("ACCESS_DENIED", n, None, None)
         /\ Merged(reg, n, k) = "blank" =>
              ServerAnswer(reg, n) = Result("BROKEN_REGISTRATION", n, Shown(reg, n, k), None)
         /\ Merged(reg, n, k) \notin {"denied", "blank"} =>
              ServerAnswer(reg, n) = Result("REGISTERED", n, Shown(reg, n, k), k)
<1>. DEFINE kinds == {x \in ServerKinds : Merged(reg, n, x) # "absent"}
            kind == IF "InprocServer32" \in kinds THEN "InprocServer32" ELSE "LocalServer32"
<1>1. k \in kinds /\ kinds # {}
  OBVIOUS
<1>2. kind = k
  BY DEF ServerKinds
<1>. HIDE DEF kinds, kind
<1>3. ServerAnswer(reg, n) =
        IF kinds = {} THEN Result("BROKEN_REGISTRATION", n, Shown(reg, n, ""), None)
        ELSE IF Merged(reg, n, kind) = "denied" THEN Result("ACCESS_DENIED", n, None, None)
        ELSE IF Merged(reg, n, kind) = "blank"
          THEN Result("BROKEN_REGISTRATION", n, Shown(reg, n, kind), None)
        ELSE Result("REGISTERED", n, Shown(reg, n, kind), kind)
  BY Zenon DEF ServerAnswer, kinds, kind
<1>4. "denied" # "blank"
  OBVIOUS
<1>. DEFINE m == Merged(reg, n, k)
            h == Shown(reg, n, k)
<1>5. ServerAnswer(reg, n) =
        IF m = "denied" THEN Result("ACCESS_DENIED", n, None, None)
        ELSE IF m = "blank" THEN Result("BROKEN_REGISTRATION", n, h, None)
        ELSE Result("REGISTERED", n, h, k)
  BY <1>1, <1>2, <1>3, Zenon
<1>. HIDE DEF m, h
<1>6. /\ m = "denied" => ServerAnswer(reg, n) = Result("ACCESS_DENIED", n, None, None)
      /\ m = "blank" => ServerAnswer(reg, n) = Result("BROKEN_REGISTRATION", n, h, None)
      /\ m \notin {"denied", "blank"} => ServerAnswer(reg, n) = Result("REGISTERED", n, h, k)
  BY <1>4, <1>5
<1> QED
  BY <1>6, Zenon DEF m, h

LEMMA NoServer ==
  ASSUME NEW reg, NEW n, \A k \in ServerKinds : Merged(reg, n, k) = "absent"
  PROVE  ServerAnswer(reg, n) = Result("BROKEN_REGISTRATION", n, Shown(reg, n, ""), None)
<1>1. {x \in ServerKinds : Merged(reg, n, x) # "absent"} = {}
  OBVIOUS
<1> QED
  BY <1>1, Zenon DEF ServerAnswer

-----------------------------------------------------------------------------
(* What a merged read tells of the registry                                *)

\* reg is a registry that has all contents seen so far.
Agrees(reg) ==
  /\ \A k \in Keys : reg[k] \in Contents(k[3])
  /\ \A k \in DOMAIN known : reg[k] = known[k]

\* What the calls of the merged read under way have told.
ReadSoFar(reg) ==
  /\ hive = "HKLM" => reg[<<"HKCU", Upper[current], Sub[pc]>>] = "absent"
  /\ probing => reg[Key] \in {"absent", "blank"}

\* What a call that finds c tells.
Tells(reg, c) ==
  /\ Agrees(reg)
  /\ c \in Contents(Sub[pc])
  /\ probing => c \in {"absent", "blank"}
  /\ reg[Key] = c
  /\ c # "absent" \/ hive = "HKLM" =>
       Shown(reg, current, Sub[pc]) = hive /\ Merged(reg, current, Sub[pc]) = c

LEMMA SeesTells ==
  ASSUME TypeOK, ~shared, pc \in Places, NEW c, Sees(c), NEW reg, Agrees(reg)',
         Agrees(reg) => ReadSoFar(reg)
  PROVE  Tells(reg, c)
<1>1. /\ c \in Contents(Sub[pc])
      /\ Key \in DOMAIN known => known[Key] = c
      /\ known' = [k \in DOMAIN known \cup {Key} |-> IF k = Key THEN c ELSE known[k]]
  BY DEF Sees
<1>. DEFINE key == Key
<1>. HIDE DEF key
<1>2. /\ key \in DOMAIN known'
      /\ known'[key] = c
      /\ \A k \in DOMAIN known : k \in DOMAIN known' /\ known'[k] = known[k]
  BY <1>1 DEF key
<1>3. /\ \A k \in Keys : reg[k] \in Contents(k[3])
      /\ \A k \in DOMAIN known' : reg[k] = known'[k]
  BY DEF Agrees
<1>4. Agrees(reg) /\ reg[key] = c
  BY <1>2, <1>3 DEF Agrees
<1>5. ReadSoFar(reg)
  BY <1>4
<1>6. hive \in Hives
  BY DEF TypeOK
<1>7. probing => c \in {"absent", "blank"}
  BY <1>4, <1>5 DEF ReadSoFar, key
<1>8. ASSUME c # "absent" \/ hive = "HKLM"
      PROVE  Shown(reg, current, Sub[pc]) = hive /\ Merged(reg, current, Sub[pc]) = c
  <2>1. CASE hive = "HKLM"
    <3>1. reg[<<"HKCU", Upper[current], Sub[pc]>>] = "absent"
      BY <1>5, <2>1 DEF ReadSoFar
    <3>2. Shown(reg, current, Sub[pc]) = "HKLM"
      BY <3>1 DEF Shown
    <3>. QED
      BY <1>4, <2>1, <3>2 DEF Merged, key, Key
  <2>2. CASE hive = "HKCU"
    <3>1. reg[<<"HKCU", Upper[current], Sub[pc]>>] # "absent"
      BY <1>4, <1>8, <2>2 DEF key, Key
    <3>2. Shown(reg, current, Sub[pc]) = "HKCU"
      BY <3>1 DEF Shown
    <3>. QED
      BY <1>4, <2>2, <3>2 DEF Merged, key, Key
  <2>. QED
    BY <1>6, <2>1, <2>2 DEF Hives
<1>. QED
  BY <1>1, <1>4, <1>7, <1>8 DEF Tells, key

\* A call that decides nothing tells what there is to remember of it.
LEMMA ReadTells ==
  ASSUME TypeOK, ~shared, pc \in Places, NEW c, Sees(c), GoesOn(c), UNCHANGED <<pc, current>>,
         NEW reg, Agrees(reg)', Agrees(reg) => ReadSoFar(reg)
  PROVE  Agrees(reg) /\ ReadSoFar(reg)'
<1>1. Tells(reg, c)
  BY SeesTells
<1>2. Agrees(reg) /\ reg[Key] = c /\ c \in Contents(Sub[pc]) /\ ReadSoFar(reg)
  BY <1>1 DEF Tells
<1>3. CASE probing
  <2>1. hive = "HKCU" /\ hive' = "HKLM" /\ probing' = FALSE /\ c = "absent"
    BY <1>1, <1>3 DEF GoesOn, Tells, Opens
  <2>2. Key = <<"HKCU", Upper[current'], Sub[pc']>>
    BY <2>1 DEF Key
  <2>3. reg[<<"HKCU", Upper[current'], Sub[pc']>>] = "absent"
    BY <1>2, <2>1, <2>2
  <2>. QED
    BY <1>2, <2>1, <2>3 DEF ReadSoFar
<1>4. CASE ~probing
  <2>1. hive' = hive /\ probing' = TRUE /\ c \in {"absent", "blank"}
    BY <1>2, <1>4 DEF GoesOn, Contents
  <2>2. Key' = Key
    BY <2>1 DEF Key
  <2>3. reg[Key'] \in {"absent", "blank"}
    BY <1>2, <2>1, <2>2
  <2>. QED
    BY <1>2, <2>1, <2>3 DEF ReadSoFar
<1>. QED
  BY <1>3, <1>4 DEF TypeOK

\* An answer starts the next merged read.
LEMMA AnswerFresh == ASSUME NEW c, Answer(c), NEW reg PROVE ReadSoFar(reg)'
  BY DEF Answer, ReadSoFar

LEMMA AnswerTells ==
  ASSUME TypeOK, ~shared, pc \in Places, NEW c, Answer(c), NEW reg, Agrees(reg)',
         Agrees(reg) => ReadSoFar(reg)
  PROVE  /\ Agrees(reg)
         /\ Finds(c) => /\ c \in Texts(Sub[pc])
                        /\ Merged(reg, current, Sub[pc]) = c
                        /\ Shown(reg, current, Sub[pc]) = hive
         /\ Denies(c) => Merged(reg, current, Sub[pc]) = "denied"
         /\ Present(c) => /\ Merged(reg, current, Sub[pc]) = "blank"
                          /\ Shown(reg, current, Sub[pc]) = hive
         /\ Missing(c) => Merged(reg, current, Sub[pc]) = "absent"
<1>1. Tells(reg, c)
  BY SeesTells DEF Answer
<1>2. c \in Texts(Sub[pc]) => c # "absent"
  BY NamesAssumption DEF Texts, Names
<1>. DEFINE m == Merged(reg, current, Sub[pc])
            h == Shown(reg, current, Sub[pc])
<1>3. /\ probing => c \in {"absent", "blank"}
      /\ c # "absent" \/ hive = "HKLM" => h = hive /\ m = c
  BY <1>1 DEF Tells
<1>. HIDE DEF m, h
<1>4. /\ Finds(c) => c \in Texts(Sub[pc]) /\ m = c /\ h = hive
      /\ Denies(c) => m = "denied"
      /\ Present(c) => m = "blank" /\ h = hive
      /\ Missing(c) => m = "absent"
  BY <1>2, <1>3 DEF Finds, Denies, Present, Missing, Opens
<1>. QED
  BY <1>1, <1>4 DEF Tells, m, h

-----------------------------------------------------------------------------
(* The lookup, on every registry it may be reading: the calls so far do    *)
(* not tell which one it is, and the keys that were not read, whatever     *)
(* they hold, must not change the answer.                                  *)

Expected(reg) ==
  IF query \in Progids THEN ProgidAnswer(reg, query) ELSE ClsidAnswer(reg, query)

ProgidSoFar(reg, s) ==
  /\ Follows(reg, "CurVer", s)
  /\ pc \in {"curver", "progid_clsid"} => Opens(Merged(reg, current, ""))
  /\ pc = "progid_clsid" => CurVerDone(reg, current)

ClsidSoFar(reg, s) ==
  /\ Expected(reg) = ClsidAnswer(reg, s[1])
  /\ Follows(reg, "TreatAs", s)
  /\ pc # "clsid" => Opens(Merged(reg, current, ""))
  /\ pc \in {"inproc", "local", "unserved"} => Merged(reg, current, "TreatAs") = "absent"
  /\ pc \in {"local", "unserved"} => Merged(reg, current, "InprocServer32") = "absent"
  /\ pc = "unserved" => Merged(reg, current, "LocalServer32") = "absent"

\* s is the chain under way, and every registry with the contents seen so far
\* leads along it to the key that is read.
Chain(s) ==
  /\ s \in Seq(Names) /\ s # <<>> /\ current = s[Len(s)]
  /\ \A i \in DOMAIN s : Upper[s[i]] \in visited
  /\ \A id \in visited : \E i \in DOMAIN s : Upper[s[i]] = id
  /\ pc \in ProgidPlaces => s = progid_chain /\ s[1] = query
  /\ pc \in ClsidPlaces => Len(s) = Len(treatas_chain) + 1

SoFar(reg, s) ==
  /\ pc \in ProgidPlaces => ProgidSoFar(reg, s)
  /\ pc \in ClsidPlaces => ClsidSoFar(reg, s)

OnWay(s) == Chain(s) /\ \A reg : Agrees(reg) => ReadSoFar(reg) /\ SoFar(reg, s)

LookupInv ==
  ~shared =>
    IF pc = "done" THEN \A reg : Agrees(reg) => result = Expected(reg)
    ELSE \E s : OnWay(s)

LEMMA ExpectedKept ==
  ASSUME NEW reg, query' = query
  PROVE  /\ \A n : ClsidAnswer(reg, n)' = ClsidAnswer(reg, n)
         /\ Expected(reg)' = Expected(reg)
<1>1. \A n : ClsidAnswer(reg, n)' = ClsidAnswer(reg, n)
  BY Zenon DEF ClsidAnswer
<1>2. \A n : ProgidAnswer(reg, n)' = ProgidAnswer(reg, n)
  BY <1>1, Zenon DEF ProgidAnswer
<1> QED
  BY <1>1, <1>2 DEF Expected

\* No key leads on from the end of a chain when its value is no name, its own
\* name, or one that was there before.
LEMMA StuckAt ==
  ASSUME NEW reg, NEW sub, NEW s, Chain(s), NEW m, m = Merged(reg, current, sub),
         \/ ~Opens(Merged(reg, current, ""))
         \/ m \notin Names
         \/ sub = "CurVer" /\ Upper[m] = Upper[current]
         \/ Seen(Upper[m])
  PROVE  Stuck(reg, sub, s)
<1>1. SUFFICES ASSUME NEW n \in Names, Points(reg, sub, s[Len(s)], n)
               PROVE  \E i \in DOMAIN s : Upper[s[i]] = Upper[n]
  BY Zenon DEF Stuck
<1>2. Points(reg, sub, current, n)
  BY <1>1 DEF Chain
<1>3. n = m /\ Opens(Merged(reg, current, "")) /\ (sub = "CurVer" => Upper[current] # Upper[n])
  BY <1>2 DEF Points
<1>4. Upper[n] \in visited
  BY <1>1, <1>3 DEF Seen
<1> QED
  BY <1>4 DEF Chain

LEMMA ProgidEnds ==
  ASSUME TypeOK, ChainInv, pc \in ProgidPlaces, NEW s, Chain(s),
         NEW reg, ProgidSoFar(reg, s),
         Stuck(reg, "CurVer", s) \/ Len(progid_chain) >= MAX_CHAIN_HOPS
  PROVE  Expected(reg) = ProgidAt(reg, s)
<1>1. s = progid_chain /\ s[1] = query /\ query \in Progids
  BY DEF Chain, ChainInv
<1>2. Len(s) \in Nat /\ Len(s) <= MAX_CHAIN_HOPS
  <2>1. ASSUME progid_chain = <<query>> PROVE Len(progid_chain) <= MAX_CHAIN_HOPS
    <3>1. Len(progid_chain) = 1
      BY <2>1
    <3> QED
      BY <3>1, MaxChainHopsAssumption
  <2>2. Len(progid_chain) <= MAX_CHAIN_HOPS
    BY <2>1 DEF ChainInv, ChainsAreSimple
  <2> QED
    BY <1>1, <2>2 DEF TypeOK
<1>4. Len(s) = MAX_CHAIN_HOPS \/ Stuck(reg, "CurVer", s)
  <2>1. CASE Len(progid_chain) >= MAX_CHAIN_HOPS
    BY <1>1, <1>2, <2>1, MaxChainHopsAssumption
  <2> QED
    BY <2>1
<1>3. Whole(reg, "CurVer", s, MAX_CHAIN_HOPS)
  BY <1>2, <1>4 DEF Whole, ProgidSoFar
<1> QED
  BY <1>1, <1>3, ProgidAnswerIs, Zenon DEF Expected

LEMMA ClsidEnds ==
  ASSUME TypeOK, ChainInv, pc \in ClsidPlaces, NEW s, Chain(s),
         NEW reg, ClsidSoFar(reg, s),
         Stuck(reg, "TreatAs", s) \/ Len(treatas_chain) >= MAX_CHAIN_HOPS
  PROVE  Expected(reg) = ClsidAt(reg, s)
<1>1. Len(s) = Len(treatas_chain) + 1 /\ Len(treatas_chain) \in Nat
  BY DEF Chain, TypeOK
<1>2. Len(treatas_chain) <= MAX_CHAIN_HOPS
  BY DEF ChainInv, ChainsAreSimple
<1>5. Len(s) <= MAX_CHAIN_HOPS + 1
  BY <1>1, <1>2, MaxChainHopsAssumption
<1>6. Len(s) = MAX_CHAIN_HOPS + 1 \/ Stuck(reg, "TreatAs", s)
  <2>1. CASE Len(treatas_chain) >= MAX_CHAIN_HOPS
    BY <1>1, <1>2, <2>1, MaxChainHopsAssumption
  <2> QED
    BY <2>1
<1>3. Whole(reg, "TreatAs", s, MAX_CHAIN_HOPS + 1)
  BY <1>5, <1>6 DEF Whole, ClsidSoFar
<1>4. ClsidAnswer(reg, s[1]) = ClsidAt(reg, s)
  BY <1>3, ClsidAnswerIs
<1> QED
  BY <1>4 DEF ClsidSoFar

\* An answer that ends the lookup is right when it is what is expected.
LEMMA EndsRight ==
  ASSUME NEW c, Answer(c), NEW r, Ends(r), \A reg : Agrees(reg)' => r = Expected(reg)
  PROVE  LookupInv'
<1>1. query' = query /\ pc' = "done" /\ result' = r
  BY DEF Answer, Ends
<1>2. ASSUME NEW reg, Agrees(reg)' PROVE result' = Expected(reg)'
  BY <1>1, <1>2, ExpectedKept
<1> QED
  BY <1>1, <1>2, Zenon DEF LookupInv

\* The state before an answer, and what it tells.
LEMMA Before ==
  ASSUME TypeOK, LookupInv, ~shared, pc \in Places
  PROVE  \E s : OnWay(s)
  BY PlacesOf DEF LookupInv

LEMMA OnWayTells ==
  ASSUME TypeOK, ~shared, pc \in Places, NEW s, OnWay(s), NEW c, Answer(c), NEW reg, Agrees(reg)'
  PROVE  /\ SoFar(reg, s)
         /\ Finds(c) => /\ c \in Texts(Sub[pc])
                        /\ Merged(reg, current, Sub[pc]) = c
                        /\ Shown(reg, current, Sub[pc]) = hive
         /\ Denies(c) => Merged(reg, current, Sub[pc]) = "denied"
         /\ Present(c) => /\ Merged(reg, current, Sub[pc]) = "blank"
                          /\ Shown(reg, current, Sub[pc]) = hive
         /\ Missing(c) => Merged(reg, current, Sub[pc]) = "absent"
<1>1. Agrees(reg) => ReadSoFar(reg) /\ SoFar(reg, s)
  BY DEF OnWay
<1>2. Agrees(reg)
  BY <1>1, AnswerTells
<1> QED
  BY <1>1, <1>2, AnswerTells

\* An answer that goes on in the same chain.
LEMMA GoesOnRight ==
  ASSUME NEW c, Answer(c), NEW p \in Places, GoesTo(p) \/ (pc' = p /\ UNCHANGED <<current, visited, progid_chain, treatas_chain>>),
         NEW s, Chain(s),
         \/ pc \in ProgidPlaces /\ p \in ProgidPlaces
         \/ pc \in ClsidPlaces /\ p \in ClsidPlaces,
         \A reg : Agrees(reg)' => SoFar(reg, s)'
  PROVE  LookupInv'
<1>1. pc' = p /\ UNCHANGED <<current, visited, progid_chain, treatas_chain, query>>
  BY DEF GoesTo, Answer
<1>2. p # "done"
  BY PlacesOf
<1>3. Chain(s)'
  BY <1>1 DEF Chain, ProgidPlaces, ClsidPlaces
<1>4. \A reg : ReadSoFar(reg)'
  BY AnswerFresh
<1>5. OnWay(s)'
  BY <1>3, <1>4 DEF OnWay
<1> QED
  BY <1>1, <1>2, <1>5 DEF LookupInv

\* Every step but Read ends a merged read with an answer.
LEMMA ContentsAre ==
  /\ Contents("") = {"absent", "denied", "blank"}
  /\ Contents("CurVer") = {"absent", "denied", "blank"} \cup Progids
  /\ Contents("TreatAs") = {"absent", "denied", "blank"} \cup Clsids
  BY TextsOf DEF Contents

\* A chain of one name leads nowhere yet.
LEMMA StartFollows ==
  ASSUME NEW n \in Names, NEW reg, NEW sub
  PROVE  Follows(reg, sub, <<n>>)
<1>. DEFINE s == <<n>>
<1>1. s \in Seq(Names) /\ s # <<>> /\ Len(s) = 1 /\ DOMAIN s = {1}
  OBVIOUS
<1>. HIDE DEF s
<1>2. Simple(s)
  BY <1>1 DEF Simple
<1>3. Follows(reg, sub, s)
  BY <1>1, <1>2 DEF Follows
<1> QED
  BY <1>3 DEF s

LEMMA StartChain ==
  ASSUME NEW n \in Names, current = n, visited = {Upper[n]}, treatas_chain = <<>>,
         pc \in ProgidPlaces => progid_chain = <<n>> /\ query = n
  PROVE  Chain(<<n>>)
<1>. DEFINE s == <<n>>
<1>1. s \in Seq(Names) /\ s # <<>> /\ Len(s) = 1 /\ DOMAIN s = {1} /\ s[1] = n
  OBVIOUS
<1>2. pc \in ProgidPlaces => s = progid_chain /\ s[1] = query
  OBVIOUS
<1>. HIDE DEF s
<1>3. Len(treatas_chain) = 0
  OBVIOUS
<1>4. Chain(s)
  BY <1>1, <1>2, <1>3 DEF Chain
<1> QED
  BY <1>4 DEF s

LEMMA LookupInit == Init => LookupInv
<1> SUFFICES ASSUME Init PROVE LookupInv
  OBVIOUS
<1>1. query \in Names /\ current = query /\ visited = {Upper[query]} /\ treatas_chain = <<>>
      /\ hive = "HKCU" /\ probing = FALSE
  BY NamesAssumption DEF Init
<1>2. pc \in ProgidPlaces => query \in Progids /\ progid_chain = <<query>>
  BY DEF Init, ProgidPlaces
<1>3. Chain(<<query>>)
  BY <1>1, <1>2, StartChain
<1>4. pc = (IF query \in Progids THEN "progid" ELSE "clsid")
  BY DEF Init
<1>5. ASSUME NEW reg PROVE ReadSoFar(reg) /\ SoFar(reg, <<query>>)
  <2>1. ReadSoFar(reg)
    BY <1>1 DEF ReadSoFar
  <2>2. Follows(reg, "CurVer", <<query>>) /\ Follows(reg, "TreatAs", <<query>>)
    BY <1>1, StartFollows
  <2>3. <<query>>[1] = query
    OBVIOUS
  <2>4. pc \in ClsidPlaces => ClsidSoFar(reg, <<query>>)
    <3>1. CASE query \in Progids
      BY <1>4, <3>1 DEF ClsidPlaces
    <3>2. CASE query \notin Progids
      <4>1. pc = "clsid" /\ Expected(reg) = ClsidAnswer(reg, query)
        BY <1>4, <3>2 DEF Expected
      <4> QED
        BY <2>2, <2>3, <4>1 DEF ClsidSoFar
    <3> QED
      BY <3>1, <3>2
  <2>5. pc \in ProgidPlaces => ProgidSoFar(reg, <<query>>)
    <3>1. pc \in {"progid", "clsid"}
      BY <1>4
    <3> QED
      BY <2>2, <3>1 DEF ProgidSoFar
  <2> QED
    BY <2>1, <2>4, <2>5 DEF SoFar
<1>6. OnWay(<<query>>) /\ pc # "done"
  BY <1>3, <1>4, <1>5 DEF OnWay
<1> QED
  BY <1>6 DEF LookupInv

\* Read
LEMMA ReadRight == TypeOK /\ LookupInv /\ ~shared /\ Read => LookupInv'
<1> SUFFICES ASSUME TypeOK, LookupInv, ~shared, Read PROVE LookupInv'
  OBVIOUS
<1>1. pc \in Places /\ pc # "done"
  BY DEF Read, TypeOK
<1>2. PICK c : Sees(c) /\ GoesOn(c)
  BY DEF Read
<1>3. UNCHANGED <<pc, query, current, visited, progid_chain, treatas_chain, shared>>
  BY DEF Read
<1>4. PICK s : OnWay(s)
  BY <1>1, Before
<1>5. Chain(s)'
  BY <1>3, <1>4 DEF OnWay, Chain
<1>6. ASSUME NEW reg, Agrees(reg)' PROVE ReadSoFar(reg)' /\ SoFar(reg, s)'
  <2>1. Agrees(reg) => ReadSoFar(reg) /\ SoFar(reg, s)
    BY <1>4 DEF OnWay
  <2>2. Agrees(reg) /\ ReadSoFar(reg)'
    BY <1>1, <1>2, <1>3, <1>6, <2>1, ReadTells
  <2>3. SoFar(reg, s)
    BY <2>1, <2>2
  <2>4. Expected(reg)' = Expected(reg) /\ ClsidAnswer(reg, s[1])' = ClsidAnswer(reg, s[1])
    BY <1>3, ExpectedKept
  <2>5. SoFar(reg, s)'
    BY <1>3, <2>3, <2>4 DEF SoFar, ProgidSoFar, ClsidSoFar
  <2> QED
    BY <2>2, <2>5
<1>7. OnWay(s)'
  BY <1>5, <1>6 DEF OnWay
<1> QED
  BY <1>1, <1>3, <1>7 DEF LookupInv

\* The steps that go on to the next key of the same name.
LEMMA KeptSoFar ==
  ASSUME NEW c, Answer(c), NEW p, GoesTo(p) \/ (pc' = p /\ current' = current), NEW reg, NEW s, SoFar(reg, s)
  PROVE  /\ p \in ProgidPlaces => (ProgidSoFar(reg, s)' <=>
              /\ Follows(reg, "CurVer", s)
              /\ p \in {"curver", "progid_clsid"} => Opens(Merged(reg, current, ""))
              /\ p = "progid_clsid" => CurVerDone(reg, current))
         /\ p \in ClsidPlaces => (ClsidSoFar(reg, s)' <=>
              /\ Expected(reg) = ClsidAnswer(reg, s[1])
              /\ Follows(reg, "TreatAs", s)
              /\ p # "clsid" => Opens(Merged(reg, current, ""))
              /\ p \in {"inproc", "local", "unserved"} => Merged(reg, current, "TreatAs") = "absent"
              /\ p \in {"local", "unserved"} => Merged(reg, current, "InprocServer32") = "absent"
              /\ p = "unserved" => Merged(reg, current, "LocalServer32") = "absent")
<1>1. query' = query /\ pc' = p /\ current' = current
  BY DEF Answer, GoesTo
<1>2. Expected(reg)' = Expected(reg) /\ ClsidAnswer(reg, s[1])' = ClsidAnswer(reg, s[1])
  BY <1>1, ExpectedKept
<1> QED
  BY <1>1, <1>2 DEF ProgidSoFar, ClsidSoFar

LEMMA ProgidGoesOn ==
  TypeOK /\ LookupInv /\ ~shared /\ (ProgidExists \/ CurVerEnds) => LookupInv'
<1> SUFFICES ASSUME TypeOK, LookupInv, ~shared, ProgidExists \/ CurVerEnds PROVE LookupInv'
  OBVIOUS
<1> USE PlacesOf
<1>1. pc \in ProgidPlaces /\ pc \in Places /\ pc \in {"progid", "curver"}
  BY DEF ProgidExists, CurVerEnds, ProgidPlaces
<1>2. PICK s : OnWay(s)
  BY <1>1, Before
<1>3. PICK p \in ProgidPlaces : GoesTo(p) /\ p = IF pc = "progid" THEN "curver" ELSE "progid_clsid"
  BY DEF ProgidExists, CurVerEnds, ProgidPlaces
<1>4. PICK c : /\ Answer(c)
               /\ pc = "progid" => Present(c)
               /\ pc = "curver" => Missing(c) \/ (Finds(c) /\ Upper[c] = Upper[current])
  BY DEF ProgidExists, CurVerEnds
<1>5. ASSUME NEW reg, Agrees(reg)' PROVE SoFar(reg, s)'
  <2>1. SoFar(reg, s)
    BY <1>1, <1>2, <1>4, <1>5, OnWayTells
  <2>2. ProgidSoFar(reg, s)
    BY <1>1, <2>1 DEF SoFar
  <2>3. CASE pc = "progid"
    <3>0. Merged(reg, current, Sub[pc]) = "blank"
      BY <1>1, <1>2, <1>4, <1>5, <2>3, OnWayTells
    <3>1. Merged(reg, current, "") = "blank"
      BY <2>3, <3>0
    <3>2. ProgidSoFar(reg, s)'
      BY <1>3, <1>4, <2>1, <2>2, <2>3, <3>1, KeptSoFar DEF ProgidSoFar, Opens
    <3> QED
      BY <1>3, <3>2 DEF SoFar, GoesTo, ProgidPlaces, ClsidPlaces
  <2>4. CASE pc = "curver"
    <3>0. /\ Missing(c) => Merged(reg, current, Sub[pc]) = "absent"
          /\ Finds(c) => c \in Texts(Sub[pc]) /\ Merged(reg, current, Sub[pc]) = c
      BY <1>1, <1>2, <1>4, <1>5, OnWayTells
    <3>1. /\ Missing(c) => Merged(reg, current, "CurVer") = "absent"
          /\ Finds(c) => c \in Progids /\ Merged(reg, current, "CurVer") = c
      BY <2>4, <3>0, TextsOf
    <3>2. CurVerDone(reg, current)
      BY <1>4, <2>4, <3>1 DEF CurVerDone
    <3>3. ProgidSoFar(reg, s)'
      BY <1>3, <1>4, <2>1, <2>2, <2>4, <3>2, KeptSoFar DEF ProgidSoFar
    <3> QED
      BY <1>3, <3>3 DEF SoFar, GoesTo, ProgidPlaces, ClsidPlaces
  <2> QED
    BY <1>1, <2>3, <2>4
<1> QED
  BY <1>1, <1>2, <1>3, <1>4, <1>5, GoesOnRight DEF OnWay

LEMMA ClsidGoesOn ==
  TypeOK /\ LookupInv /\ ~shared /\ (ClsidExists \/ ServerMissing) => LookupInv'
<1> SUFFICES ASSUME TypeOK, LookupInv, ~shared, ClsidExists \/ ServerMissing PROVE LookupInv'
  OBVIOUS
<1> USE PlacesOf
<1>1. pc \in ClsidPlaces /\ pc \in Places /\ pc \in {"clsid", "inproc", "local"}
  BY DEF ClsidExists, ServerMissing, ClsidPlaces
<1>2. PICK s : OnWay(s)
  BY <1>1, Before
<1>3. PICK p \in ClsidPlaces : GoesTo(p) /\ p = IF pc = "clsid" THEN "treatas"
                                                ELSE IF pc = "inproc" THEN "local" ELSE "unserved"
  BY DEF ClsidExists, ServerMissing, ClsidPlaces
<1>4. PICK c : /\ Answer(c)
               /\ pc = "clsid" => Present(c)
               /\ pc \in {"inproc", "local"} => Missing(c)
  BY DEF ClsidExists, ServerMissing
<1>5. ASSUME NEW reg, Agrees(reg)' PROVE SoFar(reg, s)'
  <2>1. SoFar(reg, s)
    BY <1>1, <1>2, <1>4, <1>5, OnWayTells
  <2>2. ClsidSoFar(reg, s)
    BY <1>1, <2>1 DEF SoFar
  <2>3. /\ pc = "clsid" => Merged(reg, current, Sub[pc]) = "blank"
        /\ pc \in {"inproc", "local"} => Merged(reg, current, Sub[pc]) = "absent"
    BY <1>1, <1>2, <1>4, <1>5, OnWayTells
  <2>5. /\ pc = "clsid" => Opens(Merged(reg, current, ""))
        /\ pc = "inproc" => Merged(reg, current, "InprocServer32") = "absent"
        /\ pc = "local" => Merged(reg, current, "LocalServer32") = "absent"
    BY <2>3 DEF Opens
  <2>6. /\ Expected(reg) = ClsidAnswer(reg, s[1])
        /\ Follows(reg, "TreatAs", s)
        /\ p # "clsid" => Opens(Merged(reg, current, ""))
        /\ p \in {"inproc", "local", "unserved"} => Merged(reg, current, "TreatAs") = "absent"
        /\ p \in {"local", "unserved"} => Merged(reg, current, "InprocServer32") = "absent"
        /\ p = "unserved" => Merged(reg, current, "LocalServer32") = "absent"
    <3>1. CASE pc = "clsid"
      BY <1>3, <2>2, <2>5, <3>1 DEF ClsidSoFar
    <3>2. CASE pc = "inproc"
      BY <1>3, <2>2, <2>5, <3>2 DEF ClsidSoFar
    <3>3. CASE pc = "local"
      BY <1>3, <2>2, <2>5, <3>3 DEF ClsidSoFar
    <3> QED
      BY <1>1, <3>1, <3>2, <3>3
  <2>4. ClsidSoFar(reg, s)'
    BY <1>3, <1>4, <2>1, <2>6, KeptSoFar
  <2> QED
    BY <1>3, <2>4 DEF SoFar, GoesTo, ProgidPlaces, ClsidPlaces
<1> QED
  BY <1>1, <1>2, <1>3, <1>4, <1>5, GoesOnRight DEF OnWay

LEMMA TreatAsEndsRight == TypeOK /\ LookupInv /\ ~shared /\ TreatAsEnds => LookupInv'
<1> SUFFICES ASSUME TypeOK, LookupInv, ~shared, TreatAsEnds PROVE LookupInv'
  OBVIOUS
<1> USE PlacesOf
<1>1. pc \in ClsidPlaces /\ pc \in Places /\ pc = "treatas"
  BY DEF TreatAsEnds, ClsidPlaces
<1>2. PICK s : OnWay(s)
  BY <1>1, Before
<1>3. pc' = "inproc" /\ "inproc" \in ClsidPlaces /\ "inproc" \notin ProgidPlaces
      /\ UNCHANGED <<current, visited, progid_chain, treatas_chain>>
  BY DEF TreatAsEnds, ClsidPlaces, ProgidPlaces
<1>4. PICK c : Answer(c) /\ Missing(c)
  BY DEF TreatAsEnds
<1>5. ASSUME NEW reg, Agrees(reg)' PROVE SoFar(reg, s)'
  <2>1. SoFar(reg, s) /\ Merged(reg, current, Sub[pc]) = "absent"
    BY <1>1, <1>2, <1>4, <1>5, OnWayTells
  <2>2. ClsidSoFar(reg, s) /\ Merged(reg, current, "TreatAs") = "absent"
    BY <1>1, <2>1 DEF SoFar
  <2>4. /\ Expected(reg) = ClsidAnswer(reg, s[1])
        /\ Follows(reg, "TreatAs", s)
        /\ Opens(Merged(reg, current, ""))
    BY <1>1, <2>2 DEF ClsidSoFar
  <2>5. query' = query
    BY <1>4 DEF Answer
  <2>6. Expected(reg)' = ClsidAnswer(reg, s[1])'
    BY <2>4, <2>5, ExpectedKept
  <2>3. ClsidSoFar(reg, s)'
    BY <1>3, <2>2, <2>4, <2>6 DEF ClsidSoFar
  <2> QED
    BY <1>3, <2>3 DEF SoFar
<1> QED
  BY <1>1, <1>2, <1>3, <1>4, <1>5, GoesOnRight DEF OnWay

LEMMA AppendHead ==
  ASSUME NEW S, NEW s \in Seq(S), s # <<>>, NEW n \in S
  PROVE  Append(s, n)[1] = s[1]
<1>1. Len(s) \in Nat /\ 1 \in 1..Len(s)
  OBVIOUS
<1> QED
  BY <1>1

\* A chain that goes on to a name that is new.
LEMMA AppendChain ==
  ASSUME NEW s, Chain(s), NEW n \in Names, current' = n, visited' = visited \cup {Upper[n]},
         pc' \in ProgidPlaces => pc \in ProgidPlaces /\ progid_chain' = Append(progid_chain, n) /\ query' = query,
         pc' \in ClsidPlaces => /\ pc \in ClsidPlaces /\ treatas_chain' = Append(treatas_chain, n)
                                /\ treatas_chain \in Seq(Clsids) /\ n \in Clsids
  PROVE  Chain(Append(s, n))'
<1>. DEFINE t == Append(s, n)
<1>1. s \in Seq(Names) /\ s # <<>> /\ Len(s) \in Nat
  BY DEF Chain
<1>2. /\ t \in Seq(Names) /\ t # <<>> /\ Len(t) = Len(s) + 1 /\ t[Len(t)] = n /\ t[1] = s[1]
      /\ Len(s) + 1 \in DOMAIN t /\ t[Len(s) + 1] = n
      /\ \A i \in DOMAIN s : i \in DOMAIN t /\ t[i] = s[i]
      /\ \A i \in DOMAIN t : i \in DOMAIN s \/ t[i] = n
  BY <1>1
<1>3. pc' \in ProgidPlaces => t = progid_chain' /\ t[1] = query'
  BY <1>2 DEF Chain
<1>4. pc' \in ClsidPlaces => Len(t) = Len(treatas_chain') + 1
  <2>1. treatas_chain \in Seq(Clsids) /\ n \in Clsids => Len(Append(treatas_chain, n)) = Len(treatas_chain) + 1
    OBVIOUS
  <2> QED
    BY <1>2, <2>1 DEF Chain
<1>. HIDE DEF t
<1>5. \A i \in DOMAIN t : Upper[t[i]] \in visited'
  BY <1>2 DEF Chain
<1>6. ASSUME NEW id \in visited' PROVE \E i \in DOMAIN t : Upper[t[i]] = id
  BY <1>2 DEF Chain
<1>7. Chain(t)'
  BY <1>2, <1>3, <1>4, <1>5, <1>6 DEF Chain
<1> QED
  BY <1>7 DEF t

LEMMA ChainPoints ==
  ASSUME NEW s, Chain(s), NEW reg, NEW sub, NEW n \in Names, Opens(Merged(reg, current, "")),
         Merged(reg, current, sub) = n, sub = "CurVer" => Upper[n] # Upper[current],
         ~Seen(Upper[n]), Follows(reg, sub, s)
  PROVE  Follows(reg, sub, Append(s, n))
<1>1. Points(reg, sub, s[Len(s)], n)
  BY DEF Chain, Points
<1>2. \A i \in DOMAIN s : Upper[s[i]] # Upper[n]
  BY DEF Chain, Seen
<1> QED
  BY <1>1, <1>2, FollowsOn

LEMMA CurVerFollowsRight == TypeOK /\ LookupInv /\ ~shared /\ CurVerFollows => LookupInv'
<1> SUFFICES ASSUME TypeOK, LookupInv, ~shared, CurVerFollows PROVE LookupInv'
  OBVIOUS
<1> USE PlacesOf
<1>1. pc \in ProgidPlaces /\ pc \in Places /\ pc = "curver" /\ pc' = "progid"
      /\ pc' \in ProgidPlaces /\ pc' \notin ClsidPlaces
  BY DEF CurVerFollows, ProgidPlaces, ClsidPlaces
<1>2. PICK s : OnWay(s)
  BY <1>1, Before
<1>3. PICK c : /\ Answer(c) /\ Finds(c) /\ Upper[c] # Upper[current] /\ ~Seen(Upper[c])
               /\ current' = c /\ visited' = visited \cup {Upper[c]}
               /\ progid_chain' = Append(progid_chain, c)
  BY DEF CurVerFollows
<1>4. c \in Progids /\ c \in Names
  BY <1>1, <1>3, TextsOf DEF Finds, Names
<1>5. query' = query
  BY <1>3 DEF Answer
<1>. DEFINE t == Append(s, c)
<1>6. Chain(t)'
  BY <1>1, <1>2, <1>3, <1>4, <1>5, AppendChain DEF OnWay
<1>7. ASSUME NEW reg, Agrees(reg)' PROVE ReadSoFar(reg)' /\ SoFar(reg, t)'
  <2>1. SoFar(reg, s) /\ Merged(reg, current, Sub[pc]) = c
    BY <1>1, <1>2, <1>3, <1>7, OnWayTells
  <2>2. ProgidSoFar(reg, s) /\ Merged(reg, current, "CurVer") = c
    BY <1>1, <2>1 DEF SoFar
  <2>3. Opens(Merged(reg, current, "")) /\ Follows(reg, "CurVer", s)
    BY <1>1, <2>2 DEF ProgidSoFar
  <2>4. Follows(reg, "CurVer", t)
    BY <1>2, <1>3, <1>4, <2>2, <2>3, ChainPoints DEF OnWay
  <2>. HIDE DEF t
  <2>5. ProgidSoFar(reg, t)'
    BY <1>1, <2>4 DEF ProgidSoFar
  <2> QED
    BY <1>1, <1>3, <2>5, AnswerFresh DEF SoFar
<1>. HIDE DEF t
<1>8. OnWay(t)'
  BY <1>6, <1>7 DEF OnWay
<1> QED
  BY <1>1, <1>8 DEF LookupInv

LEMMA TreatAsFollowsRight == TypeOK /\ LookupInv /\ ~shared /\ TreatAsFollows => LookupInv'
<1> SUFFICES ASSUME TypeOK, LookupInv, ~shared, TreatAsFollows PROVE LookupInv'
  OBVIOUS
<1> USE PlacesOf
<1>1. pc \in ClsidPlaces /\ pc \in Places /\ pc = "treatas" /\ pc' = "clsid"
      /\ pc' \in ClsidPlaces /\ pc' \notin ProgidPlaces
  BY DEF TreatAsFollows, ProgidPlaces, ClsidPlaces
<1>2. PICK s : OnWay(s)
  BY <1>1, Before
<1>3. PICK c : /\ Answer(c) /\ Finds(c) /\ ~Seen(Upper[c])
               /\ current' = c /\ visited' = visited \cup {Upper[c]}
               /\ treatas_chain' = Append(treatas_chain, c)
  BY DEF TreatAsFollows
<1>4. c \in Clsids /\ c \in Names
  BY <1>1, <1>3, TextsOf DEF Finds, Names
<1>5. query' = query /\ treatas_chain \in Seq(Clsids)
  BY <1>3 DEF Answer, TypeOK
<1>. DEFINE t == Append(s, c)
<1>6. Chain(t)'
  BY <1>1, <1>2, <1>3, <1>4, <1>5, AppendChain DEF OnWay
<1>9. t[1] = s[1]
  <2>1. s \in Seq(Names) /\ s # <<>>
    BY <1>2, Zenon DEF OnWay, Chain
  <2> QED
    BY <1>4, <2>1, AppendHead, Zenon
<1>7. ASSUME NEW reg, Agrees(reg)' PROVE ReadSoFar(reg)' /\ SoFar(reg, t)'
  <2>1. SoFar(reg, s) /\ Merged(reg, current, Sub[pc]) = c
    BY <1>1, <1>2, <1>3, <1>7, OnWayTells
  <2>2. ClsidSoFar(reg, s) /\ Merged(reg, current, "TreatAs") = c
    BY <1>1, <2>1 DEF SoFar
  <2>3. Opens(Merged(reg, current, "")) /\ Follows(reg, "TreatAs", s)
        /\ Expected(reg) = ClsidAnswer(reg, s[1])
    BY <1>1, <2>2 DEF ClsidSoFar
  <2>4. Follows(reg, "TreatAs", t)
    BY <1>2, <1>3, <1>4, <2>2, <2>3, ChainPoints DEF OnWay
  <2>6. Expected(reg)' = ClsidAnswer(reg, s[1])'
    BY <1>5, <2>3, ExpectedKept
  <2>. HIDE DEF t
  <2>7. Expected(reg)' = ClsidAnswer(reg, t[1])'
    BY <1>9, <2>6
  <2>5. ClsidSoFar(reg, t)'
    BY <1>1, <2>4, <2>7 DEF ClsidSoFar
  <2> QED
    BY <1>1, <1>3, <2>5, AnswerFresh DEF SoFar
<1>. HIDE DEF t
<1>8. OnWay(t)'
  BY <1>6, <1>7 DEF OnWay
<1> QED
  BY <1>1, <1>8 DEF LookupInv

LEMMA StartClassChain ==
  ASSUME NEW n \in Names, current' = n, visited' = {Upper[n]}, treatas_chain' = <<>>,
         pc' \notin ProgidPlaces
  PROVE  Chain(<<n>>)'
<1>. DEFINE s == <<n>>
<1>1. s \in Seq(Names) /\ s # <<>> /\ Len(s) = 1 /\ DOMAIN s = {1} /\ s[1] = n
  OBVIOUS
<1>. HIDE DEF s
<1>3. Len(treatas_chain') = 0
  OBVIOUS
<1>4. Chain(s)'
  BY <1>1, <1>3 DEF Chain
<1> QED
  BY <1>4 DEF s

\* resolve_clsid starts with the class that the ProgID names.
LEMMA ProgidResolvedRight ==
  TypeOK /\ ChainInv /\ LookupInv /\ ~shared /\ ProgidResolved => LookupInv'
<1> SUFFICES ASSUME TypeOK, ChainInv, LookupInv, ~shared, ProgidResolved PROVE LookupInv'
  OBVIOUS
<1> USE PlacesOf
<1>1. pc \in ProgidPlaces /\ pc \in Places /\ pc = "progid_clsid" /\ pc' = "clsid"
      /\ pc' \in ClsidPlaces /\ pc' \notin ProgidPlaces
  BY DEF ProgidResolved, ProgidPlaces, ClsidPlaces
<1>2. PICK s : OnWay(s)
  BY <1>1, Before
<1>3. PICK c : Answer(c) /\ Finds(c) /\ current' = c /\ visited' = {Upper[c]}
  BY DEF ProgidResolved
<1>4. c \in Clsids /\ c \in Names
  BY <1>1, <1>3, TextsOf DEF Finds, Names
<1>5. query' = query /\ treatas_chain = <<>> /\ treatas_chain' = treatas_chain
  BY <1>1, <1>3 DEF Answer, ProgidResolved, ChainInv
<1>6. Chain(<<c>>)'
  BY <1>1, <1>3, <1>4, <1>5, StartClassChain
<1>7. ASSUME NEW reg, Agrees(reg)' PROVE ReadSoFar(reg)' /\ SoFar(reg, <<c>>)'
  <2>1. SoFar(reg, s) /\ Merged(reg, current, Sub[pc]) = c
    BY <1>1, <1>2, <1>3, <1>7, OnWayTells
  <2>2. ProgidSoFar(reg, s) /\ Merged(reg, current, "CLSID") = c
    BY <1>1, <2>1 DEF SoFar
  <2>3. Opens(Merged(reg, current, "")) /\ CurVerDone(reg, current)
    BY <1>1, <2>2 DEF ProgidSoFar
  <2>4. Stuck(reg, "CurVer", s)
    BY <1>2, <2>3, StuckAt, NamesAssumption DEF OnWay, CurVerDone
  <2>5. Expected(reg) = ProgidAt(reg, s)
    BY <1>1, <1>2, <2>2, <2>4, ProgidEnds DEF OnWay
  <2>6. Expected(reg) = ClsidAnswer(reg, c)
    <3>1. current = s[Len(s)]
      BY <1>2 DEF OnWay, Chain
    <3> QED
      BY <1>4, <2>2, <2>3, <2>5, <3>1, ProgidClass
  <2>7. Expected(reg)' = ClsidAnswer(reg, c)'
    BY <1>5, <2>6, ExpectedKept
  <2>8. Follows(reg, "TreatAs", <<c>>) /\ <<c>>[1] = c
    BY <1>4, StartFollows
  <2>9. ClsidSoFar(reg, <<c>>)'
    BY <1>1, <2>7, <2>8 DEF ClsidSoFar
  <2> QED
    BY <1>1, <1>3, <2>9, AnswerFresh DEF SoFar
<1>8. OnWay(<<c>>)'
  BY <1>6, <1>7 DEF OnWay
<1> QED
  BY <1>1, <1>8 DEF LookupInv

\* The ends of a lookup of a ProgID.
LEMMA ProgidEnd ==
  ASSUME TypeOK, ChainInv, ~shared, pc \in ProgidPlaces, NEW s, OnWay(s),
         NEW c, Answer(c), NEW reg, Agrees(reg)',
         \/ Denies(c) \/ Missing(c) \/ (Present(c) /\ pc # "progid")
         \/ Finds(c) /\ pc = "curver" /\ Upper[c] # Upper[current]
              /\ (Seen(Upper[c]) \/ Len(progid_chain) >= MAX_CHAIN_HOPS),
         Missing(c) => pc # "curver"
  PROVE  Expected(reg) = Result(IF Denies(c) THEN "ACCESS_DENIED" ELSE "PROGID_BROKEN", None, None, None)
<1> USE PlacesOf
<1>1. pc \in Places /\ Chain(s)
  BY DEF OnWay
<1>. DEFINE m == Merged(reg, current, Sub[pc])
<1>2. /\ SoFar(reg, s)
      /\ Finds(c) => c \in Texts(Sub[pc]) /\ m = c
      /\ Denies(c) => m = "denied"
      /\ Present(c) => m = "blank"
      /\ Missing(c) => m = "absent"
  BY <1>1, OnWayTells
<1>3. ProgidSoFar(reg, s)
  BY <1>2 DEF SoFar
<1>4. current = s[Len(s)]
  BY <1>1 DEF Chain
<1>5. "denied" \notin Names /\ "absent" \notin Names /\ "blank" \notin Names
      /\ Clsids \subseteq Names /\ Progids \subseteq Names
  BY NamesAssumption DEF Names
<1>6. Denies(c) => ~Missing(c) /\ ~Present(c) /\ ~Finds(c)
  BY <1>2, <1>5 DEF Denies, Missing, Present, Finds, Texts, ServerKinds
<1>7. CASE pc = "progid"
  <2>1. Merged(reg, current, "") = m /\ (Denies(c) \/ Missing(c))
    BY <1>7
  <2>2. ~Opens(Merged(reg, current, ""))
    BY <1>2, <2>1 DEF Opens
  <2>3. Expected(reg) = ProgidAt(reg, s)
    BY <1>1, <1>3, <2>2, StuckAt, ProgidEnds
  <2>. HIDE DEF m
  <2>. QED
    BY <1>2, <1>4, <1>6, <2>1, <2>3, ProgidCases
<1>8. CASE pc = "curver"
  <2>1. Merged(reg, current, "CurVer") = m /\ Opens(Merged(reg, current, ""))
    BY <1>3, <1>8 DEF ProgidSoFar
  <2>2. Denies(c) \/ Present(c) \/ (Finds(c) /\ Upper[c] # Upper[current]
           /\ (Seen(Upper[c]) \/ Len(progid_chain) >= MAX_CHAIN_HOPS))
    BY <1>8
  <2>. HIDE DEF m
  <2>3. Stuck(reg, "CurVer", s) \/ Len(progid_chain) >= MAX_CHAIN_HOPS
    <3>1. CASE Denies(c) \/ Present(c)
      <4>1. m \notin Names
        BY <1>2, <1>5, <3>1
      <4> QED
        BY <1>1, <2>1, <4>1, StuckAt
    <3>2. CASE Finds(c) /\ Seen(Upper[c])
      BY <1>1, <1>2, <2>1, <3>2, StuckAt
    <3> QED
      BY <2>2, <3>1, <3>2
  <2>4. Expected(reg) = ProgidAt(reg, s)
    BY <1>1, <1>3, <2>3, ProgidEnds
  <2>5. CASE Denies(c)
    BY <1>2, <1>4, <2>1, <2>4, <2>5, ProgidCases
  <2>6. CASE ~Denies(c)
    <3>1. m # "denied" /\ m # "absent" /\ (m \in Progids => Upper[m] # Upper[current])
      BY <1>2, <1>5, <1>8, <2>2, <2>6, TextsOf
    <3>2. ~CurVerDone(reg, current)
      BY <2>1, <3>1 DEF CurVerDone
    <3> QED
      BY <1>4, <2>1, <2>4, <2>6, <3>1, <3>2, ProgidCases
  <2> QED
    BY <2>5, <2>6
<1>9. CASE pc = "progid_clsid"
  <2>1. Merged(reg, current, "CLSID") = m /\ Opens(Merged(reg, current, "")) /\ CurVerDone(reg, current)
    BY <1>3, <1>9 DEF ProgidSoFar
  <2>. HIDE DEF m
  <2>2. Stuck(reg, "CurVer", s)
    BY <1>1, <1>5, <2>1, StuckAt DEF CurVerDone
  <2>3. Expected(reg) = ProgidAt(reg, s)
    BY <1>1, <1>3, <2>2, ProgidEnds
  <2>4. (Denies(c) /\ m = "denied") \/ (~Denies(c) /\ m \in {"absent", "blank"})
    BY <1>2, <1>6, <1>9
  <2> QED
    BY <1>4, <2>1, <2>3, <2>4, ProgidClass
<1> QED
  BY <1>7, <1>8, <1>9 DEF ProgidPlaces

LEMMA AbsentStatusIs ==
  ASSUME TypeOK, ChainInv, pc \in ClsidPlaces, NEW s, Chain(s)
  PROVE  /\ Len(s) > 1 => AbsentStatus = "TREATAS_BROKEN"
         /\ ~(Len(s) > 1) => Len(s) = 1
         /\ ~(Len(s) > 1) /\ query \in Progids => AbsentStatus = "PROGID_BROKEN"
         /\ ~(Len(s) > 1) /\ query \notin Progids => AbsentStatus = "NOT_REGISTERED"
<1>1. Len(s) = Len(treatas_chain) + 1 /\ Len(treatas_chain) \in Nat
  BY DEF Chain, TypeOK
<1>2. treatas_chain # <<>> <=> Len(treatas_chain) # 0
  BY DEF TypeOK
<1>3. query \in Progids <=> progid_chain # <<>>
  BY DEF ChainInv
<1>4. treatas_chain # <<>> <=> Len(s) > 1
  BY <1>1, <1>2
<1> QED
  BY <1>1, <1>3, <1>4 DEF AbsentStatus

\* The ends of the chain of classes.
LEMMA ClsidEnd ==
  ASSUME TypeOK, ChainInv, ~shared, pc \in {"clsid", "treatas"}, NEW s, OnWay(s),
         NEW c, Answer(c), NEW reg, Agrees(reg)',
         \/ Denies(c) \/ (Missing(c) /\ pc = "clsid") \/ (Present(c) /\ pc = "treatas")
         \/ Finds(c) /\ pc = "treatas" /\ (Seen(Upper[c]) \/ Len(treatas_chain) >= MAX_CHAIN_HOPS)
  PROVE  Expected(reg) =
           IF Denies(c) THEN Result("ACCESS_DENIED", None, None, None)
           ELSE IF pc = "treatas" THEN Result("TREATAS_BROKEN", None, None, None)
           ELSE Result(AbsentStatus, IF AbsentStatus = "PROGID_BROKEN" THEN current ELSE None, None, None)
<1> USE PlacesOf
<1>1. pc \in ClsidPlaces /\ pc \in Places /\ Chain(s)
  BY DEF OnWay, ClsidPlaces
<1>. DEFINE m == Merged(reg, current, Sub[pc])
<1>2. /\ SoFar(reg, s)
      /\ Finds(c) => c \in Texts(Sub[pc]) /\ m = c
      /\ Denies(c) => m = "denied"
      /\ Present(c) => m = "blank"
      /\ Missing(c) => m = "absent"
  BY <1>1, OnWayTells
<1>3. ClsidSoFar(reg, s)
  BY <1>1, <1>2 DEF SoFar
<1>4. current = s[Len(s)]
  BY <1>1 DEF Chain
<1>5. "denied" \notin Names /\ "absent" \notin Names /\ "blank" \notin Names
      /\ Clsids \subseteq Names
  BY NamesAssumption DEF Names
<1>7. CASE pc = "clsid"
  <2>1. Merged(reg, current, "") = m /\ (Denies(c) \/ (Missing(c) /\ ~Denies(c)))
    BY <1>7
  <2>. HIDE DEF m
  <2>2. ~Opens(Merged(reg, current, ""))
    BY <1>2, <2>1 DEF Opens
  <2>3. Expected(reg) = ClsidAt(reg, s)
    BY <1>1, <1>3, <2>2, StuckAt, ClsidEnds
  <2>4. CASE Denies(c)
    BY <1>2, <1>4, <2>1, <2>3, <2>4, ClsidCases
  <2>5. CASE Missing(c) /\ ~Denies(c)
    <3>1. ClsidAt(reg, s) = IF Len(s) > 1 THEN Result("TREATAS_BROKEN", None, None, None)
                ELSE IF query \in Progids THEN Result("PROGID_BROKEN", s[1], None, None)
                ELSE Result("NOT_REGISTERED", None, None, None)
      BY <1>2, <1>4, <2>1, <2>5, ClsidCases
    <3>5. CASE Len(s) > 1
      BY <1>1, <1>7, <2>3, <2>5, <3>1, <3>5, AbsentStatusIs
    <3>6. CASE ~(Len(s) > 1) /\ query \in Progids
      <4>1. AbsentStatus = "PROGID_BROKEN" /\ Len(s) = 1
        BY <1>1, <3>6, AbsentStatusIs
      <4>2. s[1] = current
        BY <1>4, <4>1
      <4> QED
        BY <1>7, <2>3, <2>5, <3>1, <3>6, <4>1, <4>2
    <3>7. CASE ~(Len(s) > 1) /\ query \notin Progids
      BY <1>1, <1>7, <2>3, <2>5, <3>1, <3>7, AbsentStatusIs
    <3> QED
      BY <3>5, <3>6, <3>7
  <2> QED
    BY <2>1, <2>4, <2>5
<1>8. CASE pc = "treatas"
  <2>1. Merged(reg, current, "TreatAs") = m /\ Opens(Merged(reg, current, ""))
    BY <1>3, <1>8 DEF ClsidSoFar
  <2>2. Denies(c) \/ Present(c) \/ (Finds(c) /\ (Seen(Upper[c]) \/ Len(treatas_chain) >= MAX_CHAIN_HOPS))
    BY <1>8
  <2>. HIDE DEF m
  <2>3. Stuck(reg, "TreatAs", s) \/ Len(treatas_chain) >= MAX_CHAIN_HOPS
    <3>1. CASE Denies(c) \/ Present(c)
      <4>1. m \notin Names
        BY <1>2, <1>5, <3>1
      <4> QED
        BY <1>1, <2>1, <4>1, StuckAt
    <3>2. CASE Finds(c) /\ Seen(Upper[c])
      BY <1>1, <1>2, <2>1, <3>2, StuckAt
    <3> QED
      BY <2>2, <3>1, <3>2
  <2>4. Expected(reg) = ClsidAt(reg, s)
    BY <1>1, <1>3, <2>3, ClsidEnds
  <2>5. CASE Denies(c)
    BY <1>2, <1>4, <2>1, <2>4, <2>5, ClsidCases
  <2>6. CASE ~Denies(c)
    <3>1. m # "denied" /\ m # "absent"
      BY <1>2, <1>5, <1>8, <2>2, <2>6, TextsOf
    <3> QED
      BY <1>4, <1>8, <2>1, <2>4, <2>6, <3>1, ClsidCases
  <2> QED
    BY <2>5, <2>6
<1> QED
  BY <1>7, <1>8

\* A class without TreatAs: its server is the answer.
LEMMA ServerEnd ==
  ASSUME TypeOK, ChainInv, ~shared, pc \in {"inproc", "local", "unserved"}, NEW s, OnWay(s),
         NEW reg, SoFar(reg, s)
  PROVE  /\ Expected(reg) = ServerAnswer(reg, current)
         /\ Opens(Merged(reg, current, ""))
         /\ pc \in {"local", "unserved"} => Merged(reg, current, "InprocServer32") = "absent"
         /\ pc = "unserved" => Merged(reg, current, "LocalServer32") = "absent"
<1>1. pc \in ClsidPlaces /\ Chain(s)
  BY DEF OnWay, ClsidPlaces
<1>2. ClsidSoFar(reg, s)
  BY <1>1 DEF SoFar
<1>3. Opens(Merged(reg, current, "")) /\ Merged(reg, current, "TreatAs") = "absent"
  BY <1>2 DEF ClsidSoFar
<1>4. "absent" \notin Names /\ "absent" # "denied"
  BY NamesAssumption
<1>5. Stuck(reg, "TreatAs", s)
  BY <1>1, <1>3, <1>4, StuckAt
<1>6. Expected(reg) = ClsidAt(reg, s)
  BY <1>1, <1>2, <1>5, ClsidEnds
<1>7. current = s[Len(s)]
  BY <1>1 DEF Chain
<1>8. ClsidAt(reg, s) = ServerAnswer(reg, current)
  BY <1>3, <1>7, ClsidCases
<1> QED
  BY <1>2, <1>3, <1>6, <1>8 DEF ClsidSoFar

LEMMA LookupEnds ==
  TypeOK /\ ChainInv /\ ResultInv /\ LookupInv /\ ~shared
    /\ (ProgidBroken \/ CurVerCycle \/ ClsidMissing \/ TreatAsBroken) => LookupInv'
<1> SUFFICES ASSUME TypeOK, ChainInv, LookupInv, ~shared,
                    ProgidBroken \/ CurVerCycle \/ ClsidMissing \/ TreatAsBroken
             PROVE  LookupInv'
  OBVIOUS
<1> USE PlacesOf
<1>1. pc \in Places
  BY DEF ProgidBroken, CurVerCycle, ClsidMissing, TreatAsBroken, ProgidPlaces, ClsidPlaces
<1>2. PICK s : OnWay(s)
  BY <1>1, Before
<1>3. CASE ProgidBroken \/ CurVerCycle
  <2>1. pc \in ProgidPlaces
    BY <1>3 DEF ProgidBroken, CurVerCycle, ProgidPlaces
  <2>2. PICK c : /\ Answer(c) /\ ~Denies(c)
                 /\ \/ Missing(c) /\ pc # "curver"
                    \/ Present(c) /\ pc # "progid"
                    \/ Finds(c) /\ pc = "curver" /\ Upper[c] # Upper[current]
                         /\ (Seen(Upper[c]) \/ Len(progid_chain) >= MAX_CHAIN_HOPS)
    <3>1. \A c : Missing(c) \/ Present(c) => ~Denies(c)
      BY DEF Missing, Present, Denies
    <3>2. \A c : Finds(c) /\ pc = "curver" => ~Denies(c)
      BY TextsOf, NamesAssumption DEF Finds, Denies, Names
    <3>3. CASE ProgidBroken
      BY <3>1, <3>3 DEF ProgidBroken
    <3>4. CASE CurVerCycle
      BY <3>2, <3>4 DEF CurVerCycle
    <3> QED
      BY <1>3, <3>3, <3>4
  <2>3. Ends(Result("PROGID_BROKEN", None, None, None))
    BY <1>3 DEF ProgidBroken, CurVerCycle
  <2>5. Missing(c) => pc # "curver"
    BY <2>2 DEF Missing, Present, Finds
  <2>4. ASSUME NEW reg, Agrees(reg)' PROVE Expected(reg) = Result("PROGID_BROKEN", None, None, None)
    BY <1>2, <2>1, <2>2, <2>4, <2>5, ProgidEnd
  <2> QED
    BY <2>2, <2>3, <2>4, EndsRight
<1>4. CASE ClsidMissing
  <2>1. PICK c : Answer(c) /\ Missing(c) /\ pc = "clsid"
    BY <1>4 DEF ClsidMissing
  <2>2. ~Denies(c)
    BY <2>1 DEF Missing, Denies
  <2>. DEFINE r == Result(AbsentStatus, IF AbsentStatus = "PROGID_BROKEN" THEN current ELSE None, None, None)
  <2>3. Ends(r)
    BY <1>4 DEF ClsidMissing
  <2>4. ASSUME NEW reg, Agrees(reg)' PROVE Expected(reg) = r
    BY <1>2, <2>1, <2>2, <2>4, ClsidEnd
  <2>. HIDE DEF r
  <2> QED
    BY <2>1, <2>3, <2>4, EndsRight
<1>5. CASE TreatAsBroken
  <2>1. PICK c \in Contents("TreatAs") :
          /\ Answer(c)
          /\ \/ Present(c)
             \/ Finds(c) /\ (Seen(Upper[c]) \/ Len(treatas_chain) >= MAX_CHAIN_HOPS)
    BY <1>5, Zenon DEF TreatAsBroken
  <2>5. pc = "treatas"
    BY <1>5 DEF TreatAsBroken
  <2>2. ~Denies(c)
    BY <2>1, <2>5, TextsOf, NamesAssumption DEF Present, Finds, Denies, Names
  <2>3. Ends(Result("TREATAS_BROKEN", None, None, None))
    BY <1>5 DEF TreatAsBroken
  <2>4. ASSUME NEW reg, Agrees(reg)' PROVE Expected(reg) = Result("TREATAS_BROKEN", None, None, None)
    BY <1>2, <2>1, <2>2, <2>4, <2>5, ClsidEnd
  <2> QED
    BY <2>1, <2>3, <2>4, EndsRight
<1> QED
  BY <1>3, <1>4, <1>5

LEMMA DeniedResult ==
  ASSUME NEW r \in Results, r.hive = None, r.server_kind = None
  PROVE  [r EXCEPT !.status = "ACCESS_DENIED"] = Result("ACCESS_DENIED", r.clsid, None, None)
  BY DEF Results, Result

\* A key that may not be read ends the lookup.
LEMMA DeniedEnds ==
  TypeOK /\ ChainInv /\ ResultInv /\ LookupInv /\ ~shared /\ DeniedKey => LookupInv'
<1> SUFFICES ASSUME TypeOK, ChainInv, ResultInv, LookupInv, ~shared, DeniedKey PROVE LookupInv'
  OBVIOUS
<1> USE PlacesOf
<1>1. pc \in Places /\ pc # "unserved"
  BY DEF DeniedKey, TypeOK
<1>2. PICK s : OnWay(s)
  BY <1>1, Before
<1>3. PICK c : Answer(c) /\ Denies(c)
  BY DEF DeniedKey
<1>. DEFINE n == IF pc \in {"inproc", "local"} THEN current ELSE None
            r == Result("ACCESS_DENIED", n, None, None)
<1>4. Ends(r)
  <2>1. [result EXCEPT !.status = "ACCESS_DENIED"] = r
    <3>1. result \in Results /\ result.hive = None /\ result.server_kind = None /\ result.clsid = n
      BY <1>1 DEF ResultInv, TypeOK
    <3>. HIDE DEF n
    <3>2. [result EXCEPT !.status = "ACCESS_DENIED"] = Result("ACCESS_DENIED", result.clsid, None, None)
      BY <3>1, DeniedResult
    <3> QED
      BY <3>1, <3>2, Zenon
  <2> QED
    BY <2>1 DEF DeniedKey
<1>5. ASSUME NEW reg, Agrees(reg)' PROVE Expected(reg) = r
  <2>1. SoFar(reg, s) /\ Merged(reg, current, Sub[pc]) = "denied"
    BY <1>1, <1>2, <1>3, <1>5, OnWayTells
  <2>2. CASE pc \in ProgidPlaces
    <3>1. ~Missing(c)
      BY <1>3 DEF Missing, Denies
    <3>2. n = None
      BY <2>2 DEF ProgidPlaces
    <3> QED
      BY <1>2, <1>3, <1>5, <2>2, <3>1, <3>2, ProgidEnd
  <2>3. CASE pc \in {"clsid", "treatas"}
    <3>2. n = None
      BY <2>3
    <3> QED
      BY <1>2, <1>3, <1>5, <2>3, <3>2, ClsidEnd
  <2>4. CASE pc \in {"inproc", "local"}
    <3>1. PICK k \in ServerKinds : k = Sub[pc] /\ (pc = "inproc" <=> k = "InprocServer32")
      BY <2>4 DEF ServerKinds
    <3>2. /\ Expected(reg) = ServerAnswer(reg, current)
          /\ pc = "local" => Merged(reg, current, "InprocServer32") = "absent"
      BY <1>2, <2>1, <2>4, ServerEnd
    <3>3. Merged(reg, current, k) = "denied" /\ (k = "LocalServer32" => pc = "local")
      BY <2>1, <2>4, <3>1
    <3>4. ServerAnswer(reg, current) = Result("ACCESS_DENIED", current, None, None)
      BY <3>2, <3>3, ServerCases
    <3>5. n = current
      BY <2>4
    <3> QED
      BY <3>2, <3>4, <3>5
  <2> QED
    BY <1>1, <2>2, <2>3, <2>4 DEF ClsidPlaces
<1>. HIDE DEF r
<1> QED
  BY <1>3, <1>4, <1>5, EndsRight

\* A server key that is there ends the lookup.
LEMMA ServerEnds ==
  TypeOK /\ ChainInv /\ LookupInv /\ ~shared /\ (ServerFound \/ ServerBroken) => LookupInv'
<1> SUFFICES ASSUME TypeOK, ChainInv, LookupInv, ~shared, ServerFound \/ ServerBroken PROVE LookupInv'
  OBVIOUS
<1> USE PlacesOf
<1>1. pc \in Places /\ pc \in {"inproc", "local"}
  BY DEF ServerFound, ServerBroken, ClsidPlaces
<1>2. PICK s : OnWay(s)
  BY <1>1, Before
<1>3. PICK k \in ServerKinds : k = Sub[pc] /\ (pc = "inproc" <=> k = "InprocServer32")
  BY <1>1 DEF ServerKinds
<1>4. k = "LocalServer32" => pc = "local"
  BY <1>1, <1>3
<1>. DEFINE found == Result("REGISTERED", current, hive, k)
            broken == Result("BROKEN_REGISTRATION", current, hive, None)
<1>5. PICK c : Answer(c) /\ ((Finds(c) /\ Ends(found)) \/ (Present(c) /\ Ends(broken)))
  <2>1. CASE ServerFound
    <3>1. (\E c : Answer(c) /\ Finds(c)) /\ Ends(Result("REGISTERED", current, hive, Sub[pc]))
      BY <2>1, Zenon DEF ServerFound
    <3>2. Ends(found)
      BY <1>3, <3>1, Zenon
    <3> QED
      BY <3>1, <3>2, Zenon
  <2>2. CASE ServerBroken
    BY <2>2, Zenon DEF ServerBroken
  <2> QED
    BY <2>1, <2>2
<1>6. ASSUME NEW reg, Agrees(reg)'
      PROVE  /\ Finds(c) => Expected(reg) = found
             /\ Present(c) => Expected(reg) = broken
  <2>1. /\ SoFar(reg, s)
        /\ Finds(c) => /\ c \in Texts(Sub[pc])
                       /\ Merged(reg, current, Sub[pc]) = c
                       /\ Shown(reg, current, Sub[pc]) = hive
        /\ Present(c) => /\ Merged(reg, current, Sub[pc]) = "blank"
                         /\ Shown(reg, current, Sub[pc]) = hive
    BY <1>1, <1>2, <1>5, <1>6, OnWayTells
  <2>2. /\ Expected(reg) = ServerAnswer(reg, current)
        /\ pc = "local" => Merged(reg, current, "InprocServer32") = "absent"
    BY <1>1, <1>2, <2>1, ServerEnd
  <2>3. c \in Texts(k) => c = "server"
    BY DEF Texts, ServerKinds
  <2>4. /\ Finds(c) => Merged(reg, current, k) = "server" /\ Shown(reg, current, k) = hive
        /\ Present(c) => Merged(reg, current, k) = "blank" /\ Shown(reg, current, k) = hive
    BY <1>3, <2>1, <2>3, Zenon
  <2>5. "server" \notin {"absent", "denied", "blank"} /\ "blank" \notin {"absent", "denied"}
    OBVIOUS
  <2>6. ASSUME Finds(c) PROVE Expected(reg) = found
    BY <1>4, <2>2, <2>4, <2>5, <2>6, ServerCases
  <2>7. ASSUME Present(c) PROVE Expected(reg) = broken
    BY <1>4, <2>2, <2>4, <2>5, <2>7, ServerCases
  <2> QED
    BY <2>6, <2>7
<1>. HIDE DEF found, broken
<1>7. CASE Finds(c) /\ Ends(found)
  BY <1>5, <1>6, <1>7, EndsRight
<1>8. CASE Present(c) /\ Ends(broken)
  BY <1>5, <1>6, <1>8, EndsRight
<1> QED
  BY <1>5, <1>7, <1>8

LEMMA UnservedEnds ==
  TypeOK /\ ChainInv /\ LookupInv /\ ~shared /\ Unserved => LookupInv'
<1> SUFFICES ASSUME TypeOK, ChainInv, LookupInv, ~shared, Unserved PROVE LookupInv'
  OBVIOUS
<1> USE PlacesOf
<1>1. pc \in Places /\ pc = "unserved"
  BY DEF Unserved, ClsidPlaces
<1>2. PICK s : OnWay(s)
  BY <1>1, Before
<1>. DEFINE classed == Result("BROKEN_REGISTRATION", current, hive, None)
            gone == Result("BROKEN_REGISTRATION", current, None, None)
<1>3. PICK c \in Contents("") :
        /\ Answer(c)
        /\ (Present(c) /\ Ends(classed)) \/ ((Missing(c) \/ Denies(c)) /\ Ends(gone))
  BY Zenon DEF Unserved
<1>4. ASSUME NEW reg, Agrees(reg)'
      PROVE  ~Missing(c) /\ ~Denies(c) /\ (Present(c) => Expected(reg) = classed)
  <2>1. /\ SoFar(reg, s)
        /\ Denies(c) => Merged(reg, current, Sub[pc]) = "denied"
        /\ Present(c) => Shown(reg, current, Sub[pc]) = hive
        /\ Missing(c) => Merged(reg, current, Sub[pc]) = "absent"
    BY <1>1, <1>2, <1>3, <1>4, OnWayTells
  <2>2. /\ Expected(reg) = ServerAnswer(reg, current)
        /\ Opens(Merged(reg, current, ""))
        /\ Merged(reg, current, "InprocServer32") = "absent"
        /\ Merged(reg, current, "LocalServer32") = "absent"
    BY <1>1, <1>2, <2>1, ServerEnd
  <2>3. /\ Denies(c) => Merged(reg, current, "") = "denied"
        /\ Present(c) => Shown(reg, current, "") = hive
        /\ Missing(c) => Merged(reg, current, "") = "absent"
    BY <1>1, <2>1
  <2>4. ~Missing(c) /\ ~Denies(c)
    BY <2>2, <2>3 DEF Opens
  <2>5. \A k \in ServerKinds : Merged(reg, current, k) = "absent"
    BY <2>2 DEF ServerKinds
  <2>6. ServerAnswer(reg, current) = Result("BROKEN_REGISTRATION", current, Shown(reg, current, ""), None)
    BY <2>5, NoServer
  <2> QED
    BY <2>2, <2>3, <2>4, <2>6
<1>. HIDE DEF classed, gone
<1>5. CASE Present(c) /\ Ends(classed)
  BY <1>3, <1>4, <1>5, EndsRight
<1>6. CASE (Missing(c) \/ Denies(c)) /\ Ends(gone)
  BY <1>3, <1>4, <1>6, EndsRight
<1> QED
  BY <1>3, <1>5, <1>6

LEMMA LookupStep ==
  TypeOK /\ ChainInv /\ ResultInv /\ LookupInv /\ [Next]_vars => LookupInv'
<1> SUFFICES ASSUME TypeOK, ChainInv, ResultInv, LookupInv, [Next]_vars PROVE LookupInv'
  OBVIOUS
<1>1. CASE UNCHANGED vars
  <2>1. UNCHANGED <<shared, known, hive, probing, pc, query, current, visited,
                    progid_chain, treatas_chain, result>>
    BY <1>1 DEF vars, read
  <2>2. \A reg : /\ Agrees(reg)' <=> Agrees(reg)
                 /\ ReadSoFar(reg)' <=> ReadSoFar(reg)
    BY <2>1 DEF Agrees, ReadSoFar, Key
  <2>3. \A reg : /\ Expected(reg)' = Expected(reg)
                 /\ \A n : ClsidAnswer(reg, n)' = ClsidAnswer(reg, n)
    BY <2>1, ExpectedKept
  <2>4. ASSUME NEW reg, NEW s, SoFar(reg, s) PROVE SoFar(reg, s)'
    <3>1. Expected(reg)' = Expected(reg) /\ ClsidAnswer(reg, s[1])' = ClsidAnswer(reg, s[1])
      BY <2>3
    <3>2. pc \in ProgidPlaces => ProgidSoFar(reg, s)'
      BY <2>1, <2>4 DEF SoFar, ProgidSoFar
    <3>3. pc \in ClsidPlaces => ClsidSoFar(reg, s)'
      BY <2>1, <2>4, <3>1 DEF SoFar, ClsidSoFar
    <3> QED
      BY <2>1, <3>2, <3>3 DEF SoFar
  <2>5. \A s : Chain(s)' <=> Chain(s)
    BY <2>1 DEF Chain
  <2>6. \A s : OnWay(s) => OnWay(s)'
    BY <2>2, <2>4, <2>5 DEF OnWay
  <2> QED
    BY <2>1, <2>2, <2>3, <2>6 DEF LookupInv
<1>2. CASE Step /\ shared
  <2>1. shared' = shared
    BY <1>2 DEF Step, Read, DeniedKey, ProgidExists, ProgidBroken, CurVerEnds, CurVerFollows,
       CurVerCycle, ProgidResolved, ClsidExists, ClsidMissing, TreatAsFollows, TreatAsBroken,
       TreatAsEnds, ServerFound, ServerBroken, ServerMissing, Unserved, Answer
  <2> QED
    BY <1>2, <2>1 DEF LookupInv
<1>3. CASE Step /\ ~shared
  BY <1>3, ReadRight, DeniedEnds, ProgidGoesOn, LookupEnds, CurVerFollowsRight,
     ProgidResolvedRight, ClsidGoesOn, TreatAsFollowsRight, TreatAsEndsRight, ServerEnds,
     UnservedEnds DEF Step
<1> QED
  BY <1>1, <1>2, <1>3 DEF Next, Done

LEMMA LookupInvariant == Spec => [](TypeOK /\ ChainInv /\ ResultInv /\ LookupInv)
<1>1. Init => TypeOK /\ ChainInv /\ ResultInv /\ LookupInv
  BY Initial, ChainInit, ResultInit, LookupInit
<1>2. TypeOK /\ ChainInv /\ ResultInv /\ LookupInv /\ [Next]_vars
        => (TypeOK /\ ChainInv /\ ResultInv /\ LookupInv)'
  BY TypedStep, ChainStep, ResultStep, LookupStep
<1> QED
  BY <1>1, <1>2, PTL DEF Spec

\* Whatever stands in the keys it did not read, a lookup in a registry that
\* nobody writes to answers what resolve_progid and resolve_clsid promise for
\* the merged view of the two hives: the class at the end of the CurVer and
\* TreatAs chains, its server, the hive that shows it, or the right failure.
THEOREM AnswersMergedView == Spec => []AnswerIsMergedView
<1>1. TypeOK /\ LookupInv => AnswerIsMergedView
  <2> SUFFICES ASSUME TypeOK, LookupInv, pc = "done", ~shared, NEW d \in {"absent", "blank"}
               PROVE  result = IF query \in Progids THEN ProgidAnswer(Completed(d), query)
                               ELSE ClsidAnswer(Completed(d), query)
    BY Zenon DEF AnswerIsMergedView
  <2>. DEFINE reg == Completed(d)
  <2>1. Agrees(reg)
    <3>1. \A k \in Keys : reg[k] = IF k \in DOMAIN known THEN known[k] ELSE d
      BY DEF Completed
    <3>2. \A k : d \in Contents(k)
      BY DEF Contents
    <3>3. DOMAIN known \subseteq Keys /\ \A k \in DOMAIN known : known[k] \in Contents(k[3])
      BY DEF TypeOK
    <3>. HIDE DEF reg
    <3> QED
      BY <3>1, <3>2, <3>3 DEF Agrees
  <2>. HIDE DEF reg
  <2>2. result = Expected(reg)
    BY <2>1 DEF LookupInv
  <2> QED
    BY <2>2, Zenon DEF Expected, reg
<1> QED
  BY <1>1, LookupInvariant, PTL

=============================================================================
