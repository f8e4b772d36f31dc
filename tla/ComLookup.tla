----------------------------- MODULE ComLookup -----------------------------
(***************************************************************************)
(* One lookup of `loadwhat com`: resolve_progid and resolve_clsid          *)
(* (src/com/resolver.rs) over the merged view of HKCU\Software\Classes and *)
(* HKLM\Software\Classes.                                                  *)
(*                                                                         *)
(* Every key is read in two calls, read_value and then key_exists, first   *)
(* in HKCU and then in HKLM, and each call is one step.  Other programs    *)
(* may write to the registry meanwhile: with shared, every call may see    *)
(* anything.  Otherwise the registry does not change; a key has whatever   *)
(* content its first call finds, which known remembers.                    *)
(*                                                                         *)
(* The content of a key is what the two calls distinguish:                 *)
(*   "absent"  neither finds it (or it cannot be opened, other than for    *)
(*             lack of access)                                             *)
(*   "denied"  read_value answers AccessDenied                             *)
(*   "blank"   it exists, its default value is missing, empty, no string,  *)
(*             or cannot be read                                           *)
(*   "server"  in a server key: it exists and names a file or a command    *)
(*   a name    in another: its default value is that name, trimmed         *)
(* Names are spelled in several ways, and Upper tells which are the same.  *)
(* ThreadingModel and ProgID, read for display only, are left out.         *)
(***************************************************************************)
EXTENDS Naturals, Sequences, SequencesExt

CONSTANTS
  Clsids,         \* spellings of CLSIDs
  Progids,        \* spellings of ProgIDs
  Starts,         \* names a chain starts from: queries, and CLSIDs of ProgIDs
  Upper,          \* to_ascii_uppercase
  MAX_CHAIN_HOPS,
  None            \* Option::None

Names == Clsids \cup Progids
Ids == {Upper[n] : n \in Names}

ASSUME NamesAssumption ==
  /\ Clsids \cap Progids = {}
  /\ Names \cap {"absent", "denied", "blank"} = {}
  /\ Starts \subseteq Names
  /\ DOMAIN Upper = Names
  /\ \A c \in Clsids, p \in Progids : Upper[c] # Upper[p]

\* resolver.rs: 64
ASSUME MaxChainHopsAssumption == MAX_CHAIN_HOPS \in Nat \ {0}

Hives == {"HKCU", "HKLM"}
ServerKinds == {"InprocServer32", "LocalServer32"}
Statuses == {"REGISTERED", "NOT_REGISTERED", "PROGID_BROKEN", "TREATAS_BROKEN",
             "BROKEN_REGISTRATION", "ACCESS_DENIED"}

ASSUME NoneAssumption == None \notin Names \cup Hives \cup ServerKinds

VARIABLES
  shared,         \* others write to the registry during the lookup
  known,          \* contents of keys seen so far, unless shared
  pc,             \* the merged read under way, or "done"
  hive,           \* where it is
  probing,        \* read_value gave nothing to use, key_exists comes next
  query,
  current,
  visited,
  progid_chain,
  treatas_chain,
  result

read == <<shared, known, hive, probing>>
vars == <<read, pc, query, current, visited, progid_chain, treatas_chain, result>>

Result(status, clsid, h, kind) ==
  [status |-> status, clsid |-> clsid, hive |-> h, server_kind |-> kind]
Results == [status : Statuses, clsid : Clsids \cup {None},
            hive : Hives \cup {None}, server_kind : ServerKinds \cup {None}]

-----------------------------------------------------------------------------
(* The merged read *)

\* The key below the current name, for each place of the two functions.
Sub == [progid |-> "", curver |-> "CurVer", progid_clsid |-> "CLSID",
        clsid |-> "", treatas |-> "TreatAs", inproc |-> "InprocServer32",
        local |-> "LocalServer32", unserved |-> ""]
Places == DOMAIN Sub
SubKeys == {Sub[p] : p \in Places}
Keys == Hives \X Ids \X SubKeys
Key == <<hive, Upper[current], Sub[pc]>>

\* The usable default values; merged_key_state, for "", uses none.
Texts(sub) ==
  IF sub = "CurVer" THEN Progids
  ELSE IF sub = "CLSID" THEN Clsids \cap Starts
  ELSE IF sub = "TreatAs" THEN Clsids
  ELSE IF sub \in ServerKinds THEN {"server"}
  ELSE {}
Contents(sub) == {"absent", "denied", "blank"} \cup Texts(sub)

\* A call of the registry finds content c in the key.
Sees(c) ==
  /\ c \in Contents(Sub[pc])
  /\ Key \in DOMAIN known => known[Key] = c
  /\ known' = IF shared THEN known
              ELSE [k \in DOMAIN known \cup {Key} |-> IF k = Key THEN c ELSE known[k]]

Opens(c) == c \notin {"absent", "denied"}

\* An operator named Bad... is the definition after it with a plausible
\* mistake; only mutation runs put it in place.
BadGoesOn(c) ==
  IF probing
    THEN hive = "HKCU" /\ ~Opens(c) /\ hive' = "HKLM" /\ probing' = FALSE
    ELSE /\ c # "denied" /\ c \notin Texts(Sub[pc])
         /\ \/ c = "blank" /\ hive = "HKCU" /\ hive' = "HKLM" /\ probing' = FALSE
            \/ (c # "blank" \/ hive = "HKLM") /\ hive' = hive /\ probing' = TRUE
\* The call decides nothing: key_exists follows read_value, HKLM follows HKCU.
GoesOn(c) ==
  IF probing
    THEN hive = "HKCU" /\ ~Opens(c) /\ hive' = "HKLM" /\ probing' = FALSE
    ELSE c # "denied" /\ c \notin Texts(Sub[pc]) /\ hive' = hive /\ probing' = TRUE

\* The answers a merged read ends with.
Finds(c) == ~probing /\ c \in Texts(Sub[pc])       \* Found
Denies(c) == ~probing /\ c = "denied"              \* Denied
Present(c) == probing /\ Opens(c)                  \* Exists, Invalid
Missing(c) == probing /\ hive = "HKLM" /\ ~Opens(c) \* Absent

\* The call that ends the merged read.
Answer(c) ==
  /\ Sees(c)
  /\ hive' = "HKCU" /\ probing' = FALSE
  /\ UNCHANGED <<shared, query>>

Read ==
  /\ pc # "done"
  /\ \E c \in Contents(Sub[pc]) : Sees(c) /\ GoesOn(c)
  /\ UNCHANGED <<shared, pc, query, current, visited, progid_chain, treatas_chain, result>>

-----------------------------------------------------------------------------
(* The chains: CurVer from a ProgID, TreatAs from a class *)

Ends(r) ==
  /\ pc' = "done" /\ result' = r
  /\ UNCHANGED <<current, visited, progid_chain, treatas_chain>>

\* Whatever is read, a denied key ends the lookup; only the hive of a class
\* without server is not worth it.
DeniedKey ==
  /\ pc \notin {"unserved", "done"}
  /\ \E c \in Contents(Sub[pc]) : Answer(c) /\ Denies(c)
  /\ Ends([result EXCEPT !.status = "ACCESS_DENIED"])

GoesTo(place) ==
  /\ pc' = place
  /\ UNCHANGED <<current, visited, progid_chain, treatas_chain, result>>

\* visited.insert(id) is false
Seen(id) == id \in visited

ProgidExists ==
  /\ pc = "progid"
  /\ \E c \in Contents("") : Answer(c) /\ Present(c)
  /\ GoesTo("curver")

\* A ProgID that is not there, or a CurVer or CLSID value that is no name.
ProgidBroken ==
  /\ \/ pc \in {"progid", "progid_clsid"}
        /\ \E c \in Contents(Sub[pc]) : Answer(c) /\ Missing(c)
     \/ pc \in {"curver", "progid_clsid"}
        /\ \E c \in Contents(Sub[pc]) : Answer(c) /\ Present(c)
  /\ Ends(Result("PROGID_BROKEN", None, None, None))

\* No CurVer, or one that names its own ProgID.
CurVerEnds ==
  /\ pc = "curver"
  /\ \E c \in Contents("CurVer") :
       /\ Answer(c)
       /\ Missing(c) \/ (Finds(c) /\ Upper[c] = Upper[current])
  /\ GoesTo("progid_clsid")

CurVerFollows ==
  /\ pc = "curver"
  /\ \E c \in Contents("CurVer") :
       /\ Answer(c) /\ Finds(c) /\ Upper[c] # Upper[current]
       /\ ~Seen(Upper[c]) /\ Len(progid_chain) < MAX_CHAIN_HOPS
       /\ current' = c
       /\ visited' = visited \cup {Upper[c]}
       /\ progid_chain' = Append(progid_chain, c)
  /\ pc' = "progid"
  /\ UNCHANGED <<treatas_chain, result>>

CurVerCycle ==
  /\ pc = "curver"
  /\ \E c \in Contents("CurVer") :
       /\ Answer(c) /\ Finds(c) /\ Upper[c] # Upper[current]
       /\ Seen(Upper[c]) \/ Len(progid_chain) >= MAX_CHAIN_HOPS
  /\ Ends(Result("PROGID_BROKEN", None, None, None))

BadProgidResolved ==
  /\ pc = "progid_clsid"
  /\ \E c \in Contents("CLSID") : Answer(c) /\ Finds(c)
  /\ visited' = {Upper[current]} /\ pc' = "clsid"
  /\ UNCHANGED <<current, progid_chain, treatas_chain, result>>
\* resolve_progid calls resolve_clsid.
ProgidResolved ==
  /\ pc = "progid_clsid"
  /\ \E c \in Contents("CLSID") :
       /\ Answer(c) /\ Finds(c)
       /\ current' = c /\ visited' = {Upper[c]}
  /\ pc' = "clsid"
  /\ UNCHANGED <<progid_chain, treatas_chain, result>>

ClsidExists ==
  /\ pc = "clsid"
  /\ \E c \in Contents("") : Answer(c) /\ Present(c)
  /\ GoesTo("treatas")

BadAbsentStatus == "NOT_REGISTERED"
\* The end of a redirect is broken, a missing input is not registered, and a
\* missing class of a ProgID breaks the ProgID.
AbsentStatus ==
  IF treatas_chain # <<>> THEN "TREATAS_BROKEN"
  ELSE IF progid_chain # <<>> THEN "PROGID_BROKEN" ELSE "NOT_REGISTERED"

ClsidMissing ==
  /\ pc = "clsid"
  /\ \E c \in Contents("") : Answer(c) /\ Missing(c)
  /\ Ends(Result(AbsentStatus,
                 IF AbsentStatus = "PROGID_BROKEN" THEN current ELSE None, None, None))

BadTreatAsFollows ==
  /\ pc = "treatas"
  /\ \E c \in Contents("TreatAs") :
       Answer(c) /\ Finds(c) /\ ~Seen(Upper[c]) /\ current' = c
  /\ pc' = "clsid"
  /\ UNCHANGED <<visited, progid_chain, treatas_chain, result>>
TreatAsFollows ==
  /\ pc = "treatas"
  /\ \E c \in Contents("TreatAs") :
       /\ Answer(c) /\ Finds(c)
       /\ ~Seen(Upper[c]) /\ Len(treatas_chain) < MAX_CHAIN_HOPS
       /\ current' = c
       /\ visited' = visited \cup {Upper[c]}
       /\ treatas_chain' = Append(treatas_chain, c)
  /\ pc' = "clsid"
  /\ UNCHANGED <<progid_chain, result>>

TreatAsBroken ==
  /\ pc = "treatas"
  /\ \E c \in Contents("TreatAs") :
       /\ Answer(c)
       /\ \/ Present(c)
          \/ Finds(c) /\ (Seen(Upper[c]) \/ Len(treatas_chain) >= MAX_CHAIN_HOPS)
  /\ Ends(Result("TREATAS_BROKEN", None, None, None))

TreatAsEnds ==
  /\ pc = "treatas"
  /\ \E c \in Contents("TreatAs") : Answer(c) /\ Missing(c)
  /\ pc' = "inproc" /\ result' = [result EXCEPT !.clsid = current]
  /\ UNCHANGED <<current, visited, progid_chain, treatas_chain>>

-----------------------------------------------------------------------------
(* The server of the class *)

ServerFound ==
  /\ pc \in {"inproc", "local"}
  /\ \E c \in Contents(Sub[pc]) : Answer(c) /\ Finds(c)
  /\ Ends(Result("REGISTERED", current, hive, Sub[pc]))

ServerBroken ==
  /\ pc \in {"inproc", "local"}
  /\ \E c \in Contents(Sub[pc]) : Answer(c) /\ Present(c)
  /\ Ends(Result("BROKEN_REGISTRATION", current, hive, None))

ServerMissing ==
  /\ pc \in {"inproc", "local"}
  /\ \E c \in Contents(Sub[pc]) : Answer(c) /\ Missing(c)
  /\ GoesTo(IF pc = "inproc" THEN "local" ELSE "unserved")

\* The class has no server: which hive has the class?
Unserved ==
  /\ pc = "unserved"
  /\ \E c \in Contents("") :
       /\ Answer(c)
       /\ \/ Present(c)
            /\ Ends(Result("BROKEN_REGISTRATION", current, hive, None))
          \/ (Missing(c) \/ Denies(c))
            /\ Ends(Result("BROKEN_REGISTRATION", current, None, None))

Init ==
  /\ shared \in BOOLEAN /\ known = <<>>
  /\ hive = "HKCU" /\ probing = FALSE
  /\ query \in Starts /\ current = query /\ visited = {Upper[query]}
  /\ progid_chain = (IF query \in Progids THEN <<query>> ELSE <<>>)
  /\ treatas_chain = <<>>
  /\ pc = (IF query \in Progids THEN "progid" ELSE "clsid")
  /\ result = Result("REGISTERED", None, None, None)

Step ==
  \/ Read \/ DeniedKey
  \/ ProgidExists \/ ProgidBroken \/ CurVerEnds \/ CurVerFollows \/ CurVerCycle
  \/ ProgidResolved
  \/ ClsidExists \/ ClsidMissing \/ TreatAsFollows \/ TreatAsBroken \/ TreatAsEnds
  \/ ServerFound \/ ServerBroken \/ ServerMissing \/ Unserved

Done == pc = "done" /\ UNCHANGED vars

Next == Step \/ Done

Spec == Init /\ [][Next]_vars

-----------------------------------------------------------------------------
(* What a lookup answers, defined on a whole registry.                     *)

\* A registry in which every key nobody looked at has content d.
Completed(d) == [k \in Keys |-> IF k \in DOMAIN known THEN known[k] ELSE d]

\* The hive that shows the key: HKCU if the key is there at all.
Shown(reg, n, sub) ==
  IF reg[<<"HKCU", Upper[n], sub>>] # "absent" THEN "HKCU" ELSE "HKLM"
Merged(reg, n, sub) == reg[<<Shown(reg, n, sub), Upper[n], sub>>]

Points(reg, sub, m, n) ==
  /\ Opens(Merged(reg, m, ""))
  /\ Merged(reg, m, sub) = n
  /\ sub = "CurVer" => Upper[m] # Upper[n]

\* The longest path of different names from start, with len names at most.
Path(reg, sub, start, len) ==
  LET Further(s) == {n \in Names : /\ Points(reg, sub, Last(s), n)
                                 /\ \A i \in DOMAIN s : Upper[s[i]] # Upper[n]}
      path[k \in 1..len] ==
        IF k = 1 THEN <<start>>
        ELSE IF Further(path[k - 1]) = {} THEN path[k - 1]
        ELSE Append(path[k - 1], CHOOSE n \in Further(path[k - 1]) : TRUE)
  IN path[len]

\* The server of a class without TreatAs.
ServerAnswer(reg, n) ==
  LET kinds == {k \in ServerKinds : Merged(reg, n, k) # "absent"}
      kind == IF "InprocServer32" \in kinds THEN "InprocServer32" ELSE "LocalServer32"
      hive_of == Shown(reg, n, kind)
  IN IF kinds = {} THEN Result("BROKEN_REGISTRATION", n, Shown(reg, n, ""), None)
     ELSE IF Merged(reg, n, kind) = "denied" THEN Result("ACCESS_DENIED", n, None, None)
     ELSE IF Merged(reg, n, kind) = "blank" THEN Result("BROKEN_REGISTRATION", n, hive_of, None)
     ELSE Result("REGISTERED", n, hive_of, kind)

\* The class at the end of the TreatAs chain from n.
ClsidAnswer(reg, n) ==
  LET path == Path(reg, "TreatAs", n, MAX_CHAIN_HOPS + 1)
      end == Last(path)
  IN IF "denied" \in {Merged(reg, end, "")} \cup
                     (IF Opens(Merged(reg, end, "")) THEN {Merged(reg, end, "TreatAs")} ELSE {})
       THEN Result("ACCESS_DENIED", None, None, None)
     ELSE IF Merged(reg, end, "") = "absent"
       THEN IF Len(path) > 1 THEN Result("TREATAS_BROKEN", None, None, None)
            ELSE IF query \in Progids THEN Result("PROGID_BROKEN", n, None, None)
            ELSE Result("NOT_REGISTERED", None, None, None)
     ELSE IF Merged(reg, end, "TreatAs") = "absent" THEN ServerAnswer(reg, end)
     ELSE Result("TREATAS_BROKEN", None, None, None)

\* The class that the ProgID at the end of the CurVer chain from p names.
ProgidAnswer(reg, p) ==
  LET path == Path(reg, "CurVer", p, MAX_CHAIN_HOPS)
      end == Last(path)
      curver == Merged(reg, end, "CurVer")
      ends == curver = "absent" \/ (curver \in Progids /\ Upper[curver] = Upper[end])
      class == Merged(reg, end, "CLSID")
  IN IF \/ Merged(reg, end, "") = "denied"
        \/ Opens(Merged(reg, end, "")) /\ (curver = "denied" \/ (ends /\ class = "denied"))
       THEN Result("ACCESS_DENIED", None, None, None)
     ELSE IF Opens(Merged(reg, end, "")) /\ ends /\ class \in Clsids
       THEN ClsidAnswer(reg, class)
     ELSE Result("PROGID_BROKEN", None, None, None)

-----------------------------------------------------------------------------
(* Properties *)

TypeOK ==
  /\ shared \in BOOLEAN
  /\ DOMAIN known \subseteq Keys
  /\ \A k \in DOMAIN known : known[k] \in Contents(k[3])
  /\ pc \in Places \cup {"done"}
  /\ hive \in Hives
  /\ probing \in BOOLEAN
  /\ query \in Starts
  /\ current \in Names
  /\ pc # "done" =>
       (current \in IF pc \in {"progid", "curver", "progid_clsid"} THEN Progids ELSE Clsids)
  /\ visited \subseteq Ids
  /\ progid_chain \in Seq(Progids)
  /\ treatas_chain \in Seq(Clsids)
  /\ result \in Results

\* When nobody writes to the registry, the answer is the one the merged view of
\* the two hives gives, whatever stands in the keys the lookup did not read.
AnswerIsMergedView ==
  (pc = "done" /\ ~shared) =>
    \A d \in {"absent", "blank"} :
      result = IF query \in Progids THEN ProgidAnswer(Completed(d), query)
               ELSE ClsidAnswer(Completed(d), query)

\* Whatever others write, no name comes twice in a chain, in any spelling, and
\* the chains stay within their bound.
Simple(chain) == \A i, j \in DOMAIN chain : Upper[chain[i]] = Upper[chain[j]] => i = j
ChainsAreSimple ==
  /\ Simple(progid_chain) /\ Simple(treatas_chain)
  /\ query \in Clsids => \A i \in DOMAIN treatas_chain : Upper[treatas_chain[i]] # Upper[query]
  /\ Len(treatas_chain) <= MAX_CHAIN_HOPS
  /\ Len(progid_chain) <= MAX_CHAIN_HOPS \/ progid_chain = <<query>>

\* Whatever others write, the parts of a result fit together: the commands
\* validate a server exactly when there is one, print the hive with its class,
\* and never call a ProgID not registered or a CLSID a broken ProgID.
ResultFits ==
  pc = "done" =>
    /\ result.status = "REGISTERED" <=> result.server_kind # None
    /\ result.server_kind # None => result.hive # None
    /\ result.hive # None => result.clsid # None
    /\ result.clsid # None => result.clsid = current
    /\ result.status = "NOT_REGISTERED" => query \in Clsids /\ treatas_chain = <<>>
    /\ result.status = "PROGID_BROKEN" => query \in Progids /\ treatas_chain = <<>>
    /\ treatas_chain # <<>> => result.clsid \in {None, treatas_chain[Len(treatas_chain)]}

\* A lookup ends although the registry may change under every step of it: each
\* call leaves fewer hops, or fewer places in this hop, or fewer calls.
HopsLeft == 2 * MAX_CHAIN_HOPS + 1 - Len(progid_chain) - Len(treatas_chain)
PlacesLeft ==
  [progid |-> 8, curver |-> 7, progid_clsid |-> 6, clsid |-> 5, treatas |-> 4,
   inproc |-> 3, local |-> 2, unserved |-> 1, done |-> 0][pc]
CallsLeft == (IF hive = "HKCU" THEN 2 ELSE 0) + (IF probing THEN 0 ELSE 1)
Shrinks(m, n) ==
  \/ n[1] < m[1]
  \/ n[1] = m[1] /\ n[2] < m[2]
  \/ n[1] = m[1] /\ n[2] = m[2] /\ n[3] < m[3]
LookupProgresses ==
  [][/\ HopsLeft \in Nat
     /\ Shrinks(<<HopsLeft, PlacesLeft, CallsLeft>>,
                <<HopsLeft, PlacesLeft, CallsLeft>>')]_vars
=============================================================================
