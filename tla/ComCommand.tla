----------------------------- MODULE ComCommand -----------------------------
(***************************************************************************)
(* The commands `com clsid`, `com progid`, `com server` and `com audit`    *)
(* (com_command in src/main.rs) with what they call of ComResolver         *)
(* (src/com/resolver.rs): the audit of a target, the validation of a       *)
(* server and the reverse lookup of its registrations.                     *)
(*                                                                         *)
(* Each call of the file system is a step that may find anything: files    *)
(* come and go between the calls, and none is asked the same twice.  What  *)
(* was found stays in seen.  The lookup of a class (ComLookup) is one step *)
(* with one of its results, and so is the dependency walk (StaticWalk).    *)
(* Trace tokens, which precede the summary line, are left out.             *)
(***************************************************************************)
EXTENDS Naturals, Sequences, FiniteSets

CONSTANTS
  Classes,           \* CLSIDs with a server, as numbers in their lexicographic order
  MaxRegistrations,  \* bound on the registrations of a server
  None               \* Option::None

ASSUME ClassesAssumption == Classes \subseteq Nat
ASSUME MaxRegistrationsAssumption == MaxRegistrations \in Nat

Commands == {"clsid", "progid", "server", "audit"}
RegViews == {"64", "32"}
Hives == {"HKCU", "HKLM"}
Inproc == "InprocServer32"
Local == "LocalServer32"
ServerKinds == {Inproc, Local}
Machines == {"x64", "x86", "unknown"}
Broken == {"NOT_REGISTERED", "PROGID_BROKEN", "TREATAS_BROKEN", "BROKEN_REGISTRATION"}
Faults == {"SERVER_MISSING", "SERVER_BAD_IMAGE", "SERVER_DEPS_MISSING", "BITNESS_MISMATCH"}
ServerStatuses == Faults \cup {"OK", "SKIPPED", "ACCESS_DENIED"}

\* What ComLookup returns: a server exactly when the class is registered.
LookupResults ==
  {[status |-> "REGISTERED", kind |-> k] : k \in ServerKinds}
    \cup {[status |-> s, kind |-> None] : s \in Broken \cup {"ACCESS_DENIED"}}

\* The answers of the file system; a header is a machine type if it parses.
Headers == Machines \cup {"unreadable", "malformed"}
Walks == {"clean", "failing", "error"}
Seen == [target : {None, "missing"} \cup Headers,
         manifest : {None, "none", "unreadable", "no_server", "server"},
         exists : {None, "absent", "present"}, header : Headers \cup {None}, walk : Walks \cup {None}]

Registrations == RegViews \X Hives \X Classes \X ServerKinds

\* One token line of a command.
Line(token, status, server_status) ==
  [token |-> token, status |-> status, server_status |-> server_status]
Lines ==
  [token : {"COM_LOOKUP", "COM_SERVER", "COM_AUDIT"},
   status : ServerStatuses \cup Broken
              \cup {"REGISTERED", "INDETERMINATE", "UNSUPPORTED_ARCHITECTURE"},
   server_status : ServerStatuses \cup {None, "INDETERMINATE"}]

ASSUME NoneAssumption ==
  /\ None \notin ServerStatuses \cup Broken
                  \cup {"REGISTERED", "INDETERMINATE", "UNSUPPORTED_ARCHITECTURE"}
  /\ None \notin Machines \cup ServerKinds
  /\ None \notin {"unreadable", "malformed", "missing", "absent", "present", "clean", "failing", "error"}
  /\ None \notin {"none", "no_server", "server"}
  /\ None \notin BOOLEAN /\ None \notin Nat
  /\ None \notin LookupResults /\ None \notin Lines

VARIABLES
  cmd,
  views,          \* --view, or the view of the target
  pc,
  seen,
  expected,       \* expected_machine, the caller's, or None
  lookup,         \* the ComLookupResult, or None
  kind,           \* of the server that is validated
  server,         \* status of the ServerValidation, or None
  scans,          \* <<view, hive>>s that reverse_lookup has yet to finish
  listed,         \* CLSIDs of the first of them that it has yet to read
  registrations,
  denied,
  line, explained, exit  \* stdout, stderr, exit code

inputs == <<cmd, views>>
output == <<line, explained, exit>>
reverse == <<scans, listed, registrations, denied>>
vars == <<inputs, pc, seen, expected, lookup, kind, server, reverse, output>>

-----------------------------------------------------------------------------
(* The end of a command *)

\* An operator named Bad... is the definition after it with a plausible
\* mistake; only mutation runs put it in place.
BadLookupExitCode(r, status) ==
  IF r.status = "ACCESS_DENIED" THEN 21
  ELSE IF r.status = "REGISTERED" /\ status \in {None, "OK", "SKIPPED"} THEN 0 ELSE 10
\* com_lookup_exit_code, with is_issue
LookupExitCode(r, status) ==
  IF "ACCESS_DENIED" \in {r.status, status} THEN 21
  ELSE IF r.status = "REGISTERED" /\ status \in {None, "OK", "SKIPPED"} THEN 0 ELSE 10

BadAuditToken ==
  IF lookup # None /\ lookup.status # "REGISTERED" THEN lookup.status
  ELSE IF server \in {"OK", "SKIPPED"} THEN "OK" ELSE server
\* ComAuditResult::status: of the manifest that names no server, of the lookup,
\* or of the server.
AuditStatus ==
  IF lookup = None /\ server = None THEN "BROKEN_REGISTRATION"
  ELSE IF lookup # None /\ lookup.status # "REGISTERED" THEN lookup.status
  ELSE IF server \in {None, "OK", "SKIPPED"} THEN "OK" ELSE server

BadServerToken == IF server = "SKIPPED" THEN "OK" ELSE server
\* The status of COM_SERVER
ServerToken ==
  IF denied THEN "ACCESS_DENIED" ELSE IF server = "SKIPPED" THEN "OK" ELSE server

Prints(l, code) ==
  /\ pc' = "done" /\ line' = l /\ exit' = code

ReportLookup ==
  /\ cmd \in {"clsid", "progid"}
  /\ Prints(Line("COM_LOOKUP", lookup.status, server), LookupExitCode(lookup, server))

ReportServer ==
  /\ cmd = "server"
  /\ Prints(Line("COM_SERVER", ServerToken, None),
            IF denied \/ server = "ACCESS_DENIED" THEN 21
            ELSE IF server \in {"SERVER_MISSING", "SERVER_BAD_IMAGE", "SERVER_DEPS_MISSING"} THEN 10
            ELSE 0)

ReportAudit ==
  /\ cmd = "audit"
  /\ Prints(Line("COM_AUDIT", AuditStatus, None),
            IF AuditStatus = "ACCESS_DENIED" THEN 21 ELSE IF AuditStatus # "OK" THEN 10 ELSE 0)

Report ==
  /\ pc = "report"
  /\ ReportLookup \/ ReportServer \/ ReportAudit
  /\ UNCHANGED <<inputs, seen, expected, lookup, kind, server, reverse, explained>>

\* The token of a command.
Token ==
  IF cmd = "server" THEN "COM_SERVER" ELSE IF cmd = "audit" THEN "COM_AUDIT" ELSE "COM_LOOKUP"

\* A ComError: an explanation and a token that says so (com_error_parts); a
\* lookup keeps its own status.
Fails(status, code) ==
  /\ Prints(IF Token = "COM_LOOKUP" THEN Line(Token, lookup.status, status)
            ELSE Line(Token, status, None), code)
  /\ explained' = TRUE
Indeterminate == Fails("INDETERMINATE", 21)
UnsupportedArchitecture == Fails("UNSUPPORTED_ARCHITECTURE", 22)

\* The command goes on, or has nothing to print yet.
GoesTo(place) == pc' = place /\ UNCHANGED output

-----------------------------------------------------------------------------
(* The target of an audit *)

\* The registry view of a target, or of a lookup, and the caller it implies.
ViewOf == [x64 |-> "64", x86 |-> "32"]
Caller(view) == IF view = "64" THEN "x64" ELSE "x86"

TargetExists ==
  /\ pc = "target"
  /\ \/ GoesTo("target_header") /\ UNCHANGED seen
     \/ Indeterminate /\ seen' = [seen EXCEPT !.target = "missing"]
  /\ UNCHANGED <<inputs, expected, lookup, kind, server, reverse>>

TargetHeader ==
  /\ pc = "target_header"
  /\ \E h \in Headers :
       /\ seen' = [seen EXCEPT !.target = h]
       /\ \/ /\ h \in {"x64", "x86"}
             /\ expected' = h /\ views' = <<ViewOf[h]>>
             /\ GoesTo("manifest")
          \/ /\ h = "unknown" /\ UnsupportedArchitecture
             /\ UNCHANGED <<views, expected>>
          \/ /\ h \in {"unreadable", "malformed"} /\ Indeterminate
             /\ UNCHANGED <<views, expected>>
  /\ UNCHANGED <<cmd, lookup, kind, server, reverse>>

\* manifest_hit, of the embedded or else of the sidecar manifest: a sidecar
\* that cannot be read counts as none, a class without file cannot be activated.
Manifest ==
  /\ pc = "manifest"
  /\ \E m \in {"none", "unreadable", "no_server", "server"} :
       /\ seen' = [seen EXCEPT !.manifest = m]
       /\ kind' = IF m = "server" THEN Inproc ELSE None
       /\ GoesTo(IF m = "server" THEN "exists" ELSE IF m = "no_server" THEN "report" ELSE "lookup")
  /\ UNCHANGED <<inputs, expected, lookup, server, reverse>>

-----------------------------------------------------------------------------
(* The lookup, and the validation of a server *)

Lookup ==
  /\ pc = "lookup"
  /\ lookup' \in LookupResults
  /\ kind' = lookup'.kind
  /\ GoesTo(IF lookup'.status = "REGISTERED" THEN "exists" ELSE "report")
  /\ UNCHANGED <<inputs, seen, expected, server, reverse>>

\* validate_server_file_with_context returns.  A file of System32 that an x86
\* caller asks for is the one of SysWOW64, at every step.
Validated(status) ==
  /\ server' = status
  /\ GoesTo(IF cmd = "server" THEN "enumerate" ELSE "report")

Exists ==
  /\ pc = "exists"
  /\ \/ /\ GoesTo("header") /\ server' = server
        /\ seen' = [seen EXCEPT !.exists = "present"]
     \/ /\ Validated("SERVER_MISSING")
        /\ seen' = [seen EXCEPT !.exists = "absent"]
  /\ UNCHANGED <<inputs, expected, lookup, kind, reverse>>

BadFits(machine) == kind = Local => machine \in {expected, "unknown"} \/ expected = None
\* The bitness matters in-process only.
Fits(machine) == kind = Inproc => machine \in {expected, "unknown"} \/ expected = None

Header ==
  /\ pc = "header"
  /\ \E h \in Headers :
       /\ seen' = [seen EXCEPT !.header = h]
       /\ \/ h = "unreadable" /\ Validated("ACCESS_DENIED")
          \/ h = "malformed" /\ Validated("SERVER_BAD_IMAGE")
          \/ h \in Machines /\ ~Fits(h) /\ Validated("BITNESS_MISMATCH")
          \/ h = "x86" /\ Fits(h) /\ Validated("SKIPPED")
          \/ h \in Machines \ {"x86"} /\ Fits(h) /\ GoesTo("walk") /\ server' = server
  /\ UNCHANGED <<inputs, expected, lookup, kind, reverse>>

Walk ==
  /\ pc = "walk"
  /\ \E w \in Walks :
       /\ seen' = [seen EXCEPT !.walk = w]
       /\ \/ w = "clean" /\ Validated("OK")
          \/ w = "failing" /\ Validated("SERVER_DEPS_MISSING")
          \/ w = "error" /\ Indeterminate /\ server' = server
  /\ UNCHANGED <<inputs, expected, lookup, kind, reverse>>

-----------------------------------------------------------------------------
(* reverse_lookup *)

\* The hives of the views in the order of the scan.
Scans(vs) == IF Len(vs) = 2 THEN <<<<vs[1], "HKCU">>, <<vs[1], "HKLM">>,
                                  <<vs[2], "HKCU">>, <<vs[2], "HKLM">>>>
             ELSE <<<<vs[1], "HKCU">>, <<vs[1], "HKLM">>>>

\* Goes on in the hive while it has classes, then in the next one.
Scanning(rest) ==
  /\ listed' = rest
  /\ scans' = IF rest = {} THEN Tail(scans) ELSE scans
  /\ GoesTo(IF rest # {} THEN "classes" ELSE IF Tail(scans) # <<>> THEN "enumerate" ELSE "report")

\* enum_subkeys; when it fails there are no classes, unless access is denied,
\* which discards every registration.
EnumerateClasses ==
  /\ pc = "enumerate"
  /\ \/ /\ \E cs \in SUBSET Classes : Scanning(cs)
        /\ UNCHANGED <<registrations, denied>>
     \/ /\ denied' = TRUE /\ registrations' = <<>> /\ listed' = {} /\ scans' = <<>>
        /\ GoesTo("report")
  /\ UNCHANGED <<inputs, seen, expected, lookup, kind, server>>

BadNextClass == CHOOSE c \in listed : \A d \in listed : c >= d
\* clsids.sort()
NextClass == CHOOSE c \in listed : \A d \in listed : c <= d

\* The server keys of a class, InprocServer32 first; one that cannot be read
\* names no server.
ReadServers ==
  /\ pc = "classes"
  /\ \E named \in {<<>>, <<Inproc>>, <<Local>>, <<Inproc, Local>>} :
       /\ Len(registrations) + Len(named) <= MaxRegistrations
       /\ registrations' =
            registrations \o [i \in DOMAIN named |->
                                <<scans[1][1], scans[1][2], NextClass, named[i]>>]
  /\ Scanning(listed \ {NextClass})
  /\ UNCHANGED <<inputs, seen, expected, lookup, kind, server, denied>>

-----------------------------------------------------------------------------

Init ==
  /\ cmd \in Commands
  /\ views \in IF cmd = "audit" THEN {<<>>}
              ELSE {<<"64">>, <<"32">>} \cup IF cmd = "server" THEN {<<"64", "32">>} ELSE {}
  /\ pc = (IF cmd = "audit" THEN "target" ELSE IF cmd = "server" THEN "exists" ELSE "lookup")
  /\ seen = [target |-> None, manifest |-> None, exists |-> None, header |-> None, walk |-> None]
  /\ expected = (IF cmd \in {"clsid", "progid"} THEN Caller(views[1]) ELSE None)
  /\ lookup = None /\ server = None
  /\ kind = (IF cmd = "server" THEN Local ELSE None)
  /\ scans = (IF cmd = "server" THEN Scans(views) ELSE <<>>)
  /\ listed = {} /\ registrations = <<>> /\ denied = FALSE
  /\ line = None /\ explained = FALSE /\ exit = None

Step ==
  \/ TargetExists \/ TargetHeader \/ Manifest
  \/ Lookup \/ Exists \/ Header \/ Walk
  \/ EnumerateClasses \/ ReadServers
  \/ Report

Done == pc = "done" /\ UNCHANGED vars

Next == Step \/ Done

Spec == Init /\ [][Next]_vars

-----------------------------------------------------------------------------
(* Properties *)

Places == {"target", "target_header", "manifest", "lookup", "exists", "header", "walk",
           "enumerate", "classes", "report", "done"}

TypeOK ==
  /\ cmd \in Commands
  /\ views \in Seq(RegViews)
  /\ pc \in Places
  /\ seen \in Seen
  /\ expected \in {"x64", "x86", None}
  /\ lookup \in LookupResults \cup {None}
  /\ kind \in ServerKinds \cup {None}
  /\ server \in ServerStatuses \cup {None}
  /\ scans \in Seq(RegViews \X Hives)
  /\ listed \subseteq Classes
  /\ registrations \in Seq(Registrations) /\ Len(registrations) <= MaxRegistrations
  /\ denied \in BOOLEAN
  /\ line \in Lines \cup {None}
  /\ explained \in BOOLEAN
  /\ exit \in {None, 0, 10, 21, 22}

\* Each command prints one line, with the exit code that its statuses stand for.
V == INSTANCE ComVerdict WITH Tokens <- Lines
Verdict == V!Spec

\* There is a server, its file exists, is a PE image of the machine the caller
\* needs, and its dependencies resolve, or cannot be walked because it is x86.
Served ==
  /\ seen.exists = "present"
  /\ seen.header \in Machines
  /\ kind = Inproc => seen.header \in {expected, "unknown"} \/ expected = None
  /\ seen.header # "x86" => seen.walk = "clean"

\* Something that the answer needs could not be read.  (A sidecar manifest that
\* cannot be read is the exception: it counts as none.)
Unread ==
  \/ seen.target \in {"missing", "unreadable", "malformed"}
  \/ seen.header = "unreadable"
  \/ seen.walk = "error"
  \/ lookup # None /\ lookup.status = "ACCESS_DENIED"
  \/ denied

\* Exit code 0 is no guess, and no server that was found to be good is told to
\* be broken: the three functions that compute exit codes agree in what counts.
HealthyIsChecked == pc = "done" => (exit = 0 <=> Served /\ ~Unread)

\* Exit code 21 says that something needed for the answer could not be read,
\* and whenever there was such a thing the exit code says so.
IncompleteIsTold == pc = "done" => (exit = 21 <=> Unread)

\* The registrations of a server come in the documented order, each once:
\* view as asked for, HKCU before HKLM, CLSID, in-process before local.
Precedes(r, s) ==
  \/ r[1] = "64" /\ s[1] = "32"
  \/ r[1] = s[1] /\ r[2] = "HKCU" /\ s[2] = "HKLM"
  \/ r[1] = s[1] /\ r[2] = s[2] /\ r[3] < s[3]
  \/ r[1] = s[1] /\ r[2] = s[2] /\ r[3] = s[3] /\ r[4] = Inproc /\ s[4] = Local
RegistrationsOrdered ==
  \A i, j \in DOMAIN registrations : i < j => Precedes(registrations[i], registrations[j])
=============================================================================
