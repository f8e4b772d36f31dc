# A TLA+ model of loadwhat

`loadwhat` is a Windows command-line tool that explains why a program fails to
load its DLLs. It runs the program under its own debug loop, looks at the
modules that were loaded and at the loader's debug strings, walks the import
tables of what is on disk, and reports one diagnosis. Other commands walk the
imports of a file and inspect COM registrations. This directory holds TLA+
modules for the parts of it that carry state and decisions, the TLC
configurations that check them, and TLAPS proofs of what matters most.

Source paths below are relative to the repository.

## 1. Inventory

| Component | Source | State | Operations | Hard behaviour |
|---|---|---|---|---|
| Debug loop (Phase A) | `src/debug_run.rs` `run_target` | timeout and termination flags, event log, exit and exception codes, handles | create the target, enable the PEB flag, wait, handle one of six kinds of event, time out, give up | timeout against exit and crash, a target that hangs while it is terminated, events of an earlier target, handles on every return |
| Loader-snaps fallback | `src/loader_snaps.rs` `LoaderSnapsGuard` | the machine-wide registry value, the value each run read | enable, restore, Drop | overlapping runs, kills, half-failed restores |
| Static walk (Phase B) | `src/main.rs` `diagnose_static_imports_in_context` | queue, visited set, first issue, failures, depth limit | take a module, take an import, stop early | cycles, diamonds, early stop, unreadable modules, observed against searched paths |
| Dynamic selection (Phase C) | `src/main.rs` `detect_dynamic_missing_from_debug_strings` and the predicates and extractors it calls | load context per thread, candidates, latest success per name | read one line or load, resolve, sort | interleaved threads, nested loads, a later success, ranking, names cut out of text |
| Run orchestration | `src/main.rs` `run_command` | what each phase found, what was printed | phases in order, summary, exit code | exactly one summary line, exit codes that agree with it, error paths of every phase |
| DLL search | `src/search.rs` | ordered roots | build the roots, resolve a name | order with and without SafeDllSearchMode, repeated directories in other spellings, a bad image before a good one |
| PE reader | `src/pe.rs` | none | parse headers, map an RVA, list imports, find the manifest | sections whose sizes in file and memory differ, saturating ends, tables at the end of the file |
| COM resolver | `src/com/resolver.rs`, `registry.rs`, `mod.rs` | chain of hops | merged reads, TreatAs and CurVer chains, validation, reverse lookup, audit | cycles, the hop bound, HKCU shadowing HKLM, access denied |
| COM commands | `src/main.rs` | worst status seen | lookup, server, audit | exit codes against tokens |
| Manifest scanner | `src/com/manifest.rs` | the file element around a tag | iterate tags, read attributes, collect classes | comments, self-closed files, encodings |
| Command line | `src/cli.rs`, `src/main.rs`, `src/debug_run.rs` | options so far | parse a token, find the target, quote its arguments | later flags win, values that look like options, backslashes before quotes |
| Output, FFI | `src/emit.rs`, `src/win.rs` | none | format a token; call Windows | wording only |

How they interact. `main` parses the command line and calls one command.
`run_command` finds the target, calls `run_target` and, if the PEB of the
target cannot be written, sets the registry flag and calls `run_target` a
second time; it then restores the registry. From the events of the run it
derives which modules were loaded from where, decides from the way the run
ended whether to do the static walk, does it, may then scan the debug strings,
and prints the outcome. The walk asks the DLL search for every name and the PE
reader for the imports of every module found; `imports` is the same walk with
another start and another end, and COM server validation uses it too. An audit
reads the manifest in or beside its target. Everything runs on one thread; the
concurrency is with the target processes and their threads, with Windows and
with other loadwhat processes and programs that share the registry.

What makes each component correct:

* debug loop: no event of the target is lost, repeated or attributed to
  another target; every return closes every handle; a run with a timeout ends;
  an `Ok` outcome describes a target that is over and says why it ended;
* fallback: the registry ends as it began, and never holds a third value;
* walk: it ends, depths are shortest distances, and what it reports does not
  depend on where it stopped;
* dynamic selection: no candidate that later loaded is reported, no context
  crosses threads, no failure is lost, and what is reported has the name and
  the status that the loader wrote;
* orchestration: one summary line exactly, and an exit code that agrees;
* search: the first existing candidate in the documented order decides;
* PE reader: the imports it lists are those the loader sees in memory;
* COM: every chain ends, cycles are reported as broken, a shadowed key never
  shows through, an audit heeds the manifest of its target, and exit codes 0
  and 21 mean what they say;
* command line: options mean what the documentation says in whatever order,
  and the target gets back the arguments it was given.

The hazards, each at its line with the properties that cover it, are listed in
`PROJECT.json`.

## 2. Modules

| Module | Models | Run | Proved in |
|---|---|---|---|
| `DebugRun` | `run_target`, the second attempt of `run_command`, the Windows debug object, two targets, the clock | `debug_loop`, `debug_loop_stale` | `DebugRunProofs` |
| `LoaderSnaps` | `LoaderSnapsGuard` around the second attempt, any number of runs | `ifeo_guard`, `ifeo_overlap` | `LoaderSnapsProofs` |
| `StaticWalk` | the walk of Phase B, of `imports` and of COM validation, over any import graph | through `StaticImports` | `StaticWalkProofs` |
| `DllSearch` | `SearchContext` and `resolve_dll` over the state of a machine | through `StaticImports` | `StaticWalkProofs` |
| `PeImage` | the PE reader over images of words | through `StaticImports` and `ComAudit` | `StaticWalkProofs` |
| `StaticImports` | `imports_command` and Phase B: the walk composed with the search and the PE reader | `static_imports` | `StaticWalkProofs` |
| `DynamicMissing` | the scan and the selection of Phase C, over lines as the text predicates see them | through `LoaderLines` | `DynamicMissingProofs` |
| `LoaderLines` | the loader's texts and the predicates and extractors that read them, composed with the scan | `dynamic_missing`, `dynamic_names` | `DynamicMissingProofs` |
| `RunCommand` | the orchestration of `run`: phases, returns, output, exit code | `run_command` | `RunCommandProofs` |
| `RunVerdict` | what a run in summary mode promises its caller | as the abstract specification of `RunCommand` | `RunCommandProofs` |
| `ComLookup` | `resolve_progid` and `resolve_clsid` over the two hives of a view, call by call | `com_lookup` | `ComLookupProofs` |
| `ComCommand` | the four `com` commands: audit, validation, reverse lookup, output, exit code | through `ComAudit` | `ComCommandProofs` |
| `ManifestText` | the manifest scanner | through `ComAudit` | `ComCommandProofs` |
| `ComAudit` | `ComCommand` with the target image and the manifests that an audit reads | `com_audit`, `com_audit_sidecar` | `ComCommandProofs` |
| `ComVerdict` | what a `com` command promises its caller | as the abstract specification of `ComCommand` | `ComCommandProofs` |
| `CommandLine` | `parse_from`, the lookup of the target, and the command line of the new process | `command_line` | `CommandLineProofs` |

Each run has a module `MC...` that gives the constants their values. Where a
module is checked "through" another, the other instantiates its data and takes
its actions as they are, so that the run checks both at once.

An operator named `Bad...` is the definition that follows it with a mistake a
maintainer could make. Nothing refers to it; put in the place of the
original, it shows that a property notices the mistake.

### 2.1 `DebugRun`

`pc` is the place in `run_target` or its caller: `start`, `peb` (inside
`enable_via_peb`), `head` (top of the loop), `wait` (in `WaitForDebugEvent`),
`event` (an event in hand), `returned`, `done`. The other debugger variables
are the locals of `run_target` under their own names, with `elapsed` for
`start.elapsed()`, `handles` for the open handles and `result` for the value
returned.

Attempt 1 is the only call of a run without loader-snaps. With them, attempt 2
follows a failed attempt 1. Each attempt creates its target, but the debug
object that queues the events belongs to loadwhat's thread and serves both:
`hist[p]` is what target `p` has posted and `cur[p]` how much of it has been
continued. A target may load modules, print, hit a breakpoint, fault and
recover or not, exit, or be terminated; its exit event is posted when none of
its events is outstanding, or never. That is the external part of the model,
written from how the loop uses it.

Time passes only while loadwhat waits or handles an event. In a wait with a
timeout it may pass up to the end of the wait.

Bounds of both runs: at most `MaxEvents` 3 events of a target before its end,
`MaxPending` 1 of its threads blocked at once, a poll of 2 ticks, a drain limit
of 3, timeouts 0 and 3, and `MaxClock` 5 for the ticks spent in handlers and in
waits without a timeout. They are enough for a timeout in every phase of a
fault, a second poll during the drain and a drain that expires. One fault of a
target is in flight at a time.

### 2.2 `LoaderSnaps`

Each member of `Instances` is a loadwhat process that runs the same image and
uses the fallback. A registry call is one step; a failing one takes the error
path of the code. `restored` and the two chances to restore are in `pc`
(`restoring`, then `drop`, `dropping`). A process can be killed between any
two steps; the release profile aborts on a panic, so that `Drop` does not run
then either. A registry value is absent, a DWORD as the set of its bits, or
something else. Two history variables record whether runs overlapped and
whether one was kept from restoring.

Bounds: three runs (two in `ifeo_overlap`), the loader-snaps bit and one other
bit.

### 2.3 `StaticWalk`, `DllSearch`, `PeImage`, `StaticImports`

In `StaticWalk` one record, `world`, holds what a walk reads: imports,
unreadable modules, the result of the search for each name, the paths observed
by the run, and the emit mode. The walk itself is the code's: take the head of
the queue (`Scan`, or `ScanFails`, or `Stop` if it is beyond the depth limit),
then its imports in ascending order, each skipped, queued or recorded as a
failure. The file system does not change during a walk. The reference in the
same module defines the report without a queue: modules by distance from the
root, then the failing imports of each.

`DllSearch` has `SearchContext` and `resolve_dll` as operators on a machine: the
spellings of the directories, PATH, SafeDllSearchMode, and what lies where. Beside
the code's definition stands the documented order, as the set of places that come
before a given one.

`PeImage` reads an image of 32-bit words: `parse_pe_layout`, `rva_to_offset`,
`direct_imports`, `machine_type` and the embedded manifest, with the checks of the
code and `u32` narrowed so that its overflow is in reach. `LoaderImports` is the
reference: the same table read from the image as the loader maps it.
`LoaderManifest` is the one for resources, for images whose resource tree lies in a
section and has one manifest (`IntactResources`).

`StaticImports` puts them together: `WorldOf(system)` is the world that the
search and the reader make of a system of files, and `Spec` of `StaticWalk`
runs on it, for `imports` up to its exit code and for Phase B of `run` up to the report.

Bounds of `static_imports`, three families of systems:

* graphs: a program that imports A and B, or also an API set and an absolute path;
  any imports of A among B, C and a name that is nowhere, any of B among A, B and
  C, each of the two also malformed or no PE image; C without imports or with the
  name that is nowhere; A not observed, observed where the search finds it or
  elsewhere; for `imports`, for `run` with a full report and with one that may stop early;
* searches: A in any two of six directories, one of the two copies sound and the
  other sound or no image, SafeDllSearchMode absent, zero, one or a string, with
  and without the 16-bit system directory, the current directory in three
  spellings, and a PATH with and without empty and respelled entries;
* variants: the program in many layouts of its file (sections that overlap, touch
  the end of the address space, are longer in memory or in the file, tables cut off at
  each place, headers of each kind), with its second module there or not.

The smallest graphs that tell the mistakes apart have three modules.

### 2.4 `DynamicMissing` and `LoaderLines`

One step of `DynamicMissing` is one turn of the loop over `runtime_events`, and
`Select` is all that follows it. A debug string is there the record of what the
text predicates find in it; the header of the module names the predicate behind
each field. The operators after it are the parts of the loop's body in their
order: `Entered` the load attempt, `SuccessDll`, `Enriched` and `Context` the return
from a load, `FailedDll`, `Candidate` and `Detected` the failure. The four
collections keep the names of the code.

The properties do not use those collections: they say which attempt of a
thread is open at an event (`OpenAttempt`), which events show that a DLL loaded
(`Loads`) and which failures nothing clears (`Stands`), from the events alone.

`LoaderLines` has the texts. A text is a sequence of symbols: phrases of the
loader, words, punctuation. `Written` says what the loader writes for something it
says (a `Saying`), and `Read` is what the predicates and extractors of the code make of
a text: names by going back from `.dll`, the first path, the first hexadecimal
number, quoted or blank-ended names after "Unable to load DLL". `said` keeps
what the loader said, and `FailuresAsSaid` compares the candidates with it. It
speaks of `Plain` modules: the name is one that `extract_dll_basenames` reads whole
and `is_noise_dll` does not pass over, and no directory of the path ends in `.dll`.
`LaterLoadDiscards` shows what happens to another name, in the run `dynamic_names`.

The forms of the lines (`Form`) are those of the debug strings in the tests of the source.
What the loader may write in them is a parameter, `Sayings`, with these assumptions
(`SymbolsAssumption`, `WritingAssumption`): a path holds no phrase of the loader, no
status, quote or comma and does not begin with a blank; a parent is told only beside a
module; a line tells at most one status, after the module; different names have
different numbers. Of the paths that Windows allows this leaves out those with a comma,
an apostrophe, a phrase of the loader or a hexadecimal number in them, of which nothing is
said.

Bounds: every sequence of four events out of 30 texts of two threads and the
loads of two modules. The texts cover each pattern, each place of a path and a
status of each class. The tests of the source that concern several lines have two to
four. `dynamic_names` has two events and a DLL with a plus sign in its name.

### 2.5 `RunCommand` and `RunVerdict`

`pc` follows `run_command` from the target's path to the exit code; each phase
is one action per way it may end. A phase is what it returns, so that this
module does not repeat the others: `run_target` (`DebugRun`) an outcome of
`Outcomes` or an error, the guard (`LoaderSnaps`) success or failure, the walk
(`StaticWalk`) the kinds of failing imports in the order it meets them or an
error, Phase C (`DynamicMissing`) a diagnosis or none. The counters and flags
have the names of the code; `out` is stdout as a sequence of tokens, `err`
whether anything went to stderr, `exit` the value returned. Tokens no property
distinguishes are all `"detail"`, and a group of them is one. `test_mode` exists
only in debug builds and is taken as false.

`RunVerdict` is what a script sees: the lines, whether there is an explanation,
and the exit code. `SummaryVerdict` instantiates it with `out` and `err`; each
step of a summary run is a step of it or changes nothing the script sees.

Bounds: all eight command lines, walks with up to two failing imports, and
outcomes on both sides of each threshold (1499 and 1500 ms; no, 6 and 7
modules; exit code zero or not). Outcomes Windows cannot produce are left out:
a loader exception taken from an exit code of 0, and an unhandled exception
with exit code 0.

### 2.6 `ComLookup`

One call of `read_value` or `key_exists` is one step: `pc` is the key that is
read, `hive` and `probing` the call. A step names the call's answer by the content
it finds. `shared` says whether other programs write meanwhile: if they do, each
call may find anything; if not, `known` remembers what each key was found to
hold, so that the registry is chosen only as far as it is read. `Upper` tells which
spellings are the same name. Reads for display only (`ThreadingModel`, `ProgID`)
are left out.

`ClsidAnswer` and `ProgidAnswer` define the answer on a whole registry: the
hive that shows a key, the path of redirects, the server at its end. At the end of
a lookup at rest, `AnswerIsMergedView` compares the result with them on the keys
seen, completed in two ways.

Bounds: four classes and three ProgIDs, one of each in two spellings; chains
of two hops (`MAX_CHAIN_HOPS` is 64; two are enough for a cycle
of each shape, a redirect to the start and a chain that is too long). The names
that no query uses are symmetric.

### 2.7 `ComCommand`, `ComAudit`, `ManifestText` and `ComVerdict`

In `ComCommand`, `pc` follows one command through `audit_with_cwd`, the lookup, the
validation of the server file and `reverse_lookup` to the line and the exit code.
Each call of the file system is a step with any answer, kept in `seen`; a file may
exist at one step and not be readable at the next. The lookup is one step with
one of the results that `ResultFits` allows, and the dependency walk one with the three
it may have. `reverse_lookup` enumerates a hive in one step and reads the
server keys of one class in another. WOW64 redirection changes which file is
asked for and not what may be answered, so it has no state here.

`ComAudit` replaces two of the free answers by files: the machine of the target
is what `PeImage` reads in its image, and the manifest is what `ManifestText`
scans in the resource of that image or in the sidecar. `ManifestText` has `TagIter`,
`parse_tag`, `parse_attrs` and the file around a class over texts of marks,
names and attributes; `DeclaredClass` and `DeclaredServer` are what the author of the
manifest meant.

`ComVerdict` has the exit code for the statuses of a line, from section 9 of the
v2 specification. `Verdict` instantiates it.

Bounds: two classes and three registrations, so that a server can be found under
both kinds, both classes, and in more than one hive or view; 82 manifests, every
pair of nine items (files with the wanted class, with another before it, closed
at once, with an odd attribute; classes outside a file; a commented-out file;
processing instructions and declarations) and one in UTF-16; images
with the manifest first, last, absent or cut off.

### 2.8 `CommandLine`

A token is a sequence of symbols: an option, a letter, a blank, a quote, a
backslash, a directory (`Symbols`; the blank, the quote and the backslash are
`"space"`, `"quote"` and `"backslash"`). Parsing takes one token per step, as the loops of
`parse_run`, `parse_imports` and `parse_com` do; then the target is looked up and
the command line for `CreateProcessW` is written with `quote_cmd_arg`. The reference
definitions look at the positions of options in the whole command line, and
`Argv` takes a command line apart as `CommandLineToArgvW` does. Loops over characters and
arguments are recursive functions, which the provers can unfold.

Bounds: `run` with up to four tokens; targets on and off PATH with every subset of
the files that matter; a target with up to two arguments of up to three symbols from a
letter, a blank, a quote and a backslash, so that every run of backslashes before
a quote and at the end occurs; `imports` and `com` with up to four tokens.

## 3. Runs

| Run | Shows |
|---|---|
| `debug_loop` | both attempts: handles, event log, drained exit, end kinds; a run with a timeout ends, and any run ends after its target |
| `debug_loop_stale` | violation: the exit event of the first target ends the second attempt |
| `ifeo_guard` | three runs: never a third value, serial runs restore |
| `ifeo_overlap` | violation: overlapping runs that all return normally may leave the flag set |
| `static_imports` | the walk over files against its reference by distance, the documented search, the loader's imports and the exit code of `imports`; each step makes progress |
| `dynamic_missing` | names, statuses and contexts stay with their thread and are those the loader wrote; the reported DLL never loaded; no standing failure is lost |
| `dynamic_names` | violation: a DLL of another name is reported as missing, and its own later load does not clear it |
| `run_command` | exit code, diagnosis lines and `SUMMARY` agree; summary runs implement `RunVerdict` |
| `com_lookup` | the answer of the merged view in a registry at rest; fitting results and progress in one that others change |
| `com_audit` | exit code 0 exactly for a good server and 21 exactly for something unreadable, whichever function computes it; registrations in order; the manifest is heeded; the commands implement `ComVerdict` |
| `com_audit_sidecar` | violation: a sidecar manifest in UTF-16 is not heeded |
| `command_line` | options as documented, arguments that arrive, the target first on PATH, a settled COM view |

Fairness is assumed in `debug_loop` only: weak fairness of loadwhat's own
steps (its thread is scheduled), of the loop (a wait returns once its time is
up or an event is there) and of the clock. None is assumed of the targets: a
terminated target may hang for ever, and a live one need not do anything.
`WaitFails` is not under fairness, as an error of `WaitForDebugEvent` need
not happen. In the other modules every step is loadwhat's own and none can be
repeated for ever; there a variant as an action property (`WalkProgresses`,
`LookupProgresses`) says so without fairness.

Deadlock is checked in every run; a stuttering action stands for the end of the
program.

### Disagreements found

* `debug_loop_stale`. After a failed PEB write the first target is terminated
  but never continued, so that its creation and exit events are still queued
  when the second attempt waits. The loop looks at the code of an event and not
  at its process. The first target's exit ends the observation of the second,
  which keeps running undebugged, and its exit code is reported. The
  specification says that the loop goes on until the exit event of the target
  is drained. `FirstTargetExitDrained` shows that this is the only way:
  with a single attempt the property holds, and is proved.
* `ifeo_overlap`. `enable_for_image` takes what it reads for the original. A
  second run that starts while the first is active reads the flag of the first
  and writes it back after the first has restored. The specification says that
  the original value is restored on all normal terminal paths, and names only
  abrupt ends as exceptions.
* `dynamic_names`. `extract_dll_basenames` goes back from `.dll` over a fixed set
  of characters, so that `libstdc++-6.dll` is read as `-6.dll` and reported under this
  name, even if the DLL is found later. The specification says that candidates
  for a DLL that later loads are discarded, and that no DLL name is made up.
* `com_audit_sidecar`. A sidecar manifest is decoded as UTF-8 whatever its byte
  order mark says; an embedded one is decoded as what it is. The specification makes a
  manifest that declares the class the primary source of the audit.

Met on the way. Of runs: a verbose walk prints diagnoses as it goes; if a
later module cannot be parsed, its counts are dropped, `SUMMARY` says 0 and
the exit code is 21, or even 0 after a timeout (`src/main.rs:409`), so that the
properties of `run_command` about exit codes and counters hold for runs whose
walk did not fail, and say so. `emit_non_diagnostic_run_error` is
called in summary mode only: a trace of a target that fails for another reason
prints nothing and returns 21, where the v1 specification (lines 340-342) has an
explanation on stderr. A WOW64 target ends a run in summary mode with 22 and no
output at all, where lines 221-222 promise an explanation of a terminal
setup failure; this is why `RunVerdict` asks for an explanation with 21 only. The
diagram of a run (`docs/diagrams.md`, line 17) continues to Phase A when the
registry fallback fails, while the code, the specification and the tests return
21.

Of Phase C: `is_loader_related_code` lacks 0xC000012F, which
`has_loader_failure_code` and `classify_dynamic_reason` have, so that a return with
this status completes no candidate. The path of a candidate is the first path of its
line, which may belong to the parent module, and paths end at the first blank. A failed
module that is no `.dll` (an `.ocx`) below a directory with a blank in its
name is reported under the name of its parent DLL. The last two sort keys never
decide, as events differ. The diagram's order of kinds (line 146) has a failed
initialisation above a failed `LdrLoadDll`, the derived order of
`DynamicCandidateKind` the reverse. Rules 5 and 6 of the v1 specification (lines
177-179) put the earliest candidate before a thread-correlated one, and the
sort does the reverse, as the architecture document and a unit test say.

Of files and arguments: `rva_to_offset` maps an RVA in the tail of a section that
exists in memory only to the file bytes that follow the section; the property of
the imports is about images whose tables the loader reads from the file. An attribute
value with a `>` in it ends its tag early for the scanner. An argument with an unpaired
surrogate arrives with a replacement character (`to_string_lossy`).

Of the COM commands: a hive that cannot be enumerated for lack of access
discards the registrations of the others and turns the status of a missing
server into `ACCESS_DENIED`, while any other error counts as an empty hive, and
a server key that cannot be read is passed over; a sidecar manifest that cannot
be read, or is longer than 1 MiB, counts as none; a `LocalServer32` command line
whose program has no `.exe` is cut at its first blank; and `server_status` may be
`ACCESS_DENIED`, which section 7 of the v2 specification does not list.

## 4. Proofs

All proofs are for arbitrary constants that satisfy the named assumptions in
the modules: `CodesAssumption` and `TimeAssumption`, `SnapsAssumption`,
`PathsAssumption`, `WorldsAssumption`, `SystemsAssumption`, `LinesAssumption`,
`SayingsAssumption`, `OptsAssumption`, `OutcomesAssumption`,
`MaxFailuresAssumption`, `NamesAssumption`, `MaxChainHopsAssumption`,
`ClassesAssumption`, `MaxRegistrationsAssumption`, `ImageAssumption`,
`CallerAssumption`, `PathAssumption`, `SymbolsAssumption`, `FilesAssumption`,
`ParseU32Assumption`, `DirsAssumption` and a `NoneAssumption` each; files and modules
are finitely many. `FilesAssumption` is about Windows paths: a file has a name,
no name has a quote in it, and no path of a file ends with a backslash. TLC
evaluates all of them in the runs.

* `DebugRunProofs`. `EventsAreObservedInOrder`: the log against the events that the
  target has posted up to `cur`. `InOrder` states it by positions (the event at `i`
  is the entry whose number is the count of events that are logged up to `i`), as
  the provers cannot instantiate `SelectSeq`; one more event moves the count by one or
  not at all. `TypedInvariant` is type correctness with what its
  induction needs (an event in hand exists; the code of an ended target is
  known). `FirstExitIsDrained` needs that an exit event is the last one of its target
  and carries its code (`DrainedInv`, `ExitStaysLast`), and that in the first
  attempt there is no other target. `EndKindIsTruthful` rests on it and on
  `CauseInv`: why the target ended against what the loop has recorded, and that a queue
  holds one chance of a fault at most, none once the target has exited, and
  no second chance once it has crashed (`QueueInv`); without the last part a stale
  second chance could overwrite the code of the fault. `HandlesAreAccounted`
  needs only types.
* `LoaderSnapsProofs`. The inductive invariant says that each kept original is
  the initial value or that value with the bit; from it the registry never
  holds a third. For runs that do not overlap it says in addition what the
  registry holds at each place of the one active run.
* `StaticWalkProofs`. `EveryStepProgresses` is a variant for termination; it
  stands in for liveness, which the prover does not reach. `EarlyStopIsSound`
  needs `QueueOrder` (depths in the queue ascend and span two levels),
  `LeastIssue` and `LimitIsFirstDepth`: when the head of the queue is beyond the
  limit so is the rest, and everything it imports is deeper than the first issue.
  `ImportsAreWalks` maps every step of `StaticImports` to a step of the walk or to
  none, so that what holds of the walk holds of `imports` and Phase B over any files
  (`ImportsProgress`, `ImportsIssueStands`, `ImportsIssueCorrect`,
  `ImportsReportComplete`).

  The report against the reference by distance (`FirstIssueCorrect`,
  `ReportComplete`) rests on `BreadthFirst`: at the depth of the module in hand
  all modules of lesser distance have been taken, the queue holds those of this
  distance that are left and those of the next found so far, and the failures are
  those of what was taken. That the levels exhaust the reachable modules within
  `Cardinality(Paths)` steps is `AtSomeDistance`: a level that adds nothing is the last,
  and each other one adds a module.

  `SearchIsDocumented` gives each root of the search the rank of its documented
  place. `RootListRanked` shows that the roots as the code lists them ascend in rank
  and that each rank has its directory, for the four shapes the list takes;
  `DedupRanked` that dropping repeated spellings keeps, of each directory, the one of
  least rank. `ReadsWhatIsMapped` needs that an address backed by one section is in
  no other (`BackedOnce`), so that the first section that the reader finds is the one
  that the loader mapped, and that the last descriptor is the same null entry in the file and in
  memory (`DescriptorsMapped`). `ExitCodeIsTrue` puts the four together: what the program
  needs is what the walk visits if all of it is read as it is mapped
  (`NeededIsReached`, by distance), and what is served is what the search finds
  (`ResolvedIsServed`).

  These concern functions defined by recursion: levels, distances, ranks, the list without
  repetitions. The library's induction needs an operator argument; here it is
  done over sets instead (`LeastNatural` from the well-foundedness of `<`,
  `NatSetInduction`), and a recursive function is known to satisfy its equation because
  `Iteration` builds one that does. `SameIterates` says there is only one.
* `DynamicMissingProofs`. `Typed` adds to the types that the candidate a thread
  may complete is its own (`OwnFailure`), which gives `ThreadsIndependent`.
  `ContextIsOpenAttempt` shows by cases on the line that `last_load_by_tid` is
  the open attempt of the thread. `StatusIsOfOneLine` needs which candidate a
  thread may still complete, and that no return of the thread came between.
  `ReportedDllNeverLoaded` builds on the contexts: a return without a name counts
  as a load of the DLL of the open attempt, and `Successes` says that each load the
  events show is on record. `NoFailureLost` is the converse: every failure of the events is a
  candidate, the record holds no load that the events do not show, so that `retain`
  keeps what stands, and the sort prefers nothing less conclusive. The lemmas compare
  the declarative definitions before and after one event is appended.
  `TextsAreLines` is the refinement of `DynamicMissing` by `LoaderLines`, for all
  texts; `TextsKeepAll` carries the results over.

  `FailuresKeptAsSaid` is about the predicates and extractors themselves, for every
  set of sayings that keeps the assumptions. A text is the symbols of its form around
  those of its module, parent and status (`Composed`). A phrase is found in it where
  the form has it and nowhere else (`SignsOf`), which settles what each predicate and
  each pattern says of each form (`Attempting`, `Returning`, `Probing`,
  `FailingPattern`, `NoPattern`). Going back from the `.dll` ends at the symbol before
  the path, or within it, and in both cases the last component is the name that was
  written (`BasenameFrom`, `PlainBasename`); the module stands before its parent, so its
  `.dll` is the first (`FirstDll`, `DllRead`), in quotes, before a comma, or neither
  (`NamedRead`); and the first hexadecimal number is the status (`StatusRead`).
  `SayingHeeded` sums this up for one line. Over the run, `AsSaid` ties the events to
  `said`, one to one; with it `Detections` (every failure is a candidate) and
  `StatusFromOneLine` of the scan give the theorem.
* `RunCommandProofs`. `SummaryInv` ties the counters, `summary_line_emitted` and
  stdout together before, between and after the phases: all empty, or one line
  and a positive count. With it every step maps to one of `RunVerdict`
  (`SummaryStepSimulates`), which is the refinement `SummaryKeepsVerdict`, for
  all command lines: a trace promises nothing (`ModeInv`). `LineInv` is the invariant
  for all modes: the printed tokens of each kind against the counters; `CountInv`
  carries them to the `SUMMARY` line (`SummaryIsCount`). The lemmas say what a
  count of a finite sequence and a concatenation of lines contain.
* `ComLookupProofs`. `visited` holds the spelled-out names of the chain under way
  and grows with it, so that a name appended is new (`NoNameTwice`).
  `EveryStepProgresses` is a variant of hops, places and calls; nothing in it depends on
  what the registry answers. `ResultsFit` follows from what each place knows of the
  chains.
  `AnswersMergedView` is about a registry that nobody writes to. `LookupInv` speaks of
  every registry with the contents seen so far (`Agrees`), since the lookup cannot
  tell them apart: in each, what was read of the hives (`ReadSoFar`) is the merged view of
  the key (`AnswerTells`); the chain followed leads to the name under way (`Follows`); and
  the answer for the query is the one for the class where the chain of
  classes began (`ClsidSoFar`). A chain that cannot go on, or has reached the limit, is
  the path of the reference (`PathIs`, by induction over its recursion), and the place
  where the lookup ends then tells which case of `ProgidAnswer`, `ClsidAnswer` and
  `ServerAnswer` applies. The theorem needs `MAX_CHAIN_HOPS` to be at least 1, as
  `MaxChainHopsAssumption` says; the code's constant is 64.
* `ComCommandProofs`. `IInv` says what each place knows (`Control`) and what the file
  system has answered when a status is set (`Answers`). From it follow what exit
  codes 0 and 21 mean (`HealthyServersAreChecked`, `WhatIsUnreadIsTold`), and that
  every step maps to `Conclude` or to nothing (`RefinesStep`), which gives the
  refinement `OneLinePerCommand`. `OrderInv` says that what was found comes before
  all that is left to enumerate; it gives `RegistrationsInOrder`. `AuditIsCommand`
  is the refinement of `ComCommand` by `ComAudit`, and `AuditKeepsVerdict` what
  follows for audits over files.

  `ManifestHeeded` says that what an audit takes from a manifest is what its author said
  (`Said`), for every manifest and image. Its invariant adds to `IInv` that `hit`
  is what `manifest_hit` answers once it was asked (`HitKept`), and where the command
  can be with a hit (`HitLeads`); the rest is about the two readers. The reader of
  resources follows the tree in the file, the loader in memory: an address backed by a
  section is in no other (`BackedOnce`), so both read the same words (`BackedFacts`,
  `EntryRead`), and with one entry per level they end at the same
  manifest (`ManifestRead`). The loop of the scanner is a recursive function of a place and
  the current file; that there is one with its equation is `ScannerExists`. What the scanner
  does from the start of an item on is proved from the last item back to the first:
  a class yields one class (`ClassScan`), the classes of a file theirs
  (`ClassesScan`), a comment or a prolog none, and behind each item the
  file is `None` again, so that the search goes on with the items that are left
  (`ItemScan`, `AnswerNext`). `ParseFinds` concludes that the first class found that
  matches is the first declared one, with the file around it. The assumptions are those
  of `ComAudit`: what marks, attributes and manifests are, and that the manifest of an
  image with an intact tree is one of them.

* `CommandLineProofs`. `TargetGetsItsArguments` is an induction over characters and one
  over arguments. `Follows` says what the reader has when the writer has written an
  argument up to some character: all of it but the backslashes that
  `quote_cmd_arg` holds back, and these are what the writer counts. Whatever comes
  next, doubled backslashes before a quote or single ones before a letter, keeps it
  (`QuotedIsFollowed`); with the closing quote the argument is there
  (`ArgumentIsRead`), and the next one begins where it ended (`ArgumentsAreRead`).
  The name of the program is read by other rules, without escapes; it arrives
  because the path of a file has no quote and does not end with a backslash
  (`NameIsRead`). Only `Launch` writes a line (`LaunchInv`), and what it launches is a
  file (`FoundFirst`, which is also `TargetFoundInOrder`). `ViewIsSettled` counts the
  positionals and the `--view` options of what `parse_com` has read (`ComLoop`).
  `ReadAsDocumented`: the documented reading says at which places options stand by
  recursion over the whole line (`PlacesAre`), the loop of `parse_run` visits those
  places one by one. What it has read before the next token (`RunRead`) is that all
  places before are known options with their values, and that its locals are what those
  options amount to, the last one of a kind deciding (`LastValueIs`, `LastWinsIs`). So a
  value is never at a place, and behind the target there is none (`TargetIsLast`), which
  makes the locals at the end the options of the whole line. `ImportsRead` does the same
  for `parse_imports`.

  The loops are folds over a sequence (`Fold`), and the lemmas about them (one member
  more, one sequence after another) carry the inductions. The induction over sets and the
  existence of recursive functions are proved as for the walk.

Some results are stated by theorems only, as a bounded run of them adds nothing:
`WaitsAreBounded` and the clock of the drain limit (`DrainClockNeverRestarts`),
`FirstTargetEnded`, the types of `LoaderSnaps` and the flag at launch
(`LaunchedWithFlag`), `ThreadsIndependent`, `EarlyStopIsSound`, `NoNameTwice`,
`OneDiagnosingPhase` and `FlagReleased`.

Only model-checked: liveness under fairness, which is out of the prover's reach. Every
invariant and every action property of the passing runs is stated by a theorem.

## 5. Plan

Done, in this order: `DebugRun`, `LoaderSnaps`, `StaticWalk`, `DynamicMissing`,
`RunCommand` with `RunVerdict`, `ComLookup`, `ComCommand` with `ComVerdict`; then
`StaticImports` with `DllSearch` and `PeImage`, `LoaderLines`, `ComAudit` with
`ManifestText`, `CommandLine`; and the proofs of section 4.

What could follow:

1. `RunCommand` composed with the phases it takes as inputs, `DebugRun` first, so
   that the outcome of a run is one that its events produce.
2. A file system that changes during a walk.

## 6. Not modelled

* Token formatting (`emit.rs`), display of paths, wording of messages, values read
  for display and COM trace tokens: no state, and no property is about them.
* `win.rs`: declarations and thin wrappers. What Windows does is external in each
  module, written from how the code uses it.
* The offset of the PEB flag and the memory accesses of `enable_via_peb`; their
  success or failure is a choice. So are the reads of the target's strings.
* The file system behind the COM commands beyond the target and its manifests, the
  extraction of a path from a `LocalServer32` command line, the expansion of environment
  strings and WOW64 redirection: which file is asked for is left open, and so is
  the answer.
* Overrides and the test mode that only debug builds have.
* The key handle that `enable_for_image` leaves open when reading the value
  fails (`src/loader_snaps.rs:46`): the process ends right after.
* Thread identifiers that Windows gives to a new thread after an old one ended
  with a load open: the scan has no event that would tell.
* Letter case of subcommands, usage texts, bytes within a word of an image, quotes
  and blanks within an attribute.
* Build, test and fixture tooling.
