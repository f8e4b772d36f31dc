---------------------------- MODULE LoaderLines ----------------------------
(***************************************************************************)
(* The text of the loader's debug strings and what Phase C reads in it:    *)
(* the text predicates and extractors of src/main.rs, composed with the    *)
(* scan of DynamicMissing.                                                 *)
(*                                                                         *)
(* A text is a sequence of symbols in lower case: phrases of the loader,   *)
(* words, ".dll", "space" and punctuation.  A symbol of Word stands for    *)
(* letters, digits, "_", "." and "-" only; a symbol of Hex for "0x" and    *)
(* eight hexadecimal digits.  After a phrase comes a blank.                *)
(***************************************************************************)
EXTENDS DynamicMissing, SequencesExt

CONSTANTS
  Word,
  Other,                    \* other symbols: wording, punctuation in names
  Hex,                      \* from a symbol to a number
  FailureCodes,             \* has_loader_failure_code
  NoiseNames, NoiseStarts,  \* is_noise_dll: names, and first symbols of names
  exe_dir, cwd, windows_dirs,  \* paths without a backslash at the end
  DllNumber,                \* from names to Dlls; 0 is any other name
  Modules,                  \* the names of modules that the target loads
  Sayings                   \* what the loader may write

VARIABLE said  \* what the loader wrote, and the modules that were loaded

linevars == <<vars, said>>

-----------------------------------------------------------------------------
(* Text predicates *)

Least(S) == CHOOSE x \in S : \A y \in S : x <= y

\* Where a phrase occurs in a text, and whether it does.
Places(text, phrase) ==
  {i \in 1..Len(text) - Len(phrase) + 1 : SubSeq(text, i, i + Len(phrase) - 1) = phrase}
Occurs(text, phrase) == Places(text, phrase) # {}
HasOneOf(text, symbols) == \E i \in DOMAIN text : text[i] \in symbols

LooksLikeLoadAttempt(text) ==
  /\ HasOneOf(text, {".dll"})
  /\ HasOneOf(text, {"dll name:", "loadlibrary"}) \/ Occurs(text, <<"ldrloaddll", "- enter">>)

IsLoadReturn(text) ==
  \E f \in {"ldrloaddll", "ldrploaddllinternal"} : Occurs(text, <<f, "- return">>)

IsIgnoredProbeLine(text) ==
  \/ \E f \in {"ldrpfindknowndll", "ldrpresolvedllname", "ldrpresolvefilename",
               "ldrpfindloadeddllinternal"} : Occurs(text, <<f, "- return">>)
  \/ Occurs(text, <<"ldrpreporterror", "- warning: locating export">>)

HasLoaderFailureCode(text) ==
  \E i \in DOMAIN text : text[i] \in DOMAIN Hex /\ Hex[text[i]] \in FailureCodes

\* extract_first_hex_u32
FirstHex(text) ==
  LET places == {i \in DOMAIN text : text[i] \in DOMAIN Hex}
  IN  IF places = {} THEN None ELSE Hex[text[Least(places)]]

\* What classify_dynamic_candidate_kind and failure_score find, in an order
\* that both follow.
PatternOf(text) ==
  LET unable == Occurs(text, <<"- error:", "unable to load dll">>)
      walk == HasOneOf(text, {"walking the import tables"})
      init == \/ Occurs(text, <<"process initialization", "failed">>)
              \/ Occurs(text, <<"_ldrpinitialize", "- error:">>)
      load == HasOneOf(text, {"ldrloaddll"}) /\ HasOneOf(text, {"failed"})
      context == \/ HasOneOf(text, {"ldrloaddll", "ldrploaddllinternal", "loadlibrary",
                                    "unable to load dll", "dll name:", "ldrpsearchpath",
                                    "_ldrpinitialize"})
                 \/ walk \/ init
      tests == <<<<"process_work", unable /\ Occurs(text, <<"ldrpprocesswork", "- error:">>)>>,
                 <<"unable_to_load", unable>>,
                 <<"init_routine", /\ Occurs(text, <<"ldrpinitializenode", "- error:", "init routine">>)
                                   /\ Occurs(text, <<"failed", "during dll_process_attach">>)>>,
                 <<"load_import_walk", walk /\ load>>, <<"import_walk", walk>>,
                 <<"load_init_failed", init /\ load>>, <<"init_failed", init>>,
                 <<"ldrloaddll_failed", load>>,
                 <<"search_path", /\ Occurs(text, <<"ldrpsearchpath", "- return">>)
                                  /\ HasLoaderFailureCode(text)>>,
                 <<"context", /\ HasLoaderFailureCode(text) /\ context
                              /\ HasOneOf(text, {"failed", "- error:", "ldrpreporterror"})>>>>
      hits == {n \in DOMAIN tests : tests[n][2]}
  IN  IF hits = {} THEN None ELSE tests[Least(hits)][1]

\* The reason classify_dynamic_reason takes from the wording.
WordsOf(text) ==
  IF HasOneOf(text, {"not found", "could not be found"}) THEN "NOT_FOUND"
  ELSE IF HasOneOf(text, {"bad image", "invalid image", "not a valid win32 application"})
    THEN "BAD_IMAGE" ELSE "OTHER"

-----------------------------------------------------------------------------
(* Names and paths *)

Slashes == {"\\", "/"}
TokenSymbols == Word \cup Slashes \cup {".dll", ":"}

DllEnds(text) == {i \in DOMAIN text : text[i] = ".dll"}

\* What stands before a ".dll" without a break, and the ".dll".
Token(text, end) ==
  SubSeq(text, Least({s \in 1..end : \A k \in s..end : text[k] \in TokenSymbols}), end)

\* The last component of a path.
LastComponent(path) ==
  SubSeq(path, Least({s \in 1..Len(path) + 1 : \A k \in s..Len(path) : path[k] \notin Slashes}),
         Len(path))

\* An operator named Bad... is the definition after it with a plausible
\* mistake; only mutation runs put it in place.
BadBasename(text, end) ==
  LET name == Token(text, end)
  IN  SubSeq(name, Least({s \in DOMAIN name : name[s] # ":"}), Len(name))
\* One name of extract_dll_basenames, without the colons it starts with.
Basename(text, end) ==
  LET name == LastComponent(Token(text, end))
  IN  SubSeq(name, Least({s \in DOMAIN name : name[s] # ":"}), Len(name))

IsNoiseDll(name) == name \in NoiseNames \/ name[1] \in NoiseStarts

Number(name) == IF name \in DOMAIN DllNumber THEN DllNumber[name] ELSE 0

\* pick_best_dll, or else the first name.
DllOf(text) ==
  LET ends == DllEnds(text)
      good == {e \in ends : ~IsNoiseDll(Basename(text, e))}
  IN  IF ends = {} THEN None
      ELSE Number(Basename(text, Least(IF good = {} THEN ends ELSE good)))

\* A sequence up to the first of a symbol.
Until(seq, symbol) ==
  SubSeq(seq, 1, Least({i \in DOMAIN seq : seq[i] = symbol} \cup {Len(seq) + 1}) - 1)

\* extract_unable_to_load_dll: the first name in what is quoted, or before a
\* comma, after the phrase.
NamedDll(text) ==
  LET places == Places(text, <<"unable to load dll", ":">>)
      after == SubSeq(text, Least(places) + 2, Len(text))
      rest == SubSeq(after, Least({i \in DOMAIN after : after[i] # "space"} \cup {Len(after) + 1}),
                     Len(after))
      part == IF rest[1] \in {"\"", "'"} THEN Until(Tail(rest), rest[1]) ELSE Until(rest, ",")
  IN  IF places = {} \/ rest = <<>> \/ DllEnds(part) = {} THEN None
      ELSE Number(Basename(part, Least(DllEnds(part))))

\* path_is_under_dir
Under(path, dirs) == \E d \in dirs : path = d \/ IsPrefix(Append(d, "\\"), path)

\* What is asked about a path.
PathOf(token) ==
  LET path == [i \in DOMAIN token |-> IF token[i] = "/" THEN "\\" ELSE token[i]]
  IN  [absolute |-> (path[2] = ":" /\ path[3] = "\\") \/ (path[1] = "\\" /\ path[2] = "\\"),
       app_local |-> Under(path, {exe_dir, cwd}) \/ ~Under(path, windows_dirs),
       framework |-> \/ Under(path, windows_dirs)
                     \/ Occurs(path, <<"\\", "windows", "\\", "microsoft.net", "\\">>)
                     \/ Occurs(path, <<"\\", "assembly", "\\", "gac">>)]

\* extract_candidate_path: the first token that is more than a name.
CandidatePath(text) ==
  LET paths == {e \in DllEnds(text) : HasOneOf(Token(text, e), Slashes \cup {":"})}
  IN  IF paths = {} THEN None ELSE PathOf(Token(text, Least(paths)))

\* What the scan takes from a text.
Read(tid, text) ==
  [tid |-> tid, dll |-> DllOf(text), named |-> NamedDll(text), path |-> CandidatePath(text),
   attempt |-> LooksLikeLoadAttempt(text), returns |-> IsLoadReturn(text),
   probe |-> IsIgnoredProbeLine(text), pattern |-> PatternOf(text),
   status |-> FirstHex(text), words |-> WordsOf(text)]

-----------------------------------------------------------------------------
(* The loader's side.  A saying is a record: the thread, the form of the    *)
(* line, the path or the name of the module it is about and of that         *)
(* module's parent (<<>> if it tells none), and what follows.               *)

\* What stands before and after the module.
Form ==
  [enter        |-> <<<<"ldrloaddll", "- enter", "dll name:", "space">>, <<>>>>,
   return       |-> <<<<"ldrloaddll", "- return", "space">>, <<>>>>,
   process_work |-> <<<<"ldrpprocesswork", "- error:", "unable to load dll", ":", "space", "\"">>,
                      <<"\"", ",">>>>,
   load_work    |-> <<<<"- error:", "unable to load dll", ":", "space">>, <<",">>>>,
   init_routine |-> <<<<"ldrpinitializenode", "- error:", "init routine", "\"">>,
                      <<"\"", "space", "failed", "during dll_process_attach">>>>,
   import_walk  |-> <<<<"- error:", "walking the import tables", "failed">>, <<>>>>,
   init_failed  |-> <<<<"_ldrpinitialize", "- error:", "process initialization", "failed", "space">>, <<>>>>,
   load_failed  |-> <<<<"ldrloaddll", "failed", "space">>, <<>>>>,
   search_path  |-> <<<<"ldrpsearchpath", "- return", "space">>, <<>>>>,
   internal     |-> <<<<"ldrploaddllinternal", "- error:", "space">>, <<>>>>,
   known_dll    |-> <<<<"ldrpfindknowndll", "- return", "space">>, <<>>>>]

Written(s) ==
  Form[s.form][1] \o s.module \o Form[s.form][2]
    \o (IF s.parent = <<>> THEN <<"space">>
        ELSE <<"space", "parent module:", "\"">> \o s.parent \o <<"\"", "space">>)
    \o s.rest

ReadOf == [s \in Sayings |-> Read(s.tid, Written(s))]

\* A module whose name extract_dll_basenames reads whole and the choice does
\* not pass over, in directories that are no names of DLLs.
Plain(module) ==
  LET name == LastComponent(module)
  IN  /\ \A k \in DOMAIN name : name[k] \in Word \cup {".dll"}
      /\ {k \in DOMAIN module : module[k] = ".dll"} = {Len(module)}
      /\ ~IsNoiseDll(name)

\* The phrases that the predicates look for, but those of WordsOf.
Phrases ==
  {"dll name:", "loadlibrary", "- enter", "- return", "- error:", "- warning: locating export",
   "failed", "during dll_process_attach", "init routine", "process initialization",
   "unable to load dll", "walking the import tables", "parent module:",
   "ldrloaddll", "ldrploaddllinternal", "ldrpprocesswork", "ldrpinitializenode",
   "_ldrpinitialize", "ldrpsearchpath", "ldrpfindknowndll", "ldrpresolvedllname",
   "ldrpresolvefilename", "ldrpfindloadeddllinternal", "ldrpreporterror"}

\* The lines of the scan are those that are written, and its DLLs have all the
\* numbers of names.
ASSUME SayingsAssumption ==
  /\ Lines = {ReadOf[s] : s \in Sayings}
  /\ 0 \in Dlls /\ \A n \in DOMAIN DllNumber : DllNumber[n] \in Dlls
  /\ Noise = {DllNumber[n] : n \in {m \in DOMAIN DllNumber : IsNoiseDll(m)}}

\* A symbol is of one sort.
Marks == Phrases \cup Slashes \cup {":", ".dll", "space", ",", "\"", "'"}
ASSUME SymbolsAssumption ==
  /\ (Word \cup Other) \cap Marks = {}
  /\ DOMAIN Hex \cap (Word \cup Other \cup Marks) = {}
  /\ \A x \in DOMAIN Hex : Hex[x] \in Nat

\* Paths hold no phrases, statuses, quotes or commas, and do not start with a
\* blank.  A parent is told only beside a module, and at most one status after
\* them.  Different names have different numbers.
PathSymbols == TokenSymbols \cup Other \cup {"space"}
ASSUME WritingAssumption ==
  /\ Sayings \subseteq [tid : Threads, form : DOMAIN Form, module : Seq(PathSymbols),
                        parent : Seq(PathSymbols), rest : Seq(Word \cup DOMAIN Hex \cup Other)]
  /\ \A s \in Sayings :
       /\ IF s.module = <<>> THEN s.parent = <<>> ELSE s.module[1] # "space"
       /\ \A j, k \in DOMAIN s.rest :
            s.rest[j] \in DOMAIN Hex /\ s.rest[k] \in DOMAIN Hex => s.rest[j] = s.rest[k]
       /\ Plain(s.module) => LastComponent(s.module) \in DOMAIN DllNumber
  /\ \A m, n \in DOMAIN DllNumber : DllNumber[m] = DllNumber[n] => m = n

-----------------------------------------------------------------------------

LinesInit == Init /\ said = <<>>

Says(s) == DebugString(ReadOf[s]) /\ said' = Append(said, s)

Loading(m) == RuntimeLoaded(Number(m)) /\ said' = Append(said, Loaded(m))

Chosen == Select /\ UNCHANGED said

Ended == Done /\ UNCHANGED said

LinesNext ==
  \/ \E m \in Modules : Loading(m)
  \/ \E s \in Sayings : Says(s)
  \/ Chosen
  \/ Ended

LinesSpec == LinesInit /\ [][LinesNext]_linevars

-----------------------------------------------------------------------------
(* Properties *)

\* The module that line n is about: its own, or the one its thread is loading.
\* Empty if there is none.
Opens(a, n) ==
  /\ ~IsLoad(said[a]) /\ said[a].tid = said[n].tid /\ said[a].form = "enter"
  /\ \A k \in (a + 1)..n :
       ~IsLoad(said[k]) /\ said[k].tid = said[n].tid => said[k].form \notin {"enter", "return"}
About(n) ==
  LET open == {a \in 1..(n - 1) : Opens(a, n)}
  IN  IF said[n].module # <<>> \/ open = {} THEN said[n].module
      ELSE said[CHOOSE a \in open : TRUE].module

Failing == {"process_work", "load_work", "init_routine", "import_walk", "init_failed", "load_failed"}

\* The lines that say that a load failed, and they alone, are kept as failures;
\* each is kept under the name and with the status that the loader wrote in it,
\* and under the name its thread was loading if it wrote none: whatever parent,
\* directory or quotes stand beside it, if the module is a plain one.
FailuresAsSaid ==
  /\ \A n \in DOMAIN said :
       ~IsLoad(said[n]) /\ said[n].form \in Failing /\ Plain(About(n)) =>
         \E i \in DOMAIN candidates :
           /\ candidates[i].event_idx = n
           /\ candidates[i].dll = DllNumber[LastComponent(About(n))]
           /\ \A k \in DOMAIN said[n].rest :
                said[n].rest[k] \in DOMAIN Hex => candidates[i].status = Hex[said[n].rest[k]]
  /\ \A i \in DOMAIN candidates :
       LET s == said[candidates[i].event_idx]
       IN  ~IsLoad(s) /\ s.form \in Failing \cup {"search_path", "internal"}

\* "Discard any candidate for a DLL that is later observed to load successfully
\* in the same run" (docs/loadwhat_spec_v1.md rule 1), of the module that the
\* loader told of.
LaterLoadDiscards ==
  best # None =>
    \A n \in (best.event_idx + 1)..Len(said) : said[n] # Loaded(LastComponent(About(best.event_idx)))
=============================================================================
