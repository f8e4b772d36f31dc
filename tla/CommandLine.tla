---------------------------- MODULE CommandLine -----------------------------
(***************************************************************************)
(* The command line, in and out: cli::parse_from with the parsers of run,  *)
(* imports and com (src/cli.rs), the dispatch of main, the lookup of the   *)
(* target of run (src/main.rs), and the command line that run_target       *)
(* writes for CreateProcessW (src/debug_run.rs), which the target takes    *)
(* apart again.                                                            *)
(*                                                                         *)
(* A token is a sequence of symbols.  An option is one symbol; "-?" begins *)
(* every dashed token that is no option of loadwhat; "h8" is a group of 8  *)
(* hexadecimal digits; "surrogate" is an unpaired one, which OsString      *)
(* holds and String does not; "quote" and "backslash" are the characters.  *)
(* In a path a directory is one symbol, the backslash after it included;   *)
(* an argument of the target is spelt out.  Letter case, which only the    *)
(* subcommand ignores, and the messages are left out.                      *)
(***************************************************************************)
EXTENDS Integers, Sequences, FiniteSetsExt

CONSTANTS
  Symbols,   \* the characters and words that tokens are made of
  Worlds,    \* the command lines, each with the files that exist
  ParseU32,  \* the tokens that str::parse::<u32> accepts, with their values
  CurrentDir, PathDirs,  \* a directory; the directories of PATH, in order
  None

\* The symbols that the program itself writes are among them.
ASSUME SymbolsAssumption == {"space", "quote", "backslash", "U+FFFD", ".exe"} \subseteq Symbols
ASSUME WorldsAssumption ==
  \A w \in Worlds : w.values \in Seq(Seq(Symbols)) /\ w.files \subseteq Seq(Symbols)
\* A file has a name, without a quote and with no backslash at its end.
ASSUME FilesAssumption ==
  \A w \in Worlds : \A f \in w.files :
    f # <<>> /\ f[Len(f)] # "backslash" /\ \A k \in DOMAIN f : f[k] # "quote"
ASSUME ParseU32Assumption == \A t \in DOMAIN ParseU32 : ParseU32[t] \in Nat
\* The options of a run; timeout_ms is a u32, parsed by ParseU32.
Options == [cwd : Seq(Symbols) \cup {None}, timeout_ms : Nat, loader_snaps : BOOLEAN,
            trace : BOOLEAN, verbose : BOOLEAN]
\* None is no view, no directory and no command.
ASSUME NoneAssumption ==
  None \notin {"64", "32", "both"} \cup Seq(Symbols)
    \cup [kind : {"Run"}, exe_path : Seq(Symbols), exe_args : Seq(Seq(Symbols)), opts : Options]
    \cup [kind : {"Imports"}, module_path : Seq(Symbols), cwd : Seq(Symbols) \cup {None}]
ASSUME DirsAssumption == CurrentDir \in Symbols /\ PathDirs \in Seq(Symbols)

VARIABLES
  world,         \* values (argv after the program's name) and files
  pc,
  i,             \* the next token
  opts,          \* the locals of parse_run, of parse_imports (cwd), of parse_com (trace)
  view, positionals,  \* of parse_com
  command,       \* what parse_from returned; None before, and if it failed
  app, line,     \* the image and the command line given to CreateProcessW
  exit           \* main's own exit code; a command's is its own affair

parsed == <<opts, view, positionals>>
launch == <<app, line>>
vars == <<world, pc, i, parsed, command, launch, exit>>

values == world.values

-----------------------------------------------------------------------------
ValueOptions == {"--cwd", "--timeout", "--timeout-ms"}
RunFlags == {"--verbose", "-v", "--trace", "--summary", "--loader-snaps",
             "--no-loader-snaps", "--quiet", "--strict"}
OptionSymbols == ValueOptions \cup RunFlags \cup {"--view", "--help", "-?"}

Is(token, names) == Len(token) = 1 /\ token[1] \in names

\* looks_like_run_option; a dash alone is a positional.
Dashed(token) == token # <<>> /\ token[1] \in OptionSymbols

\* What a flag does to the locals of parse_run, and to the trace of parse_com.
BadAfterFlag(o, flag) ==
  [o EXCEPT !.trace = IF flag \in {"--verbose", "-v", "--trace"} THEN TRUE
                      ELSE IF flag \in {"--summary", "--quiet"} THEN FALSE ELSE @,
            !.verbose = IF flag \in {"--verbose", "-v"} THEN TRUE
                        ELSE IF flag = "--quiet" THEN FALSE ELSE @,
            !.loader_snaps = IF flag = "--loader-snaps" THEN TRUE
                             ELSE IF flag = "--no-loader-snaps" THEN FALSE ELSE @]
AfterFlag(o, flag) ==
  [o EXCEPT !.trace = IF flag \in {"--verbose", "-v", "--trace"} THEN TRUE
                      ELSE IF flag = "--summary" THEN FALSE ELSE @,
            !.verbose = IF flag \in {"--verbose", "-v"} THEN TRUE
                        ELSE IF flag = "--quiet" THEN FALSE ELSE @,
            !.loader_snaps = IF flag = "--loader-snaps" THEN TRUE
                             ELSE IF flag = "--no-loader-snaps" THEN FALSE ELSE @]

\* to_string_lossy
Lossy(token) == [k \in DOMAIN token |-> IF token[k] = "surrogate" THEN "U+FFFD" ELSE token[k]]

Braced(query) == query # <<>> /\ query[1] = "{"
IsValidBracedGuid(query) == query = <<"{", "h8", "h4", "h4", "h4", "h12", "}">>

-----------------------------------------------------------------------------
(* quote_cmd_arg and build_command_line *)

Backslashes(n) == [k \in 1..n |-> "backslash"]

BadQuoteChar(acc, c) ==
  IF c = "backslash" THEN [acc EXCEPT !.slashes = @ + 1]
  ELSE [out |-> acc.out \o Backslashes(acc.slashes)
                        \o IF c = "quote" THEN <<"backslash", c>> ELSE <<c>>,
        slashes |-> 0]
\* One turn of the loop: backslashes are held back until it is known whether
\* a quote follows.
QuoteChar(acc, c) ==
  IF c = "backslash" THEN [acc EXCEPT !.slashes = @ + 1]
  ELSE [out |-> acc.out \o (IF c = "quote" THEN Backslashes(2 * acc.slashes + 1)
                                        ELSE Backslashes(acc.slashes))
                        \o <<c>>,
        slashes |-> 0]

QuoteCmdArg(arg) ==
  LET loop[k \in 0..Len(arg)] == IF k = 0 THEN [out |-> <<"quote">>, slashes |-> 0]
                                 ELSE QuoteChar(loop[k - 1], arg[k])
      end == loop[Len(arg)]
  IN  IF arg # <<>> /\ \A k \in DOMAIN arg : arg[k] \notin {"space", "quote"} THEN arg
      ELSE end.out \o Backslashes(2 * end.slashes) \o <<"quote">>

BuildCommandLine(exe_path, exe_args) ==
  LET parts[k \in 0..Len(exe_args)] ==
        IF k = 0 THEN QuoteCmdArg(Lossy(exe_path))
        ELSE parts[k - 1] \o <<"space">> \o QuoteCmdArg(Lossy(exe_args[k]))
  IN  parts[Len(exe_args)]

-----------------------------------------------------------------------------
(* The target's side: CommandLineToArgvW *)

\* The first argument ends at the next quote if it begins with one, else at
\* the next space; backslashes mean nothing in it.
ProgramName(s) ==
  LET quoted == s[1] = "quote"
      first == IF quoted THEN 2 ELSE 1
      ends == {k \in first..Len(s) : s[k] = IF quoted THEN "quote" ELSE "space"}
      end == IF ends = {} THEN Len(s) + 1 ELSE Min(ends)
  IN  [name |-> SubSeq(s, first, end - 1),
       rest |-> SubSeq(s, IF quoted THEN end + 1 ELSE end, Len(s))]

\* A quote after 2n backslashes delimits, after 2n + 1 it is literal; either
\* way n backslashes stand before it.  (A doubled quote inside quotes does
\* not occur in what QuoteCmdArg writes.)
ArgvChar(acc, c) ==
  LET n == acc.slashes
      arg == acc.arg \o Backslashes(IF c = "quote" THEN n \div 2 ELSE n)
  IN  IF c = "backslash" THEN [acc EXCEPT !.slashes = @ + 1, !.open = TRUE]
      ELSE IF c = "quote" /\ n % 2 = 0
        THEN [acc EXCEPT !.arg = arg, !.slashes = 0, !.quoted = ~@, !.open = TRUE]
      ELSE IF c = "space" /\ ~acc.quoted
        THEN [done |-> IF acc.open THEN Append(acc.done, arg) ELSE acc.done,
              arg |-> <<>>, slashes |-> 0, quoted |-> FALSE, open |-> FALSE]
      ELSE [acc EXCEPT !.arg = Append(arg, c), !.slashes = 0, !.open = TRUE]

ArgvStart == [done |-> <<>>, arg |-> <<>>, slashes |-> 0, quoted |-> FALSE, open |-> FALSE]

Argv(s) ==
  LET program == ProgramName(s)
      text == Append(program.rest, "space")  \* a final space closes the last argument
      read[k \in 0..Len(text)] == IF k = 0 THEN ArgvStart ELSE ArgvChar(read[k - 1], text[k])
  IN  <<program.name>> \o read[Len(text)].done

-----------------------------------------------------------------------------
(* normalize_existing_run_target *)

Directories == {CurrentDir} \cup {PathDirs[k] : k \in DOMAIN PathDirs}

\* A path that is not absolute is one of the current directory.
Absolute(token) == IF token # <<>> /\ token[1] \in Directories THEN token ELSE <<CurrentDir>> \o token

SingleComponent(token) ==
  token # <<>> /\ \A k \in DOMAIN token : token[k] \notin Directories \cup {"sub\\"}

\* The names tried in each directory of PATH; ".exe" stands for an extension.
TriedNames(token) ==
  IF token[Len(token)] = ".exe" THEN <<token>> ELSE <<token, Append(token, ".exe")>>

BadSearchPath(names) ==
  LET Dirs(n) == {k \in DOMAIN PathDirs : <<PathDirs[k]>> \o names[n] \in world.files}
      hits == {n \in DOMAIN names : Dirs(n) # {}}
  IN  IF hits = {} THEN None ELSE <<PathDirs[Min(Dirs(Min(hits)))]>> \o names[Min(hits)]
\* The first directory that has one of the names, and the first name it has.
SearchPath(names) ==
  LET Hits(k) == {n \in DOMAIN names : <<PathDirs[k]>> \o names[n] \in world.files}
      dirs == {k \in DOMAIN PathDirs : Hits(k) # {}}
  IN  IF dirs = {} THEN None ELSE <<PathDirs[Min(dirs)]>> \o names[Min(Hits(Min(dirs)))]

NormalizeExistingRunTarget(token) ==
  IF Absolute(token) \in world.files THEN Absolute(token)
  ELSE IF SingleComponent(token) THEN SearchPath(TriedNames(token)) ELSE None

-----------------------------------------------------------------------------
Defaults == [cwd |-> None, timeout_ms |-> 30000, loader_snaps |-> TRUE,
             trace |-> FALSE, verbose |-> FALSE]

Init ==
  /\ world \in Worlds
  /\ pc = "parse_from" /\ i = 1
  /\ opts = Defaults /\ view = None /\ positionals = <<>>
  /\ command = None /\ app = None /\ line = None /\ exit = None

\* Every error: usage on stderr, and exit code 20.
Reject ==
  /\ exit' = 20 /\ pc' = "done"
  /\ UNCHANGED <<world, i, parsed, command, launch>>

Accept(c, next) ==
  /\ command' = c /\ pc' = next
  /\ UNCHANGED <<world, i, parsed, launch, exit>>

Go(next, index) ==
  /\ pc' = next /\ i' = index
  /\ UNCHANGED <<world, command, launch, exit>>

Help ==
  /\ pc = "parse_from"
  /\ values # <<>> => Is(values[1], {"-h", "--help", "help"})
  /\ exit' = 0 /\ pc' = "done" /\ command' = [kind |-> "Help"]
  /\ UNCHANGED <<world, i, parsed, launch>>

Subcommand ==
  /\ pc = "parse_from" /\ values # <<>> /\ ~Is(values[1], {"-h", "--help", "help"})
  /\ IF Len(values) = 1 \/ ~Is(values[1], {"run", "imports", "com"}) THEN Reject
     ELSE /\ Go(values[1][1], IF Is(values[1], {"run"}) THEN 2 ELSE 3)
          /\ UNCHANGED parsed

\* parse_run: an option, with its value if it has one.  Whatever follows
\* --cwd is its value, a dashed token too.
RunOption ==
  /\ pc = "run" /\ i <= Len(values) /\ Dashed(values[i])
  /\ LET token == values[i] IN
       IF Is(token, ValueOptions)
         THEN IF i = Len(values) THEN Reject
              ELSE IF Is(token, {"--cwd"})
                THEN /\ opts' = [opts EXCEPT !.cwd = values[i + 1]]
                     /\ Go("run", i + 2) /\ UNCHANGED <<view, positionals>>
              ELSE IF Lossy(values[i + 1]) \in DOMAIN ParseU32
                THEN /\ opts' = [opts EXCEPT !.timeout_ms = ParseU32[Lossy(values[i + 1])]]
                     /\ Go("run", i + 2) /\ UNCHANGED <<view, positionals>>
              ELSE Reject
       ELSE IF Is(token, RunFlags)
         THEN /\ opts' = AfterFlag(opts, token[1])
              /\ Go("run", i + 1) /\ UNCHANGED <<view, positionals>>
       ELSE Reject

\* The first token that is no option is the target, the rest its arguments.
RunTarget ==
  /\ pc = "run"
  /\ i <= Len(values) => ~Dashed(values[i])
  /\ IF i > Len(values) THEN Reject
     ELSE Accept([kind |-> "Run", exe_path |-> values[i],
                  exe_args |-> SubSeq(values, i + 1, Len(values)), opts |-> opts],
                 "launch")

\* run_command finds the target, and run_target writes its command line.
Launch ==
  /\ pc = "launch"
  /\ LET exe == NormalizeExistingRunTarget(command.exe_path) IN
       IF exe = None THEN Reject
       ELSE /\ app' = exe /\ line' = BuildCommandLine(exe, command.exe_args)
            /\ pc' = "done"
            /\ UNCHANGED <<world, i, parsed, command, exit>>

BadImportsOption ==
  /\ pc = "imports" /\ i <= Len(values)
  /\ IF Is(values[i], {"--cwd"})
       THEN /\ opts' = [opts EXCEPT !.cwd = IF i < Len(values) THEN values[i + 1] ELSE @]
            /\ Go("imports", i + 2) /\ UNCHANGED <<view, positionals>>
     ELSE IF Is(values[i], {"--quiet", "--verbose", "--strict"})
       THEN Go("imports", i + 1) /\ UNCHANGED parsed
     ELSE Reject
\* parse_imports: the module comes first, whatever it looks like.
ImportsOption ==
  /\ pc = "imports" /\ i <= Len(values)
  /\ IF Is(values[i], {"--cwd"}) /\ i < Len(values)
       THEN /\ opts' = [opts EXCEPT !.cwd = values[i + 1]]
            /\ Go("imports", i + 2) /\ UNCHANGED <<view, positionals>>
     ELSE IF Is(values[i], {"--quiet", "--verbose", "--strict"})
       THEN Go("imports", i + 1) /\ UNCHANGED parsed
     ELSE Reject

ImportsEnd ==
  /\ pc = "imports" /\ i > Len(values)
  /\ Accept([kind |-> "Imports", module_path |-> values[2], cwd |-> opts.cwd], "done")

\* parse_com
ComToken ==
  /\ pc = "com" /\ i <= Len(values)
  /\ LET token == values[i] IN
       IF ~Dashed(token)
         THEN /\ positionals' = Append(positionals, Lossy(token))
              /\ Go("com", i + 1) /\ UNCHANGED <<opts, view>>
       ELSE IF Is(token, {"--trace", "--verbose", "-v", "--summary"})
         THEN /\ opts' = [opts EXCEPT !.trace = ~Is(token, {"--summary"})]
              /\ Go("com", i + 1) /\ UNCHANGED <<view, positionals>>
       ELSE IF Is(token, {"--view"}) /\ i < Len(values) /\ Is(values[i + 1], {"64", "32", "both"})
         THEN /\ view' = values[i + 1][1]
              /\ Go("com", i + 2) /\ UNCHANGED <<opts, positionals>>
       ELSE Reject

BadLookupView == IF view = None THEN "64" ELSE view
\* lookup_view: None if it is an error.
LookupView == IF view = None THEN "64" ELSE IF view = "both" THEN None ELSE view

Com(sub, v) == [kind |-> "Com", sub |-> sub, query |-> positionals, view |-> v, trace |-> opts.trace]

ComEnd ==
  /\ pc = "com" /\ i > Len(values)
  /\ LET sub == IF Is(values[2], {"clsid", "progid", "server", "audit"}) THEN values[2][1] ELSE "?"
         n == Len(positionals)
         fine == \/ /\ sub = "clsid" /\ n = 1 /\ LookupView # None
                    /\ IsValidBracedGuid(positionals[1])
                 \/ /\ sub = "progid" /\ n = 1 /\ LookupView # None
                    /\ ~Braced(positionals[1])
                 \/ sub = "server" /\ n = 1
                 \/ /\ sub = "audit" /\ n = 2 /\ view = None
                    /\ Braced(positionals[2]) => IsValidBracedGuid(positionals[2])
     IN  IF ~fine THEN Reject
         ELSE Accept(Com(sub, IF sub \in {"clsid", "progid"} THEN LookupView
                              ELSE IF sub = "server" /\ view = None THEN "both"
                              ELSE view), "done")

Done == pc = "done" /\ UNCHANGED vars

Next == \/ Help \/ Subcommand \/ RunOption \/ RunTarget \/ Launch
        \/ ImportsOption \/ ImportsEnd \/ ComToken \/ ComEnd \/ Done

Spec == Init /\ [][Next]_vars

-----------------------------------------------------------------------------
(* The documented reading of the command line of run *)

\* Where the options of run stand: at the start, after a flag, and after an
\* option and its value.
OptionPlaces(v) ==
  LET at[p \in 1..(Len(v) + 1)] ==
        \/ p = 2
        \/ p > 2 /\ at[p - 1] /\ Is(v[p - 1], RunFlags)
        \/ p > 3 /\ at[p - 2] /\ Is(v[p - 2], ValueOptions)
  IN  {p \in 2..Len(v) : at[p]}

\* Those of imports: every token after the module but the values of --cwd.
\* After an even number of --cwd in a row a token is no value.
ImportsOptionPlaces(v) ==
  LET value[p \in 2..Len(v)] == p > 3 /\ Is(v[p - 1], {"--cwd"}) /\ ~value[p - 1]
  IN  {p \in 3..Len(v) : ~value[p]}

\* Of the options that decide one matter the last one does.
LastWins(v, options, on, off, default) ==
  LET deciding == {p \in options : Is(v[p], on \cup off)}
  IN  IF deciding = {} THEN default ELSE Is(v[Max(deciding)], on)
LastValue(v, options, names, default) ==
  LET deciding == {p \in options : Is(v[p], names)}
  IN  IF deciding = {} THEN default ELSE v[Max(deciding) + 1]

RunOptions(v) ==
  LET options == {p \in OptionPlaces(v) : Dashed(v[p])}
      timeout == LastValue(v, options, {"--timeout", "--timeout-ms"}, None)
  IN  [cwd |-> LastValue(v, options, {"--cwd"}, None),
       timeout_ms |-> IF timeout = None THEN 30000 ELSE ParseU32[Lossy(timeout)],
       loader_snaps |-> LastWins(v, options, {"--loader-snaps"}, {"--no-loader-snaps"}, TRUE),
       trace |-> LastWins(v, options, {"--trace", "-v", "--verbose"}, {"--summary"}, FALSE),
       verbose |-> LastWins(v, options, {"-v", "--verbose"}, {"--quiet"}, FALSE)]

\* Why a command line of run is refused: an option that is not known, has no
\* value, or has one that is no number.
BadOption(v, p) ==
  \/ ~Is(v[p], RunFlags \cup ValueOptions)
  \/ Is(v[p], ValueOptions) /\ p = Len(v)
  \/ Is(v[p], {"--timeout", "--timeout-ms"}) /\ Lossy(v[p + 1]) \notin DOMAIN ParseU32

-----------------------------------------------------------------------------
(* Properties *)

RunParsedAsDocumented ==
  LET places == OptionPlaces(values)
      targets == {p \in places : ~Dashed(values[p])}
  IN  IF command = None
        THEN targets = {} \/ \E p \in places : Dashed(values[p]) /\ BadOption(values, p)
        ELSE \E t \in targets :
               command = [kind |-> "Run", exe_path |-> values[t],
                          exe_args |-> SubSeq(values, t + 1, Len(values)),
                          opts |-> RunOptions(values)]

\* imports takes its module first, then --cwd with its value and flags
\* without effect, and nothing else.
ImportsParsedAsDocumented ==
  LET options == ImportsOptionPlaces(values)
      unknown == {p \in options : ~Is(values[p], {"--cwd", "--quiet", "--verbose", "--strict"})}
      \* a --cwd without a value
      last == {p \in options : p = Len(values) /\ Is(values[p], {"--cwd"})}
  IN  IF command = None THEN Len(values) = 1 \/ unknown \cup last # {}
        ELSE /\ unknown \cup last = {}
             /\ command = [kind |-> "Imports", module_path |-> values[2],
                           cwd |-> LastValue(values, options, {"--cwd"}, None)]

\* A command line of run or imports means what the documentation says,
\* however its options are ordered and repeated: later flags win per
\* dimension, verbose implies trace unless a later --summary takes it back,
\* the value of an option is never read as an option, the first token of run
\* that is neither is the target, and the rest are its arguments.  It is
\* refused only for a reason.
ParsedAsDocumented ==
  (pc \in {"launch", "done"} /\ values # <<>>) =>
    /\ Is(values[1], {"run"}) => RunParsedAsDocumented
    /\ Is(values[1], {"imports"}) => ImportsParsedAsDocumented

\* The target finds in its argv the path of its image and the arguments that
\* stood after TARGET, as many as there were, whatever spaces, quotes and
\* backslashes they hold; an unpaired surrogate alone is replaced.
ArgumentsArrive ==
  line # None =>
    Argv(line) = <<Lossy(app)>> \o [k \in DOMAIN command.exe_args |-> Lossy(command.exe_args[k])]

\* The image that is run exists; it is the path given if that exists, and
\* otherwise no directory of PATH before its own has a file of that name or,
\* if it has no extension, of that name with .exe.
TargetFirstOnPath ==
  app # None =>
    LET t == command.exe_path
        Offers(k) == {<<PathDirs[k]>> \o t} \cup
                     IF t[Len(t)] = ".exe" THEN {} ELSE {<<PathDirs[k]>> \o t \o <<".exe">>}
    IN  /\ app \in world.files
        /\ IF Absolute(t) \in world.files THEN app = Absolute(t)
           ELSE \E k \in DOMAIN PathDirs :
                  /\ app \in Offers(k)
                  /\ <<PathDirs[k]>> \o t \in world.files => app = <<PathDirs[k]>> \o t
                  /\ \A j \in 1..(k - 1) : Offers(j) \cap world.files = {}

\* A COM lookup that is let through names one registry view, an audit none,
\* and no positional of any of them is an option or the value of one: the
\* commands behind rely on it (com_reg_view takes both for 64).
ComViewSettled ==
  (command # None /\ command.kind = "Com") =>
    /\ command.sub \in {"clsid", "progid"} => command.view \in {"64", "32"}
    /\ command.sub = "server" => command.view \in {"64", "32", "both"}
    /\ command.sub = "audit" =>
         command.view = None /\ \A p \in DOMAIN values : ~Is(values[p], {"--view"})
    /\ LET views == {p \in 3..Len(values) : Is(values[p], {"--view"})}
       IN  /\ views # {} => command.view = values[Max(views) + 1][1]
           /\ Len(command.query) =
                Cardinality({p \in 3..Len(values) : ~Dashed(values[p]) /\ p - 1 \notin views})
=============================================================================
