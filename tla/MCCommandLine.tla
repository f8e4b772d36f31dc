--------------------------- MODULE MCCommandLine ----------------------------
(***************************************************************************)
(* Command lines for CommandLine, of four kinds: run with up to four       *)
(* tokens, so that each option meets each other one in both orders and     *)
(* with a value between; run of a target with up to two arguments of up to *)
(* three characters, which have every pattern of backslashes before a      *)
(* quote and at the end; imports with up to three tokens after the module; *)
(* com with up to four tokens.                                             *)
(***************************************************************************)
EXTENDS CommandLine, TLC

Upto(S, n) == UNION {[1..k -> S] : k \in 0..n}
Tokens(symbols) == {<<s>> : s \in symbols}

MCSymbols ==
  OptionSymbols \cup {"run", "imports", "com", "help", "-h", "other", "-", "0", "5000",
    "tool", "my", "x", "dll", "space", "quote", "backslash", "surrogate", "U+FFFD", ".exe",
    "cwd\\", "p1\\", "p2\\", "sub\\", "clsid", "progid", "server", "audit",
    "32", "64", "both", "{", "}", "h4", "h8", "h12"}
MCCurrentDir == "cwd\\"
MCPathDirs == <<"p1\\", "p2\\">>
MCParseU32 == (<<"0">> :> 0) @@ (<<"5000">> :> 5000)

Files == {<<"cwd\\", "tool">>}
RunLines ==
  {<<<<"run">>>> \o s :
     s \in Upto(Tokens({"--cwd", "--timeout", "-v", "--trace", "--summary", "--quiet",
                        "--loader-snaps", "--no-loader-snaps", "-?", "tool", "0"}), 4)}

ArgLines ==
  {<<<<"run">>, <<"tool">>>> \o s : s \in Upto(Upto({"x", "space", "quote", "backslash"}, 3), 2)}

Targets == {<<"my", "space", "tool">>, <<"my", "space", "tool", ".exe">>, <<"sub\\", "tool">>,
            <<"p2\\", "tool">>, <<"-">>, <<>>}
TargetFiles ==
  SUBSET {<<"cwd\\", "my", "space", "tool">>, <<"p1\\", "my", "space", "tool", ".exe">>,
          <<"p2\\", "my", "space", "tool">>, <<"p2\\", "my", "space", "tool", ".exe">>,
          <<"cwd\\", "sub\\", "tool">>, <<"p1\\", "sub\\", "tool">>, <<"p2\\", "tool">>}

ImportLines ==
  {<<<<"imports">>>> \o s : s \in Upto(Tokens({"--cwd", "--quiet", "-?", "dll"}), 4)}

Guid == <<"{", "h8", "h4", "h4", "h4", "h12", "}">>
ComLines ==
  {<<<<"com">>>> \o s :
     s \in Upto({<<"clsid">>}, 1) \cup
       {<<<<sub>>>> \o t :
          sub \in {"clsid", "progid", "server", "audit", "other"},
          t \in Upto(Tokens({"--trace", "--summary", "--view", "32", "both", "-?"})
                       \cup {Guid, <<"{", "h8", "}">>}, 4)}}

\* An argument with an unpaired surrogate.
SurrogateLine == <<<<"run">>, <<"tool">>, <<"x", "surrogate">>>>

OtherLines == {<<>>, SurrogateLine} \cup {<<<<s>>>> : s \in {"help", "-h", "other", "run"}}

MCWorlds ==
  [values : RunLines \cup ArgLines \cup ImportLines \cup ComLines \cup OtherLines,
   files : {Files}]
    \cup [values : {<<<<"run">>, t>> : t \in Targets}, files : TargetFiles]
=============================================================================
