--------------------------- MODULE MCLoaderLines ---------------------------
(***************************************************************************)
(* Lines of two threads for LoaderLines.  The modules are a plugin, a      *)
(* helper, a system DLL that is only noise, a DLL with a "+" in its name   *)
(* and a plugin that is no .dll; 0xc000012f is a bad image that            *)
(* is_loader_related_code does not list.                                   *)
(***************************************************************************)
EXTENDS LoaderLines, TLC

Plug == <<"plug", ".dll">>
Help == <<"help", ".dll">>
Ntdll == <<"ntdll", ".dll">>
Stdcxx == <<"libstdc", "+", "+", "-6", ".dll">>
Control == <<"plug", ".ocx">>
MCModules == {Plug, Help}
MCOddModules == {Plug, Stdcxx}

MCWord == {"plug", "help", "ntdll", "libstdc", "-6", ".ocx", "c", "app", "windows", "system32",
           "program", "files"}
MCOther == {"+", "not found"}
MCHex == "0x00000000" :> 0 @@ "0xc0000135" :> 1 @@ "0xc000012f" :> 2 @@ "0xc0000142" :> 3
MCDllNumber == <<"-6", ".dll">> :> 1 @@ Help :> 2 @@ Stdcxx :> 3 @@ Ntdll :> 4 @@ Plug :> 5
MCNoiseNames == {Ntdll}

App == <<"c", ":", "\\", "app">>
Windows == <<"c", ":", "\\", "windows">>
MCWindowsDirs == {Windows}
InApp(name) == App \o <<"\\">> \o name
InSystem(name) == Windows \o <<"\\", "system32", "\\">> \o name
InPrograms(name) == <<"c", ":", "\\", "program", "space", "files", "\\">> \o name

Missing == "0xc0000135"
Invalid == "0xc000012f"
InitFailed == "0xc0000142"

Say(form, module, rest) ==
  [tid |-> 1, form |-> form, module |-> module, parent |-> <<>>, rest |-> rest]
In(parent, s) == [s EXCEPT !.parent = parent]

MCBothThreads ==
  {Say("enter", InApp(Plug), <<>>), Say("return", <<>>, <<"0x00000000">>),
   Say("return", <<>>, <<Missing>>), Say("load_failed", <<>>, <<Missing>>),
   Say("init_routine", InApp(Plug), <<>>), Say("process_work", Ntdll, <<Missing>>)}

MCFirstThread ==
  {Say("enter", InPrograms(Help), <<>>), Say("return", <<>>, <<Invalid>>),
   Say("return", Plug, <<"0x00000000">>),
   In(InApp(Help), Say("process_work", InSystem(Plug), <<Missing>>)),
   In(InPrograms(Plug), Say("load_work", Help, <<Missing>>)),
   Say("load_failed", InApp(Plug), <<"not found">>),
   In(InApp(Plug), Say("process_work", Ntdll, <<Invalid>>)),
   Say("process_work", Stdcxx, <<Missing>>),
   Say("import_walk", <<>>, <<Missing>>), Say("known_dll", InApp(Help), <<Missing>>)}

MCSecondThread ==
  {Say("enter", InSystem(Ntdll), <<>>), Say("enter", InApp(Control), <<>>),
   Say("return", <<>>, <<InitFailed>>), Say("load_failed", InApp(Help), <<Missing>>),
   In(InPrograms(Help), Say("process_work", InApp(Control), <<Missing>>)),
   Say("search_path", <<>>, <<Missing>>), Say("internal", InApp(Help), <<InitFailed>>),
   Say("init_failed", Help, <<>>)}

MCSayings ==
  MCBothThreads \cup MCFirstThread
    \cup {[s EXCEPT !.tid = 2] : s \in MCBothThreads \cup MCSecondThread}
MCLines == {Read(s.tid, Written(s)) : s \in MCSayings}
=============================================================================
