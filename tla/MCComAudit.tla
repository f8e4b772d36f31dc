----------------------------- MODULE MCComAudit -----------------------------
(***************************************************************************)
(* Targets and manifests for ComAudit: manifests of up to two items, and   *)
(* images whose resource directories have the manifest first, last, not at *)
(* all, or cut off.                                                        *)
(***************************************************************************)
EXTENDS ComAudit, TLC

MCClasses == {1, 2}
MCMaxU32 == 1023

MCAttributes ==
  [name_near |-> [key |-> "name", value |-> "near.dll"],
   name_root |-> [key |-> "name", value |-> "C:far.dll"],
   clsid_q |-> [key |-> "clsid", value |-> "Q"],
   clsid_x |-> [key |-> "clsid", value |-> "X"],
   progid_q |-> [key |-> "progid", value |-> "P.Q"]]
MCAbsolute == {"C:far.dll"}
MCQueried == [clsid |-> "Q", progid |-> "P.Q"]

-----------------------------------------------------------------------------

Wanted == [clsid |-> "clsid_q", progid |-> "progid_q"]
Nameless == [clsid |-> "clsid_q", progid |-> None]
Other == [clsid |-> "clsid_x", progid |-> None]

File(name, classes) == [name |-> name, loose |-> FALSE, open |-> TRUE, classes |-> classes]
FileItem(file) == [kind |-> "file", file |-> file]

Items ==
  <<FileItem(File("name_near", <<Wanted>>)),
    FileItem(File("name_root", <<Other, Nameless>>)),
    FileItem([File("name_root", <<>>) EXCEPT !.open = FALSE]),
    FileItem([File("name_near", <<Wanted>>) EXCEPT !.loose = TRUE]),
    [kind |-> "class", class |-> Wanted],
    [kind |-> "class", class |-> Other],
    [kind |-> "comment", file |-> File("name_root", <<Wanted>>)],
    [kind |-> "prolog", mark |-> "?"],
    [kind |-> "prolog", mark |-> "!"]>>

\* Every pair of items; the last one is in UTF-16.
MCManifests ==
  [n \in 1..82 |->
     IF n = 82 THEN [encoding |-> "utf16", items |-> <<Items[1]>>]
     ELSE [encoding |-> "utf8", items |-> <<Items[(n + 8) \div 9], Items[((n - 1) % 9) + 1]>>]]

-----------------------------------------------------------------------------

\* A resource section at 320, with a directory of types that has others before
\* and after the manifest, then names, languages, a data entry and the payload.
Image(machine, rva, size, types, number) ==
  [size |-> size, mz |-> TRUE, pe_offset |-> 64, signature |-> TRUE, magic |-> "pe32plus",
   size_of_optional_header |-> 136, machine |-> machine, import_rva |-> 0, resource_rva |-> rva,
   resource_size |-> 112,
   sections |-> <<[va |-> 512, vsize |-> 200, raw_ptr |-> 320, raw_size |-> 200]>>,
   word |-> 332 :> Len(types)
         @@ [off \in {336 + 8 * (i - 1) : i \in DOMAIN types} |-> types[(off - 336) \div 8 + 1]]
         @@ [off \in {340 + 8 * (i - 1) : i \in DOMAIN types} |->
               IF types[(off - 340) \div 8 + 1] = 24 THEN 512 + 48 ELSE 512 + 120]
         @@ 380 :> 1 @@ 384 :> 1 @@ 388 :> 512 + 72    \* the name 1, at 320 + 48
         @@ 404 :> 1 @@ 408 :> 9 @@ 412 :> 96          \* the language 9, at 320 + 72
         @@ 416 :> 632 @@ 420 :> 16                    \* the data entry, at 320 + 96
         @@ 440 :> number]                             \* the payload, at 320 + 120

MCImages ==
  {Image("x64", 512, 520, <<3, 24, 10>>, n) : n \in {1, 11, 29, 50}}
    \cup {Image("x64", rva, size, types, 82) : rva \in {512, 600}, size \in {520, 450, 430},
                                              types \in {<<24>>, <<3, 10>>}}
    \cup {Image(machine, 512, 520, <<24>>, 1) : machine \in {"x86", "unknown"}}
    \cup {Image("x64", 0, size, <<>>, 0) : size \in {520, 200}}
=============================================================================
