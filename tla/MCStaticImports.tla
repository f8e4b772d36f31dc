-------------------------- MODULE MCStaticImports --------------------------
(***************************************************************************)
(* Machines for StaticImports.  The dll names are the empty one (0), A     *)
(* (1), B (3), C (4), one that is nowhere (5), an API set (6) and an       *)
(* absolute path (7); the program itself is 2.  Three families of systems: *)
(*   Graphs    import graphs, cyclic ones included, of files in the        *)
(*             application directory, for each caller                      *)
(*   Searches  A in any two places, for each order of directories          *)
(*   Variants  the program in many layouts of its PE file                  *)
(***************************************************************************)
EXTENDS StaticImports, SequencesExt

CONSTANTS app, sys, win, w16, cur, p1,  \* directories
          APP, CUR                      \* other spellings of two of them

Dirs == {app, sys, win, w16, cur, p1}
MCKey == [d \in Dirs \cup {APP, CUR} |-> IF d = APP THEN app ELSE IF d = CUR THEN cur ELSE d]

MCRoot == <<app, 2>>
MCPlaces == {MCRoot} \cup Dirs \X {0, 1, 3, 4, 5}
MCPaths == {MCRoot} \cup Dirs \X {1} \cup {app, p1} \X {3} \cup {<<app, 4>>}
MCNameOf == [p \in MCPaths |-> p[2]]
MCApiSets == {6}
MCNames == {0, 1, 3, 4, 5, 7}
MCAbsolute == 7 :> <<p1, 3>>

\* The name k starts with the word 10 + k, or with 20 + k in upper case; 31 is
\* not UTF-8.
MCMaxU32 == 1023
MCLowercase == [w \in {0} \cup 11..17 \cup 21..27 |-> IF w = 0 THEN 0 ELSE IF w < 20 THEN w - 10 ELSE w - 20]

-----------------------------------------------------------------------------
(* Images *)

Headers == [mz |-> TRUE, pe_offset |-> 64, signature |-> TRUE, magic |-> "pe32plus",
            size_of_optional_header |-> 136, machine |-> "x64", resource_rva |-> 0]

\* The usual image: one section, mapped at 512, with the table and the names.
Plain(S) ==
  LET sorted == SetToSortSeq(S, LAMBDA a, b : a < b)
      names == 304 + 20 * (Len(sorted) + 1)
      size == names + 4 * Len(sorted)
  IN  [size |-> size,
       import_rva |-> IF S = {} THEN 0 ELSE 512,
       sections |-> <<[va |-> 512, vsize |-> size - 304, raw_ptr |-> 304, raw_size |-> size - 304]>>,
       word |-> [off \in UNION {{304 + 20 * (i - 1) + 12, names + 4 * (i - 1)} : i \in DOMAIN sorted} |->
                   IF off < names THEN 512 + (names - 304) + 4 * ((off - 304) \div 20)
                   ELSE LET k == sorted[(off - names) \div 4 + 1]
                        IN  IF k = 0 THEN 0 ELSE 10 + k]] @@ Headers

\* Two sections, the table in the first and the names A and B in the second;
\* the table of sections may have them in either order.
Variant(first, second, swapped, size, rva, word) ==
  [size |-> size, import_rva |-> rva,
   sections |-> IF swapped THEN <<second, first>> ELSE <<first, second>>,
   word |-> 316 :> second.va @@ 336 :> second.va + 4 @@ 364 :> word @@ 368 :> 13] @@ Headers

LayoutVariants ==
  {Variant([va |-> 512, vsize |-> v1, raw_ptr |-> 304, raw_size |-> r1],
           [va |-> a2, vsize |-> v2, raw_ptr |-> p2, raw_size |-> 8], swapped, size, 512, 11) :
     v1 \in {0, 40, 60, 100}, r1 \in {60, 40}, a2 \in {640, 572, 560, 1016},
     v2 \in {0, 4, 8}, p2 \in {364, 1020}, swapped \in BOOLEAN, size \in {372}}
Usual == Variant([va |-> 512, vsize |-> 60, raw_ptr |-> 304, raw_size |-> 60],
                 [va |-> 640, vsize |-> 8, raw_ptr |-> 364, raw_size |-> 8], FALSE, 372, 512, 11)
TableVariants ==
  {[Usual EXCEPT !.size = size, !.import_rva = rva, !.word[364] = word, !.word[336] = second] :
     size \in {376, 372, 371, 364, 363, 344}, rva \in {512, 532, 500, 640, 0}, word \in {11, 21, 31, 0},
     second \in {644, 700, 0}}
\* The table at the very end of the file.
TableLast ==
  {[Usual EXCEPT !.size = size, !.word = 304 :> 11 @@ 308 :> 13 @@ 324 :> 640 @@ 344 :> 644,
                 !.sections = <<[va |-> 512, vsize |-> 60, raw_ptr |-> 312, raw_size |-> 60],
                                [va |-> 640, vsize |-> 8, raw_ptr |-> 304, raw_size |-> 8]>>] :
     size \in {371, 372}}
HeaderVariants ==
  {[Usual EXCEPT !.magic = magic, !.size_of_optional_header = opt, !.size = size,
                 !.mz = mz, !.signature = sig] :
     magic \in {"pe32", "pe32plus", "other"}, opt \in {0, 112, 127, 136},
     size \in {372, 303, 223, 87, 63}, mz \in BOOLEAN, sig \in BOOLEAN}

-----------------------------------------------------------------------------
(* Systems *)

Contents(files) == files @@ [p \in MCPlaces |-> IF p[2] = 0 THEN Opaque ELSE Absent]
Unobserved == [d \in MCNames |-> None]
Normal == [app_dir |-> app, cwd |-> APP, path |-> <<p1>>, safe_mode |-> "absent", system16 |-> TRUE,
           caller |-> "imports", mode |-> "Full", observed |-> Unobserved,
           content |-> Contents(MCRoot :> Plain({}))]

At(d, n) == <<d, n>>
Broken == [Plain({}) EXCEPT !.mz = FALSE]
\* An image whose imports cannot be parsed.
Malformed == [Plain({1}) EXCEPT !.import_rva = 100]

Graph(root, a, b, c, loaded, caller) ==
  [Normal EXCEPT
     !.caller = caller[1], !.mode = caller[2],
     !.observed = [d \in MCNames |-> IF caller[1] = "run" /\ d = 1 THEN loaded ELSE None],
     !.content = Contents(MCRoot :> root @@ At(app, 1) :> a @@ At(app, 3) :> b @@ At(app, 4) :> c
                          @@ At(p1, 1) :> Plain({4}) @@ At(p1, 3) :> Plain({}))]

Graphs ==
  {Graph(root, a, b, c, loaded, caller) :
     root \in {Plain({1, 3}), Plain({1, 3, 6, 7})},
     a \in {Plain(S) : S \in SUBSET {3, 4, 5}} \cup {Malformed, Broken},
     b \in {Plain(S) : S \in SUBSET {1, 3, 4}} \cup {Malformed, Broken},
     c \in {Plain({}), Plain({5})},
     loaded \in {None, At(app, 1), At(p1, 1)},
     caller \in {<<"imports", "Full">>, <<"run", "Full">>, <<"run", "FailuresOnly">>}}

Searches ==
  {[Normal EXCEPT !.safe_mode = mode, !.system16 = w, !.cwd = c, !.path = path,
                    !.content = Contents(MCRoot :> Plain({0, 1}) @@ At(d, 1) :> Plain({}) @@ At(e, 1) :> y)] :
     mode \in {"absent", "zero", "one", "string"}, w \in BOOLEAN, c \in {app, APP, cur},
     path \in {<<p1>>, <<Empty, CUR, p1, APP>>},
     d \in Dirs, e \in Dirs, y \in {Plain({5}), Opaque}}

Variants ==
  {[Normal EXCEPT !.content = Contents(MCRoot :> root @@ At(app, 1) :> Plain({}) @@ At(app, 3) :> b)] :
     root \in UNION {LayoutVariants, TableVariants, TableLast, HeaderVariants, {Absent, Opaque}},
     b \in {Plain({}), Absent}}

MCSystems == Graphs \cup Searches \cup Variants
MCWorlds == {WorldOf(s) : s \in MCSystems}
=============================================================================
