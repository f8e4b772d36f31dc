---------------------------- MODULE ManifestText ----------------------------
(***************************************************************************)
(* The scanner of registration-free COM manifests (src/com/manifest.rs).   *)
(*                                                                         *)
(* A text is a sequence of pieces: the marks the scanner looks for         *)
(* ("<", ">", "!--", "-->", "?", "!", "/"), names of tags without their    *)
(* namespace, and attributes.  Attributes gives the key and the value of   *)
(* each attribute that is written in one piece; Loose is the start of one  *)
(* whose value has a ">" in it, which no reader of attributes gets past.   *)
(***************************************************************************)
EXTENDS Naturals, Sequences, SequencesExt

CONSTANTS
  Attributes,  \* from a piece to a record [key, value]
  Loose,
  None         \* Option::None

-----------------------------------------------------------------------------
(* TagIter *)

TagEnds == {">", "-->"}

\* The first place at or after i of a piece in S, or 0.
Find(text, S, i) ==
  LET places == {j \in i..Len(text) : text[j] \in S}
  IN  IF places = {} THEN 0 ELSE CHOOSE j \in places : \A k \in places : j <= k

\* What ends the thing that starts with the "<" at i: the end of the comment,
\* or the next ">", whatever it belongs to.
Close(text, i) ==
  IF i < Len(text) /\ text[i + 1] = "!--" THEN Find(text, {"-->"}, i + 2)
  ELSE Find(text, TagEnds, i + 1)

\* Comments, processing instructions and declarations are no tags.
IsTag(body) == body # <<>> /\ body[1] \notin {"!--", "?", "!"}

\* parse_tag: a self-closing tag ends with "/", a closing one starts with it.
SelfClosing(body) == body[Len(body)] = "/"
Closing(body) == body[1] = "/"
Inside(body) ==
  SubSeq(body, IF Closing(body) THEN 2 ELSE 1, IF SelfClosing(body) THEN Len(body) - 1 ELSE Len(body))
TagName(body) == IF Inside(body) = <<>> THEN "" ELSE Inside(body)[1]

\* attr_value, of what parse_attrs reads
AttrValue(body, key) ==
  LET inside == Inside(body)
      end == Find(inside, {Loose}, 1)
      found == {i \in DOMAIN inside :
                  /\ inside[i] \in DOMAIN Attributes /\ Attributes[inside[i]].key = key
                  /\ end = 0 \/ i < end}
  IN  IF found = {} THEN None
      ELSE Attributes[inside[CHOOSE i \in found : \A j \in found : i <= j]].value

-----------------------------------------------------------------------------
(* parse_manifest_com_classes *)

\* An operator named Bad... is the definition after it with a plausible
\* mistake; only mutation runs put it in place.
BadFileAfter(file, body) ==
  IF TagName(body) # "file" THEN file
  ELSE IF Closing(body) THEN None ELSE AttrValue(body, "name")
\* current_file after a tag.
FileAfter(file, body) ==
  IF TagName(body) # "file" THEN file
  ELSE IF Closing(body) \/ SelfClosing(body) THEN None ELSE AttrValue(body, "name")

\* The classes a tag declares, in the scope of a file: one or none.
Declared(file, body) ==
  IF TagName(body) = "comClass" /\ ~Closing(body) /\ AttrValue(body, "clsid") # None
    THEN <<[clsid |-> AttrValue(body, "clsid"), progid |-> AttrValue(body, "progid"),
            server_dll |-> file]>>
  ELSE <<>>

\* The state of the loop before each "<" that the iterator stops at.
ParseManifestComClasses(text) ==
  LET from[i \in 1..Len(text) + 1] ==
        \* the loop from place i on: a function of the current file
        [file \in {None} \cup {Attributes[a].value : a \in DOMAIN Attributes} |->
           LET open == Find(text, {"<"}, i)
               close == Close(text, open)
               body == SubSeq(text, open + 1, close - 1)
           IN  IF open = 0 \/ close = 0 THEN <<>>
               ELSE IF ~IsTag(body) THEN from[close + 1][file]
               ELSE Declared(file, body) \o from[close + 1][FileAfter(file, body)]]
  IN  from[1][None]

-----------------------------------------------------------------------------
(* What a manifest says: a sequence of items, each with a kind:             *)
(*   "file"     a <file> with the piece of its name and its classes; loose  *)
(*              if an attribute with a ">" comes before the name; open      *)
(*              unless it is written as one tag, and so has no classes      *)
(*   "class"    a class outside of every file                               *)
(*   "comment"  a file that is commented out                                *)
(*   "prolog"   an <?xml ...?> or a <!DOCTYPE ...>                          *)

OfKey(key) == {a \in DOMAIN Attributes : Attributes[a].key = key}
ClassDecl == [clsid : OfKey("clsid"), progid : OfKey("progid") \cup {None}]
FileDecl == [name : OfKey("name"), loose : BOOLEAN, open : BOOLEAN, classes : Seq(ClassDecl)]
ItemDecl == [kind : {"file", "comment"}, file : FileDecl] \cup [kind : {"class"}, class : ClassDecl]
          \cup [kind : {"prolog"}, mark : {"?", "!"}]

WrittenClass(c) ==
  <<"<", "comClass", c.clsid>> \o (IF c.progid = None THEN <<>> ELSE <<c.progid>>) \o <<"/", ">">>
WrittenFile(f) ==
  <<"<", "file">> \o (IF f.loose THEN <<Loose, ">">> ELSE <<>>) \o <<f.name>>
    \o (IF f.open
          THEN <<">">> \o FlattenSeq([n \in DOMAIN f.classes |-> WrittenClass(f.classes[n])])
                 \o <<"<", "/", "file", ">">>
        ELSE <<"/", ">">>)
WrittenItem(x) ==
  IF x.kind = "file" THEN WrittenFile(x.file)
  ELSE IF x.kind = "class" THEN WrittenClass(x.class)
  ELSE IF x.kind = "comment" THEN <<"<", "!--">> \o WrittenFile(x.file) \o <<"-->">>
  ELSE <<"<", x.mark, ">">>
Written(items) == FlattenSeq([n \in DOMAIN items |-> WrittenItem(items[n])])

\* The declarations of a manifest: a place <<item, class>> for each.
Declarations(items) ==
  {<<i, 0>> : i \in {j \in DOMAIN items : items[j].kind = "class"}}
    \cup UNION {{<<i, k>> : k \in DOMAIN items[i].file.classes} :
                 i \in {j \in DOMAIN items : items[j].kind = "file" /\ items[j].file.open}}
DeclaredClass(items, place) ==
  IF place[2] = 0 THEN items[place[1]].class ELSE items[place[1]].file.classes[place[2]]
DeclaredServer(items, place) ==
  IF place[2] = 0 THEN None ELSE Attributes[items[place[1]].file.name].value
=============================================================================
