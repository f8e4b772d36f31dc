------------------------------ MODULE ComAudit ------------------------------
(***************************************************************************)
(* ComCommand with the files an audit reads: the target image, through the *)
(* PE reader (PeImage), and the manifest in it or beside it, through the   *)
(* scanner (ManifestText).  ComCommand lets a file system answer anything; *)
(* here the answers about the target and its manifest are what pe.rs and   *)
(* manifest.rs get out of these files.  The other commands are as they are *)
(* in ComCommand.                                                          *)
(*                                                                         *)
(* A manifest is a record: what it says (items), and its encoding.  The    *)
(* word that the payload of a resource starts with is a manifest's number. *)
(***************************************************************************)
EXTENDS ComCommand

CONSTANTS
  MaxU32, Attributes, Loose,  \* of PeImage and ManifestText
  Manifests,                  \* a sequence
  Unreadable,                 \* a manifest that is there and cannot be read
  Images,                     \* target images
  Absolute,                   \* the dll names with a drive or a leading backslash
  Queried                     \* the CLSID and the ProgID that are asked for

VARIABLES
  image,    \* the target
  sidecar,  \* the number of the manifest beside it, 0, or Unreadable
  query,    \* query_kind
  hit       \* the ManifestHit, or None

files == <<image, sidecar, query>>
auditvars == <<vars, files, hit>>

Pe == INSTANCE PeImage WITH Lowercase <- <<>>, NoOffset <- None
INSTANCE ManifestText

Marks == TagEnds \cup {"<", "!--", "?", "!", "/", "comClass", "file"}
Pieces == Marks \cup DOMAIN Attributes \cup {Loose}
Values == {Attributes[a].value : a \in DOMAIN Attributes}
Servers == {<<>>} \cup {<<dll>> : dll \in Values} \cup {<<"target directory", dll>> : dll \in Values}

\* An attribute is no mark, and None is nothing else.
ASSUME ManifestsAssumption ==
  /\ Manifests \in Seq([encoding : {"utf8", "utf16"}, items : Seq(ItemDecl)])
  /\ Marks \cap (DOMAIN Attributes \cup {Loose}) = {} /\ Loose \notin DOMAIN Attributes
  /\ None \notin DOMAIN Attributes \cup Values /\ None \notin Servers /\ None # Queried.progid
  /\ None \notin Seq(Pieces)
  /\ None \notin [source : {"embedded", "sidecar"}, server : Servers]

\* The manifest in an image is one of the manifests.
ASSUME ImagesAssumption ==
  /\ MaxU32 \in Nat \ {0}
  /\ \A img \in Images :
       /\ Pe!ImageTyped(img) /\ Pe!IsU32(img.resource_rva) /\ img.resource_size \in Nat
       /\ Pe!IntactResources(img) /\ Pe!LoaderManifest(img) # None =>
            Pe!LoaderManifest(img) \in DOMAIN Manifests

-----------------------------------------------------------------------------

\* The text of a manifest as it is scanned.  decode_manifest_text takes a
\* resource in either encoding; a sidecar is read as UTF-8 whatever it is, and
\* UTF-16 has no tags then.
EmbeddedText(m) == Written(m.items)
SidecarText(m) == IF m.encoding = "utf8" THEN Written(m.items) ELSE <<>>

\* extract_embedded_manifest: a text, or None.
Embedded ==
  LET word == Pe!EmbeddedManifest(image)
  IN  IF word = None THEN None
      ELSE IF word \in DOMAIN Manifests THEN EmbeddedText(Manifests[word]) ELSE <<>>

\* The text manifest_hit scans, or None: an embedded manifest hides a sidecar.
Xml ==
  IF Embedded # None THEN Embedded
  ELSE IF sidecar \in DOMAIN Manifests THEN SidecarText(Manifests[sidecar]) ELSE None

Matches(class) ==
  IF query = "clsid" THEN class.clsid = Queried.clsid ELSE class.progid = Queried.progid

\* A relative server is in the directory of the target.
ResolvedServer(dll) == IF dll \in Absolute THEN <<dll>> ELSE <<"target directory", dll>>

\* manifest_hit: the first class that matches.
ManifestHit ==
  LET classes == IF Xml = None THEN <<>> ELSE ParseManifestComClasses(Xml)
      found == SelectInSeq(classes, Matches)
  IN  IF found = 0 THEN None
      ELSE [source |-> IF Embedded # None THEN "embedded" ELSE "sidecar",
            server |-> IF classes[found].server_dll = None THEN <<>>
                       ELSE ResolvedServer(classes[found].server_dll)]

\* How a hit, or none, goes on in ComCommand.
ManifestOutcome(found) ==
  IF found # None THEN (IF found.server = <<>> THEN "no_server" ELSE "server")
  ELSE IF Embedded = None /\ sidecar = Unreadable THEN "unreadable" ELSE "none"

-----------------------------------------------------------------------------

AuditInit ==
  /\ Init
  /\ image \in IF cmd = "audit" THEN Images ELSE {None}
  /\ sidecar \in IF cmd = "audit" THEN {0, Unreadable} \cup DOMAIN Manifests ELSE {0}
  /\ query \in {"clsid", "progid"}
  /\ hit = None

\* The header can be read or not; what it says is in the image.
AuditHeader ==
  /\ TargetHeader
  /\ seen'.target \in {"unreadable", Pe!MachineType(image)}
  /\ UNCHANGED <<files, hit>>

AuditManifest ==
  /\ pc = "manifest" /\ hit' = ManifestHit
  /\ Manifest
  /\ seen'.manifest = ManifestOutcome(hit')
  /\ UNCHANGED files

Elsewhere ==
  /\ \/ TargetExists
     \/ Lookup \/ Exists \/ Header \/ Walk
     \/ EnumerateClasses \/ ReadServers
     \/ Report
     \/ Done
  /\ UNCHANGED <<files, hit>>

AuditNext == AuditHeader \/ AuditManifest \/ Elsewhere

AuditSpec == AuditInit /\ [][AuditNext]_auditvars

-----------------------------------------------------------------------------
(* Properties *)

\* The declarations of the class that is asked for.
Asked(items) ==
  {place \in Declarations(items) :
     LET c == DeclaredClass(items, place)
         piece == IF query = "clsid" THEN c.clsid ELSE c.progid
     IN  piece # None
         /\ Attributes[piece].value = IF query = "clsid" THEN Queried.clsid ELSE Queried.progid}
FirstOf(places) ==
  CHOOSE x \in places :
    \A y \in places \ {x} : x[1] < y[1] \/ (x[1] = y[1] /\ x[2] < y[2])

\* What the manifest of the target says about the class, by its author: of its
\* declarations the first that matches, and the file around it.
Said(m) ==
  LET dll == DeclaredServer(m.items, FirstOf(Asked(m.items)))
  IN  IF Asked(m.items) = {} THEN None
      ELSE IF dll = None THEN <<>>
      ELSE IF dll \in Absolute THEN <<dll>> ELSE <<"target directory", dll>>

\* The number of the manifest that belongs to the target, or None.
Belongs == IF Pe!LoaderManifest(image) # None THEN Pe!LoaderManifest(image)
           ELSE IF sidecar \in DOMAIN Manifests THEN sidecar ELSE None

Heeded(m) == IF Said(m) = None THEN hit = None ELSE hit # None /\ hit.server = Said(m)

\* An audit takes from the manifest of a target, the one in an intact image or
\* else the one beside it, what its author said of the class: the first
\* declaration that matches, with the file it is in, whatever is commented out
\* or closed around it.  Not covered: a sidecar in UTF-16, and an attribute
\* value with a ">" in it.  Such a class is not looked up in the registry, and
\* its server is validated in-process for the machine of the target.
ManifestIsHeeded ==
  /\ hit # None /\ pc = "done" =>
       /\ lookup = None
       /\ hit.server # <<>> => kind = Inproc /\ expected = Pe!MachineType(image)
       /\ hit.server = <<>> => exit = 10
  /\ seen.manifest # None /\ Pe!IntactResources(image) =>
    IF Belongs = None THEN hit = None
    ELSE LET m == Manifests[Belongs]
             Odd == \/ Pe!LoaderManifest(image) = None /\ m.encoding # "utf8"
                    \/ \E i \in DOMAIN m.items : m.items[i].kind = "file" /\ m.items[i].file.loose
         IN  Odd \/ Heeded(m)

\* "If the target manifest declares the queried class, that declaration is the
\* primary source for the audit result": the documentation, of every manifest.
DeclarationIsPrimary ==
  seen.manifest # None /\ Pe!IntactResources(image) /\ Belongs # None =>
    (Said(Manifests[Belongs]) # None => hit # None)
=============================================================================
