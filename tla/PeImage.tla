------------------------------ MODULE PeImage ------------------------------
(***************************************************************************)
(* The PE reader (src/pe.rs): the layout of an image, its direct imports   *)
(* and its embedded manifest.                                              *)
(*                                                                         *)
(* An image is a record: the fields of its headers, the sections in the    *)
(* order of the section table, the size of the file in bytes and the       *)
(* 32-bit words in it that are not zero, by file offset.  Everything that  *)
(* is read by offset is aligned to words.  A C string is the word it       *)
(* starts with, and zero is the empty string; the two counts of a resource *)
(* directory, which the code only adds up, are one word.  The u32 values   *)
(* are narrowed to 0..MaxU32, so that their overflow is within reach.      *)
(***************************************************************************)
EXTENDS Integers, Sequences, FiniteSets

CONSTANTS
  MaxU32,     \* u32::MAX
  Lowercase,  \* the valid strings: from the word one starts with to its name in lower case
  NoOffset    \* Option::None, for an offset

RT_MANIFEST == 24
MachineNames == {"x64", "x86", "unknown"}
Least(S) == CHOOSE x \in S : \A y \in S : x <= y

-----------------------------------------------------------------------------
(* parse_pe_layout *)

\* What the provers have to know of an image: the types of its fields.
IsU32(n) == n \in 0..MaxU32
SectionHeader == [va : 0..MaxU32, vsize : 0..MaxU32, raw_ptr : 0..MaxU32, raw_size : 0..MaxU32]
ImageTyped(img) ==
  /\ img.size \in Nat /\ IsU32(img.import_rva)
  /\ img.sections \in Seq(SectionHeader)
  /\ \A off \in DOMAIN img.word : IsU32(img.word[off])

\* Where the data directories start in the optional header, by its magic.
DataDirStart == [pe32 |-> 96, pe32plus |-> 112]
HeadersEnd(img) == img.pe_offset + 24 + img.size_of_optional_header

\* parse_pe_layout succeeds.
LayoutOk(img) ==
  /\ img.size >= 64 /\ img.mz
  /\ img.pe_offset + 24 <= img.size /\ img.signature
  /\ HeadersEnd(img) <= img.size
  /\ img.size_of_optional_header >= 2
  /\ img.magic \in DOMAIN DataDirStart
  /\ DataDirStart[img.magic] + 16 <= img.size_of_optional_header
  /\ HeadersEnd(img) + 40 * Len(img.sections) <= img.size

\* The third data directory may be left out.
ResourceRva(img) ==
  IF DataDirStart[img.magic] + 24 <= img.size_of_optional_header THEN img.resource_rva ELSE 0

-----------------------------------------------------------------------------
(* Reading *)

Larger(a, b) == IF a >= b THEN a ELSE b
SaturatingAdd(a, b) == IF a + b > MaxU32 THEN MaxU32 ELSE a + b

\* An operator named Bad... is the definition after it with a plausible
\* mistake; only mutation runs put it in place.
BadHolds(s, rva) == s.va <= rva /\ rva < SaturatingAdd(s.va, s.vsize)
\* The range of a section that rva_to_offset compares with.
Holds(s, rva) == s.va <= rva /\ rva < SaturatingAdd(s.va, Larger(s.vsize, s.raw_size))

\* The file offset of an RVA: by the first section that holds it.
RvaToOffset(img, rva) ==
  LET holding == {i \in DOMAIN img.sections : Holds(img.sections[i], rva)}
      s == img.sections[Least(holding)]
  IN  IF holding = {} \/ s.raw_ptr + (rva - s.va) > MaxU32 THEN NoOffset
      ELSE s.raw_ptr + (rva - s.va)

\* The bytes are in the file; a read of others fails.
InFile(img, off, size) == off + size <= img.size
ReadU32(img, off) == IF off \in DOMAIN img.word THEN img.word[off] ELSE 0

\* A string that ends before the file does, and is UTF-8.
CString(img, off) == InFile(img, off, 1) /\ ReadU32(img, off) \in DOMAIN Lowercase

-----------------------------------------------------------------------------
(* direct_imports_from_bytes *)

\* The field of an import descriptor that names the dll.
NameField == 12
NullDescriptor(img, off) == \A field \in {0, 4, 8, NameField, 16} : ReadU32(img, off + field) = 0

\* What the loop over descriptors meets, from the one at off: those before the
\* null one, if that is in the file.
DescriptorTable(img, off) ==
  LET ends == {k \in 0..(img.size \div 20) :
                 ~InFile(img, off + 20 * k, 20) \/ NullDescriptor(img, off + 20 * k)}
  IN  [last |-> off + 20 * Least(ends), offsets |-> {off + 20 * k : k \in 0..Least(ends) - 1}]

ParseError == [ok |-> FALSE, names |-> {}]
NoImports == [ok |-> TRUE, names |-> {}]

\* The imports are a set, of which the caller takes the members in order.
DirectImports(img) ==
  LET table == DescriptorTable(img, RvaToOffset(img, img.import_rva))
      NameOff(off) == RvaToOffset(img, ReadU32(img, off + NameField))
  IN  IF ~LayoutOk(img) THEN ParseError
      ELSE IF img.import_rva = 0 THEN NoImports
      ELSE IF \/ RvaToOffset(img, img.import_rva) = NoOffset
              \/ ~InFile(img, table.last, 20)
              \/ \E off \in table.offsets : NameOff(off) = NoOffset \/ ~CString(img, NameOff(off))
        THEN ParseError
      ELSE [ok |-> TRUE,
            names |-> {Lowercase[ReadU32(img, NameOff(off))] : off \in table.offsets}]

\* machine_type_from_bytes
MachineType(img) == IF LayoutOk(img) THEN img.machine ELSE "malformed"

-----------------------------------------------------------------------------
(* extract_embedded_manifest_from_bytes *)

LowBits(word) == word % ((MaxU32 + 1) \div 2)

\* find_resource_entry: the target of the entry with an id, or of the first
\* entry; the high bit of the target tells a subdirectory and is cut off.
BadFindResourceEntry(img, rsrc, dir, wanted) ==
  LET total == ReadU32(img, dir + 12)
      matching == {i \in 0..total - 1 : InFile(img, dir + 16 + 8 * i, 8)}
  IN  IF ~InFile(img, dir, 16) \/ matching = {} THEN NoOffset
      ELSE rsrc + LowBits(ReadU32(img, dir + 16 + 8 * Least(matching) + 4))
FindResourceEntry(img, rsrc, dir, wanted) ==
  LET total == ReadU32(img, dir + 12)
      matching == {i \in 0..total - 1 :
                     /\ InFile(img, dir + 16 + 8 * i, 8)
                     /\ ReadU32(img, dir + 16 + 8 * i) \in wanted}
  IN  IF ~InFile(img, dir, 16) \/ matching = {} THEN NoOffset
      ELSE rsrc + LowBits(ReadU32(img, dir + 16 + 8 * Least(matching) + 4))

\* The word that the manifest's payload starts with, or NoOffset: types, then
\* names, then languages, of which the first is taken.
EmbeddedManifest(img) ==
  LET rsrc == RvaToOffset(img, ResourceRva(img))
      Entry(dir, wanted) == IF dir = NoOffset THEN NoOffset
                            ELSE FindResourceEntry(img, rsrc, dir, wanted)
      Leaf == Entry(Entry(Entry(rsrc, {RT_MANIFEST}), 0..MaxU32), 0..MaxU32)
      Payload == RvaToOffset(img, ReadU32(img, Leaf))
  IN  IF ~LayoutOk(img) THEN NoOffset
      ELSE IF ResourceRva(img) = 0 THEN NoOffset
      ELSE IF Leaf = NoOffset THEN NoOffset
      ELSE IF ~InFile(img, Leaf, 8) \/ Payload = NoOffset THEN NoOffset
      ELSE IF ~InFile(img, Payload, ReadU32(img, Leaf + 4)) THEN NoOffset
      ELSE ReadU32(img, Payload)

-----------------------------------------------------------------------------
(* What the Windows loader sees: it maps each section at its address, fills *)
(* what the file does not hold with zeros, and reads by RVA.                *)

MappedSize(s) == IF s.vsize = 0 THEN s.raw_size ELSE s.vsize
Mapped(img, rva) == {i \in DOMAIN img.sections :
                       LET s == img.sections[i]
                       IN  s.va <= rva /\ rva < s.va + MappedSize(s)}
MappedU32(img, rva) ==
  LET s == img.sections[CHOOSE i \in Mapped(img, rva) : TRUE]
  IN  IF Mapped(img, rva) # {} /\ rva - s.va < s.raw_size
        THEN ReadU32(img, s.raw_ptr + (rva - s.va)) ELSE 0

\* The descriptors of the mapped image, up to the null one.
MappedDescriptors(img) ==
  LET IsNull(k) == \A field \in {0, 4, 8, NameField, 16} :
                     MappedU32(img, img.import_rva + 20 * k + field) = 0
      end == Least({k \in 0..(MaxU32 \div 20) + 1 : IsNull(k)})
  IN  {img.import_rva + 20 * k : k \in 0..end - 1}
LoaderImports(img) ==
  IF img.import_rva = 0 THEN {}
  ELSE {Lowercase[MappedU32(img, MappedU32(img, rva + NameField))] : rva \in MappedDescriptors(img)}

\* Bytes that both the file and the mapped image have.
Backed(img, rva, size) ==
  \E i \in DOMAIN img.sections :
    LET s == img.sections[i]
    IN  /\ s.va <= rva
        /\ rva + size <= s.va + s.raw_size
        /\ rva + size <= s.va + MappedSize(s)

\* The sections keep apart, lie in the file, as far as a u32 reaches, and in
\* the address space.
SectionsApart(img) ==
  \A i \in DOMAIN img.sections :
    LET s == img.sections[i]
    IN  /\ s.raw_ptr + s.raw_size <= img.size /\ s.raw_ptr + s.raw_size <= MaxU32
        /\ s.va + Larger(s.vsize, s.raw_size) <= MaxU32
        /\ \A j \in DOMAIN img.sections \ {i} :
             \/ s.va + Larger(s.vsize, s.raw_size) <= img.sections[j].va
             \/ img.sections[j].va + Larger(img.sections[j].vsize, img.sections[j].raw_size) <= s.va

\* An image that the loader takes: its import table and names lie in sections.
Loadable(img) ==
  /\ LayoutOk(img) /\ SectionsApart(img)
  /\ img.import_rva # 0 =>
       LET table == MappedDescriptors(img)
       IN  /\ Backed(img, img.import_rva, 20 * (Cardinality(table) + 1))
           /\ \A rva \in table :
                LET name == MappedU32(img, rva + NameField)
                IN  Backed(img, name, 4) /\ MappedU32(img, name) \in DOMAIN Lowercase

\* The resource tree: offsets in it count from its start.
TreeU32(img, off) == MappedU32(img, ResourceRva(img) + off)
Below(img, dir, ids) ==
  {LowBits(TreeU32(img, dir + 16 + 8 * i + 4)) :
     i \in {j \in 0..TreeU32(img, dir + 12) - 1 : TreeU32(img, dir + 16 + 8 * j) \in ids}}
NameDirs(img) == Below(img, 0, {RT_MANIFEST})
LanguageDirs(img) == UNION {Below(img, dir, 0..MaxU32) : dir \in NameDirs(img)}
DataEntries(img) == UNION {Below(img, dir, 0..MaxU32) : dir \in LanguageDirs(img)}

\* The word that the manifest in the mapped image starts with, or NoOffset.
LoaderManifest(img) ==
  IF ResourceRva(img) = 0 \/ DataEntries(img) = {} THEN NoOffset
  ELSE MappedU32(img, TreeU32(img, CHOOSE e \in DataEntries(img) : TRUE))

\* An image whose resource tree lies in a section, as long as its header says,
\* and has at most one manifest.
IntactResources(img) ==
  /\ LayoutOk(img) /\ SectionsApart(img)
  /\ ResourceRva(img) # 0 =>
       /\ Backed(img, ResourceRva(img), img.resource_size)
       /\ \A dir \in {0} \cup NameDirs(img) \cup LanguageDirs(img) :
            dir + 16 + 8 * TreeU32(img, dir + 12) <= img.resource_size
       /\ \A level \in {NameDirs(img), LanguageDirs(img), DataEntries(img)} :
            \A x, y \in level : x = y
       /\ \A e \in DataEntries(img) :
            /\ e + 8 <= img.resource_size
            /\ TreeU32(img, e + 4) >= 4 /\ Backed(img, TreeU32(img, e), TreeU32(img, e + 4))
=============================================================================
