-------------------------- MODULE ComCommandProofs --------------------------
(***************************************************************************)
(* What holds of the COM commands for every set of classes, and of an      *)
(* audit for every image and every manifest.  First come the files: the PE *)
(* reader finds the manifest that the loader sees, and the scanner finds   *)
(* the declaration that its author wrote first.  Then come the commands:   *)
(* the invariant IInv says which places of the control flow a command      *)
(* reaches and what the file system has answered there; exit codes follow  *)
(* from it.  AInv adds what an audit keeps of the manifest.                *)
(***************************************************************************)
EXTENDS ComAudit, WellFoundedInduction, TLAPS

\* A set of naturals that is not empty has a least member.
LEMMA LeastNatural ==
  ASSUME NEW T \in SUBSET Nat, T # {}
  PROVE  \E x \in T : \A y \in T : x <= y
  <1>. DEFINE R == {ss \in Nat \X Nat : ss[1] < ss[2]}
  <1>1. IsWellFoundedOn(R, Nat)
    BY NatLessThanWellFounded DEF OpToRel
  <1>. HIDE DEF R
  <1>2. PICK x \in T : \A y \in T : ~(<<y, x>> \in R)
    BY <1>1, WFMin
  <1>3. \A y \in T : ~(y < x)
    BY <1>2 DEF R
  <1>. QED
    BY <1>3

\* Induction over the naturals, for a set in the place of a predicate.
LEMMA NatSetInduction ==
  ASSUME NEW T, 0 \in T, \A n \in Nat : n \in T => n + 1 \in T
  PROVE  Nat \subseteq T
  <1>. SUFFICES ASSUME Nat \ T # {} PROVE FALSE
    OBVIOUS
  <1>1. PICK x \in Nat \ T : \A y \in Nat \ T : x <= y
    BY LeastNatural
  <1>2. x # 0 /\ x - 1 \in Nat /\ x - 1 \in T
    BY <1>1
  <1>3. (x - 1) + 1 \in T
    BY <1>2
  <1>. QED
    BY <1>3

-----------------------------------------------------------------------------
(* The PE reader finds the manifest that the loader sees                   *)

LEMMA MaxTyped == MaxU32 \in Nat /\ (MaxU32 + 1) \div 2 \in Nat \ {0}
<1>1. MaxU32 \in Nat \ {0}
  BY ImagesAssumption, Zenon
<1> QED
  BY <1>1

\* The section that backs some bytes is the only one at their address.
LEMMA BackedOnce ==
  ASSUME NEW img, Pe!ImageTyped(img), Pe!SectionsApart(img), NEW i \in DOMAIN img.sections,
         NEW s, s = img.sections[i], NEW rva \in Int,
         s.va <= rva, rva < s.va + s.raw_size, rva < s.va + Pe!MappedSize(s)
  PROVE  /\ Pe!RvaToOffset(img, rva) = s.raw_ptr + (rva - s.va)
         /\ Pe!MappedU32(img, rva) = Pe!ReadU32(img, s.raw_ptr + (rva - s.va))
  <1>. DEFINE sec == img.sections
              top(t) == t.va + Pe!Larger(t.vsize, t.raw_size)
  <1>1. MaxU32 \in Nat
    BY MaxTyped
  <1>2. /\ DOMAIN sec = 1..Len(sec) /\ Len(sec) \in Nat
        /\ \A j \in DOMAIN sec : /\ sec[j].va \in Nat /\ sec[j].vsize \in Nat
                                 /\ sec[j].raw_ptr \in Nat /\ sec[j].raw_size \in Nat
    <2>1. sec \in Seq(Pe!SectionHeader)
      BY DEF Pe!ImageTyped
    <2>2. ASSUME NEW x \in Pe!SectionHeader
          PROVE  x.va \in Nat /\ x.vsize \in Nat /\ x.raw_ptr \in Nat /\ x.raw_size \in Nat
      BY <1>1 DEF Pe!SectionHeader
    <2>. HIDE DEF sec
    <2>3. DOMAIN sec = 1..Len(sec) /\ Len(sec) \in Nat /\ \A j \in DOMAIN sec : sec[j] \in Pe!SectionHeader
      BY <2>1
    <2>. QED
      BY <2>2, <2>3
  <1>3. /\ sec[i].raw_ptr + sec[i].raw_size <= MaxU32
        /\ \A j \in DOMAIN sec : top(sec[j]) <= MaxU32
        /\ \A j \in DOMAIN sec \ {i} : top(sec[i]) <= sec[j].va \/ top(sec[j]) <= sec[i].va
    BY DEF Pe!SectionsApart
  <1>4. \A j \in DOMAIN sec : /\ top(sec[j]) \in Nat
                              /\ sec[j].va + sec[j].raw_size <= top(sec[j])
                              /\ sec[j].va + Pe!MappedSize(sec[j]) <= top(sec[j])
    <2>. HIDE DEF sec
    <2>. SUFFICES ASSUME NEW j \in DOMAIN sec
                  PROVE  /\ top(sec[j]) \in Nat
                         /\ sec[j].va + sec[j].raw_size <= top(sec[j])
                         /\ sec[j].va + Pe!MappedSize(sec[j]) <= top(sec[j])
      OBVIOUS
    <2>. DEFINE x == sec[j]
    <2>1. x.va \in Nat /\ x.vsize \in Nat /\ x.raw_size \in Nat
      BY <1>2
    <2>. HIDE DEF x
    <2>2. top(x) \in Nat /\ x.va + x.raw_size <= top(x) /\ x.va + Pe!MappedSize(x) <= top(x)
      BY <2>1 DEF Pe!Larger, Pe!MappedSize
    <2>. QED
      BY <2>2 DEF x
  <1>5. \A j \in DOMAIN sec : Pe!Holds(sec[j], rva) <=> sec[j].va <= rva /\ rva < top(sec[j])
    <2>. SUFFICES ASSUME NEW j \in DOMAIN sec
                  PROVE  Pe!Holds(sec[j], rva) <=> sec[j].va <= rva /\ rva < top(sec[j])
      OBVIOUS
    <2>1. top(sec[j]) <= MaxU32 /\ top(sec[j]) \in Nat
      BY <1>3, <1>4
    <2>2. Pe!SaturatingAdd(sec[j].va, Pe!Larger(sec[j].vsize, sec[j].raw_size)) = top(sec[j])
      <3>. DEFINE a == sec[j].va
                  b == Pe!Larger(sec[j].vsize, sec[j].raw_size)
      <3>1. ~(a + b > MaxU32)
        BY <1>1, <2>1
      <3>. QED
        BY <3>1 DEF Pe!SaturatingAdd
    <2>. QED
      BY <2>2 DEF Pe!Holds
  <1>. HIDE DEF top, sec
  <1>6. s = sec[i] /\ i \in DOMAIN sec /\ rva < top(sec[i])
    BY <1>2, <1>4 DEF sec
  <1>7. \A j \in DOMAIN sec : (sec[j].va <= rva /\ rva < top(sec[j])) => j = i
    <2>. SUFFICES ASSUME NEW j \in DOMAIN sec \ {i}, sec[j].va <= rva, rva < top(sec[j])
                  PROVE  FALSE
      OBVIOUS
    <2>1. top(sec[i]) <= sec[j].va \/ top(sec[j]) <= sec[i].va
      BY <1>3
    <2>2. top(sec[i]) \in Nat /\ top(sec[j]) \in Nat /\ sec[i].va \in Nat /\ sec[j].va \in Nat
      BY <1>2, <1>4, <1>6
    <2>. QED
      BY <1>6, <2>1, <2>2
  <1>8. {j \in DOMAIN sec : Pe!Holds(sec[j], rva)} = {i}
    BY <1>5, <1>6, <1>7
  <1>9. Pe!Mapped(img, rva) = {i}
    <2>1. \A j \in DOMAIN sec : (sec[j].va <= rva /\ rva < sec[j].va + Pe!MappedSize(sec[j])) <=> j = i
      <3>. SUFFICES ASSUME NEW j \in DOMAIN sec
                    PROVE  (sec[j].va <= rva /\ rva < sec[j].va + Pe!MappedSize(sec[j])) <=> j = i
        OBVIOUS
      <3>1. CASE j = i
        BY <1>6, <3>1
      <3>2. CASE j # i
        <4>1. ~(sec[j].va <= rva /\ rva < top(sec[j]))
          BY <1>7, <3>2
        <4>2. /\ top(sec[j]) \in Nat /\ sec[j].va + Pe!MappedSize(sec[j]) <= top(sec[j])
              /\ sec[j].va + Pe!MappedSize(sec[j]) \in Nat
          BY <1>2, <1>4 DEF Pe!MappedSize
        <4>. QED
          BY <3>2, <4>1, <4>2
      <3>. QED
        BY <3>1, <3>2
    <2>. QED
      BY <1>6, <2>1 DEF Pe!Mapped, sec
  <1>10. rva - s.va < s.raw_size /\ ~(s.raw_ptr + (rva - s.va) > MaxU32)
    BY <1>1, <1>2, <1>3, <1>6
  <1>11. Pe!Least({i}) = i
    BY <1>2, <1>6 DEF Pe!Least
  <1>12. Pe!RvaToOffset(img, rva) = s.raw_ptr + (rva - s.va)
    BY <1>6, <1>8, <1>10, <1>11 DEF Pe!RvaToOffset, sec
  <1>13. Pe!MappedU32(img, rva) = Pe!ReadU32(img, s.raw_ptr + (rva - s.va))
    BY <1>6, <1>9, <1>10 DEF Pe!MappedU32, sec
  <1>. QED
    BY <1>12, <1>13

LEMMA LeastPlace ==
  ASSUME NEW S \in SUBSET Nat, S # {}
  PROVE  Pe!Least(S) \in S /\ \A x \in S : Pe!Least(S) <= x
  <1>1. \E x \in S : \A y \in S : x <= y
    BY LeastNatural
  <1>. QED
    BY <1>1 DEF Pe!Least

\* Bytes that are backed: where the code reads them is where the loader does.
LEMMA BackedFacts ==
  ASSUME NEW img, Pe!ImageTyped(img), Pe!SectionsApart(img), NEW rva \in Nat, NEW size \in Nat \ {0},
         Pe!Backed(img, rva, size)
  PROVE  \E off \in Nat :
           /\ Pe!RvaToOffset(img, rva) = off /\ off + size <= img.size
           /\ \A x \in 0..size - 1 : Pe!MappedU32(img, rva + x) = Pe!ReadU32(img, off + x)
  <1>. DEFINE sec == img.sections
  <1>1. PICK i \in DOMAIN sec : /\ sec[i].va <= rva
                                /\ rva + size <= sec[i].va + sec[i].raw_size
                                /\ rva + size <= sec[i].va + Pe!MappedSize(sec[i])
    BY DEF Pe!Backed
  <1>. DEFINE s == sec[i]
              off == s.raw_ptr + (rva - s.va)
  <1>2. MaxU32 \in Nat /\ img.size \in Nat
    BY MaxTyped DEF Pe!ImageTyped
  <1>3. s.va \in Nat /\ s.vsize \in Nat /\ s.raw_ptr \in Nat /\ s.raw_size \in Nat
    <2>1. s \in Pe!SectionHeader
      BY DEF Pe!ImageTyped
    <2>. HIDE DEF s
    <2>. QED
      BY <1>2, <2>1 DEF Pe!SectionHeader
  <1>4. s.raw_ptr + s.raw_size <= img.size
    BY DEF Pe!SectionsApart
  <1>5. s.va <= rva /\ rva + size <= s.va + s.raw_size /\ rva + size <= s.va + Pe!MappedSize(s)
    BY <1>1
  <1>6. s = img.sections[i] /\ i \in DOMAIN img.sections
    OBVIOUS
  <1>. HIDE DEF s, sec
  <1>7. off \in Nat /\ off + size <= img.size
    BY <1>2, <1>3, <1>4, <1>5
  <1>8. Pe!MappedSize(s) \in Nat
    BY <1>3 DEF Pe!MappedSize
  <1>9. ASSUME NEW x \in 0..size - 1
        PROVE  /\ Pe!RvaToOffset(img, rva + x) = off + x
               /\ Pe!MappedU32(img, rva + x) = Pe!ReadU32(img, off + x)
    <2>. DEFINE a == rva + x
    <2>1. a \in Int /\ s.va <= a /\ a < s.va + s.raw_size /\ a < s.va + Pe!MappedSize(s)
      BY <1>3, <1>5, <1>8
    <2>2. s.raw_ptr + (a - s.va) = off + x
      BY <1>3
    <2>. HIDE DEF a, off
    <2>3. /\ Pe!RvaToOffset(img, a) = s.raw_ptr + (a - s.va)
          /\ Pe!MappedU32(img, a) = Pe!ReadU32(img, s.raw_ptr + (a - s.va))
      BY <1>6, <2>1, BackedOnce
    <2>. QED
      BY <2>2, <2>3 DEF a
  <1>. HIDE DEF off
  <1>10. 0 \in 0..size - 1 /\ rva + 0 = rva /\ off + 0 = off
    BY <1>7
  <1>11. Pe!RvaToOffset(img, rva) = off
    BY <1>9, <1>10
  <1>. QED
    BY <1>7, <1>9, <1>11

\* What the reader finds below a directory, with the tree at d in the file, is
\* what the loader finds.
EntryAsLoader(img, d, dir, ids) ==
  /\ Pe!Below(img, dir, ids) \subseteq Nat
  /\ Pe!Below(img, dir, ids) = {} => Pe!FindResourceEntry(img, d, d + dir, ids) = None
  /\ \A b \in Pe!Below(img, dir, ids) : Pe!FindResourceEntry(img, d, d + dir, ids) = d + b

\* A directory of the tree, where the file has it: the entry that is looked
\* for is the one that the loader finds.
LEMMA EntryRead ==
  ASSUME NEW img, Pe!ImageTyped(img), NEW d \in Nat, NEW size \in Nat, d + size <= img.size,
         \A x \in 0..(size - 1) : Pe!TreeU32(img, x) = Pe!ReadU32(img, d + x),
         NEW dir \in Nat, dir + 16 + 8 * Pe!TreeU32(img, dir + 12) <= size, NEW ids,
         \A x, y \in Pe!Below(img, dir, ids) : x = y
  PROVE  EntryAsLoader(img, d, dir, ids)
<1>. DEFINE tree(x) == Pe!TreeU32(img, x)
            total == tree(dir + 12)
            read == Pe!ReadU32(img, d + dir + 12)
            below == {i \in 0..total - 1 : tree(dir + 16 + 8 * i) \in ids}
            matching == {i \in 0..read - 1 :
                           /\ Pe!InFile(img, d + dir + 16 + 8 * i, 8)
                           /\ Pe!ReadU32(img, d + dir + 16 + 8 * i) \in ids}
            Target(i) == Pe!LowBits(tree(dir + 16 + 8 * i + 4))
<1>1. img.size \in Nat /\ \A off : Pe!ReadU32(img, off) \in Nat
  BY MaxTyped DEF Pe!ImageTyped, Pe!ReadU32, Pe!IsU32
<1>2. \A x : tree(x) \in Nat
  BY <1>1 DEF Pe!TreeU32, Pe!MappedU32
<1>3. Pe!FindResourceEntry(img, d, d + dir, ids) =
        IF ~Pe!InFile(img, d + dir, 16) \/ matching = {} THEN None
        ELSE d + Pe!LowBits(Pe!ReadU32(img, d + dir + 16 + 8 * Pe!Least(matching) + 4))
  BY Zenon DEF Pe!FindResourceEntry
<1>4. Pe!Below(img, dir, ids) = {Target(i) : i \in below}
  BY Zenon DEF Pe!Below
<1>5. \A x \in 0..(size - 1) : tree(x) = Pe!ReadU32(img, d + x)
  OBVIOUS
<1>6. dir + 16 + 8 * total <= size /\ total \in Nat
  BY <1>2
<1>. HIDE DEF tree
<1>7. read = total
  <2>1. dir + 12 \in 0..(size - 1) /\ d + (dir + 12) = d + dir + 12
    BY <1>6
  <2> QED
    BY <1>5, <2>1
<1>. HIDE DEF read, total
<1>8. ASSUME NEW i \in 0..total - 1
      PROVE  /\ Pe!InFile(img, d + dir + 16 + 8 * i, 8)
             /\ Pe!ReadU32(img, d + dir + 16 + 8 * i) = tree(dir + 16 + 8 * i)
             /\ Pe!ReadU32(img, d + dir + 16 + 8 * i + 4) = tree(dir + 16 + 8 * i + 4)
  <2>1. /\ dir + 16 + 8 * i \in 0..(size - 1) /\ d + (dir + 16 + 8 * i) = d + dir + 16 + 8 * i
        /\ dir + 16 + 8 * i + 4 \in 0..(size - 1) /\ d + (dir + 16 + 8 * i + 4) = d + dir + 16 + 8 * i + 4
        /\ d + dir + 16 + 8 * i + 8 <= d + size
    BY <1>6
  <2>2. d + dir + 16 + 8 * i + 8 <= img.size
    BY <1>1, <1>6, <2>1
  <2>3. Pe!InFile(img, d + dir + 16 + 8 * i, 8)
    BY <2>2, Zenon DEF Pe!InFile
  <2>4. /\ Pe!ReadU32(img, d + dir + 16 + 8 * i) = tree(dir + 16 + 8 * i)
        /\ Pe!ReadU32(img, d + dir + 16 + 8 * i + 4) = tree(dir + 16 + 8 * i + 4)
    BY <1>5, <2>1
  <2> QED
    BY <2>3, <2>4
<1>9. Pe!InFile(img, d + dir, 16)
  <2>1. d + dir + 16 <= img.size
    BY <1>1, <1>6
  <2> QED
    BY <2>1, Zenon DEF Pe!InFile
<1>10. matching = below
  BY <1>7, <1>8
<1>. HIDE DEF matching
<1>11. below \in SUBSET Nat
  BY <1>6
<1>12. \A i : Target(i) \in Nat
  BY <1>2, MaxTyped DEF Pe!LowBits
<1>13. Pe!Below(img, dir, ids) \subseteq Nat
  BY <1>4, <1>12
<1>14. ASSUME Pe!Below(img, dir, ids) = {} PROVE Pe!FindResourceEntry(img, d, d + dir, ids) = None
  <2>1. below = {}
    BY <1>4, <1>14
  <2> QED
    BY <1>3, <1>10, <2>1, Zenon
<1>15. ASSUME NEW b \in Pe!Below(img, dir, ids)
       PROVE  Pe!FindResourceEntry(img, d, d + dir, ids) = d + b
  <2>1. below # {}
    BY <1>4
  <2>. DEFINE i == Pe!Least(below)
  <2>2. i \in below
    BY <1>11, <2>1, LeastPlace
  <2>3. Pe!FindResourceEntry(img, d, d + dir, ids)
          = d + Pe!LowBits(Pe!ReadU32(img, d + dir + 16 + 8 * i + 4))
    BY <1>3, <1>9, <1>10, <2>1, Zenon
  <2>. HIDE DEF i
  <2>4. i \in 0..total - 1
    BY <2>2
  <2>5. Pe!ReadU32(img, d + dir + 16 + 8 * i + 4) = tree(dir + 16 + 8 * i + 4)
    BY <1>8, <2>4
  <2>6. Target(i) = b
    <3>1. Target(i) \in Pe!Below(img, dir, ids)
      BY <1>4, <2>2
    <3> QED
      BY <3>1
  <2> QED
    BY <2>3, <2>5, <2>6, Zenon
<1> QED
  BY <1>13, <1>14, <1>15 DEF EntryAsLoader

\* In an image with intact resources the reader takes the manifest that the
\* loader takes, and none where the loader has none.
LEMMA ManifestRead ==
  ASSUME NEW img \in Images, Pe!IntactResources(img)
  PROVE  Pe!EmbeddedManifest(img) = Pe!LoaderManifest(img)
<1>. DEFINE R == Pe!ResourceRva(img)
            rsrc == Pe!RvaToOffset(img, R)
            Entry(dir, wanted) == IF dir = None THEN None
                                  ELSE Pe!FindResourceEntry(img, rsrc, dir, wanted)
            all == 0..MaxU32
            names == Entry(rsrc, {24})
            languages == Entry(names, all)
            leaf == Entry(languages, all)
            payload == Pe!RvaToOffset(img, Pe!ReadU32(img, leaf))
            size == img.resource_size
<1>1. /\ Pe!ImageTyped(img) /\ Pe!IsU32(img.resource_rva) /\ size \in Nat
      /\ Pe!LayoutOk(img) /\ Pe!SectionsApart(img)
  BY ImagesAssumption DEF Pe!IntactResources
<1>2. Pe!EmbeddedManifest(img) =
        IF ~Pe!LayoutOk(img) THEN None
        ELSE IF R = 0 THEN None
        ELSE IF leaf = None THEN None
        ELSE IF ~Pe!InFile(img, leaf, 8) \/ payload = None THEN None
        ELSE IF ~Pe!InFile(img, payload, Pe!ReadU32(img, leaf + 4)) THEN None
        ELSE Pe!ReadU32(img, payload)
  BY Zenon DEF Pe!EmbeddedManifest, Pe!RT_MANIFEST
<1>3. Pe!LoaderManifest(img) =
        IF R = 0 \/ Pe!DataEntries(img) = {} THEN None
        ELSE Pe!MappedU32(img, Pe!TreeU32(img, CHOOSE e \in Pe!DataEntries(img) : TRUE))
  BY Zenon DEF Pe!LoaderManifest
<1>4. CASE R = 0
  BY <1>2, <1>3, <1>4, Zenon
<1>5. CASE R # 0
  <2>. DEFINE N == Pe!NameDirs(img)
              G == Pe!LanguageDirs(img)
              E == Pe!DataEntries(img)
              tree(x) == Pe!TreeU32(img, x)
  <2>1. /\ Pe!Backed(img, R, size)
        /\ \A dir \in {0} \cup N \cup G : dir + 16 + 8 * tree(dir + 12) <= size
        /\ \A x, y \in N : x = y
        /\ \A x, y \in G : x = y
        /\ \A x, y \in E : x = y
        /\ \A e \in E : /\ e + 8 <= size
                        /\ tree(e + 4) >= 4 /\ Pe!Backed(img, tree(e), tree(e + 4))
    BY <1>5 DEF Pe!IntactResources
  <2>2. /\ N = Pe!Below(img, 0, {24})
        /\ G = UNION {Pe!Below(img, dir, all) : dir \in N}
        /\ E = UNION {Pe!Below(img, dir, all) : dir \in G}
    BY Zenon DEF Pe!NameDirs, Pe!LanguageDirs, Pe!DataEntries, Pe!RT_MANIFEST
  <2>3. \A x : tree(x) \in Nat
    BY <1>1, MaxTyped DEF Pe!TreeU32, Pe!MappedU32, Pe!ImageTyped, Pe!ReadU32, Pe!IsU32
  <2>4. R \in Nat
    BY <1>1, MaxTyped DEF Pe!ResourceRva, Pe!IsU32
  <2>. HIDE DEF N, G, E, tree, size
  <2>5. size \in Nat \ {0}
    <3>1. 0 + 16 + 8 * tree(0 + 12) <= size
      BY <2>1
    <3> QED
      BY <1>1, <2>3, <3>1
  <2>. HIDE DEF R
  <2>6. PICK d \in Nat : /\ Pe!RvaToOffset(img, R) = d /\ d + size <= img.size
                         /\ \A x \in 0..size - 1 : Pe!MappedU32(img, R + x) = Pe!ReadU32(img, d + x)
    BY <1>1, <2>1, <2>4, <2>5, BackedFacts
  <2>7. rsrc = d /\ d # None
    BY <2>6, NoneAssumption
  <2>8. \A x \in 0..(size - 1) : tree(x) = Pe!ReadU32(img, d + x)
    BY <2>6 DEF tree, Pe!TreeU32, R
  <2>9. ASSUME NEW dir \in {0} \cup N \cup G, dir \in Nat, NEW ids,
               \A x, y \in Pe!Below(img, dir, ids) : x = y
        PROVE  /\ Pe!Below(img, dir, ids) \subseteq Nat
               /\ Pe!Below(img, dir, ids) = {} => Pe!FindResourceEntry(img, rsrc, d + dir, ids) = None
               /\ \A b \in Pe!Below(img, dir, ids) :
                    Pe!FindResourceEntry(img, rsrc, d + dir, ids) = d + b
    <3>1. dir + 16 + 8 * Pe!TreeU32(img, dir + 12) <= size
      BY <2>1 DEF tree
    <3>2. \A x \in 0..(size - 1) : Pe!TreeU32(img, x) = Pe!ReadU32(img, d + x)
      BY <2>8 DEF tree
    <3>3. d + size <= img.size /\ size \in Nat
      BY <2>5, <2>6
    <3>4. Pe!ImageTyped(img) /\ dir \in Nat /\ d \in Nat /\ \A x, y \in Pe!Below(img, dir, ids) : x = y
      BY <1>1, <2>9, Zenon
    <3>5. EntryAsLoader(img, d, dir, ids)
      BY <3>1, <3>2, <3>3, <3>4, EntryRead, Zenon
    <3> QED
      BY <2>7, <3>5, Zenon DEF EntryAsLoader
  <2>10. d + 0 = d /\ \A b \in Nat : d + b # None
    BY NoneAssumption
  <2>11. N \subseteq Nat /\ (N = {} => names = None) /\ \A b \in N : names = d + b
    <3>1. Entry(rsrc, {24}) = Pe!FindResourceEntry(img, rsrc, d + 0, {24})
      BY <2>7, <2>10, Zenon
    <3>2. 0 \in {0} \cup N \cup G /\ 0 \in Nat
      OBVIOUS
    <3>3. \A x, y \in Pe!Below(img, 0, {24}) : x = y
      BY <2>1, <2>2, Zenon
    <3> QED
      BY <2>2, <2>9, <3>1, <3>2, <3>3, Zenon
  <2>. HIDE DEF names
  <2>12. G \subseteq Nat /\ (G = {} => languages = None) /\ \A b \in G : languages = d + b
    <3>1. CASE N = {}
      <4>1. G = {} /\ languages = None
        BY <2>2, <2>11, <3>1
      <4> QED
        BY <4>1
    <3>2. CASE N # {}
      <4>1. PICK n \in N : TRUE
        BY <3>2
      <4>2. N = {n} /\ n \in Nat
        BY <2>1, <2>11, <4>1
      <4>3. G = Pe!Below(img, n, all)
        BY <2>2, <4>2
      <4>4. languages = Pe!FindResourceEntry(img, rsrc, d + n, all)
        BY <2>10, <2>11, <4>1, <4>2, Zenon
      <4>5. n \in {0} \cup N \cup G
        BY <4>1
      <4>6. \A x, y \in Pe!Below(img, n, all) : x = y
        BY <2>1, <4>3, Zenon
      <4> QED
        BY <2>9, <4>2, <4>3, <4>4, <4>5, <4>6, Zenon
    <3> QED
      BY <3>1, <3>2
  <2>. HIDE DEF languages
  <2>13. E \subseteq Nat /\ (E = {} => leaf = None) /\ \A b \in E : leaf = d + b
    <3>1. CASE G = {}
      <4>1. E = {} /\ leaf = None
        BY <2>2, <2>12, <3>1
      <4> QED
        BY <4>1
    <3>2. CASE G # {}
      <4>1. PICK n \in G : TRUE
        BY <3>2
      <4>2. G = {n} /\ n \in Nat
        BY <2>1, <2>12, <4>1
      <4>3. E = Pe!Below(img, n, all)
        BY <2>2, <4>2
      <4>4. leaf = Pe!FindResourceEntry(img, rsrc, d + n, all)
        BY <2>10, <2>12, <4>1, <4>2, Zenon
      <4>5. n \in {0} \cup N \cup G
        BY <4>1
      <4>6. \A x, y \in Pe!Below(img, n, all) : x = y
        BY <2>1, <4>3, Zenon
      <4> QED
        BY <2>9, <4>2, <4>3, <4>4, <4>5, <4>6, Zenon
    <3> QED
      BY <3>1, <3>2
  <2>. HIDE DEF leaf
  <2>14. CASE E = {}
    BY <1>2, <1>3, <2>13, <2>14, Zenon DEF E
  <2>15. CASE E # {}
    <3>1. PICK e \in E : e = CHOOSE x \in E : TRUE
      BY <2>15
    <3>2. /\ leaf = d + e /\ e \in Nat /\ leaf # None
          /\ e + 8 <= size /\ tree(e + 4) >= 4 /\ Pe!Backed(img, tree(e), tree(e + 4))
      BY <2>1, <2>10, <2>13
    <3>3. /\ Pe!ReadU32(img, leaf) = tree(e) /\ Pe!ReadU32(img, leaf + 4) = tree(e + 4)
          /\ leaf + 8 <= img.size
      <4>1. e \in 0..(size - 1) /\ e + 4 \in 0..(size - 1) /\ d + (e + 4) = leaf + 4
        BY <2>5, <3>2
      <4>2. img.size \in Nat
        BY <1>1 DEF Pe!ImageTyped
      <4>3. leaf + 8 <= img.size
        BY <2>5, <2>6, <3>2, <4>2
      <4> QED
        BY <2>8, <3>2, <4>1, <4>3
    <3>. DEFINE at == tree(e)
                bytes == tree(e + 4)
    <3>4. at \in Nat /\ bytes \in Nat \ {0}
      BY <2>3, <3>2
    <3>5. Pe!Backed(img, at, bytes) /\ Pe!ReadU32(img, leaf) = at /\ Pe!ReadU32(img, leaf + 4) = bytes
      BY <3>2, <3>3
    <3>. HIDE DEF at, bytes
    <3>6. PICK off \in Nat :
            /\ Pe!RvaToOffset(img, at) = off /\ off + bytes <= img.size
            /\ \A x \in 0..bytes - 1 : Pe!MappedU32(img, at + x) = Pe!ReadU32(img, off + x)
      BY <1>1, <3>4, <3>5, BackedFacts
    <3>7. Pe!MappedU32(img, at) = Pe!ReadU32(img, off)
      <4>1. 0 \in 0..bytes - 1 /\ at + 0 = at /\ off + 0 = off
        BY <3>4
      <4> QED
        BY <3>6, <4>1
    <3>8. payload = off /\ off # None
      BY <3>5, <3>6, NoneAssumption
    <3>9. Pe!InFile(img, leaf, 8) /\ Pe!InFile(img, payload, Pe!ReadU32(img, leaf + 4))
      BY <3>3, <3>5, <3>6, <3>8, Zenon DEF Pe!InFile
    <3>10. Pe!EmbeddedManifest(img) = Pe!ReadU32(img, off)
      BY <1>1, <1>2, <1>5, <3>2, <3>8, <3>9, Zenon
    <3>11. Pe!LoaderManifest(img) = Pe!MappedU32(img, at)
      BY <1>3, <1>5, <2>15, <3>1, Zenon DEF E, at, tree
    <3> QED
      BY <3>7, <3>10, <3>11, Zenon
  <2> QED
    BY <2>14, <2>15
<1> QED
  BY <1>4, <1>5

-----------------------------------------------------------------------------
(* The scanner: texts that are written one piece after another             *)

\* s stands in the text from i on.
At(text, i, s) ==
  /\ i \in Nat /\ i >= 1 /\ i + Len(s) <= Len(text) + 1
  /\ \A j \in 1..Len(s) : text[i + j - 1] = s[j]

LEMMA ConcatTyped ==
  ASSUME NEW S, NEW a \in Seq(S), NEW b \in Seq(S)
  PROVE  /\ a \o b \in Seq(S) /\ Len(a \o b) = Len(a) + Len(b)
         /\ \A j \in 1..Len(a) : (a \o b)[j] = a[j]
         /\ \A j \in 1..Len(b) : (a \o b)[Len(a) + j] = b[j]
  OBVIOUS

LEMMA AtConcat ==
  ASSUME NEW S, NEW text \in Seq(S), NEW a \in Seq(S), NEW b \in Seq(S), NEW i, At(text, i, a \o b)
  PROVE  At(text, i, a) /\ At(text, i + Len(a), b)
<1>. DEFINE c == a \o b
<1>1. /\ Len(c) = Len(a) + Len(b) /\ Len(a) \in Nat /\ Len(b) \in Nat /\ Len(text) \in Nat
      /\ \A j \in 1..Len(a) : c[j] = a[j]
      /\ \A j \in 1..Len(b) : c[Len(a) + j] = b[j]
  BY ConcatTyped
<1>2. At(text, i, c)
  OBVIOUS
<1>. HIDE DEF c
<1>3. /\ i \in Nat /\ i >= 1 /\ i + Len(c) <= Len(text) + 1
      /\ \A j \in 1..Len(c) : text[i + j - 1] = c[j]
  BY <1>2 DEF At
<1>4. At(text, i, a)
  <2>1. ASSUME NEW j \in 1..Len(a) PROVE text[i + j - 1] = a[j]
    <3>1. j \in 1..Len(c) /\ c[j] = a[j]
      BY <1>1
    <3> QED
      BY <1>3, <3>1
  <2>2. i + Len(a) <= Len(text) + 1
    BY <1>1, <1>3
  <2> QED
    BY <1>3, <2>1, <2>2 DEF At
<1>5. At(text, i + Len(a), b)
  <2>1. ASSUME NEW j \in 1..Len(b) PROVE text[(i + Len(a)) + j - 1] = b[j]
    <3>1. Len(a) + j \in 1..Len(c) /\ c[Len(a) + j] = b[j]
      BY <1>1
    <3>2. text[i + (Len(a) + j) - 1] = c[Len(a) + j]
      BY <1>3, <3>1
    <3>3. i + (Len(a) + j) - 1 = (i + Len(a)) + j - 1
      BY <1>1, <1>3
    <3> QED
      BY <3>1, <3>2, <3>3
  <2>2. (i + Len(a)) + Len(b) <= Len(text) + 1 /\ i + Len(a) \in Nat /\ i + Len(a) >= 1
    BY <1>1, <1>3
  <2> QED
    BY <2>1, <2>2 DEF At
<1> QED
  BY <1>4, <1>5

LEMMA AtStart ==
  ASSUME NEW S, NEW text \in Seq(S)
  PROVE  At(text, 1, text)
  BY DEF At

\* Find, when the first place is known.
LEMMA FindIs ==
  ASSUME NEW S, NEW text \in Seq(S), NEW T, NEW i \in Nat, i >= 1, NEW e \in Nat, i <= e, e <= Len(text),
         text[e] \in T, \A k \in i..(e - 1) : text[k] \notin T
  PROVE  Find(text, T, i) = e
<1>. DEFINE places == {j \in i..Len(text) : text[j] \in T}
<1>0. Len(text) \in Nat
  OBVIOUS
<1>1. e \in places /\ places # {}
  BY <1>0
<1>2. \A k \in places : e <= k
  BY <1>0
<1>3. \A j \in places : (\A k \in places : j <= k) => j = e
  BY <1>0, <1>1, <1>2
<1>. HIDE DEF places
<1>4. (CHOOSE j \in places : \A k \in places : j <= k) = e
  BY <1>1, <1>2, <1>3
<1> QED
  BY <1>1, <1>4, Zenon DEF Find, places

LEMMA FindNone ==
  ASSUME NEW text, NEW T, NEW i, \A k \in i..Len(text) : text[k] \notin T
  PROVE  Find(text, T, i) = 0
<1>1. {j \in i..Len(text) : text[j] \in T} = {}
  OBVIOUS
<1> QED
  BY <1>1, Zenon DEF Find

LEMMA FindFinds ==
  ASSUME NEW S, NEW text \in Seq(S), NEW T, NEW i \in Nat, i >= 1, Find(text, T, i) # 0
  PROVE  Find(text, T, i) \in i..Len(text) /\ text[Find(text, T, i)] \in T
<1>. DEFINE places == {j \in i..Len(text) : text[j] \in T}
<1>0. Len(text) \in Nat /\ places \in SUBSET Nat
  OBVIOUS
<1>1. Find(text, T, i) = IF places = {} THEN 0 ELSE CHOOSE j \in places : \A k \in places : j <= k
  BY Zenon DEF Find
<1>2. places # {}
  BY <1>1
<1>3. \E j \in places : \A k \in places : j <= k
  BY <1>0, <1>2, LeastNatural
<1>. DEFINE e == CHOOSE j \in places : \A k \in places : j <= k
<1>4. e \in places
  BY <1>3
<1>5. Find(text, T, i) = e
  BY <1>1, <1>2, Zenon
<1>. HIDE DEF e
<1> QED
  BY <1>4, <1>5

\* A tag that stands at i: what the iterator makes of it.
LEMMA TagIs ==
  ASSUME NEW S, NEW text \in Seq(S), NEW body \in Seq(S), NEW e \in TagEnds, NEW i,
         At(text, i, <<"<">> \o body \o <<e>>), "<" \in S, e \in S,
         body # <<>>, body[1] # "!--", \A j \in DOMAIN body : body[j] \notin TagEnds
  PROVE  /\ Find(text, {"<"}, i) = i
         /\ Close(text, i) = i + Len(body) + 1
         /\ SubSeq(text, i + 1, i + Len(body)) = body
         /\ i \in Nat /\ i >= 1 /\ i + Len(body) + 1 <= Len(text)
<1>0. Len(text) \in Nat /\ Len(body) \in Nat /\ Len(body) >= 1 /\ DOMAIN body = 1..Len(body)
  OBVIOUS
<1>1. <<"<">> \in Seq(S) /\ Len(<<"<">>) = 1 /\ <<e>> \in Seq(S) /\ Len(<<e>>) = 1
      /\ <<"<">>[1] = "<" /\ <<e>>[1] = e
  OBVIOUS
<1>. DEFINE lt == <<"<">>
            last == <<e>>
<1>. HIDE DEF lt, last
<1>2. lt \in Seq(S) /\ Len(lt) = 1 /\ lt[1] = "<" /\ last \in Seq(S) /\ Len(last) = 1 /\ last[1] = e
  BY <1>1, Zenon DEF lt, last
<1>3. At(text, i, (lt \o body) \o last)
  BY Zenon DEF lt, last
<1>4. lt \o body \in Seq(S) /\ Len(lt \o body) = 1 + Len(body)
  <2>1. lt \o body \in Seq(S) /\ Len(lt \o body) = Len(lt) + Len(body)
    BY <1>2, ConcatTyped, Zenon
  <2> QED
    BY <1>2, <2>1, Zenon
<1>5. At(text, i, lt \o body) /\ At(text, i + Len(lt \o body), last)
  BY <1>2, <1>3, <1>4, AtConcat
<1>6. At(text, i, lt) /\ At(text, i + Len(lt), body)
  BY <1>2, <1>5, AtConcat
<1>7. i \in Nat /\ i >= 1 /\ text[i] = "<"
  BY <1>2, <1>6 DEF At
<1>8. \A j \in 1..Len(body) : text[i + j] = body[j]
  <2>1. \A j \in 1..Len(body) : text[(i + 1) + j - 1] = body[j]
    BY <1>2, <1>6 DEF At
  <2> QED
    BY <1>0, <1>7, <2>1
<1>9. i + Len(body) + 1 <= Len(text) /\ text[i + Len(body) + 1] = e
  <2>1. text[(i + (1 + Len(body))) + 1 - 1] = e /\ (i + (1 + Len(body))) + 1 <= Len(text) + 1
    BY <1>2, <1>4, <1>5 DEF At
  <2>2. (i + (1 + Len(body))) + 1 - 1 = i + Len(body) + 1
    BY <1>0, <1>7
  <2> QED
    BY <1>0, <1>7, <2>1, <2>2
<1>10. Find(text, {"<"}, i) = i
  <2>1. i <= Len(text)
    BY <1>0, <1>7, <1>9
  <2>2. \A k \in i..(i - 1) : text[k] \notin {"<"}
    BY <1>7
  <2> QED
    BY <1>7, <2>1, <2>2, FindIs
<1>11. text[i + 1] = body[1]
  BY <1>0, <1>8
<1>12. Find(text, TagEnds, i + 1) = i + Len(body) + 1
  <2>1. ASSUME NEW k \in (i + 1)..(i + Len(body)) PROVE text[k] \notin TagEnds
    <3>1. k - i \in 1..Len(body) /\ i + (k - i) = k
      BY <1>0, <1>7
    <3> QED
      BY <1>0, <1>8, <3>1
  <2>2. i + 1 \in Nat /\ i + Len(body) + 1 \in Nat /\ i + 1 <= i + Len(body) + 1
        /\ (i + Len(body) + 1) - 1 = i + Len(body) /\ i + 1 >= 1
    BY <1>0, <1>7
  <2>3. \A k \in (i + 1)..((i + Len(body) + 1) - 1) : text[k] \notin TagEnds
    BY <2>1, <2>2
  <2> QED
    BY <1>9, <2>2, <2>3, FindIs
<1>13. Close(text, i) = i + Len(body) + 1
  BY <1>11, <1>12 DEF Close
<1>14. SubSeq(text, i + 1, i + Len(body)) = body
  <2>. DEFINE t == SubSeq(text, i + 1, i + Len(body))
  <2>1. t \in Seq(S) /\ Len(t) = Len(body) /\ \A j \in 1..Len(body) : t[j] = text[i + j]
    <3>1. \A j \in (i + 1)..(i + Len(body)) : j \in 1..Len(text)
      BY <1>0, <1>7, <1>9
    <3>2. /\ Len(t) = Len(body)
          /\ \A j \in 1..Len(body) : t[j] = text[(i + 1) + j - 1]
      BY <1>0, <1>7, <1>9
    <3>3. t \in Seq(S)
      BY <1>0, <1>7, <1>9, <3>1
    <3> QED
      BY <1>0, <1>7, <3>2, <3>3
  <2>. HIDE DEF t
  <2>2. t = body
    BY <1>8, <2>1
  <2> QED
    BY <2>2 DEF t
<1> QED
  BY <1>7, <1>9, <1>10, <1>13, <1>14

LEMMA CloseIsLater ==
  ASSUME NEW S, NEW text \in Seq(S), NEW i \in Nat, i >= 1, Find(text, {"<"}, i) # 0,
         Close(text, Find(text, {"<"}, i)) # 0
  PROVE  Close(text, Find(text, {"<"}, i)) \in (i + 1)..Len(text)
<1>. DEFINE open == Find(text, {"<"}, i)
<1>1. open \in i..Len(text) /\ Len(text) \in Nat
  BY FindFinds
<1>. HIDE DEF open
<1>2. Close(text, open) = Find(text, {"-->"}, open + 2) \/ Close(text, open) = Find(text, TagEnds, open + 1)
  BY Zenon DEF Close
<1>3. open + 1 \in Nat /\ open + 1 >= 1 /\ open + 2 \in Nat /\ open + 2 >= 1
  BY <1>1
<1>4. Close(text, open) # 0
  BY DEF open
<1>5. CASE Close(text, open) = Find(text, {"-->"}, open + 2)
  <2>1. Find(text, {"-->"}, open + 2) \in (open + 2)..Len(text)
    BY <1>3, <1>4, <1>5, FindFinds
  <2>2. Close(text, open) \in (i + 1)..Len(text)
    BY <1>1, <1>5, <2>1
  <2> QED
    BY <2>2 DEF open
<1>6. CASE Close(text, open) = Find(text, TagEnds, open + 1)
  <2>1. Find(text, TagEnds, open + 1) \in (open + 1)..Len(text)
    BY <1>3, <1>4, <1>6, FindFinds
  <2>2. Close(text, open) \in (i + 1)..Len(text)
    BY <1>1, <1>6, <2>1
  <2> QED
    BY <2>2 DEF open
<1> QED
  BY <1>2, <1>5, <1>6

Files == {None} \cup {Attributes[a].value : a \in DOMAIN Attributes}

\* The loop from i on, given what it yields from later places on.
ScanFrom(text, from, i) ==
  [file \in Files |->
     LET open == Find(text, {"<"}, i)
         close == Close(text, open)
         body == SubSeq(text, open + 1, close - 1)
     IN  IF open = 0 \/ close = 0 THEN <<>>
         ELSE IF ~IsTag(body) THEN from[close + 1][file]
         ELSE Declared(file, body) \o from[close + 1][FileAfter(file, body)]]

Scanner(text) == CHOOSE from : from = [i \in 1..Len(text) + 1 |-> ScanFrom(text, from, i)]

LEMMA ScanFromLater ==
  ASSUME NEW S, NEW text \in Seq(S), NEW i \in Nat, i >= 1, NEW g, NEW h,
         \A k \in (i + 1)..(Len(text) + 1) : g[k] = h[k]
  PROVE  ScanFrom(text, g, i) = ScanFrom(text, h, i)
<1>. DEFINE open == Find(text, {"<"}, i)
            close == Close(text, open)
            body == SubSeq(text, open + 1, close - 1)
<1>1. open # 0 /\ close # 0 => close \in (i + 1)..Len(text)
  BY CloseIsLater
<1>2. Len(text) \in Nat
  OBVIOUS
<1>. HIDE DEF close
<1>3. open # 0 /\ close # 0 => close + 1 \in (i + 1)..(Len(text) + 1)
  BY <1>1, <1>2
<1>4. open # 0 /\ close # 0 => g[close + 1] = h[close + 1]
  BY <1>3
<1>. HIDE DEF open, body
<1>5. ScanFrom(text, g, i) =
       [file \in Files |->
          IF open = 0 \/ close = 0 THEN <<>>
          ELSE IF ~IsTag(body) THEN g[close + 1][file]
          ELSE Declared(file, body) \o g[close + 1][FileAfter(file, body)]]
  BY Zenon DEF ScanFrom, open, close, body
<1>6. ScanFrom(text, h, i) =
       [file \in Files |->
          IF open = 0 \/ close = 0 THEN <<>>
          ELSE IF ~IsTag(body) THEN h[close + 1][file]
          ELSE Declared(file, body) \o h[close + 1][FileAfter(file, body)]]
  BY Zenon DEF ScanFrom, open, close, body
<1>7. CASE open = 0 \/ close = 0
  BY <1>5, <1>6, <1>7
<1>8. CASE open # 0 /\ close # 0
  BY <1>4, <1>5, <1>6, <1>8, Zenon
<1> QED
  BY <1>7, <1>8

\* The recursion of the scanner is about later places only, so it has a solution.
LEMMA ScannerExists ==
  ASSUME NEW S, NEW text \in Seq(S)
  PROVE  \E f : f = [i \in 1..Len(text) + 1 |-> ScanFrom(text, f, i)]
<1>. DEFINE L == Len(text) + 1
            Solves(g, k) == /\ g = [i \in 1..L |-> g[i]]
                            /\ \A i \in 1..L : i > k => g[i] = ScanFrom(text, g, i)
            T == {n \in Nat : n <= L => \E g : Solves(g, L - n)}
<1>1. L \in Nat /\ L >= 1
  OBVIOUS
<1>0. \A g, h : \A i \in Nat : i >= 1 /\ (\A k \in (i + 1)..L : g[k] = h[k])
                                => ScanFrom(text, g, i) = ScanFrom(text, h, i)
  BY ScanFromLater
<1>. HIDE DEF L
<1>2. 0 \in T
  <2>. DEFINE g0 == [i \in 1..L |-> <<>>]
  <2>1. g0 = [i \in 1..L |-> g0[i]]
    OBVIOUS
  <2>2. \A i \in 1..L : ~(i > L - 0)
    BY <1>1
  <2>. HIDE DEF g0
  <2>3. Solves(g0, L - 0)
    BY <2>1, <2>2
  <2> QED
    BY <2>3
<1>3. ASSUME NEW n \in Nat, n \in T PROVE n + 1 \in T
  <2>. SUFFICES ASSUME n + 1 <= L PROVE \E g : Solves(g, L - (n + 1))
    BY <1>3
  <2>1. PICK g : Solves(g, L - n)
    BY <1>1, <1>3
  <2>. DEFINE m == L - n
              h == [i \in 1..L |-> IF i = m THEN ScanFrom(text, g, m) ELSE g[i]]
  <2>2. m \in 1..L /\ m \in Nat /\ m >= 1 /\ L - (n + 1) = m - 1
    BY <1>1
  <2>. HIDE DEF m
  <2>3. h = [i \in 1..L |-> h[i]] /\ h[m] = ScanFrom(text, g, m)
        /\ \A i \in 1..L : i # m => h[i] = g[i]
    BY <2>2
  <2>. HIDE DEF h
  <2>4. ASSUME NEW i \in 1..L, i > m - 1 PROVE h[i] = ScanFrom(text, h, i)
    <3>1. i \in Nat /\ i >= 1 /\ i >= m
      BY <1>1, <2>2, <2>4
    <3>2. \A k \in (i + 1)..L : g[k] = h[k]
      BY <1>1, <2>2, <2>3, <3>1
    <3>3. ScanFrom(text, g, i) = ScanFrom(text, h, i)
      BY <1>0, <3>1, <3>2
    <3>4. CASE i = m
      BY <2>3, <3>3, <3>4
    <3>5. CASE i # m
      <4>1. g[i] = ScanFrom(text, g, i)
        BY <1>1, <2>1, <2>2, <3>1, <3>5 DEF m
      <4> QED
        BY <2>3, <3>3, <3>5, <4>1
    <3> QED
      BY <3>4, <3>5
  <2>5. Solves(h, m - 1)
    BY <2>3, <2>4
  <2> QED
    BY <2>2, <2>5
<1>. HIDE DEF T
<1>4. \A n \in Nat : n \in T
  BY <1>2, <1>3, NatSetInduction
<1>5. L \in T
  BY <1>1, <1>4
<1>6. PICK f : Solves(f, L - L)
  BY <1>1, <1>5 DEF T
<1>7. \A i \in 1..L : i > L - L
  BY <1>1
<1>8. f = [i \in 1..L |-> f[i]] /\ \A i \in 1..L : f[i] = ScanFrom(text, f, i)
  BY <1>6, <1>7
<1>9. f = [i \in 1..L |-> ScanFrom(text, f, i)]
  BY <1>8
<1> QED
  BY <1>9 DEF L

LEMMA ScannerIs ==
  ASSUME NEW S, NEW text \in Seq(S)
  PROVE  /\ ParseManifestComClasses(text) = Scanner(text)[1][None]
         /\ \A i \in 1..(Len(text) + 1) : Scanner(text)[i] = ScanFrom(text, Scanner(text), i)
<1>1. Scanner(text) = [i \in 1..Len(text) + 1 |-> ScanFrom(text, Scanner(text), i)]
  BY ScannerExists, Zenon DEF Scanner
<1>. DEFINE f == Scanner(text)
<1>. HIDE DEF f
<1>2. f = [i \in 1..Len(text) + 1 |-> ScanFrom(text, f, i)]
  BY <1>1, Zenon DEF f
<1>3. \A i \in 1..(Len(text) + 1) : f[i] = ScanFrom(text, f, i)
  BY <1>2
<1>4. ParseManifestComClasses(text) = Scanner(text)[1][None]
  BY Zenon DEF ParseManifestComClasses, Scanner, ScanFrom, Files
<1> QED
  BY <1>3, <1>4 DEF f

LEMMA AtPrefix ==
  ASSUME NEW S, NEW a \in Seq(S), NEW b \in Seq(S), NEW i, NEW s \in Seq(S), At(a, i, s)
  PROVE  At(a \o b, i, s)
<1>. DEFINE c == a \o b
<1>1. /\ Len(c) = Len(a) + Len(b) /\ Len(a) \in Nat /\ Len(b) \in Nat /\ Len(s) \in Nat
      /\ \A j \in 1..Len(a) : c[j] = a[j]
  BY ConcatTyped
<1>. HIDE DEF c
<1>2. /\ i \in Nat /\ i >= 1 /\ i + Len(s) <= Len(a) + 1
      /\ \A j \in 1..Len(s) : a[i + j - 1] = s[j]
  BY DEF At
<1>3. ASSUME NEW j \in 1..Len(s) PROVE c[i + j - 1] = s[j]
  <2>1. i + j - 1 \in 1..Len(a)
    BY <1>1, <1>2
  <2> QED
    BY <1>1, <1>2, <2>1
<1>4. At(c, i, s)
  BY <1>1, <1>2, <1>3 DEF At
<1> QED
  BY <1>4 DEF c

LEMMA AtSuffix ==
  ASSUME NEW S, NEW a \in Seq(S), NEW b \in Seq(S)
  PROVE  At(a \o b, Len(a) + 1, b)
<1>1. a \o b \in Seq(S)
  BY ConcatTyped
<1>2. At(a \o b, 1, a \o b)
  BY <1>1, AtStart
<1>3. At(a \o b, 1 + Len(a), b)
  BY <1>1, <1>2, AtConcat
<1>4. 1 + Len(a) = Len(a) + 1
  OBVIOUS
<1> QED
  BY <1>3, <1>4

LEMMA AtWithin ==
  ASSUME NEW S, NEW text \in Seq(S), NEW a \in Seq(S), NEW b \in Seq(S), NEW i, NEW j,
         At(text, i, a), At(a, j, b)
  PROVE  At(text, i + j - 1, b)
<1>1. Len(text) \in Nat /\ Len(a) \in Nat /\ Len(b) \in Nat
  OBVIOUS
<1>2. /\ i \in Nat /\ i >= 1 /\ i + Len(a) <= Len(text) + 1
      /\ \A k \in 1..Len(a) : text[i + k - 1] = a[k]
  BY DEF At
<1>3. /\ j \in Nat /\ j >= 1 /\ j + Len(b) <= Len(a) + 1
      /\ \A k \in 1..Len(b) : a[j + k - 1] = b[k]
  BY DEF At
<1>4. ASSUME NEW k \in 1..Len(b) PROVE text[(i + j - 1) + k - 1] = b[k]
  <2>1. j + k - 1 \in 1..Len(a) /\ (i + j - 1) + k - 1 = i + (j + k - 1) - 1
    BY <1>1, <1>2, <1>3
  <2> QED
    BY <1>2, <1>3, <2>1
<1>5. i + j - 1 \in Nat /\ i + j - 1 >= 1 /\ (i + j - 1) + Len(b) <= Len(text) + 1
  BY <1>1, <1>2, <1>3
<1> QED
  BY <1>4, <1>5 DEF At

\* FlattenSeq puts each sequence after the one before it.
LEMMA FlattenExists ==
  ASSUME NEW seqs, Len(seqs) \in Nat
  PROVE  \E f : f = [i \in 1..Len(seqs) |-> IF i = 1 THEN seqs[i] ELSE f[i - 1] \o seqs[i]]
<1>. DEFINE L == Len(seqs)
            Val(g, i) == IF i = 1 THEN seqs[i] ELSE g[i - 1] \o seqs[i]
            Solves(g, k) == /\ g = [i \in 1..L |-> g[i]]
                            /\ \A i \in 1..L : i <= k => g[i] = Val(g, i)
            T == {n \in Nat : \E g : Solves(g, n)}
<1>1. L \in Nat
  OBVIOUS
<1>. HIDE DEF L, Val
<1>2. 0 \in T
  <2>. DEFINE g0 == [i \in 1..L |-> <<>>]
  <2>1. g0 = [i \in 1..L |-> g0[i]]
    OBVIOUS
  <2>2. \A i \in 1..L : ~(i <= 0)
    BY <1>1
  <2>. HIDE DEF g0
  <2>3. Solves(g0, 0)
    BY <2>1, <2>2
  <2> QED
    BY <2>3
<1>3. ASSUME NEW n \in Nat, n \in T PROVE n + 1 \in T
  <2>1. PICK g : Solves(g, n)
    BY <1>3
  <2>. DEFINE h == [i \in 1..L |-> IF i = n + 1 THEN Val(g, n + 1) ELSE g[i]]
  <2>2. h = [i \in 1..L |-> h[i]] /\ (n + 1 \in 1..L => h[n + 1] = Val(g, n + 1))
        /\ \A i \in 1..L : i # n + 1 => h[i] = g[i]
    OBVIOUS
  <2>. HIDE DEF h
  <2>3. ASSUME NEW i \in 1..L, i <= n + 1 PROVE h[i] = Val(h, i)
    <3>1. i # 1 => i - 1 \in 1..L /\ i - 1 # n + 1
      BY <1>1, <2>3
    <3>2. i # 1 => h[i - 1] = g[i - 1]
      BY <2>2, <3>1
    <3>3. Val(g, i) = Val(h, i)
      BY <3>2 DEF Val
    <3>4. CASE i = n + 1
      BY <2>2, <3>3, <3>4
    <3>5. CASE i # n + 1
      <4>1. g[i] = Val(g, i)
        BY <1>1, <2>1, <2>3, <3>5
      <4> QED
        BY <2>2, <3>3, <3>5, <4>1
    <3> QED
      BY <3>4, <3>5
  <2>4. Solves(h, n + 1)
    BY <2>2, <2>3
  <2>5. n + 1 \in Nat
    OBVIOUS
  <2> QED
    BY <2>4, <2>5, Zenon
<1>. HIDE DEF T
<1>4. L \in T
  BY <1>1, <1>2, <1>3, NatSetInduction
<1>5. PICK f : Solves(f, L)
  BY <1>4 DEF T
<1>6. f = [i \in 1..L |-> f[i]] /\ \A i \in 1..L : f[i] = Val(f, i)
  BY <1>1, <1>5
<1>7. f = [i \in 1..L |-> Val(f, i)]
  BY <1>6
<1> QED
  BY <1>7 DEF L, Val

LEMMA FlattenAt ==
  ASSUME NEW S, NEW seqs \in Seq(Seq(S))
  PROVE  /\ FlattenSeq(seqs) \in Seq(S)
         /\ \E at \in [1..(Len(seqs) + 1) -> Nat] :
              /\ at[1] = 1 /\ at[Len(seqs) + 1] = Len(FlattenSeq(seqs)) + 1
              /\ \A n \in 1..Len(seqs) : /\ at[n + 1] = at[n] + Len(seqs[n])
                                         /\ At(FlattenSeq(seqs), at[n], seqs[n])
<1>. DEFINE L == Len(seqs)
            flat == FlattenSeq(seqs)
<1>1. L \in Nat /\ \A n \in 1..L : seqs[n] \in Seq(S)
  OBVIOUS
<1>2. CASE L = 0
  <2>1. flat = seqs /\ seqs = <<>>
    <3>1. seqs = <<>>
      BY <1>2
    <3>2. flat = seqs
      BY <1>2, Zenon DEF FlattenSeq
    <3> QED
      BY <3>1, <3>2
  <2>. DEFINE at == [n \in 1..1 |-> 1]
  <2>2. Len(flat) = 0 /\ flat \in Seq(S) /\ L + 1 = 1
    BY <1>2, <2>1
  <2>3. at \in [1..(L + 1) -> Nat] /\ at[1] = 1 /\ at[L + 1] = Len(flat) + 1
    BY <2>2
  <2>4. \A n \in 1..L : FALSE
    BY <1>2
  <2>. HIDE DEF at
  <2> QED
    BY <2>2, <2>3, <2>4
<1>3. CASE L # 0
  <2>. DEFINE f == CHOOSE g : g = [i \in 1..L |-> IF i = 1 THEN seqs[i] ELSE g[i - 1] \o seqs[i]]
  <2>1. f = [i \in 1..L |-> IF i = 1 THEN seqs[i] ELSE f[i - 1] \o seqs[i]]
    BY <1>1, FlattenExists, Zenon
  <2>2. flat = f[L]
    BY <1>3, Zenon DEF FlattenSeq
  <2>. HIDE DEF f, flat
  <2>3. f[1] = seqs[1] /\ \A i \in 1..L : i # 1 => f[i] = f[i - 1] \o seqs[i]
    <3>. DEFINE Val(i) == IF i = 1 THEN seqs[i] ELSE f[i - 1] \o seqs[i]
    <3>1. f = [i \in 1..L |-> Val(i)]
      BY <2>1
    <3>. HIDE DEF Val
    <3>2. \A i \in 1..L : f[i] = Val(i)
      BY <3>1
    <3>3. 1 \in 1..L
      BY <1>1, <1>3
    <3>4. Val(1) = seqs[1] /\ \A i \in 1..L : i # 1 => Val(i) = f[i - 1] \o seqs[i]
      BY Zenon DEF Val
    <3>5. f[1] = seqs[1]
      BY <3>2, <3>3, <3>4, Zenon
    <3>6. ASSUME NEW i \in 1..L, i # 1 PROVE f[i] = f[i - 1] \o seqs[i]
      BY <3>2, <3>4, <3>6, Zenon
    <3> QED
      BY <3>5, <3>6
  <2>. DEFINE at == [n \in 1..(L + 1) |-> IF n = 1 THEN 1 ELSE Len(f[n - 1]) + 1]
              T == {n \in Nat : n + 1 \in 1..L =>
                      /\ f[n + 1] \in Seq(S)
                      /\ at[n + 2] = at[n + 1] + Len(seqs[n + 1])
                      /\ \A k \in 1..(n + 1) : At(f[n + 1], at[k], seqs[k])}
  <2>4. at[1] = 1 /\ \A n \in 1..L : at[n + 1] = Len(f[n]) + 1
    <3>1. 1 \in 1..(L + 1)
      BY <1>1
    <3>2. \A n \in 1..L : n + 1 \in 1..(L + 1) /\ n + 1 # 1 /\ (n + 1) - 1 = n
      BY <1>1
    <3> QED
      BY <3>1, <3>2
  <2>9. at = [n \in 1..(L + 1) |-> at[n]]
    OBVIOUS
  <2>. HIDE DEF at
  <2>5. 0 \in T
    <3>1. 1 \in 1..L /\ f[1] \in Seq(S) /\ at[2] = at[1] + Len(seqs[1])
      <4>1. 1 \in 1..L
        BY <1>1, <1>3
      <4>2. at[1 + 1] = Len(f[1]) + 1 /\ Len(f[1]) \in Nat
        BY <1>1, <2>3, <2>4, <4>1
      <4> QED
        BY <1>1, <2>3, <2>4, <4>1, <4>2
    <3>2. At(f[1], at[1], seqs[1])
      BY <1>1, <2>3, <2>4, <3>1, AtStart
    <3>3. \A k \in 1..(0 + 1) : k = 1
      OBVIOUS
    <3>4. 0 + 1 = 1 /\ 0 + 2 = 2 /\ 0 \in Nat
      OBVIOUS
    <3>5. /\ f[0 + 1] \in Seq(S)
          /\ at[0 + 2] = at[0 + 1] + Len(seqs[0 + 1])
          /\ \A k \in 1..(0 + 1) : At(f[0 + 1], at[k], seqs[k])
      BY <3>1, <3>2, <3>3, <3>4
    <3> QED
      BY <3>4, <3>5
  <2>6. ASSUME NEW n \in Nat, n \in T PROVE n + 1 \in T
    <3>. SUFFICES ASSUME (n + 1) + 1 \in 1..L
                  PROVE  /\ f[(n + 1) + 1] \in Seq(S)
                         /\ at[(n + 1) + 2] = at[(n + 1) + 1] + Len(seqs[(n + 1) + 1])
                         /\ \A k \in 1..((n + 1) + 1) : At(f[(n + 1) + 1], at[k], seqs[k])
      OBVIOUS
    <3>. DEFINE m == n + 1
    <3>1. m \in 1..L /\ m + 1 \in 1..L /\ m \in Nat /\ m >= 1 /\ (m + 1) - 1 = m /\ m + 1 # 1
          /\ (m + 1) + 1 = (n + 1) + 2
      BY <1>1
    <3>2. f[m] \in Seq(S) /\ \A k \in 1..m : At(f[m], at[k], seqs[k])
      BY <2>6, <3>1
    <3>. HIDE DEF m
    <3>3. f[m + 1] = f[m] \o seqs[m + 1] /\ seqs[m + 1] \in Seq(S)
      BY <1>1, <2>3, <3>1
    <3>4. f[m + 1] \in Seq(S) /\ Len(f[m + 1]) = Len(f[m]) + Len(seqs[m + 1])
      BY <3>2, <3>3, ConcatTyped
    <3>5. at[m + 1] = Len(f[m]) + 1 /\ at[(m + 1) + 1] = Len(f[m + 1]) + 1
      BY <2>4, <3>1
    <3>6. at[(m + 1) + 1] = at[m + 1] + Len(seqs[m + 1])
      <4>1. Len(f[m]) \in Nat /\ Len(seqs[m + 1]) \in Nat
        BY <3>2, <3>3
      <4>. DEFINE p == Len(f[m])
                  q == Len(seqs[m + 1])
                  r == Len(f[m + 1])
      <4>2. p \in Nat /\ q \in Nat /\ r = p + q /\ at[m + 1] = p + 1 /\ at[(m + 1) + 1] = r + 1
        BY <3>4, <3>5, <4>1, Zenon
      <4>. HIDE DEF p, q, r
      <4>3. at[(m + 1) + 1] = at[m + 1] + q
        BY <4>2
      <4> QED
        BY <4>3 DEF q
    <3>7. ASSUME NEW k \in 1..(m + 1) PROVE At(f[m + 1], at[k], seqs[k])
      <4>1. CASE k = m + 1
        <5>1. At(f[m] \o seqs[m + 1], Len(f[m]) + 1, seqs[m + 1])
          BY <3>2, <3>3, AtSuffix
        <5> QED
          BY <3>3, <3>5, <4>1, <5>1
      <4>2. CASE k # m + 1
        <5>1. k \in 1..m /\ k \in 1..L
          BY <1>1, <3>1, <4>2
        <5>2. At(f[m], at[k], seqs[k]) /\ seqs[k] \in Seq(S)
          BY <1>1, <3>2, <5>1
        <5>3. At(f[m] \o seqs[m + 1], at[k], seqs[k])
          BY <3>2, <3>3, <5>2, AtPrefix
        <5> QED
          BY <3>3, <5>3
      <4> QED
        BY <4>1, <4>2
    <3>8. f[m + 1] \in Seq(S) /\ at[(m + 1) + 1] = at[m + 1] + Len(seqs[m + 1])
          /\ \A k \in 1..(m + 1) : At(f[m + 1], at[k], seqs[k])
      BY <3>4, <3>6, <3>7
    <3> QED
      BY <3>1, <3>8 DEF m
  <2>. HIDE DEF T
  <2>7. \A n \in Nat : n \in T
    BY <2>5, <2>6, NatSetInduction
  <2>8. ASSUME NEW m \in 1..L
        PROVE  /\ f[m] \in Seq(S) /\ at[m + 1] = at[m] + Len(seqs[m])
               /\ \A k \in 1..m : At(f[m], at[k], seqs[k])
    <3>1. m - 1 \in Nat /\ (m - 1) + 1 = m /\ (m - 1) + 2 = m + 1
      BY <1>1
    <3>2. m - 1 \in T
      BY <2>7, <3>1
    <3>3. (m - 1) + 1 \in 1..L =>
                      /\ f[(m - 1) + 1] \in Seq(S)
                      /\ at[(m - 1) + 2] = at[(m - 1) + 1] + Len(seqs[(m - 1) + 1])
                      /\ \A k \in 1..((m - 1) + 1) : At(f[(m - 1) + 1], at[k], seqs[k])
      BY <3>2 DEF T
    <3> QED
      BY <3>1, <3>3
  <2>10. \A n \in 1..(L + 1) : at[n] \in Nat
    <3>. SUFFICES ASSUME NEW n \in 1..(L + 1) PROVE at[n] \in Nat
      OBVIOUS
    <3>1. CASE n = 1
      BY <2>4, <3>1
    <3>2. CASE n # 1
      <4>1. n - 1 \in 1..L /\ (n - 1) + 1 = n
        BY <1>1, <3>2
      <4>2. at[(n - 1) + 1] = Len(f[n - 1]) + 1 /\ f[n - 1] \in Seq(S)
        BY <2>4, <2>8, <4>1
      <4>3. Len(f[n - 1]) \in Nat
        BY <4>2
      <4> QED
        BY <4>1, <4>2, <4>3
    <3> QED
      BY <3>1, <3>2
  <2>11. L \in 1..L
    BY <1>1, <1>3
  <2>12. flat \in Seq(S) /\ at[L + 1] = Len(flat) + 1
    BY <2>2, <2>4, <2>8, <2>11
  <2>13. \A n \in 1..L : at[n + 1] = at[n] + Len(seqs[n]) /\ At(flat, at[n], seqs[n])
    BY <2>2, <2>8, <2>11
  <2>14. at \in [1..(L + 1) -> Nat]
    BY <2>9, <2>10
  <2> QED
    BY <2>4, <2>12, <2>13, <2>14 DEF flat
<1> QED
  BY <1>2, <1>3

-----------------------------------------------------------------------------
(* What the scanner makes of each tag                                      *)

LEMMA ScanTag ==
  ASSUME NEW text \in Seq(Pieces), NEW body \in Seq(Pieces), NEW i,
         At(text, i, <<"<">> \o body \o <<">">>),
         body # <<>>, body[1] # "!--", \A j \in DOMAIN body : body[j] \notin TagEnds,
         NEW file \in Files
  PROVE  /\ i + Len(body) + 2 \in 1..(Len(text) + 1)
         /\ Scanner(text)[i][file] =
              IF ~IsTag(body) THEN Scanner(text)[i + Len(body) + 2][file]
              ELSE Declared(file, body) \o Scanner(text)[i + Len(body) + 2][FileAfter(file, body)]
<1>. DEFINE sc == Scanner(text)
            open == Find(text, {"<"}, i)
            close == Close(text, open)
            inner == SubSeq(text, open + 1, close - 1)
<1>1. Len(text) \in Nat /\ Len(body) \in Nat /\ ">" \in TagEnds /\ "<" \in Pieces /\ ">" \in Pieces
  BY DEF TagEnds, Pieces, Marks
<1>2. /\ open = i /\ Close(text, i) = i + Len(body) + 1
      /\ SubSeq(text, i + 1, i + Len(body)) = body
      /\ i \in Nat /\ i >= 1 /\ i + Len(body) + 1 <= Len(text)
  BY <1>1, TagIs
<1>3. \A k \in 1..(Len(text) + 1) : sc[k] = ScanFrom(text, sc, k)
  BY ScannerIs
<1>4. sc[i] = ScanFrom(text, sc, i)
  <2>1. i \in 1..(Len(text) + 1)
    BY <1>1, <1>2
  <2> QED
    BY <1>3, <2>1
<1>5. close = i + Len(body) + 1
  BY <1>2
<1>. HIDE DEF sc, open, close
<1>6. inner = body
  <2>1. open + 1 = i + 1 /\ close - 1 = i + Len(body)
    BY <1>1, <1>2, <1>5
  <2> QED
    BY <1>2, <2>1
<1>7. open # 0 /\ close # 0 /\ close + 1 = i + Len(body) + 2
  BY <1>1, <1>2, <1>5
<1>. HIDE DEF inner
<1>8. sc[i][file] = IF open = 0 \/ close = 0 THEN <<>>
                    ELSE IF ~IsTag(inner) THEN sc[close + 1][file]
                    ELSE Declared(file, inner) \o sc[close + 1][FileAfter(file, inner)]
  BY <1>4, Zenon DEF ScanFrom, open, close, inner
<1>9. sc[i][file] = IF ~IsTag(body) THEN sc[i + Len(body) + 2][file]
                    ELSE Declared(file, body) \o sc[i + Len(body) + 2][FileAfter(file, body)]
  BY <1>6, <1>7, <1>8, Zenon
<1>10. i + Len(body) + 2 \in 1..(Len(text) + 1)
  BY <1>1, <1>2
<1> QED
  BY <1>9, <1>10 DEF sc

\* A comment ends with the first "-->", whatever is in it.
LEMMA ScanComment ==
  ASSUME NEW text \in Seq(Pieces), NEW inner \in Seq(Pieces), NEW i,
         At(text, i, <<"<", "!--">> \o inner \o <<"-->">>),
         \A j \in DOMAIN inner : inner[j] # "-->",
         NEW file \in Files
  PROVE  /\ i + Len(inner) + 3 \in 1..(Len(text) + 1)
         /\ Scanner(text)[i][file] = Scanner(text)[i + Len(inner) + 3][file]
<1>. DEFINE sc == Scanner(text)
            start == <<"<", "!--">>
            end == <<"-->">>
            open == Find(text, {"<"}, i)
            close == Close(text, open)
            body == SubSeq(text, open + 1, close - 1)
<1>1. Len(text) \in Nat /\ Len(inner) \in Nat /\ DOMAIN inner = 1..Len(inner)
  OBVIOUS
<1>2. start \in Seq(Pieces) /\ Len(start) = 2 /\ start[1] = "<" /\ start[2] = "!--"
      /\ end \in Seq(Pieces) /\ Len(end) = 1 /\ end[1] = "-->"
  <2>1. "<" \in Pieces /\ "!--" \in Pieces /\ "-->" \in Pieces
    BY DEF TagEnds, Pieces, Marks
  <2> QED
    BY <2>1
<1>. HIDE DEF start, end
<1>3. At(text, i, (start \o inner) \o end)
  BY DEF start, end
<1>4. start \o inner \in Seq(Pieces) /\ Len(start \o inner) = 2 + Len(inner)
  <2>1. start \o inner \in Seq(Pieces) /\ Len(start \o inner) = Len(start) + Len(inner)
    BY <1>2, ConcatTyped, Zenon
  <2> QED
    BY <1>2, <2>1, Zenon
<1>5. At(text, i, start \o inner) /\ At(text, i + Len(start \o inner), end)
  BY <1>2, <1>3, <1>4, AtConcat
<1>6. At(text, i, start) /\ At(text, i + Len(start), inner)
  BY <1>2, <1>5, AtConcat
<1>7. i \in Nat /\ i >= 1 /\ text[i] = "<" /\ text[i + 1] = "!--" /\ i + 2 <= Len(text) + 1
  <2>1. \A j \in 1..2 : text[i + j - 1] = start[j]
    BY <1>2, <1>6 DEF At
  <2>2. i \in Nat /\ i >= 1 /\ i + 2 <= Len(text) + 1
    BY <1>2, <1>6 DEF At
  <2>3. text[i + 1 - 1] = start[1] /\ text[i + 2 - 1] = start[2] /\ i + 1 - 1 = i /\ i + 2 - 1 = i + 1
    BY <2>1, <2>2
  <2> QED
    BY <1>2, <2>2, <2>3
<1>8. \A j \in 1..Len(inner) : text[(i + 2) + j - 1] = inner[j]
  BY <1>2, <1>6 DEF At
<1>9. i + Len(inner) + 2 <= Len(text) /\ text[i + Len(inner) + 2] = "-->"
  <2>1. /\ text[(i + (2 + Len(inner))) + 1 - 1] = "-->"
        /\ (i + (2 + Len(inner))) + 1 <= Len(text) + 1
    BY <1>2, <1>4, <1>5 DEF At
  <2>2. (i + (2 + Len(inner))) + 1 - 1 = i + Len(inner) + 2
    BY <1>1, <1>7
  <2> QED
    BY <1>1, <1>7, <2>1, <2>2
<1>10. open = i
  <2>1. i <= Len(text)
    BY <1>1, <1>7, <1>9
  <2>2. \A k \in i..(i - 1) : text[k] \notin {"<"}
    BY <1>7
  <2> QED
    BY <1>7, <2>1, <2>2, FindIs
<1>. HIDE DEF open
<1>11. close = i + Len(inner) + 2
  <2>1. Close(text, i) = Find(text, {"-->"}, i + 2)
    BY <1>1, <1>7, <1>9 DEF Close
  <2>2. \A k \in (i + 2)..((i + Len(inner) + 2) - 1) : text[k] \notin {"-->"}
    <3>. SUFFICES ASSUME NEW k \in (i + 2)..((i + Len(inner) + 2) - 1) PROVE text[k] # "-->"
      OBVIOUS
    <3>1. k - i - 1 \in 1..Len(inner) /\ (i + 2) + (k - i - 1) - 1 = k
      BY <1>1, <1>7
    <3> QED
      BY <1>1, <1>8, <3>1
  <2>3. i + 2 \in Nat /\ i + 2 >= 1 /\ i + Len(inner) + 2 \in Nat /\ i + 2 <= i + Len(inner) + 2
        /\ text[i + Len(inner) + 2] \in {"-->"}
    BY <1>1, <1>7, <1>9
  <2>4. Find(text, {"-->"}, i + 2) = i + Len(inner) + 2
    BY <1>9, <2>2, <2>3, FindIs
  <2> QED
    BY <1>10, <2>1, <2>4
<1>. HIDE DEF close
<1>12. body # <<>> => body[1] = "!--"
  <2>1. open + 1 = i + 1 /\ close - 1 = i + Len(inner) + 1 /\ i + 1 <= i + Len(inner) + 1
    BY <1>1, <1>7, <1>10, <1>11
  <2>2. body[1] = text[i + 1]
    BY <1>1, <1>7, <1>9, <2>1
  <2> QED
    BY <1>7, <2>2
<1>13. ~IsTag(body)
  BY <1>12 DEF IsTag
<1>. HIDE DEF body, sc
<1>14. sc[i] = ScanFrom(text, sc, i)
  <2>1. i \in 1..(Len(text) + 1)
    BY <1>1, <1>7, <1>9
  <2> QED
    BY <2>1, ScannerIs DEF sc
<1>15. sc[i][file] = IF open = 0 \/ close = 0 THEN <<>>
                     ELSE IF ~IsTag(body) THEN sc[close + 1][file]
                     ELSE Declared(file, body) \o sc[close + 1][FileAfter(file, body)]
  BY <1>14, Zenon DEF ScanFrom, open, close, body
<1>16. open # 0 /\ close # 0 /\ close + 1 = i + Len(inner) + 3
       /\ i + Len(inner) + 3 \in 1..(Len(text) + 1)
  BY <1>1, <1>7, <1>9, <1>10, <1>11
<1>17. sc[i][file] = sc[i + Len(inner) + 3][file]
  BY <1>13, <1>15, <1>16, Zenon
<1> QED
  BY <1>16, <1>17 DEF sc

LEMMA ScanEnd ==
  ASSUME NEW text \in Seq(Pieces), NEW file \in Files
  PROVE  Scanner(text)[Len(text) + 1][file] = <<>>
<1>1. Len(text) \in Nat
  OBVIOUS
<1>2. Find(text, {"<"}, Len(text) + 1) = 0
  BY <1>1, FindNone
<1>3. Scanner(text)[Len(text) + 1] = ScanFrom(text, Scanner(text), Len(text) + 1)
  BY <1>1, ScannerIs
<1> QED
  BY <1>2, <1>3, Zenon DEF ScanFrom

\* The same six pieces, put together in two ways.
InThree(a, b, c, d, e, f) == <<a, b, c>> \o <<d>> \o <<e, f>>
InTwo(a, b, c, d, e, f) == <<a>> \o <<b, c, d, e>> \o <<f>>
LEMMA LongClass ==
  ASSUME NEW a, NEW b, NEW c, NEW d, NEW e, NEW f
  PROVE  InThree(a, b, c, d, e, f) = InTwo(a, b, c, d, e, f)
<1>. DEFINE S == {a, b, c, d, e, f}
            x == <<a, b, c>>
            y == <<d>>
            z == <<e, f>>
            u == <<a>>
            v == <<b, c, d, e>>
            w == <<f>>
<1>0. /\ x \in Seq(S) /\ y \in Seq(S) /\ z \in Seq(S)
      /\ u \in Seq(S) /\ v \in Seq(S) /\ w \in Seq(S)
  OBVIOUS
<1>1. /\ Len(x) = 3 /\ x[1] = a /\ x[2] = b /\ x[3] = c
      /\ Len(y) = 1 /\ y[1] = d
      /\ Len(z) = 2 /\ z[1] = e /\ z[2] = f
      /\ Len(u) = 1 /\ u[1] = a
      /\ Len(v) = 4 /\ v[1] = b /\ v[2] = c /\ v[3] = d /\ v[4] = e
      /\ Len(w) = 1 /\ w[1] = f
  OBVIOUS
<1>. HIDE DEF S, x, y, z, u, v, w
<1>. DEFINE xy == x \o y
            uv == u \o v
            l == xy \o z
            r == uv \o w
<1>2. /\ xy \in Seq(S) /\ Len(xy) = Len(x) + Len(y)
      /\ \A j \in 1..Len(x) : xy[j] = x[j]
      /\ \A j \in 1..Len(y) : xy[Len(x) + j] = y[j]
  BY <1>0, ConcatTyped
<1>3. /\ uv \in Seq(S) /\ Len(uv) = Len(u) + Len(v)
      /\ \A j \in 1..Len(u) : uv[j] = u[j]
      /\ \A j \in 1..Len(v) : uv[Len(u) + j] = v[j]
  BY <1>0, ConcatTyped
<1>4. /\ l \in Seq(S) /\ Len(l) = Len(xy) + Len(z)
      /\ \A j \in 1..Len(xy) : l[j] = xy[j]
      /\ \A j \in 1..Len(z) : l[Len(xy) + j] = z[j]
  BY <1>0, <1>2, ConcatTyped
<1>5. /\ r \in Seq(S) /\ Len(r) = Len(uv) + Len(w)
      /\ \A j \in 1..Len(uv) : r[j] = uv[j]
      /\ \A j \in 1..Len(w) : r[Len(uv) + j] = w[j]
  BY <1>0, <1>3, ConcatTyped
<1>. HIDE DEF xy, uv, l, r
<1>6. Len(xy) = 4 /\ xy[1] = a /\ xy[2] = b /\ xy[3] = c /\ xy[4] = d
  <2>1. xy[1] = x[1] /\ xy[2] = x[2] /\ xy[3] = x[3]
    BY <1>1, <1>2
  <2>2. xy[3 + 1] = y[1]
    BY <1>1, <1>2
  <2> QED
    BY <1>1, <1>2, <2>1, <2>2
<1>7. Len(uv) = 5 /\ uv[1] = a /\ uv[2] = b /\ uv[3] = c /\ uv[4] = d /\ uv[5] = e
  <2>1. uv[1] = u[1]
    BY <1>1, <1>3
  <2>2. uv[1 + 1] = v[1] /\ uv[1 + 2] = v[2] /\ uv[1 + 3] = v[3] /\ uv[1 + 4] = v[4]
    BY <1>1, <1>3
  <2> QED
    BY <1>1, <1>3, <2>1, <2>2
<1>8. Len(l) = 6 /\ l[1] = a /\ l[2] = b /\ l[3] = c /\ l[4] = d /\ l[5] = e /\ l[6] = f
  <2>1. l[1] = xy[1] /\ l[2] = xy[2] /\ l[3] = xy[3] /\ l[4] = xy[4]
    BY <1>1, <1>4, <1>6
  <2>2. l[4 + 1] = z[1] /\ l[4 + 2] = z[2]
    BY <1>1, <1>4, <1>6
  <2> QED
    BY <1>1, <1>4, <1>6, <2>1, <2>2
<1>9. Len(r) = 6 /\ r[1] = a /\ r[2] = b /\ r[3] = c /\ r[4] = d /\ r[5] = e /\ r[6] = f
  <2>1. r[1] = uv[1] /\ r[2] = uv[2] /\ r[3] = uv[3] /\ r[4] = uv[4] /\ r[5] = uv[5]
    BY <1>1, <1>5, <1>7
  <2>2. r[5 + 1] = w[1]
    BY <1>1, <1>5, <1>7
  <2> QED
    BY <1>1, <1>5, <1>7, <2>1, <2>2
<1>10. \A j \in 1..6 : l[j] = r[j]
  BY <1>8, <1>9
<1>11. l = r
  <2>1. l \in Seq(S) /\ r \in Seq(S) /\ Len(l) = Len(r)
    BY <1>4, <1>5, <1>8, <1>9, Zenon
  <2>2. \A j \in 1..Len(l) : l[j] = r[j]
    <3>1. Len(l) = 6
      BY <1>8
    <3> QED
      BY <1>10, <3>1, Zenon
  <2> QED
    BY <2>1, <2>2
<1> QED
  BY <1>11 DEF l, r, xy, uv, x, y, z, u, v, w, InThree, InTwo

LEMMA InsideOf ==
  ASSUME NEW S, NEW body \in Seq(S), NEW inner \in Seq(S), Len(body) = Len(inner) + 1,
         SelfClosing(body), ~Closing(body), \A j \in 1..Len(inner) : body[j] = inner[j]
  PROVE  Inside(body) = inner
<1>1. Len(body) \in Nat /\ Len(inner) \in Nat /\ Len(body) - 1 = Len(inner)
  OBVIOUS
<1>2. Inside(body) = SubSeq(body, 1, Len(body) - 1)
  BY Zenon DEF Inside
<1>. DEFINE t == SubSeq(body, 1, Len(body) - 1)
<1>3. t \in Seq(S) /\ Len(t) = Len(inner) /\ \A j \in 1..Len(inner) : t[j] = body[j]
  BY <1>1
<1>. HIDE DEF t
<1>4. t = inner
  BY <1>3
<1> QED
  BY <1>2, <1>4 DEF t

\* An attribute is read if it is the only one with its key, and nothing before
\* it stops the reader.
LEMMA AttrIs ==
  ASSUME NEW S, NEW inside \in Seq(S), NEW body, Inside(body) = inside, NEW key,
         \A j \in DOMAIN inside : inside[j] # Loose,
         NEW i \in DOMAIN inside, inside[i] \in OfKey(key),
         \A j \in DOMAIN inside : inside[j] \in OfKey(key) => j = i
  PROVE  AttrValue(body, key) = Attributes[inside[i]].value
<1>. DEFINE read == Inside(body)
            end == Find(read, {Loose}, 1)
            found == {j \in DOMAIN read :
                        /\ read[j] \in DOMAIN Attributes /\ Attributes[read[j]].key = key
                        /\ end = 0 \/ j < end}
<1>0. read = inside
  OBVIOUS
<1>1. DOMAIN inside = 1..Len(inside) /\ Len(inside) \in Nat /\ i \in Nat
  OBVIOUS
<1>2. end = 0
  <2>1. \A k \in 1..Len(inside) : inside[k] \notin {Loose}
    BY <1>1
  <2> QED
    BY <1>0, <2>1, FindNone
<1>. HIDE DEF end, read
<1>3. found = {i}
  BY <1>0, <1>2 DEF OfKey
<1>. HIDE DEF found
<1>4. (CHOOSE j \in found : \A k \in found : j <= k) = i
  BY <1>1, <1>3
<1>5. AttrValue(body, key) = IF found = {} THEN None
                             ELSE Attributes[read[CHOOSE j \in found : \A k \in found : j <= k]].value
  BY Zenon DEF AttrValue, found, end, read
<1> QED
  BY <1>0, <1>3, <1>4, <1>5

LEMMA AttrNone ==
  ASSUME NEW body, NEW inside, Inside(body) = inside, NEW key,
         \A j \in DOMAIN inside : inside[j] \notin OfKey(key)
  PROVE  AttrValue(body, key) = None
<1>. DEFINE read == Inside(body)
            end == Find(read, {Loose}, 1)
            found == {j \in DOMAIN read :
                        /\ read[j] \in DOMAIN Attributes /\ Attributes[read[j]].key = key
                        /\ end = 0 \/ j < end}
<1>0. read = inside
  OBVIOUS
<1>. HIDE DEF read, end
<1>3. found = {}
  BY <1>0 DEF OfKey
<1>. HIDE DEF found
<1>5. AttrValue(body, key) = IF found = {} THEN None
                             ELSE Attributes[read[CHOOSE j \in found : \A k \in found : j <= k]].value
  BY Zenon DEF AttrValue, found, end, read
<1> QED
  BY <1>3, <1>5, Zenon

\* A class as the scanner hands it on.
DeclaredAs(c, file) ==
  [clsid |-> Attributes[c.clsid].value,
   progid |-> IF c.progid = None THEN None ELSE Attributes[c.progid].value,
   server_dll |-> file]

\* The body of a tag that does what a class does in the loop.
IsClassBody(body, c) ==
  /\ body \in Seq(Pieces) /\ body # <<>> /\ body[1] # "!--" /\ IsTag(body)
  /\ \A j \in DOMAIN body : body[j] \notin TagEnds
  /\ \A file : FileAfter(file, body) = file /\ Declared(file, body) = <<DeclaredAs(c, file)>>
  /\ WrittenClass(c) = <<"<">> \o body \o <<">">>

LEMMA ClassBody ==
  ASSUME NEW c \in ClassDecl
  PROVE  \E body : IsClassBody(body, c)
<1>. DEFINE p == c.clsid
            q == c.progid
<1>1. /\ p \in OfKey("clsid") /\ q \in OfKey("progid") \cup {None}
      /\ p \in DOMAIN Attributes /\ (q # None => q \in DOMAIN Attributes)
      /\ Attributes[p].key = "clsid" /\ (q # None => Attributes[q].key = "progid")
  BY DEF ClassDecl, OfKey
<1>2. /\ Marks \cap (DOMAIN Attributes \cup {Loose}) = {} /\ Loose \notin DOMAIN Attributes
      /\ None \notin DOMAIN Attributes \cup Values
  BY ManifestsAssumption
<1>3. /\ "comClass" \in Pieces /\ "/" \in Pieces /\ p \in Pieces /\ (q # None => q \in Pieces)
      /\ "comClass" \notin TagEnds /\ "/" \notin TagEnds /\ p \notin Marks /\ (q # None => q \notin Marks)
      /\ TagEnds \subseteq Marks /\ "/" \in Marks /\ "comClass" \in Marks /\ "comClass" # Loose
      /\ "comClass" \notin DOMAIN Attributes
  BY <1>1, <1>2 DEF Pieces, Marks, TagEnds
<1>4. p # Loose /\ (q # None => q # Loose) /\ Attributes[p].value # None
  BY <1>1, <1>2 DEF Values
<1>. HIDE DEF p, q
<1>5. CASE q = None
  <2>. DEFINE body == <<"comClass", p, "/">>
              inner == <<"comClass", p>>
  <2>1. body \in Seq(Pieces) /\ Len(body) = 3 /\ DOMAIN body = 1..3
        /\ body[1] = "comClass" /\ body[2] = p /\ body[3] = "/" /\ body # <<>>
    BY <1>3
  <2>2. inner \in Seq(Pieces) /\ Len(inner) = 2 /\ DOMAIN inner = 1..2
        /\ inner[1] = "comClass" /\ inner[2] = p /\ inner # <<>>
    BY <1>3
  <2>3. WrittenClass(c) = <<"<">> \o body \o <<">">>
    <3>1. WrittenClass(c) = <<"<", "comClass", p>> \o <<>> \o <<"/", ">">>
      BY <1>5, Zenon DEF WrittenClass, p, q
    <3> QED
      BY <3>1
  <2>. HIDE DEF body, inner
  <2>4. SelfClosing(body) /\ ~Closing(body) /\ IsTag(body)
    BY <2>1 DEF SelfClosing, Closing, IsTag
  <2>5. Inside(body) = inner
    <3>1. Len(body) = Len(inner) + 1 /\ \A j \in 1..Len(inner) : body[j] = inner[j]
      BY <2>1, <2>2
    <3> QED
      BY <2>1, <2>2, <2>4, <3>1, InsideOf
  <2>6. TagName(body) = "comClass"
    BY <2>2, <2>5 DEF TagName
  <2>7. AttrValue(body, "clsid") = Attributes[p].value
    <3>1. \A j \in DOMAIN inner : inner[j] # Loose
      BY <1>3, <1>4, <2>2
    <3>2. 2 \in DOMAIN inner /\ inner[2] \in OfKey("clsid")
      BY <1>1, <2>2 DEF OfKey
    <3>3. \A j \in DOMAIN inner : inner[j] \in OfKey("clsid") => j = 2
      BY <1>3, <2>2 DEF OfKey
    <3>4. AttrValue(body, "clsid") = Attributes[inner[2]].value
      BY <2>2, <2>5, <3>1, <3>2, <3>3, AttrIs
    <3> QED
      BY <2>2, <3>4
  <2>8. AttrValue(body, "progid") = None
    <3>1. \A j \in DOMAIN inner : inner[j] \notin OfKey("progid")
      BY <1>1, <1>3, <2>2 DEF OfKey
    <3> QED
      BY <2>5, <3>1, AttrNone
  <2>9. \A file : FileAfter(file, body) = file /\ Declared(file, body) = <<DeclaredAs(c, file)>>
    BY <1>4, <1>5, <2>4, <2>6, <2>7, <2>8 DEF FileAfter, Declared, DeclaredAs, p, q
  <2>10. \A j \in DOMAIN body : body[j] \notin TagEnds
    BY <1>3, <2>1
  <2>11. IsClassBody(body, c)
    BY <2>1, <2>3, <2>4, <2>9, <2>10 DEF IsClassBody
  <2> QED
    BY <2>11
<1>6. CASE q # None
  <2>. DEFINE body == <<"comClass", p, q, "/">>
              inner == <<"comClass", p, q>>
  <2>1. body \in Seq(Pieces) /\ Len(body) = 4 /\ DOMAIN body = 1..4
        /\ body[1] = "comClass" /\ body[2] = p /\ body[3] = q /\ body[4] = "/" /\ body # <<>>
    BY <1>3, <1>6
  <2>2. inner \in Seq(Pieces) /\ Len(inner) = 3 /\ DOMAIN inner = 1..3
        /\ inner[1] = "comClass" /\ inner[2] = p /\ inner[3] = q /\ inner # <<>>
    BY <1>3, <1>6
  <2>3. WrittenClass(c) = <<"<">> \o body \o <<">">>
    <3>1. WrittenClass(c) = <<"<", "comClass", p>> \o <<q>> \o <<"/", ">">>
      BY <1>6, Zenon DEF WrittenClass, p, q
    <3>2. <<"<", "comClass", p>> \o <<q>> \o <<"/", ">">> = <<"<">> \o <<"comClass", p, q, "/">> \o <<">">>
      <4>1. InThree("<", "comClass", p, q, "/", ">") = InTwo("<", "comClass", p, q, "/", ">")
        BY LongClass, Zenon
      <4> QED
        BY <4>1, Zenon DEF InThree, InTwo
    <3> QED
      BY <3>1, <3>2, Zenon DEF body
  <2>. HIDE DEF body, inner
  <2>4. SelfClosing(body) /\ ~Closing(body) /\ IsTag(body)
    BY <2>1 DEF SelfClosing, Closing, IsTag
  <2>5. Inside(body) = inner
    <3>1. Len(body) = Len(inner) + 1 /\ \A j \in 1..Len(inner) : body[j] = inner[j]
      BY <2>1, <2>2
    <3> QED
      BY <2>1, <2>2, <2>4, <3>1, InsideOf
  <2>6. TagName(body) = "comClass"
    BY <2>2, <2>5 DEF TagName
  <2>12. \A j \in DOMAIN inner : inner[j] # Loose
    BY <1>3, <1>4, <1>6, <2>2
  <2>7. AttrValue(body, "clsid") = Attributes[p].value
    <3>2. 2 \in DOMAIN inner /\ inner[2] \in OfKey("clsid")
      BY <1>1, <2>2 DEF OfKey
    <3>3. \A j \in DOMAIN inner : inner[j] \in OfKey("clsid") => j = 2
      BY <1>1, <1>3, <1>6, <2>2 DEF OfKey
    <3>4. AttrValue(body, "clsid") = Attributes[inner[2]].value
      BY <2>2, <2>5, <2>12, <3>2, <3>3, AttrIs
    <3> QED
      BY <2>2, <3>4
  <2>8. AttrValue(body, "progid") = Attributes[q].value
    <3>2. 3 \in DOMAIN inner /\ inner[3] \in OfKey("progid")
      BY <1>1, <1>6, <2>2 DEF OfKey
    <3>3. \A j \in DOMAIN inner : inner[j] \in OfKey("progid") => j = 3
      BY <1>1, <1>3, <2>2 DEF OfKey
    <3>4. AttrValue(body, "progid") = Attributes[inner[3]].value
      BY <2>2, <2>5, <2>12, <3>2, <3>3, AttrIs
    <3> QED
      BY <2>2, <3>4
  <2>9. \A file : FileAfter(file, body) = file /\ Declared(file, body) = <<DeclaredAs(c, file)>>
    BY <1>4, <1>6, <2>4, <2>6, <2>7, <2>8 DEF FileAfter, Declared, DeclaredAs, p, q
  <2>10. \A j \in DOMAIN body : body[j] \notin TagEnds
    BY <1>3, <1>6, <2>1
  <2>11. IsClassBody(body, c)
    BY <2>1, <2>3, <2>4, <2>9, <2>10 DEF IsClassBody
  <2> QED
    BY <2>11
<1> QED
  BY <1>5, <1>6

-----------------------------------------------------------------------------
(* What the scanner makes of a file                                        *)

\* What a text outside of a comment, or within, is written with.
Words == Pieces \ {"-->"}

LEMMA Kinds ==
  /\ Words \subseteq Pieces
  /\ {"<", ">", "!--", "?", "!", "/", "comClass", "file", Loose} \subseteq Words
  /\ DOMAIN Attributes \subseteq Words
  /\ \A a \in DOMAIN Attributes : a \notin Marks /\ a # Loose /\ Attributes[a].value \in Files
                                  /\ Attributes[a].value # None
  /\ Loose \notin Marks
  BY ManifestsAssumption DEF Words, Pieces, Marks, TagEnds, Files, Values

LEMMA ClassTyped ==
  ASSUME NEW c \in ClassDecl
  PROVE  WrittenClass(c) \in Seq(Words)
<1>. DEFINE a == <<"<", "comClass", c.clsid>>
            b == IF c.progid = None THEN <<>> ELSE <<c.progid>>
            d == <<"/", ">">>
<1>1. a \in Seq(Words) /\ b \in Seq(Words) /\ d \in Seq(Words)
  <2>1. c.clsid \in Words /\ c.progid \in Words \cup {None}
    BY Kinds DEF ClassDecl, OfKey
  <2>2. a \in Seq(Words)
    BY <2>1, Kinds
  <2>3. d \in Seq(Words)
    BY Kinds
  <2>4. b \in Seq(Words)
    BY <2>1
  <2> QED
    BY <2>2, <2>3, <2>4
<1>2. WrittenClass(c) = a \o b \o d
  BY Zenon DEF WrittenClass
<1>. HIDE DEF a, b, d
<1> QED
  BY <1>1, <1>2

ClassTexts(cs) == [n \in DOMAIN cs |-> WrittenClass(cs[n])]

LEMMA ClassesTyped ==
  ASSUME NEW cs \in Seq(ClassDecl)
  PROVE  /\ ClassTexts(cs) \in Seq(Seq(Words)) /\ Len(ClassTexts(cs)) = Len(cs)
         /\ \A n \in 1..Len(cs) : ClassTexts(cs)[n] = WrittenClass(cs[n])
<1>1. DOMAIN cs = 1..Len(cs) /\ Len(cs) \in Nat
  OBVIOUS
<1>2. \A n \in 1..Len(cs) : WrittenClass(cs[n]) \in Seq(Words)
  <2>1. \A n \in 1..Len(cs) : cs[n] \in ClassDecl
    OBVIOUS
  <2> QED
    BY <2>1, ClassTyped
<1>3. \A t : (t = [n \in 1..Len(cs) |-> WrittenClass(cs[n])]) =>
        /\ t \in Seq(Seq(Words)) /\ Len(t) = Len(cs)
        /\ \A n \in 1..Len(cs) : t[n] = WrittenClass(cs[n])
  BY <1>1, <1>2
<1> QED
  BY <1>1, <1>3, Zenon DEF ClassTexts

LEMMA FileTyped ==
  ASSUME NEW f \in FileDecl
  PROVE  WrittenFile(f) \in Seq(Words)
<1>. DEFINE a == <<"<", "file">>
            b == IF f.loose THEN <<Loose, ">">> ELSE <<>>
            c == <<f.name>>
            open == <<">">>
            flat == FlattenSeq(ClassTexts(f.classes))
            close == <<"<", "/", "file", ">">>
            shut == <<"/", ">">>
            tail == IF f.open THEN open \o flat \o close ELSE shut
<1>1. a \in Seq(Words) /\ open \in Seq(Words) /\ close \in Seq(Words) /\ shut \in Seq(Words)
  BY Kinds
<1>2. b \in Seq(Words)
  <2>1. <<Loose, ">">> \in Seq(Words) /\ <<>> \in Seq(Words)
    BY Kinds
  <2> QED
    BY <2>1
<1>3. c \in Seq(Words)
  <2>1. f.name \in Words
    BY Kinds DEF FileDecl, OfKey
  <2> QED
    BY <2>1
<1>4. flat \in Seq(Words)
  <2>1. f.classes \in Seq(ClassDecl)
    BY DEF FileDecl
  <2> QED
    BY <2>1, ClassesTyped, FlattenAt, Zenon
<1>5. WrittenFile(f) = a \o b \o c \o tail
  BY Zenon DEF WrittenFile, ClassTexts
<1>. HIDE DEF a, b, c, open, flat, close, shut
<1>6. tail \in Seq(Words)
  BY <1>1, <1>4
<1>. HIDE DEF tail
<1> QED
  BY <1>1, <1>2, <1>3, <1>5, <1>6

LEMMA SeqWider ==
  ASSUME NEW S, NEW T, S \subseteq T, NEW s \in Seq(S)
  PROVE  s \in Seq(T)
  OBVIOUS

LEMMA ItemTyped ==
  ASSUME NEW x \in ItemDecl
  PROVE  WrittenItem(x) \in Seq(Pieces)
<1>1. CASE x.kind = "file"
  <2>1. x.file \in FileDecl
    BY <1>1 DEF ItemDecl
  <2>2. WrittenItem(x) = WrittenFile(x.file)
    BY <1>1 DEF WrittenItem
  <2> QED
    BY <2>1, <2>2, FileTyped, SeqWider, Kinds
<1>2. CASE x.kind = "class"
  <2>1. x.class \in ClassDecl
    BY <1>2 DEF ItemDecl
  <2>2. WrittenItem(x) = WrittenClass(x.class)
    BY <1>2 DEF WrittenItem
  <2> QED
    BY <2>1, <2>2, ClassTyped, SeqWider, Kinds
<1>3. CASE x.kind = "comment"
  <2>1. x.file \in FileDecl
    BY <1>3 DEF ItemDecl
  <2>. DEFINE start == <<"<", "!--">>
              inner == WrittenFile(x.file)
              end == <<"-->">>
  <2>2. inner \in Seq(Pieces)
    BY <2>1, FileTyped, SeqWider, Kinds
  <2>3. start \in Seq(Pieces)
    BY Kinds
  <2>4. end \in Seq(Pieces)
    BY DEF Pieces, Marks, TagEnds
  <2>5. WrittenItem(x) = start \o inner \o end
    BY <1>3, Zenon DEF WrittenItem
  <2>. HIDE DEF start, inner, end
  <2> QED
    BY <2>2, <2>3, <2>4, <2>5
<1>4. CASE x.kind = "prolog"
  <2>1. x.mark \in {"?", "!"}
    BY <1>4 DEF ItemDecl
  <2>2. WrittenItem(x) = <<"<", x.mark, ">">>
    BY <1>4 DEF WrittenItem
  <2>3. x.mark \in Pieces /\ "<" \in Pieces /\ ">" \in Pieces
    BY <2>1, Kinds
  <2> QED
    BY <2>2, <2>3
<1> QED
  BY <1>1, <1>2, <1>3, <1>4 DEF ItemDecl

\* A tag that the scanner can take apart.
IsBody(body) ==
  /\ body \in Seq(Pieces) /\ body # <<>> /\ body[1] # "!--"
  /\ \A j \in DOMAIN body : body[j] \notin TagEnds

\* The tags around the classes of a file, and of a file without.
LEMMA OpenBody ==
  ASSUME NEW a \in OfKey("name"), NEW body, body = <<"file", a>>
  PROVE  /\ IsBody(body) /\ IsTag(body) /\ Len(body) = 2
         /\ \A file : FileAfter(file, body) = Attributes[a].value /\ Declared(file, body) = <<>>
<1>1. a \in Pieces /\ "file" \in Pieces /\ a \notin Marks /\ a # Loose /\ "file" # Loose
      /\ "file" \notin DOMAIN Attributes
  BY Kinds DEF OfKey, Marks
<1>2. body \in Seq(Pieces) /\ Len(body) = 2 /\ DOMAIN body = 1..2 /\ body[1] = "file" /\ body[2] = a
      /\ body # <<>>
  BY <1>1
<1>3. ~SelfClosing(body) /\ ~Closing(body) /\ IsTag(body)
  BY <1>1, <1>2 DEF SelfClosing, Closing, IsTag, Marks
<1>4. IsBody(body)
  BY <1>1, <1>2 DEF IsBody, TagEnds, Marks
<1>5. Inside(body) = body
  <2>1. Inside(body) = SubSeq(body, 1, Len(body))
    BY <1>3, Zenon DEF Inside
  <2> QED
    BY <1>2, <2>1
<1>6. TagName(body) = "file"
  BY <1>2, <1>5 DEF TagName
<1>7. AttrValue(body, "name") = Attributes[a].value
  <2>1. \A j \in DOMAIN body : body[j] # Loose
    BY <1>1, <1>2
  <2>2. 2 \in DOMAIN body /\ body[2] \in OfKey("name")
    BY <1>2
  <2>3. \A j \in DOMAIN body : body[j] \in OfKey("name") => j = 2
    BY <1>1, <1>2 DEF OfKey
  <2>. DEFINE inner == body
  <2>4. /\ inner \in Seq(Pieces) /\ Inside(body) = inner /\ inner[2] = a
        /\ \A j \in DOMAIN inner : inner[j] # Loose
        /\ 2 \in DOMAIN inner /\ inner[2] \in OfKey("name")
        /\ \A j \in DOMAIN inner : inner[j] \in OfKey("name") => j = 2
    BY <1>2, <1>5, <2>1, <2>2, <2>3, Zenon
  <2>. HIDE DEF inner
  <2>5. AttrValue(body, "name") = Attributes[inner[2]].value
    BY <2>4, AttrIs
  <2> QED
    BY <2>4, <2>5
<1>8. \A file : FileAfter(file, body) = Attributes[a].value /\ Declared(file, body) = <<>>
  BY <1>3, <1>6, <1>7 DEF FileAfter, Declared
<1> QED
  BY <1>2, <1>3, <1>4, <1>8

LEMMA ShutBody ==
  ASSUME NEW a \in OfKey("name"), NEW body, body = <<"file", a, "/">>
  PROVE  /\ IsBody(body) /\ IsTag(body) /\ Len(body) = 3
         /\ \A file : FileAfter(file, body) = None /\ Declared(file, body) = <<>>
<1>1. a \in Pieces /\ "file" \in Pieces /\ "/" \in Pieces /\ a \notin Marks
  BY Kinds DEF OfKey
<1>. DEFINE inner == <<"file", a>>
<1>2. body \in Seq(Pieces) /\ Len(body) = 3 /\ DOMAIN body = 1..3 /\ body[1] = "file" /\ body[2] = a
      /\ body[3] = "/" /\ body # <<>>
  BY <1>1
<1>3. inner \in Seq(Pieces) /\ Len(inner) = 2 /\ inner[1] = "file" /\ inner[2] = a /\ inner # <<>>
  BY <1>1
<1>. HIDE DEF inner
<1>4. SelfClosing(body) /\ ~Closing(body) /\ IsTag(body)
  BY <1>1, <1>2 DEF SelfClosing, Closing, IsTag, Marks
<1>5. IsBody(body)
  BY <1>1, <1>2 DEF IsBody, TagEnds, Marks
<1>6. Inside(body) = inner
  <2>1. Len(body) = Len(inner) + 1 /\ \A j \in 1..Len(inner) : body[j] = inner[j]
    BY <1>2, <1>3
  <2> QED
    BY <1>2, <1>3, <1>4, <2>1, InsideOf
<1>7. TagName(body) = "file"
  BY <1>3, <1>6 DEF TagName
<1>8. \A file : FileAfter(file, body) = None /\ Declared(file, body) = <<>>
  BY <1>4, <1>7 DEF FileAfter, Declared
<1> QED
  BY <1>2, <1>4, <1>5, <1>8

LEMMA CloseBody ==
  ASSUME NEW body, body = <<"/", "file">>
  PROVE  /\ IsBody(body) /\ IsTag(body) /\ Len(body) = 2
         /\ \A file : FileAfter(file, body) = None /\ Declared(file, body) = <<>>
<1>1. "file" \in Pieces /\ "/" \in Pieces
  BY Kinds
<1>2. body \in Seq(Pieces) /\ Len(body) = 2 /\ DOMAIN body = 1..2 /\ body[1] = "/" /\ body[2] = "file"
      /\ body # <<>>
  BY <1>1
<1>3. ~SelfClosing(body) /\ Closing(body) /\ IsTag(body)
  BY <1>2 DEF SelfClosing, Closing, IsTag
<1>4. IsBody(body)
  BY <1>2 DEF IsBody, TagEnds
<1>5. Inside(body) = <<"file">>
  <2>1. Inside(body) = SubSeq(body, 2, Len(body))
    BY <1>3, Zenon DEF Inside
  <2>2. SubSeq(body, 2, 2) = <<"file">>
    <3>. DEFINE t == SubSeq(body, 2, 2)
                u == <<"file">>
    <3>1. t \in Seq(Pieces) /\ Len(t) = 1 /\ t[1] = body[2]
      BY <1>2
    <3>2. u \in Seq(Pieces) /\ Len(u) = 1 /\ u[1] = "file"
      BY <1>1
    <3>. HIDE DEF t, u
    <3>3. t = u
      BY <1>2, <3>1, <3>2
    <3> QED
      BY <3>3 DEF t, u
  <2> QED
    BY <1>2, <2>1, <2>2
<1>6. TagName(body) = "file"
  BY <1>5 DEF TagName
<1>7. \A file : FileAfter(file, body) = None /\ Declared(file, body) = <<>>
  BY <1>3, <1>6 DEF FileAfter, Declared
<1> QED
  BY <1>2, <1>3, <1>4, <1>7

-----------------------------------------------------------------------------
(* The first class that matches, in what the scanner yields and in what    *)
(* the author of a manifest wrote                                          *)

Yields == [clsid : Values, progid : Values \cup {None}, server_dll : Files]

\* The file of the first class that matches.
Found(seq) ==
  LET found == SelectInSeq(seq, Matches)
  IN  IF found = 0 THEN <<>> ELSE <<seq[found].server_dll>>

LEMMA SelectFirst ==
  ASSUME NEW S, NEW seq \in Seq(S)
  PROVE  \/ SelectInSeq(seq, Matches) = 0 /\ \A i \in 1..Len(seq) : ~Matches(seq[i])
         \/ /\ SelectInSeq(seq, Matches) \in 1..Len(seq) /\ Matches(seq[SelectInSeq(seq, Matches)])
            /\ \A i \in 1..Len(seq) : Matches(seq[i]) => SelectInSeq(seq, Matches) <= i
<1>. DEFINE places == {i \in 1..Len(seq) : Matches(seq[i])}
            least == CHOOSE x \in places : \A y \in places : x <= y
<1>1. SelectInSeq(seq, Matches) = IF places # {} THEN least ELSE 0
  BY Zenon DEF SelectInSeq, Min
<1>2. CASE places = {}
  BY <1>1, <1>2
<1>3. CASE places # {}
  <2>1. places \in SUBSET Nat
    OBVIOUS
  <2>2. \E x \in places : \A y \in places : x <= y
    BY <1>3, <2>1, LeastNatural
  <2>3. least \in places /\ \A y \in places : least <= y
    BY <2>2, Zenon
  <2>4. SelectInSeq(seq, Matches) = least
    BY <1>1, <1>3, Zenon
  <2>. HIDE DEF least
  <2> QED
    BY <2>3, <2>4
<1> QED
  BY <1>2, <1>3

LEMMA FoundCons ==
  ASSUME NEW c \in Yields, NEW seq \in Seq(Yields)
  PROVE  /\ <<c>> \o seq \in Seq(Yields)
         /\ Found(<<c>> \o seq) = IF Matches(c) THEN <<c.server_dll>> ELSE Found(seq)
<1>. DEFINE one == <<c>>
            longer == one \o seq
            f == SelectInSeq(longer, Matches)
            g == SelectInSeq(seq, Matches)
            M(x) == Matches(x)
<1>1. one \in Seq(Yields) /\ Len(one) = 1 /\ one[1] = c
  OBVIOUS
<1>. HIDE DEF one
<1>2. /\ longer \in Seq(Yields) /\ Len(longer) = Len(one) + Len(seq)
      /\ \A j \in 1..Len(one) : longer[j] = one[j]
      /\ \A j \in 1..Len(seq) : longer[Len(one) + j] = seq[j]
  BY <1>1, ConcatTyped
<1>. HIDE DEF longer
<1>3. /\ Len(longer) = 1 + Len(seq) /\ longer[1] = c /\ Len(seq) \in Nat
      /\ \A j \in 1..Len(seq) : longer[1 + j] = seq[j]
  BY <1>1, <1>2
<1>4. \/ f = 0 /\ \A i \in 1..Len(longer) : ~M(longer[i])
      \/ /\ f \in 1..Len(longer) /\ M(longer[f])
         /\ \A i \in 1..Len(longer) : M(longer[i]) => f <= i
  BY <1>2, SelectFirst, Zenon
<1>5. \/ g = 0 /\ \A i \in 1..Len(seq) : ~M(seq[i])
      \/ /\ g \in 1..Len(seq) /\ M(seq[g])
         /\ \A i \in 1..Len(seq) : M(seq[i]) => g <= i
  BY SelectFirst, Zenon
<1>6. /\ Found(longer) = IF f = 0 THEN <<>> ELSE <<longer[f].server_dll>>
      /\ Found(seq) = IF g = 0 THEN <<>> ELSE <<seq[g].server_dll>>
  BY Zenon DEF Found
<1>. HIDE DEF f, g, M
<1>7. CASE M(c)
  <2>1. f = 1
    BY <1>3, <1>4, <1>7
  <2>2. Found(longer) = <<c.server_dll>>
    BY <1>3, <1>6, <2>1
  <2> QED
    BY <1>2, <1>7, <2>2, Zenon DEF longer, one, M
<1>8. CASE ~M(c)
  <2>1. CASE g = 0
    <3>1. \A i \in 1..Len(longer) : ~M(longer[i])
      <4>1. ASSUME NEW i \in 1..Len(longer) PROVE ~M(longer[i])
        <5>1. CASE i = 1
          BY <1>3, <1>8, <5>1
        <5>2. CASE i # 1
          <6>1. i - 1 \in 1..Len(seq) /\ 1 + (i - 1) = i
            BY <1>3, <5>2
          <6> QED
            <7>1. longer[i] = seq[i - 1]
              BY <1>3, <6>1
            <7>2. ~M(seq[i - 1])
              BY <1>5, <2>1, <6>1
            <7> QED
              BY <7>1, <7>2, Zenon
        <5> QED
          BY <5>1, <5>2
      <4> QED
        BY <4>1
    <3>2. f = 0
      BY <1>4, <3>1
    <3> QED
      BY <1>2, <1>6, <1>8, <2>1, <3>2, Zenon DEF longer, one, M
  <2>2. CASE g # 0
    <3>1. g \in 1..Len(seq) /\ M(seq[g]) /\ \A i \in 1..Len(seq) : M(seq[i]) => g <= i
      BY <1>5, <2>2
    <3>2. 1 + g \in 1..Len(longer) /\ M(longer[1 + g])
      BY <1>3, <3>1
    <3>3. f \in 1..Len(longer) /\ M(longer[f]) /\ f <= 1 + g
      BY <1>4, <3>2
    <3>4. f # 1
      BY <1>3, <1>8, <3>3
    <3>5. f - 1 \in 1..Len(seq) /\ 1 + (f - 1) = f
      BY <1>3, <3>3, <3>4
    <3>6. M(seq[f - 1])
      BY <1>3, <3>3, <3>5
    <3>7. g <= f - 1
      BY <3>1, <3>5, <3>6
    <3>8. f = 1 + g
      BY <3>1, <3>3, <3>5, <3>7
    <3>9. longer[f] = seq[g] /\ f # 0
      BY <1>3, <3>1, <3>8
    <3> QED
      BY <1>2, <1>6, <1>8, <2>2, <3>9, Zenon DEF longer, one, M
  <2> QED
    BY <2>1, <2>2
<1> QED
  BY <1>7, <1>8

LEMMA FoundNothing == Found(<<>>) = <<>>
<1>. DEFINE none == <<>>
            f == SelectInSeq(none, Matches)
<1>1. none \in Seq(Yields) /\ Len(none) = 0
  OBVIOUS
<1>. HIDE DEF none
<1>2. f = 0 \/ f \in 1..Len(none)
  BY <1>1, SelectFirst, Zenon
<1>. HIDE DEF f
<1>3. f = 0
  BY <1>1, <1>2
<1> QED
  BY <1>3, Zenon DEF Found, f, none

\* What is left of the declarations that match, from a place on.
Rest(items, n, k) == {x \in Asked(items) : x[1] > n \/ (x[1] = n /\ x[2] >= k)}
Answer(items, n, k) ==
  IF Rest(items, n, k) = {} THEN <<>>
  ELSE <<DeclaredServer(items, FirstOf(Rest(items, n, k)))>>

\* The places of one item.
ItemPlaces(items, n) ==
  IF items[n].kind = "class" THEN {<<n, 0>>}
  ELSE IF items[n].kind = "file" /\ items[n].file.open
    THEN {<<n, k>> : k \in 1..Len(items[n].file.classes)}
  ELSE {}

LEMMA PlacesOf ==
  ASSUME NEW items \in Seq(ItemDecl)
  PROVE  /\ \A x \in Declarations(items) : x \in ItemPlaces(items, x[1]) /\ x[1] \in 1..Len(items)
         /\ \A n \in 1..Len(items) : ItemPlaces(items, n) \subseteq Declarations(items)
         /\ Declarations(items) \subseteq Nat \X Nat
         /\ Asked(items) \subseteq Declarations(items)
<1>1. DOMAIN items = 1..Len(items) /\ Len(items) \in Nat
  OBVIOUS
<1>2. \A n \in 1..Len(items) : items[n].kind = "file" =>
        /\ DOMAIN items[n].file.classes = 1..Len(items[n].file.classes)
        /\ Len(items[n].file.classes) \in Nat
  <2>1. ASSUME NEW n \in 1..Len(items), items[n].kind = "file"
        PROVE  /\ DOMAIN items[n].file.classes = 1..Len(items[n].file.classes)
               /\ Len(items[n].file.classes) \in Nat
    <3>1. items[n] \in ItemDecl
      OBVIOUS
    <3>2. items[n].file \in FileDecl
      BY <2>1, <3>1 DEF ItemDecl
    <3>3. items[n].file.classes \in Seq(ClassDecl)
      BY <3>2 DEF FileDecl
    <3> QED
      BY <3>3
  <2> QED
    BY <2>1
<1>3. ASSUME NEW x \in Declarations(items)
      PROVE  x \in ItemPlaces(items, x[1]) /\ x[1] \in 1..Len(items) /\ x \in Nat \X Nat
  <2>1. CASE x \in {<<i, 0>> : i \in {j \in DOMAIN items : items[j].kind = "class"}}
    <3>1. PICK i \in {j \in DOMAIN items : items[j].kind = "class"} : x = <<i, 0>>
      BY <2>1
    <3>2. i \in 1..Len(items) /\ items[i].kind = "class" /\ x[1] = i
      BY <1>1, <3>1
    <3> QED
      BY <3>1, <3>2 DEF ItemPlaces
  <2>2. CASE x \in UNION {{<<i, k>> : k \in DOMAIN items[i].file.classes} :
                 i \in {j \in DOMAIN items : items[j].kind = "file" /\ items[j].file.open}}
    <3>1. PICK i \in {j \in DOMAIN items : items[j].kind = "file" /\ items[j].file.open} :
            x \in {<<i, k>> : k \in DOMAIN items[i].file.classes}
      BY <2>2
    <3>2. PICK k \in DOMAIN items[i].file.classes : x = <<i, k>>
      BY <3>1
    <3>3. i \in 1..Len(items) /\ items[i].kind = "file" /\ items[i].file.open /\ x[1] = i
      BY <1>1, <3>1, <3>2
    <3>4. k \in 1..Len(items[i].file.classes) /\ k \in Nat
      BY <1>2, <3>2, <3>3
    <3>5. items[i].kind # "class"
      BY <3>3
    <3>6. x \in ItemPlaces(items, i)
      BY <3>2, <3>3, <3>4, <3>5 DEF ItemPlaces
    <3> QED
      BY <3>2, <3>3, <3>4, <3>6
  <2> QED
    BY <2>1, <2>2 DEF Declarations
<1>4. ASSUME NEW n \in 1..Len(items), NEW x \in ItemPlaces(items, n) PROVE x \in Declarations(items)
  <2>1. CASE items[n].kind = "class"
    BY <1>1, <2>1 DEF ItemPlaces, Declarations
  <2>2. CASE items[n].kind = "file" /\ items[n].file.open
    <3>1. PICK k \in 1..Len(items[n].file.classes) : x = <<n, k>>
      BY <2>2 DEF ItemPlaces
    <3>2. x \in {<<n, j>> : j \in DOMAIN items[n].file.classes}
      BY <1>2, <2>2, <3>1
    <3> QED
      BY <1>1, <2>2, <3>2 DEF Declarations
  <2> QED
    BY <2>1, <2>2 DEF ItemPlaces
<1> QED
  BY <1>3, <1>4 DEF Asked

\* The first of the rest is at the place itself, if that is one of the rest.
LEMMA AnswerHere ==
  ASSUME NEW items \in Seq(ItemDecl), NEW n \in Nat, NEW k \in Nat, <<n, k>> \in Asked(items)
  PROVE  Answer(items, n, k) = <<DeclaredServer(items, <<n, k>>)>>
<1>. DEFINE rest == Rest(items, n, k)
            here == <<n, k>>
<1>1. rest \subseteq Nat \X Nat
  BY PlacesOf DEF Rest
<1>2. here \in rest /\ here[1] = n /\ here[2] = k
  BY DEF Rest
<1>3. \A x \in rest : x[1] > n \/ (x[1] = n /\ x[2] >= k)
  BY DEF Rest
<1>4. \A x \in rest : x = <<x[1], x[2]>> /\ x[1] \in Nat /\ x[2] \in Nat
  BY <1>1
<1>5. \A y \in rest \ {here} : here[1] < y[1] \/ (here[1] = y[1] /\ here[2] < y[2])
  <2>1. ASSUME NEW y \in rest \ {here} PROVE n < y[1] \/ (n = y[1] /\ k < y[2])
    <3>1. y # <<n, k>> /\ y = <<y[1], y[2]>> /\ y[1] \in Nat /\ y[2] \in Nat
      BY <1>4
    <3>2. y[1] # n \/ y[2] # k
      BY <3>1
    <3> QED
      BY <1>3, <3>1, <3>2
  <2> QED
    BY <1>2, <2>1
<1>6. ASSUME NEW x \in rest, \A y \in rest \ {x} : x[1] < y[1] \/ (x[1] = y[1] /\ x[2] < y[2])
      PROVE  x = here
  <2>1. CASE x # here
    <3>1. x[1] < n \/ (x[1] = n /\ x[2] < k)
      BY <1>2, <1>6, <2>1
    <3> QED
      BY <1>3, <1>4, <3>1
  <2> QED
    BY <2>1
<1>. HIDE DEF rest, here
<1>7. FirstOf(rest) = here
  BY <1>2, <1>5, <1>6 DEF FirstOf
<1>8. rest # {}
  BY <1>2
<1> QED
  BY <1>7, <1>8, Zenon DEF Answer, rest, here

LEMMA AnswerLater ==
  ASSUME NEW items \in Seq(ItemDecl), NEW n \in Nat, NEW k \in Nat, <<n, k>> \notin Asked(items)
  PROVE  Answer(items, n, k) = Answer(items, n, k + 1)
<1>1. Asked(items) \subseteq Nat \X Nat
  BY PlacesOf
<1>2. ASSUME NEW x \in Asked(items)
      PROVE  (x[1] > n \/ (x[1] = n /\ x[2] >= k)) <=> (x[1] > n \/ (x[1] = n /\ x[2] >= k + 1))
  <2>1. x = <<x[1], x[2]>> /\ x[1] \in Nat /\ x[2] \in Nat
    BY <1>1
  <2>2. x[1] # n \/ x[2] # k
    BY <2>1
  <2> QED
    BY <2>1, <2>2
<1>3. Rest(items, n, k) = Rest(items, n, k + 1)
  BY <1>2 DEF Rest
<1> QED
  BY <1>3, Zenon DEF Answer

\* There is nothing at or after k in an item, so the rest is after the item.
LEMMA AnswerNext ==
  ASSUME NEW items \in Seq(ItemDecl), NEW n \in Nat, NEW k \in Nat,
         \A x \in ItemPlaces(items, n) : x[2] < k
  PROVE  Answer(items, n, k) = Answer(items, n + 1, 0)
<1>1. Asked(items) \subseteq Nat \X Nat
  BY PlacesOf
<1>2. ASSUME NEW x \in Asked(items)
      PROVE  (x[1] > n \/ (x[1] = n /\ x[2] >= k)) <=> (x[1] > n + 1 \/ (x[1] = n + 1 /\ x[2] >= 0))
  <2>1. x = <<x[1], x[2]>> /\ x[1] \in Nat /\ x[2] \in Nat
    BY <1>1
  <2>2. x[1] = n => x[2] < k
    BY PlacesOf
  <2> QED
    BY <2>1, <2>2
<1>3. Rest(items, n, k) = Rest(items, n + 1, 0)
  BY <1>2 DEF Rest
<1> QED
  BY <1>3, Zenon DEF Answer

LEMMA AnswerEnds ==
  ASSUME NEW items \in Seq(ItemDecl)
  PROVE  /\ Answer(items, Len(items) + 1, 0) = <<>>
         /\ Rest(items, 1, 0) = Asked(items)
<1>1. /\ Asked(items) \subseteq Nat \X Nat /\ Len(items) \in Nat
      /\ \A x \in Asked(items) : x[1] \in 1..Len(items)
  BY PlacesOf
<1>2. \A x \in Asked(items) : x[1] \in Nat /\ x[2] \in Nat
  BY <1>1
<1>3. Rest(items, Len(items) + 1, 0) = {}
  BY <1>1, <1>2 DEF Rest
<1>4. Rest(items, 1, 0) = Asked(items)
  BY <1>1, <1>2 DEF Rest
<1> QED
  BY <1>3, <1>4, Zenon DEF Answer

-----------------------------------------------------------------------------
(* The scanner finds the declaration that the author wrote first           *)

LEMMA TagLen ==
  ASSUME NEW body \in Seq(Pieces)
  PROVE  <<"<">> \o body \o <<">">> \in Seq(Pieces) /\ Len(<<"<">> \o body \o <<">">>) = Len(body) + 2
<1>. DEFINE lt == <<"<">>
            gt == <<">">>
            b == body
<1>1. lt \in Seq(Pieces) /\ gt \in Seq(Pieces) /\ Len(lt) = 1 /\ Len(gt) = 1
  BY Kinds
<1>2. b \in Seq(Pieces)
  OBVIOUS
<1>. HIDE DEF lt, gt, b
<1>3. lt \o b \in Seq(Pieces) /\ Len(lt \o b) = Len(lt) + Len(b)
  BY <1>1, <1>2, ConcatTyped
<1>. DEFINE l == lt \o b
<1>. HIDE DEF l
<1>4. l \in Seq(Pieces) /\ Len(l) = Len(lt) + Len(b)
  BY <1>3, Zenon DEF l
<1>5. l \o gt \in Seq(Pieces) /\ Len(l \o gt) = Len(l) + Len(gt)
  BY <1>1, <1>4, ConcatTyped
<1>6. Len(b) \in Nat
  BY <1>2
<1>7. l \o gt \in Seq(Pieces) /\ Len(l \o gt) = Len(b) + 2
  BY <1>1, <1>4, <1>5, <1>6
<1> QED
  BY <1>7, Zenon DEF l, lt, b, gt

LEMMA ClassYields ==
  ASSUME NEW c \in ClassDecl, NEW file \in Files
  PROVE  DeclaredAs(c, file) \in Yields /\ DeclaredAs(c, file).server_dll = file
<1>1. Attributes[c.clsid].value \in Values
  BY DEF ClassDecl, OfKey, Values
<1>2. c.progid # None => Attributes[c.progid].value \in Values
  BY DEF ClassDecl, OfKey, Values
<1> QED
  BY <1>1, <1>2 DEF DeclaredAs, Yields

LEMMA MatchIs ==
  ASSUME NEW items \in Seq(ItemDecl), NEW n \in Nat, NEW k \in Nat, <<n, k>> \in Declarations(items),
         NEW file
  PROVE  Matches(DeclaredAs(DeclaredClass(items, <<n, k>>), file)) <=> <<n, k>> \in Asked(items)
<1>. DEFINE c == DeclaredClass(items, <<n, k>>)
            piece == IF query = "clsid" THEN c.clsid ELSE c.progid
            said == IF query = "clsid" THEN Queried.clsid ELSE Queried.progid
<1>1. <<n, k>> \in Asked(items) <=> piece # None /\ Attributes[piece].value = said
  BY Zenon DEF Asked
<1>2. c \in ClassDecl
  <2>1. <<n, k>> \in ItemPlaces(items, n) /\ n \in 1..Len(items)
    BY PlacesOf
  <2>2. items[n] \in ItemDecl
    BY <2>1
  <2>3. CASE items[n].kind = "class"
    <3>1. k = 0
      BY <2>1, <2>3 DEF ItemPlaces
    <3>2. c = items[n].class
      BY <3>1 DEF DeclaredClass
    <3> QED
      BY <2>2, <2>3, <3>2 DEF ItemDecl
  <2>4. CASE items[n].kind = "file" /\ items[n].file.open
    <3>1. k \in 1..Len(items[n].file.classes)
      BY <2>1, <2>4 DEF ItemPlaces
    <3>2. items[n].file.classes \in Seq(ClassDecl)
      <4>1. items[n].file \in FileDecl
        BY <2>2, <2>4 DEF ItemDecl
      <4> QED
        BY <4>1 DEF FileDecl
    <3>3. c = items[n].file.classes[k]
      BY <3>1 DEF DeclaredClass
    <3> QED
      BY <3>1, <3>2, <3>3
  <2> QED
    BY <2>1, <2>3, <2>4 DEF ItemPlaces
<1>. HIDE DEF c
<1>3. c.clsid \in DOMAIN Attributes /\ None \notin DOMAIN Attributes /\ None # Queried.progid
  BY <1>2, ManifestsAssumption DEF ClassDecl, OfKey
<1>4. c.clsid # None
  BY <1>3
<1>5. Matches(DeclaredAs(c, file)) <=> piece # None /\ Attributes[piece].value = said
  <2>1. /\ DeclaredAs(c, file).clsid = Attributes[c.clsid].value
        /\ DeclaredAs(c, file).progid = IF c.progid = None THEN None ELSE Attributes[c.progid].value
    BY DEF DeclaredAs
  <2>2. CASE query = "clsid"
    BY <1>4, <2>1, <2>2, Zenon DEF Matches
  <2>3. CASE query # "clsid"
    BY <1>3, <2>1, <2>3 DEF Matches
  <2> QED
    BY <2>2, <2>3
<1> QED
  BY <1>1, <1>5, Zenon DEF c

\* What the scanner yields from p on in the scope of a file is, as far as the
\* class that is asked for goes, what is declared from the place <<n, k>> on.
Agrees(text, p, file, items, n, k) ==
  /\ Scanner(text)[p][file] \in Seq(Yields)
  /\ Found(Scanner(text)[p][file]) = Answer(items, n, k)

\* A class in the text, and what is asked for from there on.
LEMMA ClassScan ==
  ASSUME NEW items \in Seq(ItemDecl), NEW n \in Nat, NEW k \in Nat, <<n, k>> \in Declarations(items),
         NEW c \in ClassDecl, c = DeclaredClass(items, <<n, k>>),
         NEW file \in Files, file = DeclaredServer(items, <<n, k>>),
         NEW text \in Seq(Pieces), NEW i, At(text, i, WrittenClass(c)),
         Agrees(text, i + Len(WrittenClass(c)), file, items, n, k + 1)
  PROVE  Agrees(text, i, file, items, n, k)
<1>. DEFINE rest == Scanner(text)[i + Len(WrittenClass(c))][file]
<1>0. rest \in Seq(Yields) /\ Found(rest) = Answer(items, n, k + 1)
  BY Zenon DEF Agrees
<1>1. PICK body : IsClassBody(body, c)
  BY ClassBody, Zenon
<1>2. /\ body \in Seq(Pieces) /\ body # <<>> /\ body[1] # "!--" /\ IsTag(body)
      /\ \A j \in DOMAIN body : body[j] \notin TagEnds
      /\ FileAfter(file, body) = file /\ Declared(file, body) = <<DeclaredAs(c, file)>>
      /\ WrittenClass(c) = <<"<">> \o body \o <<">">>
  BY <1>1, Zenon DEF IsClassBody
<1>3. Len(WrittenClass(c)) = Len(body) + 2
  BY <1>2, TagLen, Zenon
<1>4. At(text, i, <<"<">> \o body \o <<">">>)
  BY <1>2, Zenon
<1>5. Scanner(text)[i][file] =
        IF ~IsTag(body) THEN Scanner(text)[i + Len(body) + 2][file]
        ELSE Declared(file, body) \o Scanner(text)[i + Len(body) + 2][FileAfter(file, body)]
  BY <1>2, <1>4, ScanTag, Zenon
<1>6. i + Len(WrittenClass(c)) = i + Len(body) + 2
  <2>1. i \in Nat
    BY <1>4, Zenon DEF At
  <2>2. Len(body) \in Nat
    BY <1>2
  <2>. DEFINE w == Len(WrittenClass(c))
              b == Len(body)
  <2>3. w = b + 2 /\ b \in Nat
    BY <1>3, <2>2, Zenon
  <2>. HIDE DEF w, b
  <2>4. i + w = i + b + 2
    BY <2>1, <2>3
  <2> QED
    BY <2>4, Zenon DEF w, b
<1>. DEFINE y == DeclaredAs(c, file)
<1>7. Scanner(text)[i][file] = <<y>> \o rest
  BY <1>2, <1>5, <1>6, Zenon
<1>. HIDE DEF rest
<1>8. y \in Yields /\ y.server_dll = file
  BY ClassYields, Zenon
<1>9. Matches(y) <=> <<n, k>> \in Asked(items)
  BY MatchIs, Zenon
<1>. HIDE DEF y
<1>10. <<y>> \o rest \in Seq(Yields) /\ Found(<<y>> \o rest) = IF Matches(y) THEN <<file>> ELSE Found(rest)
  BY <1>0, <1>8, FoundCons, Zenon
<1>11. CASE <<n, k>> \in Asked(items)
  <2>1. Answer(items, n, k) = <<file>>
    BY <1>11, AnswerHere, Zenon
  <2> QED
    BY <1>7, <1>9, <1>10, <1>11, <2>1, Zenon DEF Agrees
<1>12. CASE <<n, k>> \notin Asked(items)
  <2>1. Answer(items, n, k) = Answer(items, n, k + 1)
    BY <1>12, AnswerLater, Zenon
  <2> QED
    BY <1>0, <1>7, <1>9, <1>10, <1>12, <2>1, Zenon DEF Agrees
<1> QED
  BY <1>11, <1>12

\* A tag that declares nothing.
LEMMA PlainScan ==
  ASSUME NEW text \in Seq(Pieces), NEW body, IsBody(body), IsTag(body), NEW i,
         At(text, i, <<"<">> \o body \o <<">">>), NEW file \in Files, Declared(file, body) = <<>>,
         Scanner(text)[i + Len(body) + 2][FileAfter(file, body)] \in Seq(Yields)
  PROVE  Scanner(text)[i][file] = Scanner(text)[i + Len(body) + 2][FileAfter(file, body)]
<1>. DEFINE rest == Scanner(text)[i + Len(body) + 2][FileAfter(file, body)]
<1>1. Scanner(text)[i][file] =
        IF ~IsTag(body) THEN Scanner(text)[i + Len(body) + 2][file]
        ELSE Declared(file, body) \o Scanner(text)[i + Len(body) + 2][FileAfter(file, body)]
  BY ScanTag, Zenon DEF IsBody
<1>2. Scanner(text)[i][file] = <<>> \o rest
  BY <1>1, Zenon
<1>3. rest \in Seq(Yields)
  OBVIOUS
<1>. HIDE DEF rest
<1>4. <<>> \o rest = rest
  BY <1>3
<1> QED
  BY <1>2, <1>4, Zenon DEF rest

LEMMA AtJoin ==
  ASSUME NEW S, NEW text \in Seq(S), NEW a \in Seq(S), NEW b \in Seq(S), NEW i,
         At(text, i, a), At(text, i + Len(a), b)
  PROVE  At(text, i, a \o b)
<1>. DEFINE c == a \o b
<1>1. /\ c \in Seq(S) /\ Len(c) = Len(a) + Len(b)
      /\ \A j \in 1..Len(a) : c[j] = a[j]
      /\ \A j \in 1..Len(b) : c[Len(a) + j] = b[j]
  BY ConcatTyped
<1>2. Len(a) \in Nat /\ Len(b) \in Nat /\ Len(text) \in Nat
  OBVIOUS
<1>. HIDE DEF c
<1>3. /\ i \in Nat /\ i >= 1 /\ \A j \in 1..Len(a) : text[i + j - 1] = a[j]
  BY DEF At
<1>4. /\ (i + Len(a)) + Len(b) <= Len(text) + 1
      /\ \A j \in 1..Len(b) : text[(i + Len(a)) + j - 1] = b[j]
  BY DEF At
<1>5. ASSUME NEW j \in 1..Len(c) PROVE text[i + j - 1] = c[j]
  <2>1. CASE j <= Len(a)
    <3>1. j \in 1..Len(a)
      BY <1>2, <2>1
    <3> QED
      BY <1>1, <1>3, <3>1
  <2>2. CASE j > Len(a)
    <3>1. j - Len(a) \in 1..Len(b) /\ Len(a) + (j - Len(a)) = j
          /\ (i + Len(a)) + (j - Len(a)) - 1 = i + j - 1
      BY <1>1, <1>2, <1>3, <2>2
    <3>2. text[(i + Len(a)) + (j - Len(a)) - 1] = b[j - Len(a)]
      BY <1>4, <3>1
    <3>3. c[Len(a) + (j - Len(a))] = b[j - Len(a)]
      BY <1>1, <3>1
    <3> QED
      BY <3>1, <3>2, <3>3
  <2> QED
    BY <1>1, <1>2, <2>1, <2>2
<1>6. i + Len(c) <= Len(text) + 1
  BY <1>1, <1>2, <1>3, <1>4
<1>7. At(text, i, c)
  BY <1>3, <1>5, <1>6 DEF At
<1> QED
  BY <1>7 DEF c

\* The classes of a file, when the scanner is in it, and what comes after.
LEMMA ClassesScan ==
  ASSUME NEW items \in Seq(ItemDecl), NEW n \in 1..Len(items),
         items[n].kind = "file", items[n].file.open,
         NEW text \in Seq(Pieces), NEW i,
         At(text, i, FlattenSeq(ClassTexts(items[n].file.classes))),
         Agrees(text, i + Len(FlattenSeq(ClassTexts(items[n].file.classes))),
                Attributes[items[n].file.name].value, items, n + 1, 0)
  PROVE  Agrees(text, i, Attributes[items[n].file.name].value, items, n, 1)
<1>. DEFINE cs == items[n].file.classes
            file == Attributes[items[n].file.name].value
            texts == ClassTexts(cs)
            flat == FlattenSeq(texts)
            L == Len(cs)
<1>1. cs \in Seq(ClassDecl) /\ file \in Files
  <2>1. items[n] \in ItemDecl
    OBVIOUS
  <2>2. items[n].file \in FileDecl
    BY <2>1 DEF ItemDecl
  <2>3. items[n].file.name \in DOMAIN Attributes
    BY <2>2 DEF FileDecl, OfKey
  <2>4. file \in Files
    BY <2>3, Kinds
  <2> QED
    BY <2>2, <2>4 DEF FileDecl
<1>2. texts \in Seq(Seq(Words)) /\ Len(texts) = L /\ \A k \in 1..L : texts[k] = WrittenClass(cs[k])
  BY <1>1, ClassesTyped, Zenon
<1>3. At(text, i, flat) /\ Agrees(text, i + Len(flat), file, items, n + 1, 0)
  OBVIOUS
<1>4. /\ flat \in Seq(Words)
      /\ \E at \in [1..(Len(texts) + 1) -> Nat] :
           /\ at[1] = 1 /\ at[Len(texts) + 1] = Len(flat) + 1
           /\ \A k \in 1..Len(texts) : /\ at[k + 1] = at[k] + Len(texts[k])
                                       /\ At(flat, at[k], texts[k])
  BY <1>2, FlattenAt, Zenon
<1>5. ItemPlaces(items, n) = {<<n, k>> : k \in 1..L}
  <2>1. items[n].kind # "class" /\ items[n].kind = "file" /\ items[n].file.open
    OBVIOUS
  <2> QED
    BY <2>1, Zenon DEF ItemPlaces
<1>6. \A k \in 1..L : /\ DeclaredClass(items, <<n, k>>) = cs[k]
                      /\ DeclaredServer(items, <<n, k>>) = file
  BY DEF DeclaredClass, DeclaredServer
<1>. HIDE DEF flat, texts, file, cs
<1>7. L \in Nat /\ \A k \in 1..L : cs[k] \in ClassDecl
  BY <1>1
<1>. HIDE DEF L
<1>8. PICK at \in [1..(L + 1) -> Nat] :
           /\ at[1] = 1 /\ at[L + 1] = Len(flat) + 1
           /\ \A k \in 1..L : at[k + 1] = at[k] + Len(texts[k]) /\ At(flat, at[k], texts[k])
  BY <1>2, <1>4, Zenon
<1>9. flat \in Seq(Pieces) /\ Len(flat) \in Nat
  <2>1. flat \in Seq(Pieces)
    BY <1>4, SeqWider, Kinds, Zenon
  <2> QED
    BY <2>1
<1>10. i \in Nat /\ i >= 1
  BY <1>3, Zenon DEF At
<1>. DEFINE Good(k) == Agrees(text, i + at[k] - 1, file, items, n, k)
            T == {m \in Nat : m <= L => Good(L + 1 - m)}
<1>11. n \in Nat /\ \A k \in 1..L : <<n, k>> \in Declarations(items)
  <2>1. n \in Nat
    OBVIOUS
  <2>2. ItemPlaces(items, n) \subseteq Declarations(items)
    BY PlacesOf
  <2> QED
    BY <1>5, <2>1, <2>2
<1>12. Good(L + 1)
  <2>1. i + at[L + 1] - 1 = i + Len(flat)
    BY <1>8, <1>9, <1>10
  <2>2. Answer(items, n, L + 1) = Answer(items, n + 1, 0)
    <3>1. \A x \in ItemPlaces(items, n) : x[2] < L + 1
      BY <1>5, <1>7
    <3>2. n \in Nat /\ L + 1 \in Nat
      BY <1>7, <1>11
    <3> QED
      BY <3>1, <3>2, AnswerNext
  <2> QED
    BY <1>3, <2>1, <2>2, Zenon DEF Agrees
<1>13. ASSUME NEW k \in 1..L, Good(k + 1) PROVE Good(k)
  <2>. DEFINE c == cs[k]
              l == Len(WrittenClass(c))
              p == i + at[k] - 1
  <2>1. c \in ClassDecl /\ texts[k] = WrittenClass(c)
    BY <1>2, <1>7
  <2>2. WrittenClass(c) \in Seq(Pieces)
    BY <2>1, ClassTyped, SeqWider, Kinds, Zenon
  <2>3. k \in Nat /\ k >= 1 /\ <<n, k>> \in Declarations(items)
    BY <1>7, <1>11
  <2>4. c = DeclaredClass(items, <<n, k>>) /\ file = DeclaredServer(items, <<n, k>>)
    BY <1>6, Zenon
  <2>. HIDE DEF c
  <2>5. l \in Nat
    BY <2>2
  <2>6. at[k + 1] = at[k] + l /\ At(flat, at[k], WrittenClass(c)) /\ at[k] \in Nat
    <3>1. at[k + 1] = at[k] + Len(texts[k]) /\ At(flat, at[k], texts[k])
      BY <1>8
    <3>2. at[k] \in Nat
      BY <1>7, <1>8
    <3> QED
      BY <2>1, <3>1, <3>2, Zenon
  <2>. HIDE DEF l
  <2>7. p + l = i + at[k + 1] - 1
    BY <1>10, <2>5, <2>6
  <2>8. At(text, p, WrittenClass(c))
    BY <1>3, <1>9, <2>2, <2>6, AtWithin, Zenon
  <2>9. Agrees(text, p + l, file, items, n, k + 1)
    BY <1>13, <2>7, Zenon
  <2>. HIDE DEF p
  <2>10. Agrees(text, p, file, items, n, k)
    BY <1>1, <1>11, <2>1, <2>3, <2>4, <2>8, <2>9, ClassScan, Zenon DEF l
  <2> QED
    BY <2>10, Zenon DEF p
<1>. HIDE DEF Good
<1>14. 0 \in T
  <2>1. L + 1 - 0 = L + 1
    BY <1>7
  <2> QED
    BY <1>12, <2>1
<1>15. \A m \in Nat : m \in T => m + 1 \in T
  <2>1. ASSUME NEW m \in Nat, m \in T, m + 1 <= L PROVE Good(L + 1 - (m + 1))
    <3>1. L + 1 - (m + 1) \in 1..L /\ (L + 1 - (m + 1)) + 1 = L + 1 - m /\ m <= L
      BY <1>7, <2>1
    <3>2. Good(L + 1 - m)
      BY <2>1, <3>1
    <3> QED
      BY <1>13, <3>1, <3>2
  <2>2. ASSUME NEW m \in Nat, m \in T PROVE m + 1 \in T
    BY <2>1, <2>2
  <2> QED
    BY <2>2
<1>. HIDE DEF T
<1>16. Nat \subseteq T
  BY <1>14, <1>15, NatSetInduction
<1>17. Good(1)
  <2>1. L \in T /\ L + 1 - L = 1
    BY <1>7, <1>16
  <2> QED
    BY <1>7, <2>1 DEF T
<1>18. i + at[1] - 1 = i
  BY <1>8, <1>10
<1> QED
  BY <1>17, <1>18, Zenon DEF Good, file

\* Nothing is declared at an item, and the scanner gets past it.
LEMMA SkipItem ==
  ASSUME NEW items \in Seq(ItemDecl), NEW n \in Nat, ItemPlaces(items, n) = {},
         NEW text, NEW i, NEW next, Scanner(text)[i][None] = Scanner(text)[next][None],
         Agrees(text, next, None, items, n + 1, 0)
  PROVE  Agrees(text, i, None, items, n, 0)
<1>1. Answer(items, n, 0) = Answer(items, n + 1, 0)
  BY AnswerNext
<1> QED
  BY <1>1, Zenon DEF Agrees

LEMMA ClassItemScan ==
  ASSUME NEW items \in Seq(ItemDecl), NEW n \in 1..Len(items), items[n].kind = "class",
         NEW text \in Seq(Pieces), NEW i, At(text, i, WrittenItem(items[n])),
         Agrees(text, i + Len(WrittenItem(items[n])), None, items, n + 1, 0)
  PROVE  Agrees(text, i, None, items, n, 0)
<1>. DEFINE c == items[n].class
<1>1. c \in ClassDecl
  <2>1. items[n] \in ItemDecl
    OBVIOUS
  <2> QED
    BY <2>1 DEF ItemDecl
<1>2. WrittenItem(items[n]) = WrittenClass(c)
  BY Zenon DEF WrittenItem
<1>3. n \in Nat /\ 0 \in Nat /\ 0 + 1 = 1 /\ None \in Files
  BY DEF Files
<1>4. ItemPlaces(items, n) = {<<n, 0>>}
  BY Zenon DEF ItemPlaces
<1>5. <<n, 0>> \in Declarations(items)
  BY <1>4, PlacesOf
<1>6. c = DeclaredClass(items, <<n, 0>>) /\ None = DeclaredServer(items, <<n, 0>>)
  BY DEF DeclaredClass, DeclaredServer
<1>7. Answer(items, n, 1) = Answer(items, n + 1, 0)
  <2>1. \A x \in ItemPlaces(items, n) : x[2] < 1
    BY <1>4
  <2> QED
    BY <1>3, <2>1, AnswerNext
<1>8. Agrees(text, i + Len(WrittenClass(c)), None, items, n, 0 + 1)
  BY <1>2, <1>3, <1>7, Zenon DEF Agrees
<1>9. At(text, i, WrittenClass(c))
  BY <1>2, Zenon
<1>. HIDE DEF c
<1> QED
  BY <1>1, <1>3, <1>5, <1>6, <1>8, <1>9, ClassScan, Zenon

LEMMA CommentItemScan ==
  ASSUME NEW items \in Seq(ItemDecl), NEW n \in 1..Len(items), items[n].kind = "comment",
         NEW text \in Seq(Pieces), NEW i, At(text, i, WrittenItem(items[n])),
         Agrees(text, i + Len(WrittenItem(items[n])), None, items, n + 1, 0)
  PROVE  Agrees(text, i, None, items, n, 0)
<1>. DEFINE inner == WrittenFile(items[n].file)
            start == <<"<", "!--">>
            end == <<"-->">>
<1>1. inner \in Seq(Words)
  <2>1. items[n] \in ItemDecl
    OBVIOUS
  <2>2. items[n].file \in FileDecl
    BY <2>1 DEF ItemDecl
  <2> QED
    BY <2>2, FileTyped, Zenon
<1>2. WrittenItem(items[n]) = start \o inner \o end
  BY DEF WrittenItem
<1>3. At(text, i, start \o inner \o end)
  BY <1>2, Zenon
<1>4. ItemPlaces(items, n) = {}
  BY DEF ItemPlaces
<1>5. i \in Nat /\ n \in Nat /\ None \in Files
  BY DEF At, Files
<1>. DEFINE w == inner
<1>6. w \in Seq(Words)
  BY <1>1
<1>. HIDE DEF inner
<1>7. w \in Seq(Pieces) /\ Len(w) \in Nat /\ \A j \in DOMAIN w : w[j] # "-->"
  <2>1. w \in Seq(Pieces)
    BY <1>6, SeqWider, Kinds, Zenon
  <2>. HIDE DEF w
  <2> QED
    BY <1>6, <2>1 DEF Words
<1>. HIDE DEF w
<1>8. start \in Seq(Pieces) /\ end \in Seq(Pieces) /\ Len(start) = 2 /\ Len(end) = 1
  <2>1. "<" \in Pieces /\ "!--" \in Pieces /\ "-->" \in Pieces
    BY DEF Pieces, Marks, TagEnds
  <2> QED
    BY <2>1
<1>9. At(text, i, <<"<", "!--">> \o w \o <<"-->">>)
  BY <1>3, Zenon DEF w
<1>10. Scanner(text)[i][None] = Scanner(text)[i + Len(w) + 3][None]
  BY <1>5, <1>7, <1>9, ScanComment, Zenon
<1>. HIDE DEF start, end
<1>11. Len(start \o w \o end) = Len(w) + 3
  <2>1. start \o w \in Seq(Pieces) /\ Len(start \o w) = Len(start) + Len(w)
    BY <1>7, <1>8, ConcatTyped, Zenon
  <2>. DEFINE l == start \o w
  <2>. HIDE DEF l
  <2>2. Len(l \o end) = Len(l) + Len(end)
    BY <1>8, <2>1, ConcatTyped, Zenon DEF l
  <2>3. Len(l) = Len(start) + Len(w)
    BY <2>1, Zenon DEF l
  <2>4. Len(l \o end) = Len(w) + 3
    BY <1>7, <1>8, <2>2, <2>3
  <2> QED
    BY <2>4, Zenon DEF l
<1>12. i + Len(WrittenItem(items[n])) = i + Len(w) + 3
  <2>. DEFINE k == Len(w)
              m == Len(WrittenItem(items[n]))
  <2>1. m = k + 3 /\ k \in Nat
    BY <1>2, <1>7, <1>11, Zenon DEF w
  <2>. HIDE DEF k, m
  <2>2. i + m = i + k + 3
    BY <1>5, <2>1
  <2> QED
    BY <2>2, Zenon DEF k, m
<1> QED
  BY <1>4, <1>5, <1>10, <1>12, SkipItem, Zenon

LEMMA PrologItemScan ==
  ASSUME NEW items \in Seq(ItemDecl), NEW n \in 1..Len(items), items[n].kind = "prolog",
         NEW text \in Seq(Pieces), NEW i, At(text, i, WrittenItem(items[n])),
         Agrees(text, i + Len(WrittenItem(items[n])), None, items, n + 1, 0)
  PROVE  Agrees(text, i, None, items, n, 0)
<1>. DEFINE mark == items[n].mark
            body == <<mark>>
<1>1. mark \in {"?", "!"}
  <2>1. items[n] \in ItemDecl
    OBVIOUS
  <2> QED
    BY <2>1 DEF ItemDecl
<1>2. WrittenItem(items[n]) = <<"<", mark, ">">>
  BY DEF WrittenItem
<1>3. ItemPlaces(items, n) = {}
  BY DEF ItemPlaces
<1>4. i \in Nat /\ n \in Nat /\ None \in Files
  BY DEF At, Files
<1>. HIDE DEF mark
<1>5. body \in Seq(Pieces) /\ Len(body) = 1 /\ DOMAIN body = 1..1 /\ body[1] = mark /\ body # <<>>
  <2>1. mark \in Pieces
    BY <1>1, Kinds
  <2> QED
    BY <2>1
<1>6. <<"<", mark, ">">> = <<"<">> \o body \o <<">">> /\ Len(<<"<", mark, ">">>) = 3
  OBVIOUS
<1>. HIDE DEF body
<1>7. body[1] # "!--" /\ (\A j \in DOMAIN body : body[j] \notin TagEnds) /\ ~IsTag(body)
  BY <1>1, <1>5 DEF IsTag, TagEnds
<1>8. At(text, i, <<"<">> \o body \o <<">">>)
  BY <1>2, <1>6, Zenon
<1>9. Scanner(text)[i][None] =
        IF ~IsTag(body) THEN Scanner(text)[i + Len(body) + 2][None]
        ELSE Declared(None, body) \o Scanner(text)[i + Len(body) + 2][FileAfter(None, body)]
  BY <1>4, <1>5, <1>7, <1>8, ScanTag, Zenon
<1>10. Len(WrittenItem(items[n])) = 3
  BY <1>2, <1>6, Zenon
<1>11. i + Len(WrittenItem(items[n])) = i + Len(body) + 2
  BY <1>4, <1>5, <1>10
<1>12. Scanner(text)[i][None] = Scanner(text)[i + Len(WrittenItem(items[n]))][None]
  BY <1>7, <1>9, <1>11, Zenon
<1> QED
  BY <1>3, <1>4, <1>12, SkipItem, Zenon

LEMMA ShutItemScan ==
  ASSUME NEW items \in Seq(ItemDecl), NEW n \in 1..Len(items), items[n].kind = "file",
         ~items[n].file.open, ~items[n].file.loose,
         NEW text \in Seq(Pieces), NEW i, At(text, i, WrittenItem(items[n])),
         Agrees(text, i + Len(WrittenItem(items[n])), None, items, n + 1, 0)
  PROVE  Agrees(text, i, None, items, n, 0)
<1>. DEFINE a == items[n].file.name
            body == <<"file", a, "/">>
<1>1. a \in OfKey("name")
  <2>1. items[n] \in ItemDecl
    OBVIOUS
  <2>2. items[n].file \in FileDecl
    BY <2>1 DEF ItemDecl
  <2> QED
    BY <2>2 DEF FileDecl
<1>2. WrittenItem(items[n]) = <<"<", "file">> \o <<>> \o <<a>> \o <<"/", ">">>
  BY Zenon DEF WrittenItem, WrittenFile
<1>3. ItemPlaces(items, n) = {}
  BY DEF ItemPlaces
<1>4. i \in Nat /\ n \in Nat /\ None \in Files
  BY DEF At, Files
<1>. HIDE DEF a
<1>5. /\ <<"<", "file">> \o <<>> \o <<a>> \o <<"/", ">">> = <<"<">> \o body \o <<">">>
      /\ Len(<<"<">> \o body \o <<">">>) = 5
  OBVIOUS
<1>6. /\ IsBody(body) /\ IsTag(body) /\ Len(body) = 3
      /\ \A file : FileAfter(file, body) = None /\ Declared(file, body) = <<>>
  BY <1>1, ShutBody
<1>. HIDE DEF body
<1>7. At(text, i, <<"<">> \o body \o <<">">>)
  BY <1>2, <1>5, Zenon
<1>8. Len(WrittenItem(items[n])) = 5
  BY <1>2, <1>5, Zenon
<1>9. i + Len(WrittenItem(items[n])) = i + Len(body) + 2
  BY <1>4, <1>6, <1>8
<1>10. Scanner(text)[i + Len(body) + 2][None] \in Seq(Yields)
  BY <1>9, Zenon DEF Agrees
<1>11. Scanner(text)[i][None] = Scanner(text)[i + Len(body) + 2][None]
  <2>1. FileAfter(None, body) = None /\ Declared(None, body) = <<>>
    BY <1>6, Zenon
  <2>2. Scanner(text)[i + Len(body) + 2][FileAfter(None, body)] \in Seq(Yields)
    BY <1>10, <2>1, Zenon
  <2>3. IsBody(body) /\ IsTag(body) /\ None \in Files
    BY <1>4, <1>6, Zenon
  <2>4. Scanner(text)[i][None] = Scanner(text)[i + Len(body) + 2][FileAfter(None, body)]
    BY <1>7, <2>1, <2>2, <2>3, PlainScan, Zenon
  <2> QED
    BY <2>1, <2>4, Zenon
<1>12. Scanner(text)[i][None] = Scanner(text)[i + Len(WrittenItem(items[n]))][None]
  BY <1>9, <1>11, Zenon
<1> QED
  BY <1>3, <1>4, <1>12, SkipItem, Zenon

LEMMA FileItemScan ==
  ASSUME NEW items \in Seq(ItemDecl), NEW n \in 1..Len(items), items[n].kind = "file",
         items[n].file.open, ~items[n].file.loose,
         NEW text \in Seq(Pieces), NEW i, At(text, i, WrittenItem(items[n])),
         Agrees(text, i + Len(WrittenItem(items[n])), None, items, n + 1, 0)
  PROVE  Agrees(text, i, None, items, n, 0)
<1>. DEFINE a == items[n].file.name
            file == Attributes[a].value
            cs == items[n].file.classes
            flat == FlattenSeq(ClassTexts(cs))
            head == <<"<", "file">> \o <<>> \o <<a>>
            gt == <<">">>
            last == <<"<", "/", "file", ">">>
            open == <<"file", a>>
            shut == <<"/", "file">>
<1>1. a \in OfKey("name") /\ cs \in Seq(ClassDecl) /\ file \in Files
  <2>1. items[n] \in ItemDecl
    OBVIOUS
  <2>2. items[n].file \in FileDecl
    BY <2>1 DEF ItemDecl
  <2>3. a \in DOMAIN Attributes
    BY <2>2 DEF FileDecl, OfKey
  <2>4. file \in Files
    BY <2>3, Kinds
  <2> QED
    BY <2>2, <2>4 DEF FileDecl
<1>2. WrittenItem(items[n]) = head \o (gt \o flat \o last)
  BY Zenon DEF WrittenItem, WrittenFile, ClassTexts
<1>3. i \in Nat /\ i >= 1 /\ n \in Nat /\ None \in Files
  BY DEF At, Files
<1>4. 0 + 1 = 1 /\ Answer(items, n, 0) = Answer(items, n, 1)
  <2>1. <<n, 0>> \notin ItemPlaces(items, n)
    BY DEF ItemPlaces
  <2>2. <<n, 0>> \notin Asked(items)
    BY <2>1, PlacesOf
  <2>3. Answer(items, n, 0) = Answer(items, n, 0 + 1)
    BY <1>3, <2>2, AnswerLater
  <2> QED
    BY <2>3
<1>5. flat \in Seq(Pieces)
  <2>1. ClassTexts(cs) \in Seq(Seq(Words))
    BY <1>1, ClassesTyped, Zenon
  <2>2. flat \in Seq(Words)
    BY <2>1, FlattenAt, Zenon
  <2> QED
    BY <2>2, SeqWider, Kinds, Zenon
<1>6. /\ IsBody(open) /\ IsTag(open) /\ Len(open) = 2
      /\ \A f : FileAfter(f, open) = file /\ Declared(f, open) = <<>>
  BY <1>1, OpenBody, Zenon
<1>7. /\ IsBody(shut) /\ IsTag(shut) /\ Len(shut) = 2
      /\ \A f : FileAfter(f, shut) = None /\ Declared(f, shut) = <<>>
  BY CloseBody, Zenon
<1>8. ASSUME NEW p, At(text, p, flat), Agrees(text, p + Len(flat), file, items, n + 1, 0)
      PROVE  Agrees(text, p, file, items, n, 1)
  BY <1>8, ClassesScan, Zenon
<1>9. At(text, i, head \o (gt \o flat \o last))
  BY <1>2, Zenon
<1>. DEFINE w == Len(WrittenItem(items[n]))
<1>10. w = Len(head \o (gt \o flat \o last)) /\ Agrees(text, i + w, None, items, n + 1, 0)
  BY <1>2, Zenon
<1>. HIDE DEF a, cs, flat, file, w
<1>11. /\ head \in Seq(Pieces) /\ gt \in Seq(Pieces) /\ last \in Seq(Pieces)
       /\ Len(head) = 3 /\ Len(gt) = 1 /\ Len(last) = 4
       /\ head \o gt = <<"<">> \o open \o <<">">>
       /\ last = <<"<">> \o shut \o <<">">>
  <2>1. a \in Pieces /\ "<" \in Pieces /\ ">" \in Pieces /\ "file" \in Pieces /\ "/" \in Pieces
    BY <1>1, Kinds DEF OfKey
  <2>2. gt \in Seq(Pieces) /\ last \in Seq(Pieces) /\ Len(gt) = 1 /\ Len(last) = 4
    BY <2>1
  <2>3. head \in Seq(Pieces) /\ Len(head) = 3
    BY <2>1
  <2>4. head \o gt = <<"<">> \o open \o <<">">>
    OBVIOUS
  <2>5. last = <<"<">> \o shut \o <<">">>
    OBVIOUS
  <2> QED
    BY <2>2, <2>3, <2>4, <2>5, Zenon
<1>. HIDE DEF head, gt, last, open, shut
<1>12. gt \o flat \in Seq(Pieces) /\ Len(gt \o flat) = Len(gt) + Len(flat)
  BY <1>5, <1>11, ConcatTyped, Zenon
<1>. DEFINE mid == gt \o flat
<1>13. At(text, i, head \o (mid \o last)) /\ mid \in Seq(Pieces) /\ Len(mid) = Len(gt) + Len(flat)
  BY <1>9, <1>12, Zenon
<1>. HIDE DEF mid
<1>14. mid \o last \in Seq(Pieces) /\ Len(mid \o last) = Len(mid) + Len(last)
  BY <1>11, <1>13, ConcatTyped, Zenon
<1>. DEFINE tail == mid \o last
<1>15. At(text, i, head \o tail) /\ tail \in Seq(Pieces) /\ Len(tail) = Len(mid) + Len(last)
       /\ w = Len(head \o tail)
  BY <1>10, <1>13, <1>14, Zenon DEF mid
<1>. HIDE DEF tail
<1>16. At(text, i, head) /\ At(text, i + Len(head), tail) /\ w = Len(head) + Len(tail)
  <2>1. At(text, i, head) /\ At(text, i + Len(head), tail)
    BY <1>5, <1>11, <1>15, AtConcat, Zenon
  <2>2. Len(head \o tail) = Len(head) + Len(tail)
    BY <1>11, <1>15, ConcatTyped, Zenon
  <2> QED
    BY <1>15, <2>1, <2>2, Zenon
<1>17. At(text, i + Len(head), mid) /\ At(text, i + Len(head) + Len(mid), last)
  <2>1. At(text, i + Len(head), mid \o last)
    BY <1>16, Zenon DEF tail
  <2> QED
    <3>1. last \in Seq(Pieces) /\ mid \in Seq(Pieces)
      BY <1>11, <1>13, Zenon
    <3> QED
      BY <2>1, <3>1, AtConcat
<1>18. At(text, i + Len(head), gt) /\ At(text, i + Len(head) + Len(gt), flat)
  BY <1>5, <1>11, <1>17, AtConcat, Zenon DEF mid
<1>19. At(text, i, <<"<">> \o open \o <<">">>)
  BY <1>11, <1>16, <1>18, AtJoin, Zenon
<1>20. At(text, i + Len(head) + Len(mid), <<"<">> \o shut \o <<">">>)
  BY <1>11, <1>17, Zenon
<1>. DEFINE k == Len(flat)
<1>21. k \in Nat
  BY <1>5
<1>22. Len(mid) = 1 + k /\ Len(tail) = (1 + k) + 4 /\ w = 3 + ((1 + k) + 4)
  BY <1>11, <1>13, <1>15, <1>16, Zenon DEF k
<1>. HIDE DEF k
<1>23. /\ i + Len(head) + Len(gt) = i + 4 /\ i + Len(head) + Len(mid) = i + 4 + k
       /\ i + w = (i + 4 + k) + Len(shut) + 2 /\ i + 4 = i + Len(open) + 2
  BY <1>3, <1>6, <1>7, <1>11, <1>21, <1>22
\* After the file,
<1>24. Agrees(text, (i + 4 + k) + Len(shut) + 2, None, items, n + 1, 0)
  BY <1>10, <1>23, Zenon
\* at its closing tag,
<1>25. Agrees(text, i + 4 + k, file, items, n + 1, 0)
  <2>1. Scanner(text)[(i + 4 + k) + Len(shut) + 2][None] \in Seq(Yields)
    BY <1>24, Zenon DEF Agrees
  <2>2. At(text, i + 4 + k, <<"<">> \o shut \o <<">">>)
    BY <1>20, <1>23, Zenon
  <2>3. Scanner(text)[i + 4 + k][file] = Scanner(text)[(i + 4 + k) + Len(shut) + 2][None]
    <3>1. FileAfter(file, shut) = None /\ Declared(file, shut) = <<>>
      BY <1>7, Zenon
    <3>. DEFINE p == i + 4 + k
    <3>2. /\ At(text, p, <<"<">> \o shut \o <<">">>) /\ IsBody(shut) /\ IsTag(shut) /\ file \in Files
          /\ Scanner(text)[p + Len(shut) + 2][FileAfter(file, shut)] \in Seq(Yields)
      BY <1>1, <1>7, <2>1, <2>2, <3>1, Zenon
    <3>. HIDE DEF p
    <3>3. Scanner(text)[p][file] = Scanner(text)[p + Len(shut) + 2][FileAfter(file, shut)]
      BY <3>1, <3>2, PlainScan, Zenon
    <3> QED
      BY <3>1, <3>3, Zenon DEF p
  <2> QED
    BY <1>24, <2>3, Zenon DEF Agrees
\* at its first class,
<1>26. Agrees(text, i + 4, file, items, n, 1)
  <2>1. At(text, i + 4, flat)
    BY <1>18, <1>23, Zenon
  <2> QED
    BY <1>8, <1>25, <2>1, Zenon DEF k
\* and at its opening tag.
<1>27. Scanner(text)[i][None] = Scanner(text)[i + 4][file]
  <2>1. Scanner(text)[i + Len(open) + 2][file] \in Seq(Yields)
    BY <1>23, <1>26, Zenon DEF Agrees
  <2> QED
    <3>1. FileAfter(None, open) = file /\ Declared(None, open) = <<>>
      BY <1>6, Zenon
    <3>2. Scanner(text)[i][None] = Scanner(text)[i + Len(open) + 2][file]
      <4>1. /\ IsBody(open) /\ IsTag(open) /\ None \in Files
            /\ Scanner(text)[i + Len(open) + 2][FileAfter(None, open)] \in Seq(Yields)
        BY <1>3, <1>6, <2>1, <3>1, Zenon
      <4>2. Scanner(text)[i][None] = Scanner(text)[i + Len(open) + 2][FileAfter(None, open)]
        BY <1>19, <3>1, <4>1, PlainScan, Zenon
      <4> QED
        BY <3>1, <4>2, Zenon
    <3> QED
      BY <1>23, <3>2, Zenon
<1> QED
  BY <1>4, <1>26, <1>27, Zenon DEF Agrees

\* No file of a manifest has an attribute that stops the reader.
Tight(items) == \A n \in DOMAIN items : ~(items[n].kind = "file" /\ items[n].file.loose)

LEMMA ItemScan ==
  ASSUME NEW items \in Seq(ItemDecl), Tight(items), NEW n \in 1..Len(items),
         NEW text \in Seq(Pieces), NEW i, At(text, i, WrittenItem(items[n])),
         Agrees(text, i + Len(WrittenItem(items[n])), None, items, n + 1, 0)
  PROVE  Agrees(text, i, None, items, n, 0)
<1>1. items[n].kind \in {"file", "comment", "class", "prolog"}
  <2>1. items[n] \in ItemDecl
    OBVIOUS
  <2> QED
    BY <2>1 DEF ItemDecl
<1>2. items[n].kind = "file" => ~items[n].file.loose
  BY DEF Tight
<1>3. CASE items[n].kind = "file"
  BY <1>2, <1>3, ShutItemScan, FileItemScan, Zenon
<1>4. CASE items[n].kind = "comment"
  BY <1>4, CommentItemScan, Zenon
<1>5. CASE items[n].kind = "class"
  BY <1>5, ClassItemScan, Zenon
<1>6. CASE items[n].kind = "prolog"
  BY <1>6, PrologItemScan, Zenon
<1> QED
  BY <1>1, <1>3, <1>4, <1>5, <1>6

\* The parser finds the first declaration that matches.
LEMMA ParseFinds ==
  ASSUME NEW items \in Seq(ItemDecl), Tight(items)
  PROVE  /\ Written(items) \in Seq(Pieces)
         /\ ParseManifestComClasses(Written(items)) \in Seq(Yields)
         /\ Found(ParseManifestComClasses(Written(items))) =
              IF Asked(items) = {} THEN <<>> ELSE <<DeclaredServer(items, FirstOf(Asked(items)))>>
<1>. DEFINE seqs == [n \in DOMAIN items |-> WrittenItem(items[n])]
            text == Written(items)
            L == Len(items)
<1>1. L \in Nat /\ DOMAIN items = 1..L
  OBVIOUS
<1>2. seqs \in Seq(Seq(Pieces)) /\ Len(seqs) = L /\ \A n \in 1..L : seqs[n] = WrittenItem(items[n])
  <2>1. \A n \in 1..L : WrittenItem(items[n]) \in Seq(Pieces)
    <3>1. \A n \in 1..L : items[n] \in ItemDecl
      OBVIOUS
    <3> QED
      BY <3>1, ItemTyped
  <2>2. \A t : (t = [n \in 1..L |-> WrittenItem(items[n])]) =>
          t \in Seq(Seq(Pieces)) /\ Len(t) = L /\ \A n \in 1..L : t[n] = WrittenItem(items[n])
    BY <1>1, <2>1
  <2> QED
    BY <1>1, <2>2, Zenon
<1>3. text = FlattenSeq(seqs)
  BY Zenon DEF Written
<1>. HIDE DEF seqs
<1>4. /\ FlattenSeq(seqs) \in Seq(Pieces)
      /\ \E at \in [1..(Len(seqs) + 1) -> Nat] :
           /\ at[1] = 1 /\ at[Len(seqs) + 1] = Len(FlattenSeq(seqs)) + 1
           /\ \A n \in 1..Len(seqs) : /\ at[n + 1] = at[n] + Len(seqs[n])
                                      /\ At(FlattenSeq(seqs), at[n], seqs[n])
  BY <1>2, FlattenAt, Zenon
<1>. HIDE DEF text, L
<1>5. text \in Seq(Pieces)
  BY <1>3, <1>4, Zenon
<1>6. PICK at \in [1..(L + 1) -> Nat] :
           /\ at[1] = 1 /\ at[L + 1] = Len(text) + 1
           /\ \A n \in 1..L : at[n + 1] = at[n] + Len(seqs[n]) /\ At(text, at[n], seqs[n])
  BY <1>2, <1>3, <1>4, Zenon
<1>. DEFINE Good(n) == Agrees(text, at[n], None, items, n, 0)
            T == {m \in Nat : m <= L => Good(L + 1 - m)}
<1>7. Good(L + 1)
  <2>1. Scanner(text)[Len(text) + 1][None] = <<>>
    <3>1. None \in Files
      BY DEF Files
    <3> QED
      BY <1>5, <3>1, ScanEnd, Zenon
  <2>2. <<>> \in Seq(Yields)
    OBVIOUS
  <2>3. Answer(items, L + 1, 0) = <<>>
    BY AnswerEnds, Zenon DEF L
  <2> QED
    BY <1>6, <2>1, <2>2, <2>3, FoundNothing, Zenon DEF Agrees
<1>8. ASSUME NEW n \in 1..L, Good(n + 1) PROVE Good(n)
  <2>1. At(text, at[n], WrittenItem(items[n])) /\ at[n + 1] = at[n] + Len(WrittenItem(items[n]))
    BY <1>2, <1>6, Zenon
  <2>2. Agrees(text, at[n] + Len(WrittenItem(items[n])), None, items, n + 1, 0)
    BY <1>8, <2>1, Zenon
  <2>3. n \in 1..Len(items)
    BY DEF L
  <2> QED
    BY <1>5, <2>1, <2>2, <2>3, ItemScan, Zenon
<1>. HIDE DEF Good
<1>9. 0 \in T
  <2>1. L + 1 - 0 = L + 1
    BY <1>1
  <2> QED
    BY <1>7, <2>1
<1>10. \A m \in Nat : m \in T => m + 1 \in T
  <2>1. ASSUME NEW m \in Nat, m \in T, m + 1 <= L PROVE Good(L + 1 - (m + 1))
    <3>1. L + 1 - (m + 1) \in 1..L /\ (L + 1 - (m + 1)) + 1 = L + 1 - m /\ m <= L
      BY <1>1, <2>1
    <3>2. Good(L + 1 - m)
      BY <2>1, <3>1
    <3> QED
      BY <1>8, <3>1, <3>2
  <2>2. ASSUME NEW m \in Nat, m \in T PROVE m + 1 \in T
    BY <2>1, <2>2
  <2> QED
    BY <2>2
<1>. HIDE DEF T
<1>11. Nat \subseteq T
  BY <1>9, <1>10, NatSetInduction
<1>12. Good(1)
  <2>1. L \in T /\ L + 1 - L = 1
    BY <1>1, <1>11
  <2> QED
    BY <1>1, <2>1 DEF T
<1>13. Agrees(text, 1, None, items, 1, 0)
  BY <1>6, <1>12, Zenon DEF Good
<1>14. ParseManifestComClasses(text) = Scanner(text)[1][None]
  BY <1>5, ScannerIs, Zenon
<1>15. Rest(items, 1, 0) = Asked(items)
  BY AnswerEnds, Zenon
<1> QED
  BY <1>5, <1>13, <1>14, <1>15, Zenon DEF Agrees, Answer, text

-----------------------------------------------------------------------------
(* What the audit takes from the manifest that belongs to the target       *)

LEMMA ManifestTyped ==
  ASSUME NEW n \in DOMAIN Manifests
  PROVE  Manifests[n].items \in Seq(ItemDecl)
<1>. DEFINE S == [encoding : {"utf8", "utf16"}, items : Seq(ItemDecl)]
<1>1. Manifests \in Seq(S)
  BY ManifestsAssumption, Zenon
<1>. HIDE DEF S
<1>2. Manifests[n] \in S
  BY <1>1
<1> QED
  BY <1>2 DEF S

\* What a hit has from a sequence of classes, and none from none.
LEMMA HitFound ==
  ASSUME NEW classes \in Seq(Yields), NEW found, found = SelectInSeq(classes, Matches),
         NEW source \in {"embedded", "sidecar"},
         NEW h, h = IF found = 0 THEN None
                    ELSE [source |-> source,
                          server |-> IF classes[found].server_dll = None THEN <<>>
                                     ELSE ResolvedServer(classes[found].server_dll)]
  PROVE  /\ Found(classes) = <<>> => h = None
         /\ \A dll : Found(classes) = <<dll>> =>
              /\ h # None
              /\ h.server = IF dll = None THEN <<>> ELSE ResolvedServer(dll)
              /\ h.server \in Servers
<1>1. Found(classes) = IF found = 0 THEN <<>> ELSE <<classes[found].server_dll>>
  BY Zenon DEF Found
<1>2. CASE found = 0
  BY <1>1, <1>2
<1>3. CASE found # 0
  <2>. DEFINE dll == classes[found].server_dll
  <2>1. found \in 1..Len(classes)
    BY <1>3, SelectFirst
  <2>2. dll \in Files
    <3>1. classes[found] \in Yields
      BY <2>1
    <3> QED
      BY <3>1 DEF Yields
  <2>. DEFINE s == IF dll = None THEN <<>> ELSE ResolvedServer(dll)
  <2>3. h = [source |-> source, server |-> s] /\ Found(classes) = <<dll>>
    BY <1>1, <1>3
  <2>. HIDE DEF dll
  <2>4. s \in Servers
    BY <2>2 DEF Servers, ResolvedServer, Files, Values
  <2>. HIDE DEF s
  <2>5. h \in [source : {"embedded", "sidecar"}, server : Servers] /\ h.server = s
    BY <2>3, <2>4
  <2>6. h # None
    BY <2>5, ManifestsAssumption, Zenon
  <2>7. \A other : <<dll>> = <<other>> => other = dll
    OBVIOUS
  <2>8. <<dll>> # <<>>
    OBVIOUS
  <2> QED
    BY <2>3, <2>4, <2>5, <2>6, <2>7, <2>8, Zenon DEF s
<1> QED
  BY <1>2, <1>3

\* ManifestIsHeeded after the manifest was looked for.
HeededHit ==
  IF Belongs = None THEN hit = None
  ELSE LET m == Manifests[Belongs]
           Odd == \/ Pe!LoaderManifest(image) = None /\ m.encoding # "utf8"
                  \/ \E i \in DOMAIN m.items : m.items[i].kind = "file" /\ m.items[i].file.loose
       IN  Odd \/ Heeded(m)

LEMMA HitIsHeeded ==
  ASSUME image \in Images, Pe!IntactResources(image), hit = ManifestHit
  PROVE  HeededHit
<1>. DEFINE loader == Pe!LoaderManifest(image)
            source == IF Embedded # None THEN "embedded" ELSE "sidecar"
            classes == IF Xml = None THEN <<>> ELSE ParseManifestComClasses(Xml)
            found == SelectInSeq(classes, Matches)
<1>1. Embedded = IF loader = None THEN None
                 ELSE IF loader \in DOMAIN Manifests THEN EmbeddedText(Manifests[loader]) ELSE <<>>
  <2>1. Pe!EmbeddedManifest(image) = loader
    BY ManifestRead, Zenon
  <2> QED
    BY <2>1, Zenon DEF Embedded
<1>2. loader # None => loader \in DOMAIN Manifests
  BY ImagesAssumption, Zenon
<1>3. Belongs = IF loader # None THEN loader
                ELSE IF sidecar \in DOMAIN Manifests THEN sidecar ELSE None
  BY Zenon DEF Belongs
<1>4. hit = IF found = 0 THEN None
            ELSE [source |-> source,
                  server |-> IF classes[found].server_dll = None THEN <<>>
                             ELSE ResolvedServer(classes[found].server_dll)]
  BY Zenon DEF ManifestHit
<1>. HIDE DEF loader
<1>5. CASE Belongs = None
  <2>1. loader = None /\ sidecar \notin DOMAIN Manifests
    <3>1. None \notin DOMAIN Manifests
      <4>1. DOMAIN Manifests \subseteq Nat
        BY ManifestsAssumption
      <4> QED
        BY <4>1, NoneAssumption
    <3> QED
      BY <1>3, <1>5, <3>1, Zenon
  <2>2. Xml = None
    BY <1>1, <2>1, Zenon DEF Xml
  <2>3. found = 0
    <3>1. found = SelectInSeq(<<>>, Matches)
      BY <2>2, Zenon
    <3>2. Found(<<>>) = IF SelectInSeq(<<>>, Matches) = 0 THEN <<>>
                        ELSE <<(<<>>)[SelectInSeq(<<>>, Matches)].server_dll>>
      BY Zenon DEF Found
    <3>3. \A x : <<x>> # <<>>
      OBVIOUS
    <3> QED
      BY <3>1, <3>2, <3>3, FoundNothing, Zenon
  <2> QED
    BY <1>4, <1>5, <2>3, Zenon DEF HeededHit
<1>6. CASE Belongs # None
  <2>. DEFINE m == Manifests[Belongs]
  <2>1. Belongs \in DOMAIN Manifests
    BY <1>2, <1>3, <1>6, Zenon
  <2>2. m.items \in Seq(ItemDecl)
    BY <2>1, ManifestTyped, Zenon
  <2>. DEFINE Odd == \/ loader = None /\ m.encoding # "utf8"
                     \/ \E i \in DOMAIN m.items : m.items[i].kind = "file" /\ m.items[i].file.loose
  <2>3. CASE Odd
    BY <1>6, <2>3, Zenon DEF HeededHit, loader
  <2>4. CASE ~Odd
    <3>1. Tight(m.items) /\ (loader = None => m.encoding = "utf8")
      BY <2>4, Zenon DEF Tight
    <3>2. /\ Written(m.items) \in Seq(Pieces)
          /\ ParseManifestComClasses(Written(m.items)) \in Seq(Yields)
          /\ Found(ParseManifestComClasses(Written(m.items))) =
               IF Asked(m.items) = {} THEN <<>>
               ELSE <<DeclaredServer(m.items, FirstOf(Asked(m.items)))>>
      BY <2>2, <3>1, ParseFinds, Zenon
    <3>3. Written(m.items) # None
      BY <3>2, ManifestsAssumption, Zenon
    <3>4. Xml = Written(m.items)
      <4>1. CASE loader # None
        <5>1. Belongs = loader /\ Embedded = Written(m.items)
          BY <1>1, <1>2, <1>3, <4>1, Zenon DEF EmbeddedText
        <5> QED
          BY <3>3, <5>1, Zenon DEF Xml
      <4>2. CASE loader = None
        <5>1. Embedded = None /\ Belongs = sidecar /\ sidecar \in DOMAIN Manifests
          BY <1>1, <1>3, <1>6, <4>2, Zenon
        <5> QED
          BY <3>1, <4>2, <5>1, Zenon DEF Xml, SidecarText
      <4> QED
        BY <4>1, <4>2
    <3>5. classes = ParseManifestComClasses(Written(m.items))
      BY <3>3, <3>4, Zenon
    <3>6. source \in {"embedded", "sidecar"}
      OBVIOUS
    <3>. HIDE DEF m
    <3>. DEFINE dll == DeclaredServer(m.items, FirstOf(Asked(m.items)))
    <3>7. classes \in Seq(Yields)
          /\ Found(classes) = IF Asked(m.items) = {} THEN <<>> ELSE <<dll>>
      BY <3>2, <3>5, Zenon
    <3>. HIDE DEF classes, source
    <3>8. /\ Found(classes) = <<>> => hit = None
          /\ \A x : Found(classes) = <<x>> =>
               /\ hit # None
               /\ hit.server = IF x = None THEN <<>> ELSE ResolvedServer(x)
               /\ hit.server \in Servers
      BY <1>4, <3>6, <3>7, HitFound, Zenon
    <3>9. Said(m) = IF Asked(m.items) = {} THEN None
                    ELSE IF dll = None THEN <<>> ELSE ResolvedServer(dll)
      BY Zenon DEF Said, ResolvedServer
    <3>. HIDE DEF dll
    <3>10. Heeded(m)
      <4>1. CASE Asked(m.items) = {}
        BY <3>7, <3>8, <3>9, <4>1, Zenon DEF Heeded
      <4>2. CASE Asked(m.items) # {}
        <5>1. /\ hit # None /\ hit.server \in Servers
              /\ hit.server = IF dll = None THEN <<>> ELSE ResolvedServer(dll)
          BY <3>7, <3>8, <4>2, Zenon
        <5>2. Said(m) = hit.server
          BY <3>9, <4>2, <5>1, Zenon
        <5>3. Said(m) # None
          BY <5>1, <5>2, ManifestsAssumption, Zenon
        <5> QED
          BY <5>1, <5>2, <5>3, Zenon DEF Heeded
      <4> QED
        BY <4>1, <4>2
    <3> QED
      BY <1>6, <3>10, Zenon DEF HeededHit, m
  <2> QED
    BY <2>3, <2>4
<1> QED
  BY <1>5, <1>6

-----------------------------------------------------------------------------
(* The control flow of a command                                         *)

Start == {"target", "target_header", "manifest", "lookup"}

\* What each place of the control flow knows.
Control ==
  /\ cmd = "server" => /\ lookup = None /\ kind = Local /\ expected = None
                       /\ pc \notin Start
  /\ cmd \in {"clsid", "progid"} => /\ pc \notin {"target", "target_header", "manifest"}
                                    /\ pc # "lookup" => lookup # None
  /\ pc \in Start => lookup = None /\ server = None /\ seen.header = None
  /\ pc \in {"exists", "header", "walk"} =>
       /\ server = None /\ kind # None
       /\ lookup # None => lookup.status = "REGISTERED"
  /\ pc \in {"enumerate", "classes"} => cmd = "server" /\ server # None
  /\ pc = "classes" => listed # {}
  /\ cmd = "server" => pc \in {"report", "done"} \/ scans # <<>>
  /\ denied => cmd = "server" /\ server # None
  /\ pc = "report" =>
       /\ cmd = "server" => server # None
       /\ lookup # None => (server # None <=> lookup.status = "REGISTERED")

\* What the file system has answered.
Answers ==
  /\ pc \in {"exists", "header"} => seen.header = None
  /\ pc \in {"header", "walk"} => seen.exists = "present"
  /\ pc = "walk" =>
       /\ seen.header \in {"x64", "unknown"}
       /\ kind = Inproc => seen.header \in {expected, "unknown"} \/ expected = None
  /\ server = "ACCESS_DENIED" <=> seen.header = "unreadable"
  /\ pc = "report" /\ server = None => seen.header = None
  /\ server # None => (server \in {"OK", "SKIPPED"} <=> Served)
  /\ server = "BITNESS_MISMATCH" => kind = Inproc
  /\ pc # "done" => seen.target \in {None, "x64", "x86"} /\ seen.walk # "error"

Ending ==
  /\ pc # "done" => exit = None /\ line = None /\ explained = FALSE
  /\ pc = "done" => exit \in {0, 10, 21, 22}

IInv == TypeOK /\ Control /\ Answers /\ Ending /\ HealthyIsChecked /\ IncompleteIsTold

-----------------------------------------------------------------------------
(* Types *)

USE NoneAssumption, ClassesAssumption, MaxRegistrationsAssumption

LEMMA OutputTyped ==
  ASSUME TypeOK, UNCHANGED output
  PROVE  line' \in Lines \cup {None} /\ explained' \in BOOLEAN /\ exit' \in {None, 0, 10, 21, 22}
  BY DEF TypeOK, output

\* A status that a command prints makes a line.
LEMMA LineTyped ==
  ASSUME NEW token \in {"COM_LOOKUP", "COM_SERVER", "COM_AUDIT"},
         NEW status \in ServerStatuses \cup Broken
                          \cup {"REGISTERED", "INDETERMINATE", "UNSUPPORTED_ARCHITECTURE"},
         NEW server_status \in ServerStatuses \cup {None, "INDETERMINATE"}
  PROVE  Line(token, status, server_status) \in Lines
  BY DEF Line, Lines

LEMMA FailsTyped ==
  ASSUME TypeOK, Control, pc \in {"target", "target_header", "walk"},
         NEW status \in {"INDETERMINATE", "UNSUPPORTED_ARCHITECTURE"},
         status = "INDETERMINATE" \/ cmd = "audit",
         NEW code \in {21, 22}, Fails(status, code)
  PROVE  /\ pc' = "done" /\ explained' = TRUE /\ exit' = code
         /\ line' \in Lines
  <1>1. CASE Token = "COM_LOOKUP"
    <2>1. cmd \in {"clsid", "progid"}
      BY <1>1 DEF Token, TypeOK, Commands
    <2>2. lookup \in LookupResults
      BY <2>1 DEF Control, TypeOK
    <2>3. lookup.status \in Broken \cup {"REGISTERED", "ACCESS_DENIED"}
      BY <2>2 DEF LookupResults, Broken
    <2>4. status = "INDETERMINATE"
      BY <2>1
    <2> QED
      BY <1>1, <2>3, <2>4, LineTyped DEF Fails, Prints, ServerStatuses
  <1>2. CASE Token # "COM_LOOKUP"
    BY <1>2, LineTyped DEF Fails, Prints, Token
  <1> QED
    BY <1>1, <1>2

\* The hives that a command scans, two for each view.
LEMMA ScansTyped ==
  ASSUME NEW vs \in {<<"64">>, <<"32">>, <<"64", "32">>}
  PROVE  Scans(vs) \in Seq(RegViews \X Hives) /\ Scans(vs) # <<>>
  <1>1. CASE vs = <<"64", "32">>
    <2>1. Scans(vs) = <<<<"64", "HKCU">>, <<"64", "HKLM">>, <<"32", "HKCU">>, <<"32", "HKLM">>>>
      BY <1>1 DEF Scans
    <2> QED
      BY <2>1 DEF RegViews, Hives
  <1>2. CASE vs = <<"64">>
    <2>1. Scans(vs) = <<<<"64", "HKCU">>, <<"64", "HKLM">>>>
      BY <1>2 DEF Scans
    <2> QED
      BY <2>1 DEF RegViews, Hives
  <1>3. CASE vs = <<"32">>
    <2>1. Scans(vs) = <<<<"32", "HKCU">>, <<"32", "HKLM">>>>
      BY <1>3 DEF Scans
    <2> QED
      BY <2>1 DEF RegViews, Hives
  <1> QED
    BY <1>1, <1>2, <1>3

LEMMA TypeInit == Init => TypeOK
  <1> SUFFICES ASSUME Init PROVE TypeOK
    OBVIOUS
  <1>1. views \in Seq(RegViews)
    <2>1. views \in {<<>>, <<"64">>, <<"32">>, <<"64", "32">>}
      BY DEF Init
    <2>2. <<>> \in Seq(RegViews) /\ <<"64">> \in Seq(RegViews) /\ <<"32">> \in Seq(RegViews)
          /\ <<"64", "32">> \in Seq(RegViews)
      BY DEF RegViews
    <2> QED
      BY <2>1, <2>2
  <1>2. seen \in Seen
    BY DEF Init, Seen
  <1>3. expected \in {"x64", "x86", None}
    BY DEF Init, Caller
  <1>4. scans \in Seq(RegViews \X Hives) /\ (cmd = "server" => scans # <<>>)
    <2>1. CASE cmd = "server"
      <3>1. views \in {<<"64">>, <<"32">>, <<"64", "32">>} /\ scans = Scans(views)
        BY <2>1 DEF Init
      <3> QED
        BY <3>1, ScansTyped
    <2>2. CASE cmd # "server"
      BY <2>2 DEF Init
    <2> QED
      BY <2>1, <2>2
  <1> QED
    BY <1>1, <1>2, <1>3, <1>4 DEF Init, TypeOK, Commands, Places, ServerKinds, Registrations

LEMMA TypeTarget ==
  ASSUME TypeOK, Control, TargetExists \/ TargetHeader
  PROVE  TypeOK'
  <1>1. CASE TargetExists
    <2>1. seen' \in Seen
      BY <1>1 DEF TargetExists, TypeOK, Seen
    <2>2. pc' \in Places /\ line' \in Lines \cup {None} /\ explained' \in BOOLEAN
            /\ exit' \in {None, 0, 10, 21, 22}
      BY <1>1, OutputTyped, FailsTyped DEF TargetExists, GoesTo, Indeterminate, Places
    <2> QED
      BY <1>1, <2>1, <2>2 DEF TargetExists, TypeOK, inputs, reverse
  <1>2. CASE TargetHeader
    <2>1. PICK h \in Headers :
            /\ seen' = [seen EXCEPT !.target = h]
            /\ \/ /\ h \in {"x64", "x86"}
                  /\ expected' = h /\ views' = <<ViewOf[h]>>
                  /\ GoesTo("manifest")
               \/ /\ h = "unknown" /\ UnsupportedArchitecture
                  /\ UNCHANGED <<views, expected>>
               \/ /\ h \in {"unreadable", "malformed"} /\ Indeterminate
                  /\ UNCHANGED <<views, expected>>
      BY <1>2 DEF TargetHeader
    <2>2. seen' \in Seen
      BY <2>1 DEF TypeOK, Seen
    <2>3. cmd = "audit"
      BY <1>2 DEF TargetHeader, TypeOK, Control, Commands, Start
    <2>4. /\ pc' \in Places /\ line' \in Lines \cup {None} /\ explained' \in BOOLEAN
          /\ exit' \in {None, 0, 10, 21, 22}
      BY <1>2, <2>1, <2>3, OutputTyped, FailsTyped
         DEF TargetHeader, GoesTo, Indeterminate, UnsupportedArchitecture, Places
    <2>5. views' \in Seq(RegViews) /\ expected' \in {"x64", "x86", None}
      BY <2>1 DEF TypeOK, ViewOf, RegViews
    <2> QED
      BY <1>2, <2>2, <2>4, <2>5 DEF TargetHeader, TypeOK, reverse
  <1> QED
    BY <1>1, <1>2

LEMMA TypeLookup ==
  ASSUME TypeOK, Manifest \/ Lookup
  PROVE  TypeOK'
  <1>1. CASE Manifest
    <2>1. seen' \in Seen /\ kind' \in ServerKinds \cup {None} /\ pc' \in Places
      <3>1. seen' \in Seen
        <4>1. PICK m \in {"none", "unreadable", "no_server", "server"} :
                seen' = [seen EXCEPT !.manifest = m]
          BY <1>1 DEF Manifest
        <4>2. seen \in Seen
          BY DEF TypeOK
        <4> QED
          BY <4>1, <4>2 DEF Seen
      <3>2. kind' \in ServerKinds \cup {None}
        BY <1>1 DEF Manifest, TypeOK, ServerKinds
      <3>3. pc' \in Places
        BY <1>1 DEF Manifest, GoesTo, Places
      <3> QED
        BY <3>1, <3>2, <3>3
    <2>2. /\ line' \in Lines \cup {None} /\ explained' \in BOOLEAN
          /\ exit' \in {None, 0, 10, 21, 22}
      BY <1>1, OutputTyped DEF Manifest, GoesTo
    <2> QED
      BY <1>1, <2>1, <2>2 DEF Manifest, TypeOK, inputs, reverse
  <1>2. CASE Lookup
    <2>1. kind' \in ServerKinds \cup {None} /\ pc' \in Places
      BY <1>2 DEF Lookup, LookupResults, GoesTo, Places
    <2>2. /\ line' \in Lines \cup {None} /\ explained' \in BOOLEAN
          /\ exit' \in {None, 0, 10, 21, 22}
      BY <1>2, OutputTyped DEF Lookup, GoesTo
    <2> QED
      BY <1>2, <2>1, <2>2 DEF Lookup, TypeOK, inputs, reverse
  <1> QED
    BY <1>1, <1>2

LEMMA TypeValidation ==
  ASSUME TypeOK, Control, Exists \/ Header \/ Walk
  PROVE  TypeOK'
  <1>1. seen' \in Seen
    BY DEF Exists, Header, Walk, TypeOK, Seen
  <1>2. server' \in ServerStatuses \cup {None} /\ pc' \in Places
    BY DEF Exists, Header, Walk, Validated, GoesTo, Indeterminate, Fails, Prints, TypeOK,
           Places, ServerStatuses, Faults
  <1>3. /\ line' \in Lines \cup {None} /\ explained' \in BOOLEAN
        /\ exit' \in {None, 0, 10, 21, 22}
    BY OutputTyped, FailsTyped DEF Exists, Header, Walk, Validated, GoesTo, Indeterminate
  <1> QED
    BY <1>1, <1>2, <1>3 DEF Exists, Header, Walk, TypeOK, inputs, reverse

\* NextClass is one of the classes that are left.
LEMMA NextClassIn ==
  ASSUME TypeOK, listed # {}
  PROVE  NextClass \in listed
  BY LeastNatural DEF TypeOK, NextClass

LEMMA ScanningTyped ==
  ASSUME TypeOK, scans # <<>>, NEW rest \in SUBSET Classes, Scanning(rest)
  PROVE  /\ scans' \in Seq(RegViews \X Hives) /\ listed' \subseteq Classes
         /\ pc' \in {"classes", "enumerate", "report"}
         /\ pc' = "classes" => listed' # {}
         /\ pc' \in {"classes", "enumerate"} => scans' # <<>>
         /\ UNCHANGED output
  <1>1. Tail(scans) \in Seq(RegViews \X Hives)
    BY DEF TypeOK
  <1> QED
    BY <1>1 DEF Scanning, GoesTo, TypeOK

\* The registrations that one class adds.
Named(named) == [i \in DOMAIN named |-> <<scans[1][1], scans[1][2], NextClass, named[i]>>]

LEMMA NamedTyped ==
  ASSUME TypeOK, scans # <<>>, listed # {},
         NEW named \in {<<>>, <<Inproc>>, <<Local>>, <<Inproc, Local>>}
  PROVE  Named(named) \in Seq(Registrations) /\ Len(Named(named)) = Len(named)
  <1>1. scans[1] \in RegViews \X Hives
    BY DEF TypeOK
  <1>2. scans[1][1] \in RegViews /\ scans[1][2] \in Hives
    BY <1>1
  <1>3. NextClass \in Classes
    BY NextClassIn DEF TypeOK
  <1>4. named \in Seq(ServerKinds)
    <2>1. /\ <<>> \in Seq(ServerKinds) /\ <<Inproc>> \in Seq(ServerKinds)
          /\ <<Local>> \in Seq(ServerKinds) /\ <<Inproc, Local>> \in Seq(ServerKinds)
      BY DEF ServerKinds
    <2> QED
      BY <2>1
  <1>5. Len(named) \in Nat /\ DOMAIN named = 1..Len(named)
    BY <1>4
  <1>6. \A i \in 1..Len(named) : named[i] \in ServerKinds
    BY <1>4
  <1>7. Named(named) = [i \in 1..Len(named) |-> <<scans[1][1], scans[1][2], NextClass, named[i]>>]
    BY <1>5 DEF Named
  <1> QED
    BY <1>2, <1>3, <1>5, <1>6, <1>7 DEF Registrations

LEMMA TypeReverse ==
  ASSUME TypeOK, Control, EnumerateClasses \/ ReadServers
  PROVE  TypeOK'
  <1>1. scans # <<>>
    BY DEF EnumerateClasses, ReadServers, Control
  <1>2. UNCHANGED output
    BY DEF EnumerateClasses, ReadServers, Scanning, GoesTo
  <1>3. /\ line' \in Lines \cup {None} /\ explained' \in BOOLEAN /\ exit' \in {None, 0, 10, 21, 22}
    BY <1>2, OutputTyped
  <1>4. CASE EnumerateClasses
    <2>1. /\ scans' \in Seq(RegViews \X Hives) /\ listed' \subseteq Classes
          /\ pc' \in {"classes", "enumerate", "report"}
      <3>1. CASE \E cs \in SUBSET Classes : Scanning(cs)
        BY <1>1, <3>1, ScanningTyped
      <3>2. CASE listed' = {} /\ scans' = <<>> /\ GoesTo("report")
        BY <3>2 DEF GoesTo
      <3> QED
        BY <1>4, <3>1, <3>2 DEF EnumerateClasses
    <2>2. /\ registrations' \in Seq(Registrations) /\ Len(registrations') <= MaxRegistrations
          /\ denied' \in BOOLEAN
      <3>1. <<>> \in Seq(Registrations) /\ Len(<<>>) <= MaxRegistrations
        OBVIOUS
      <3> QED
        BY <1>4, <3>1 DEF EnumerateClasses, TypeOK
    <2> QED
      BY <1>3, <1>4, <2>1, <2>2 DEF EnumerateClasses, TypeOK, inputs, Places
  <1>5. CASE ReadServers
    <2>1. listed # {} /\ listed \ {NextClass} \in SUBSET Classes
      BY <1>5 DEF ReadServers, Control, TypeOK
    <2>2. /\ scans' \in Seq(RegViews \X Hives) /\ listed' \subseteq Classes
          /\ pc' \in {"classes", "enumerate", "report"}
      BY <1>1, <1>5, <2>1, ScanningTyped DEF ReadServers
    <2>3. PICK named \in {<<>>, <<Inproc>>, <<Local>>, <<Inproc, Local>>} :
            /\ Len(registrations) + Len(named) <= MaxRegistrations
            /\ registrations' = registrations \o Named(named)
      BY <1>5 DEF ReadServers, Named
    <2>4. Named(named) \in Seq(Registrations) /\ Len(Named(named)) = Len(named)
      BY <1>1, <2>1, NamedTyped
    <2>5. registrations' \in Seq(Registrations) /\ Len(registrations') <= MaxRegistrations
      BY <2>3, <2>4 DEF TypeOK
    <2> QED
      BY <1>3, <1>5, <2>2, <2>5 DEF ReadServers, TypeOK, inputs, Places
  <1> QED
    BY <1>4, <1>5

LEMMA TypeReport ==
  ASSUME TypeOK, Control, Report
  PROVE  TypeOK' /\ pc' = "done" /\ line' \in Lines /\ exit' \in {0, 10, 21}
  <1>1. CASE cmd \in {"clsid", "progid"}
    <2>1. lookup \in LookupResults
      BY <1>1 DEF Report, Control, TypeOK
    <2>2. lookup.status \in Broken \cup {"REGISTERED", "ACCESS_DENIED"}
      BY <2>1 DEF LookupResults
    <2>3. Line("COM_LOOKUP", lookup.status, server) \in Lines
      BY <2>2, LineTyped DEF TypeOK, ServerStatuses
    <2> QED
      BY <1>1, <2>3 DEF Report, ReportLookup, ReportServer, ReportAudit, Prints,
               LookupExitCode, TypeOK, inputs, reverse, Places
  <1>2. CASE cmd = "server"
    <2>1. ServerToken \in ServerStatuses
      BY <1>2 DEF Report, Control, TypeOK, ServerToken, ServerStatuses
    <2>2. Line("COM_SERVER", ServerToken, None) \in Lines
      BY <2>1, LineTyped
    <2> QED
      BY <1>2, <2>2 DEF Report, ReportLookup, ReportServer, ReportAudit, Prints,
               TypeOK, inputs, reverse, Places
  <1>3. CASE cmd = "audit"
    <2>1. lookup \in LookupResults => lookup.status \in Broken \cup {"REGISTERED", "ACCESS_DENIED"}
      BY DEF LookupResults
    <2>2. AuditStatus \in ServerStatuses \cup Broken
      BY <1>3, <2>1 DEF Report, Control, TypeOK, AuditStatus, ServerStatuses, Broken
    <2>3. Line("COM_AUDIT", AuditStatus, None) \in Lines
      BY <2>2, LineTyped
    <2> QED
      BY <1>3, <2>3 DEF Report, ReportLookup, ReportServer, ReportAudit, Prints,
               TypeOK, inputs, reverse, Places
  <1> QED
    BY <1>1, <1>2, <1>3 DEF Report, ReportLookup, ReportServer, ReportAudit

-----------------------------------------------------------------------------
(* The invariant *)

LEMMA InitInvariant == Init => IInv
  <1> SUFFICES ASSUME Init PROVE IInv
    OBVIOUS
  <1>1. TypeOK
    BY TypeInit
  <1>2. Control
    <2>1. cmd = "server" => scans # <<>>
      <3> HAVE cmd = "server"
      <3>1. views \in {<<"64">>, <<"32">>, <<"64", "32">>} /\ scans = Scans(views)
        BY DEF Init
      <3> QED
        BY <3>1, ScansTyped
    <2>2. /\ lookup = None /\ server = None /\ denied = FALSE /\ seen.header = None
          /\ cmd = "server" => pc = "exists" /\ kind = Local /\ expected = None
          /\ cmd = "audit" => pc = "target"
          /\ cmd \in {"clsid", "progid"} => pc = "lookup"
      BY DEF Init
    <2>3. kind # None \/ cmd # "server"
      BY <2>2 DEF Local, ServerKinds
    <2> QED
      BY <1>1, <2>1, <2>2, <2>3 DEF TypeOK, Control, Start, Commands
  <1>3. Answers /\ Ending
    <2>1. /\ server = None
          /\ seen = [target |-> None, manifest |-> None, exists |-> None, header |-> None, walk |-> None]
          /\ pc \in {"target", "exists", "lookup"}
          /\ exit = None /\ line = None /\ explained = FALSE
      BY DEF Init
    <2>2. server \notin {"ACCESS_DENIED", "OK", "SKIPPED", "BITNESS_MISMATCH"} /\ seen.walk # "error"
            /\ seen.header # "unreadable"
      BY <2>1 DEF ServerStatuses, Faults
    <2> QED
      BY <2>1, <2>2 DEF Answers, Ending
  <1>4. HealthyIsChecked /\ IncompleteIsTold
    BY DEF Init, HealthyIsChecked, IncompleteIsTold
  <1> QED
    BY <1>1, <1>2, <1>3, <1>4 DEF IInv

\* The steps before the lookup and the validation change one answer.
LEMMA TargetInvariant ==
  ASSUME IInv, TargetExists \/ TargetHeader
  PROVE  IInv'
  <1>1. TypeOK'
    BY TypeTarget DEF IInv
  <1>2. cmd = "audit" /\ lookup = None /\ server = None /\ seen.header = None /\ ~denied
    BY DEF IInv, TypeOK, Control, Start, Commands, TargetExists, TargetHeader
  <1>3. UNCHANGED <<cmd, lookup, kind, server, scans, listed, denied>>
    BY DEF TargetExists, TargetHeader, inputs, reverse
  <1>4. /\ seen'.exists = seen.exists /\ seen'.header = seen.header /\ seen'.walk = seen.walk
        /\ \/ /\ pc' \in {"target_header", "manifest"} /\ UNCHANGED output
              /\ seen'.target \in {None, "x64", "x86"}
           \/ pc' = "done" /\ exit' = 21 /\ seen'.target \in {"missing", "unreadable", "malformed"}
           \/ pc' = "done" /\ exit' = 22 /\ seen'.target = "unknown"
    <2>1. CASE TargetExists
      BY <2>1 DEF TargetExists, GoesTo, Indeterminate, Fails, Prints, IInv, Answers, TypeOK, Seen
    <2>2. CASE TargetHeader
      BY <2>2 DEF TargetHeader, GoesTo, Indeterminate, UnsupportedArchitecture, Fails, Prints,
             IInv, Answers, TypeOK, Seen
    <2> QED
      BY <2>1, <2>2
  <1>5. pc \in Start /\ pc # "done" /\ exit = None /\ line = None /\ explained = FALSE
          /\ seen.walk # "error"
    BY DEF TargetExists, TargetHeader, Start, IInv, Ending, Answers
  <1>6. Control'
    BY <1>2, <1>3, <1>4 DEF Control, Start
  <1>7. Answers'
    BY <1>2, <1>3, <1>4, <1>5 DEF Answers, ServerStatuses, Faults
  <1>8. Ending'
    BY <1>4, <1>5 DEF Ending, output
  <1>9. HealthyIsChecked' /\ IncompleteIsTold'
    BY <1>2, <1>3, <1>4, <1>5 DEF HealthyIsChecked, IncompleteIsTold, Unread, Served, Machines, output
  <1> QED
    BY <1>1, <1>6, <1>7, <1>8, <1>9 DEF IInv

LEMMA LookupInvariant ==
  ASSUME IInv, Manifest \/ Lookup
  PROVE  IInv'
  <1>1. TypeOK'
    BY TypeLookup DEF IInv
  <1>2. /\ cmd # "server" /\ lookup = None /\ server = None /\ seen.header = None /\ ~denied
        /\ pc \in Start /\ pc # "done" /\ exit = None /\ line = None /\ explained = FALSE
        /\ seen.target \in {None, "x64", "x86"} /\ seen.walk # "error"
    BY DEF Manifest, Lookup, IInv, Control, Answers, Ending, Start
  <1>3. /\ UNCHANGED <<cmd, server, denied, output>>
        /\ seen'.target = seen.target /\ seen'.exists = seen.exists
        /\ seen'.header = seen.header /\ seen'.walk = seen.walk
    BY DEF Manifest, Lookup, inputs, reverse, GoesTo, IInv, TypeOK, Seen
  <1>4. /\ pc' \in {"exists", "report", "lookup"}
        /\ pc' = "lookup" => cmd = "audit" /\ lookup' = None
        /\ pc' # "lookup" /\ cmd # "audit" => lookup' # None
        /\ pc' = "exists" => kind' # None /\ (lookup' # None => lookup'.status = "REGISTERED")
        /\ pc' = "report" /\ lookup' # None => lookup'.status # "REGISTERED"
    <2>1. CASE Manifest
      BY <1>2, <2>1 DEF Manifest, GoesTo, IInv, Control, TypeOK, Commands, Inproc, ServerKinds
    <2>2. CASE Lookup
      <3>1. lookup' # None /\ kind' = lookup'.kind
        BY <2>2 DEF Lookup
      <3>2. lookup'.status = "REGISTERED" => lookup'.kind # None
        BY <2>2 DEF Lookup, LookupResults, Broken
      <3> QED
        BY <2>2, <3>1, <3>2 DEF Lookup, GoesTo
    <2> QED
      BY <2>1, <2>2
  <1>5. Control'
    BY <1>2, <1>3, <1>4 DEF Control, Start
  <1>6. Answers'
    BY <1>2, <1>3, <1>4 DEF Answers, ServerStatuses, Faults
  <1>7. Ending' /\ HealthyIsChecked' /\ IncompleteIsTold'
    BY <1>2, <1>3, <1>4 DEF Ending, HealthyIsChecked, IncompleteIsTold, output
  <1> QED
    BY <1>1, <1>5, <1>6, <1>7 DEF IInv

\* The validation goes on, returns a status that the answers account for, or
\* fails because the walk does.
LEMMA ValidationInvariant ==
  ASSUME IInv, Exists \/ Header \/ Walk
  PROVE  IInv'
  <1>1. TypeOK'
    BY TypeValidation DEF IInv
  <1>2. /\ server = None /\ kind # None /\ ~denied
        /\ lookup # None => lookup.status = "REGISTERED"
        /\ cmd = "server" => lookup = None /\ kind = Local /\ expected = None /\ scans # <<>>
        /\ cmd \in {"clsid", "progid"} => lookup # None
        /\ exit = None /\ line = None /\ explained = FALSE
        /\ seen.target \in {None, "x64", "x86"} /\ seen.walk # "error"
    BY DEF Exists, Header, Walk, IInv, Control, Answers, Ending
  <1>3. /\ UNCHANGED <<cmd, expected, lookup, kind, denied, scans, listed>>
        /\ seen'.target = seen.target
    BY DEF Exists, Header, Walk, inputs, reverse, IInv, TypeOK, Seen
  <1>4. \/ /\ pc' \in {"header", "walk"} /\ server' = None /\ UNCHANGED output
           /\ seen'.walk # "error" /\ seen'.header # "unreadable"
        \/ /\ pc' = (IF cmd = "server" THEN "enumerate" ELSE "report")
           /\ server' \in ServerStatuses /\ UNCHANGED output /\ seen'.walk # "error"
           /\ server' = "ACCESS_DENIED" <=> seen'.header = "unreadable"
        \/ /\ pc' = "done" /\ server' = None /\ exit' = 21
           /\ seen'.walk = "error" /\ seen'.header # "unreadable"
    <2>1. CASE Exists
      BY <1>2, <2>1 DEF Exists, Validated, GoesTo, IInv, Answers, TypeOK, Seen, ServerStatuses, Faults
    <2>2. CASE Header
      BY <1>2, <2>2 DEF Header, Validated, GoesTo, TypeOK, IInv, Seen, ServerStatuses, Faults, Machines
    <2>3. CASE Walk
      BY <1>2, <2>3 DEF Walk, Validated, GoesTo, Indeterminate, Fails, Prints, IInv, Answers,
             TypeOK, Seen, ServerStatuses, Faults
    <2> QED
      BY <2>1, <2>2, <2>3
  <1>5. /\ pc' = "header" => seen'.header = None
        /\ pc' \in {"header", "walk"} => seen'.exists = "present"
        /\ pc' = "walk" => /\ seen'.header \in {"x64", "unknown"}
                           /\ kind = Inproc => seen'.header \in {expected, "unknown"} \/ expected = None
        /\ server' # None => (server' \in {"OK", "SKIPPED"} <=> Served')
        /\ pc' = "report" => server' # None
        /\ server' = "BITNESS_MISMATCH" => kind = Inproc
    <2>1. CASE Exists
      BY <1>2, <2>1 DEF Exists, Validated, GoesTo, IInv, Answers, Served, TypeOK, Seen,
             ServerStatuses, Faults
    <2>2. CASE Header
      BY <1>2, <2>2 DEF Header, Validated, GoesTo, IInv, Answers, Fits, Served, TypeOK, Seen,
             ServerStatuses, Faults, Machines
    <2>3. CASE Walk
      BY <1>2, <2>3 DEF Walk, Validated, GoesTo, Indeterminate, Fails, Prints, IInv, Answers,
             Served, TypeOK, Seen, ServerStatuses, Faults, Machines
    <2> QED
      BY <2>1, <2>2, <2>3
  <1>6. None \notin ServerStatuses /\ None \notin {"ACCESS_DENIED", "OK", "SKIPPED", "BITNESS_MISMATCH"}
    BY DEF ServerStatuses, Faults
  <1>7. Control'
    <2>1. \A place \in {"header", "walk", "enumerate", "report", "done"} :
            place \notin Start \cup {"classes", "exists"}
      BY DEF Start
    <2> QED
      BY <1>2, <1>3, <1>4, <1>6, <2>1 DEF Control
  <1>8. Answers'
    BY <1>2, <1>3, <1>4, <1>5, <1>6 DEF Answers
  <1>9. Ending' /\ HealthyIsChecked' /\ IncompleteIsTold'
    BY <1>2, <1>4 DEF Ending, HealthyIsChecked, IncompleteIsTold, Unread, output
  <1> QED
    BY <1>1, <1>7, <1>8, <1>9 DEF IInv

LEMMA ReverseInvariant ==
  ASSUME IInv, EnumerateClasses \/ ReadServers
  PROVE  IInv'
  <1>1. TypeOK'
    BY TypeReverse DEF IInv
  <1>2. /\ cmd = "server" /\ server # None /\ lookup = None /\ scans # <<>>
        /\ pc # "done" /\ exit = None /\ line = None /\ explained = FALSE
        /\ kind = Local /\ expected = None
        /\ listed \ {NextClass} \in SUBSET Classes
    BY DEF EnumerateClasses, ReadServers, IInv, TypeOK, Control, Ending
  <1>3. UNCHANGED <<cmd, views, seen, expected, lookup, kind, server, output>>
    BY DEF EnumerateClasses, ReadServers, inputs, Scanning, GoesTo
  <1>4. /\ pc' \in {"classes", "enumerate", "report"}
        /\ pc' = "classes" => listed' # {}
        /\ pc' \in {"classes", "enumerate"} => scans' # <<>>
    <2>1. CASE \E cs \in SUBSET Classes : Scanning(cs)
      BY <1>2, <2>1, ScanningTyped DEF IInv
    <2>2. CASE GoesTo("report")
      BY <2>2 DEF GoesTo
    <2> QED
      BY <1>2, <2>1, <2>2 DEF EnumerateClasses, ReadServers
  <1>5. Control'
    BY <1>2, <1>3, <1>4 DEF Control, Start
  <1>6. Answers'
    BY <1>2, <1>3, <1>4 DEF IInv, Answers, Served
  <1>7. Ending' /\ HealthyIsChecked' /\ IncompleteIsTold'
    BY <1>2, <1>3, <1>4 DEF Ending, HealthyIsChecked, IncompleteIsTold, output
  <1> QED
    BY <1>1, <1>5, <1>6, <1>7 DEF IInv

\* Report and its exit codes.
LEMMA ReportInvariant ==
  ASSUME IInv, Report
  PROVE  IInv'
  <1>1. TypeOK' /\ pc' = "done" /\ exit' \in {0, 10, 21}
    BY TypeReport DEF IInv
  <1>2. UNCHANGED <<cmd, views, seen, expected, lookup, kind, server, scans, listed, denied>>
    BY DEF Report, inputs, reverse
  <1>3. /\ seen.target \in {None, "x64", "x86"} /\ seen.walk # "error" /\ pc = "report"
        /\ server = "ACCESS_DENIED" <=> seen.header = "unreadable"
        /\ server # None => (server \in {"OK", "SKIPPED"} <=> Served)
        /\ server = None => seen.header = None
        /\ server = "BITNESS_MISMATCH" => kind = Inproc
    BY DEF Report, IInv, Answers
  <1>4. seen.target \notin {"missing", "unreadable", "malformed"}
    BY <1>3
  <1>5. Unread <=> denied \/ server = "ACCESS_DENIED" \/ (lookup # None /\ lookup.status = "ACCESS_DENIED")
    BY <1>3, <1>4 DEF Unread
  <1>6. Unread' <=> Unread
    BY <1>2 DEF Unread
  <1>7. Served' <=> Served
    BY <1>2 DEF Served
  <1>8. (exit' = 21 <=> Unread) /\ (exit' = 0 <=> Served /\ ~Unread)
    <2>0. server = None => ~Served
      BY <1>3 DEF Served, Machines
    <2>1. CASE cmd \in {"clsid", "progid"}
      <3>1. /\ lookup # None /\ ~denied /\ server \in ServerStatuses \cup {None}
            /\ server # None <=> lookup.status = "REGISTERED"
        BY <1>3, <2>1 DEF IInv, Control, TypeOK
      <3>2. exit' = LookupExitCode(lookup, server)
        BY <2>1 DEF Report, ReportLookup, ReportServer, ReportAudit, Prints
      <3> QED
        BY <1>3, <1>5, <2>0, <3>1, <3>2 DEF LookupExitCode
    <2>2. CASE cmd = "server"
      <3>1. lookup = None /\ server # None /\ server \in ServerStatuses
        BY <1>3, <2>2 DEF IInv, Control, TypeOK
      <3>2. exit' = IF denied \/ server = "ACCESS_DENIED" THEN 21
                    ELSE IF server \in {"SERVER_MISSING", "SERVER_BAD_IMAGE", "SERVER_DEPS_MISSING"}
                      THEN 10 ELSE 0
        BY <2>2 DEF Report, ReportLookup, ReportServer, ReportAudit, Prints
      <3>3. server # "BITNESS_MISMATCH"
        BY <1>3, <2>2 DEF IInv, Control, Answers, Inproc, Local
      <3> QED
        BY <1>3, <1>5, <3>1, <3>2, <3>3 DEF ServerStatuses, Faults
    <2>3. CASE cmd = "audit"
      <3>1. /\ ~denied /\ server \in ServerStatuses \cup {None}
            /\ lookup # None => (server # None <=> lookup.status = "REGISTERED")
        BY <1>3, <2>3 DEF IInv, Control, TypeOK
      <3>2. exit' = IF AuditStatus = "ACCESS_DENIED" THEN 21 ELSE IF AuditStatus # "OK" THEN 10 ELSE 0
        BY <2>3 DEF Report, ReportLookup, ReportServer, ReportAudit, Prints
      <3>3. lookup # None => lookup.status \in Broken \cup {"REGISTERED", "ACCESS_DENIED"}
        BY DEF IInv, TypeOK, LookupResults
      <3> QED
        BY <1>3, <1>5, <2>0, <3>1, <3>2, <3>3 DEF AuditStatus, ServerStatuses, Faults, Broken
    <2> QED
      BY <2>1, <2>2, <2>3 DEF IInv, TypeOK, Commands
  <1>9. Control'
    BY <1>1, <1>2 DEF IInv, Control, Start, Report
  <1>10. Answers'
    BY <1>1, <1>2, <1>3, <1>7 DEF Answers
  <1>11. Ending' /\ HealthyIsChecked' /\ IncompleteIsTold'
    BY <1>1, <1>2, <1>3, <1>6, <1>7, <1>8 DEF Ending, HealthyIsChecked, IncompleteIsTold
  <1> QED
    BY <1>1, <1>9, <1>10, <1>11 DEF IInv

LEMMA StepInvariant == IInv /\ [Next]_vars => IInv'
  <1> SUFFICES ASSUME IInv, [Next]_vars PROVE IInv'
    OBVIOUS
  <1>1. CASE TargetExists \/ TargetHeader
    BY <1>1, TargetInvariant
  <1>2. CASE Manifest \/ Lookup
    BY <1>2, LookupInvariant
  <1>3. CASE Exists \/ Header \/ Walk
    BY <1>3, ValidationInvariant
  <1>4. CASE EnumerateClasses \/ ReadServers
    BY <1>4, ReverseInvariant
  <1>5. CASE Report
    BY <1>5, ReportInvariant
  <1>6. CASE UNCHANGED vars
    <2>1. TypeOK' <=> TypeOK
      BY <1>6 DEF vars, inputs, reverse, output, TypeOK
    <2>2. (Control' <=> Control) /\ (Served' <=> Served) /\ (Unread' <=> Unread)
      BY <1>6 DEF vars, inputs, reverse, output, Control, Served, Unread
    <2>3. (Answers' <=> Answers) /\ (Ending' <=> Ending)
      BY <1>6, <2>2 DEF vars, inputs, output, Answers, Ending
    <2> QED
      BY <1>6, <2>1, <2>2, <2>3 DEF IInv, HealthyIsChecked, IncompleteIsTold, vars, output
  <1> QED
    BY <1>1, <1>2, <1>3, <1>4, <1>5, <1>6 DEF Next, Step, Done

-----------------------------------------------------------------------------
(* Theorems *)

LEMMA Invariant == Spec => []IInv
  BY InitInvariant, StepInvariant, PTL DEF Spec

\* Type correctness of the COM commands, for every set of classes: each line
\* they print is one of COM_LOOKUP, COM_SERVER and COM_AUDIT with its statuses.
THEOREM TypeCorrect == Spec => []TypeOK
  <1>1. IInv => TypeOK
    BY DEF IInv
  <1> QED
    BY <1>1, Invariant, PTL

\* com_lookup_exit_code, com_server_command and com_audit_command return 0 for
\* exactly those servers that the file system has shown to be there and to
\* load, when nothing else was unreadable.
THEOREM HealthyServersAreChecked == Spec => []HealthyIsChecked
  <1>1. IInv => HealthyIsChecked
    BY DEF IInv
  <1> QED
    BY <1>1, Invariant, PTL

\* They return 21 exactly when something they needed could not be read.
THEOREM WhatIsUnreadIsTold == Spec => []IncompleteIsTold
  <1>1. IInv => IncompleteIsTold
    BY DEF IInv
  <1> QED
    BY <1>1, Invariant, PTL

\* A failing command prints the line its exit code stands for.
LEMMA FailsConcludes ==
  ASSUME IInv, pc \in {"target", "target_header", "walk"},
         NEW status \in {"INDETERMINATE", "UNSUPPORTED_ARCHITECTURE"},
         status = "INDETERMINATE" \/ cmd = "audit",
         Fails(status, IF status = "INDETERMINATE" THEN 21 ELSE 22)
  PROVE  V!Conclude
  <1>1. exit = None /\ line' \in Lines /\ explained' = TRUE
          /\ exit' = (IF status = "INDETERMINATE" THEN 21 ELSE 22)
    BY FailsTyped DEF IInv, Ending
  <1>2. cmd \in {"clsid", "progid"} => lookup \in LookupResults /\ status = "INDETERMINATE"
    BY DEF IInv, Control, TypeOK
  <1>3. lookup \in LookupResults => lookup.status \in Broken \cup {"REGISTERED", "ACCESS_DENIED"}
    BY DEF LookupResults
  <1>4. Token = "COM_LOOKUP" => cmd \in {"clsid", "progid"}
    BY DEF Token, IInv, TypeOK, Commands
  <1>5. status \in V!Statuses(line') /\ V!Statuses(line') \subseteq
          {status, None} \cup Broken \cup {"REGISTERED", "ACCESS_DENIED"}
    BY <1>2, <1>3, <1>4 DEF Fails, Prints, Line, V!Statuses
  <1>6. None \notin {"INDETERMINATE", "UNSUPPORTED_ARCHITECTURE", "ACCESS_DENIED"}
    BY DEF ServerStatuses
  <1>7. exit' = V!ExitCode(line') /\ explained' = V!Unanswered(line')
    <2>1. V!Unanswered(line') = TRUE
      BY <1>5 DEF V!Unanswered
    <2>2. "UNSUPPORTED_ARCHITECTURE" \in V!Statuses(line') <=> status = "UNSUPPORTED_ARCHITECTURE"
      BY <1>5, <1>6 DEF Broken
    <2>3. status = "INDETERMINATE" => V!Incomplete(line')
      BY <1>5 DEF V!Incomplete
    <2> QED
      BY <1>1, <2>1, <2>2, <2>3 DEF V!ExitCode
  <1> QED
    BY <1>1, <1>7 DEF V!Conclude

\* The exit code of a line whose statuses are no failure of the command.
LEMMA PlainLine ==
  ASSUME NEW token, NEW status, NEW server_status,
         {status, server_status} \cap {"INDETERMINATE", "UNSUPPORTED_ARCHITECTURE"} = {}
  PROVE  LET l == Line(token, status, server_status)
         IN /\ V!Unanswered(l) = FALSE
            /\ V!ExitCode(l) = IF "ACCESS_DENIED" \in {status, server_status} THEN 21
                               ELSE IF /\ status \in {"OK", "REGISTERED"}
                                       /\ server_status \in {None, "OK", "SKIPPED"}
                                 THEN 0 ELSE 10
  BY DEF Line, V!Unanswered, V!ExitCode, V!Incomplete, V!Healthy, V!Statuses

LEMMA ReportConcludes ==
  ASSUME IInv, Report
  PROVE  V!Conclude
  <1>1. line' \in Lines
    BY TypeReport DEF IInv
  <1>2. exit = None /\ explained' = FALSE /\ pc = "report"
    BY DEF Report, IInv, Ending
  <1>3. server \in ServerStatuses \cup {None} /\ (lookup # None => lookup \in LookupResults)
    BY DEF IInv, TypeOK
  <1>4. lookup # None => lookup.status \in Broken \cup {"REGISTERED", "ACCESS_DENIED"}
    BY <1>3 DEF LookupResults
  <1>5. exit' = V!ExitCode(line') /\ V!Unanswered(line') = FALSE
    <2>1. CASE cmd \in {"clsid", "progid"}
      <3>1. lookup # None /\ (server # None <=> lookup.status = "REGISTERED")
        BY <1>2, <2>1 DEF IInv, Control
      <3>2. line' = Line("COM_LOOKUP", lookup.status, server) /\ exit' = LookupExitCode(lookup, server)
        BY <2>1 DEF Report, ReportLookup, ReportServer, ReportAudit, Prints
      <3>3. {lookup.status, server} \cap {"INDETERMINATE", "UNSUPPORTED_ARCHITECTURE"} = {}
        BY <1>3, <1>4, <3>1 DEF Broken, ServerStatuses, Faults
      <3>4. lookup.status # "OK"
        BY <1>4, <3>1 DEF Broken
      <3>5. exit' = IF "ACCESS_DENIED" \in {lookup.status, server} THEN 21
                    ELSE IF /\ lookup.status \in {"OK", "REGISTERED"}
                            /\ server \in {None, "OK", "SKIPPED"}
                      THEN 0 ELSE 10
        BY <3>2, <3>4 DEF LookupExitCode
      <3> DEFINE status == lookup.status
                 l == Line("COM_LOOKUP", status, server)
      <3> HIDE DEF status
      <3>6. /\ {status, server} \cap {"INDETERMINATE", "UNSUPPORTED_ARCHITECTURE"} = {}
            /\ line' = l
            /\ exit' = IF "ACCESS_DENIED" \in {status, server} THEN 21
                       ELSE IF status \in {"OK", "REGISTERED"} /\ server \in {None, "OK", "SKIPPED"}
                         THEN 0 ELSE 10
        BY <3>2, <3>3, <3>5 DEF status
      <3>7. /\ V!Unanswered(l) = FALSE
            /\ V!ExitCode(l) = IF "ACCESS_DENIED" \in {status, server} THEN 21
                               ELSE IF /\ status \in {"OK", "REGISTERED"}
                                       /\ server \in {None, "OK", "SKIPPED"}
                                 THEN 0 ELSE 10
        BY <3>6, PlainLine
      <3> QED
        BY <3>6, <3>7
    <2>2. CASE cmd = "server"
      <3>1. server \in ServerStatuses /\ server # "BITNESS_MISMATCH"
        BY <1>2, <1>3, <2>2 DEF IInv, Control, Answers, Inproc, Local
      <3>2. /\ line' = Line("COM_SERVER", ServerToken, None)
            /\ exit' = IF denied \/ server = "ACCESS_DENIED" THEN 21
                       ELSE IF server \in {"SERVER_MISSING", "SERVER_BAD_IMAGE", "SERVER_DEPS_MISSING"}
                         THEN 10 ELSE 0
        BY <2>2 DEF Report, ReportLookup, ReportServer, ReportAudit, Prints
      <3>3. {ServerToken, None} \cap {"INDETERMINATE", "UNSUPPORTED_ARCHITECTURE"} = {}
        BY <3>1 DEF ServerToken, ServerStatuses, Faults
      <3>4. None # "ACCESS_DENIED"
        BY DEF ServerStatuses
      <3>5. /\ ServerToken = "ACCESS_DENIED" <=> denied \/ server = "ACCESS_DENIED"
            /\ ServerToken \in {"OK", "REGISTERED"} <=> ~denied /\ server \in {"OK", "SKIPPED"}
        BY <3>1 DEF ServerToken, ServerStatuses, Faults
      <3>6. exit' = IF "ACCESS_DENIED" \in {ServerToken, None} THEN 21
                    ELSE IF ServerToken \in {"OK", "REGISTERED"} /\ None \in {None, "OK", "SKIPPED"}
                      THEN 0 ELSE 10
        BY <3>1, <3>2, <3>4, <3>5 DEF ServerStatuses, Faults
      <3> QED
        BY <3>2, <3>3, <3>6, PlainLine
    <2>3. CASE cmd = "audit"
      <3>1. AuditStatus \in {"OK"} \cup Faults \cup Broken \cup {"ACCESS_DENIED"}
        <4>1. lookup # None => (server # None <=> lookup.status = "REGISTERED")
          BY <1>2 DEF IInv, Control
        <4> QED
          BY <1>3, <1>4, <4>1 DEF AuditStatus, ServerStatuses, Broken
      <3>2. /\ line' = Line("COM_AUDIT", AuditStatus, None)
            /\ exit' = IF AuditStatus = "ACCESS_DENIED" THEN 21 ELSE IF AuditStatus # "OK" THEN 10 ELSE 0
        BY <2>3 DEF Report, ReportLookup, ReportServer, ReportAudit, Prints
      <3>3. {AuditStatus, None} \cap {"INDETERMINATE", "UNSUPPORTED_ARCHITECTURE"} = {}
        BY <3>1 DEF Faults, Broken
      <3>4. None # "ACCESS_DENIED" /\ AuditStatus # "REGISTERED"
        BY <3>1 DEF ServerStatuses, Faults, Broken
      <3> QED
        BY <3>2, <3>3, <3>4, PlainLine
    <2> QED
      BY <2>1, <2>2, <2>3 DEF IInv, TypeOK, Commands
  <1> QED
    BY <1>1, <1>2, <1>5 DEF V!Conclude

LEMMA RefinesStep == IInv /\ [Next]_vars => [V!Conclude]_<<line, explained, exit>>
  <1> SUFFICES ASSUME IInv, [Next]_vars PROVE V!Conclude \/ UNCHANGED <<line, explained, exit>>
    BY DEF V!Conclude
  <1>1. CASE TargetExists \/ TargetHeader
    <2>1. cmd = "audit"
      BY <1>1 DEF IInv, TypeOK, Control, Start, Commands, TargetExists, TargetHeader
    <2>2. UNCHANGED output \/ Indeterminate \/ UnsupportedArchitecture
      BY <1>1 DEF TargetExists, TargetHeader, GoesTo
    <2>3. pc \in {"target", "target_header"}
      BY <1>1 DEF TargetExists, TargetHeader
    <2> QED
      BY <2>1, <2>2, <2>3, FailsConcludes DEF Indeterminate, UnsupportedArchitecture, output
  <1>2. CASE Manifest \/ Lookup
    BY <1>2 DEF Manifest, Lookup, GoesTo, output
  <1>3. CASE Exists \/ Header \/ Walk
    <2>1. UNCHANGED output \/ (pc = "walk" /\ Indeterminate)
      BY <1>3 DEF Exists, Header, Walk, Validated, GoesTo
    <2> QED
      BY <2>1, FailsConcludes DEF Indeterminate, output
  <1>4. CASE EnumerateClasses \/ ReadServers
    BY <1>4 DEF EnumerateClasses, ReadServers, Scanning, GoesTo, output
  <1>5. CASE Report
    BY <1>5, ReportConcludes
  <1>6. CASE UNCHANGED vars
    BY <1>6 DEF vars, output
  <1> QED
    BY <1>1, <1>2, <1>3, <1>4, <1>5, <1>6 DEF Next, Step, Done

\* The COM commands implement ComVerdict: a command prints one line, exits with
\* the code that the statuses of this line stand for, and explains itself on
\* stderr exactly when it could not answer.
THEOREM OneLinePerCommand == Spec => Verdict
  <1>1. Init => V!Init
    BY DEF Init, V!Init
  <1> QED
    BY <1>1, Invariant, RefinesStep, PTL DEF Spec, Verdict, V!Spec

-----------------------------------------------------------------------------
(* The audit over files. *)

\* What the files answer is among the answers of ComCommand: an audit whose
\* image and manifests are read is one of its audits, step by step.
LEMMA AuditStep == [AuditNext]_auditvars => [Next]_vars
  <1> SUFFICES ASSUME [AuditNext]_auditvars PROVE [Next]_vars
    OBVIOUS
  <1>1. CASE AuditHeader
    BY <1>1 DEF AuditHeader, Next, Step
  <1>2. CASE AuditManifest
    BY <1>2 DEF AuditManifest, Next, Step
  <1>3. CASE Elsewhere
    BY <1>3 DEF Elsewhere, Next, Step
  <1>4. CASE UNCHANGED auditvars
    BY <1>4 DEF auditvars
  <1> QED
    BY <1>1, <1>2, <1>3, <1>4 DEF AuditNext

\* audit_with_cwd with read_embedded_manifest, machine_type and
\* parse_manifest_com_classes below it does nothing that ComCommand rules out.
THEOREM AuditIsCommand == AuditSpec => Spec
  <1>1. AuditInit => Init
    BY DEF AuditInit
  <1> QED
    BY <1>1, AuditStep, PTL DEF AuditSpec, Spec

\* So an audit whose files are read gives, too, the line and the exit code of
\* the abstract command.
THEOREM AuditKeepsVerdict == AuditSpec => Verdict
  BY AuditIsCommand, OneLinePerCommand, PTL

-----------------------------------------------------------------------------
(* The order of the registrations *)

HiveBefore(a, b) == \/ a[1] = "64" /\ b[1] = "32"
                    \/ a[1] = b[1] /\ a[2] = "HKCU" /\ b[2] = "HKLM"

\* A registration is of a hive before those that are left, or of the one that
\* is being read and of a class before those that are left there.
Behind(r, j, left, place, classes) ==
  \/ HiveBefore(r, left[j])
  \/ /\ j = 1 /\ r[1] = left[1][1] /\ r[2] = left[1][2]
     /\ place = "classes" /\ \A c \in classes : r[3] < c

OrderInv ==
  /\ \A i, j \in DOMAIN scans : i < j => HiveBefore(scans[i], scans[j])
  /\ RegistrationsOrdered
  /\ \A i \in DOMAIN registrations, j \in DOMAIN scans :
       Behind(registrations[i], j, scans, pc, listed)

\* RegistrationsOrdered, of any registrations.
Ordered(s) == \A i, j \in DOMAIN s : i < j => Precedes(s[i], s[j])

LEMMA OrderedConcat ==
  ASSUME NEW s \in Seq(Registrations), NEW t \in Seq(Registrations), Ordered(s), Ordered(t),
         \A i \in DOMAIN s, j \in DOMAIN t : Precedes(s[i], t[j])
  PROVE  Ordered(s \o t)
  <1> DEFINE q == s \o t
  <1>1. /\ DOMAIN q = 1..(Len(s) + Len(t)) /\ DOMAIN s = 1..Len(s) /\ DOMAIN t = 1..Len(t)
        /\ Len(s) \in Nat /\ Len(t) \in Nat
        /\ \A i \in 1..Len(s) : q[i] = s[i]
        /\ \A i \in 1..Len(t) : q[Len(s) + i] = t[i]
    OBVIOUS
  <1> HIDE DEF q
  <1>2. ASSUME NEW i \in DOMAIN q
        PROVE  \/ i \in DOMAIN s /\ q[i] = s[i]
               \/ i - Len(s) \in DOMAIN t /\ q[i] = t[i - Len(s)] /\ i > Len(s)
    <2>1. CASE i <= Len(s)
      BY <1>1, <1>2, <2>1
    <2>2. CASE i > Len(s)
      <3>1. i - Len(s) \in 1..Len(t) /\ i = Len(s) + (i - Len(s))
        BY <1>1, <1>2, <2>2
      <3> QED
        BY <1>1, <2>2, <3>1
    <2> QED
      BY <1>1, <1>2, <2>1, <2>2
  <1>3. ASSUME NEW i \in DOMAIN q, NEW j \in DOMAIN q, i < j PROVE Precedes(q[i], q[j])
    <2>0. i \in Int /\ j \in Int
      BY <1>1, <1>3
    <2>1. CASE i \in DOMAIN s /\ j \in DOMAIN s /\ q[i] = s[i] /\ q[j] = s[j]
      BY <1>3, <2>1 DEF Ordered
    <2>2. CASE /\ i \in DOMAIN s /\ q[i] = s[i]
               /\ j - Len(s) \in DOMAIN t /\ q[j] = t[j - Len(s)]
      BY <2>2
    <2>3. CASE /\ i - Len(s) \in DOMAIN t /\ q[i] = t[i - Len(s)] /\ i > Len(s)
               /\ j - Len(s) \in DOMAIN t /\ q[j] = t[j - Len(s)]
      <3>1. i - Len(s) < j - Len(s)
        BY <1>1, <1>3, <2>0
      <3> QED
        BY <2>3, <3>1 DEF Ordered
    <2>4. ~(i > Len(s) /\ j \in DOMAIN s)
      BY <1>1, <1>3, <2>0
    <2> QED
      BY <1>2, <2>1, <2>2, <2>3, <2>4
  <1> QED
    BY <1>3 DEF Ordered, q

\* The hives of the views are scanned in the documented order.
LEMMA InitOrdered == Init => OrderInv
  <1> SUFFICES ASSUME Init PROVE OrderInv
    OBVIOUS
  <1>1. registrations = <<>> /\ RegistrationsOrdered
    BY DEF Init, RegistrationsOrdered
  <1>2. ASSUME NEW i \in DOMAIN scans, NEW j \in DOMAIN scans, i < j
        PROVE  HiveBefore(scans[i], scans[j])
    <2>1. cmd = "server" /\ scans = Scans(views)
      BY <1>2 DEF Init
    <2>2. views \in {<<"64">>, <<"32">>, <<"64", "32">>}
      BY <2>1 DEF Init
    <2>3. CASE views = <<"64">>
      BY <1>2, <2>1, <2>3 DEF Scans, HiveBefore
    <2>4. CASE views = <<"32">>
      BY <1>2, <2>1, <2>4 DEF Scans, HiveBefore
    <2>5. CASE views = <<"64", "32">>
      <3>1. scans = <<<<"64", "HKCU">>, <<"64", "HKLM">>, <<"32", "HKCU">>, <<"32", "HKLM">>>>
        BY <2>1, <2>5 DEF Scans
      <3>2. /\ i \in 1..4 /\ j \in 1..4
            /\ scans[1] = <<"64", "HKCU">> /\ scans[2] = <<"64", "HKLM">>
            /\ scans[3] = <<"32", "HKCU">> /\ scans[4] = <<"32", "HKLM">>
        BY <1>2, <3>1
      <3>3. \/ i = 1 /\ j \in {2, 3, 4}
            \/ i = 2 /\ j \in {3, 4}
            \/ i = 3 /\ j = 4
        BY <1>2, <3>2
      <3>4. /\ \A v \in RegViews : HiveBefore(<<v, "HKCU">>, <<v, "HKLM">>)
            /\ \A g, h \in Hives : HiveBefore(<<"64", g>>, <<"32", h>>)
        BY DEF HiveBefore
      <3>5. CASE i = 1
        BY <3>2, <3>3, <3>4, <3>5 DEF RegViews, Hives
      <3>6. CASE i = 2
        BY <3>2, <3>3, <3>4, <3>6 DEF RegViews, Hives
      <3>7. CASE i = 3
        BY <3>2, <3>3, <3>4, <3>7 DEF RegViews, Hives
      <3> QED
        BY <3>3, <3>5, <3>6, <3>7
    <2> QED
      BY <2>2, <2>3, <2>4, <2>5
  <1> QED
    BY <1>1, <1>2 DEF OrderInv

\* reverse_lookup goes on with hives that come after.
LEMMA TailScans ==
  ASSUME TypeOK, scans # <<>>
  PROVE  /\ DOMAIN Tail(scans) = 1..(Len(scans) - 1) /\ DOMAIN scans = 1..Len(scans)
         /\ Len(scans) \in Nat
         /\ \A j \in 1..(Len(scans) - 1) : /\ Tail(scans)[j] = scans[j + 1]
                                           /\ j + 1 \in 1..Len(scans) /\ j + 1 # 1
  BY DEF TypeOK

LEMMA ScansOrdered ==
  ASSUME TypeOK, OrderInv, scans # <<>>, scans' \in {scans, Tail(scans), <<>>}
  PROVE  \A i, j \in DOMAIN scans' : i < j => HiveBefore(scans'[i], scans'[j])
  <1>1. CASE scans' = scans
    BY <1>1 DEF OrderInv
  <1>2. CASE scans' = Tail(scans)
    <2>1. \A i, j \in 1..(Len(scans) - 1) : i < j => i + 1 < j + 1
      BY TailScans
    <2> QED
      BY <1>2, <2>1, TailScans DEF OrderInv
  <1>3. CASE scans' = <<>>
    BY <1>3
  <1> QED
    BY <1>1, <1>2, <1>3

\* A registration stays behind what is left.
LEMMA ScanningBehind ==
  ASSUME TypeOK, scans # <<>>, NEW rest \in SUBSET Classes, Scanning(rest), NEW r,
         rest # {} => \A j \in DOMAIN scans : Behind(r, j, scans', pc', listed'),
         rest = {} => \A j \in DOMAIN scans : j # 1 => HiveBefore(r, scans[j])
  PROVE  \A j \in DOMAIN scans' : Behind(r, j, scans', pc', listed')
  <1>1. CASE rest # {}
    <2>1. scans' = scans
      BY <1>1 DEF Scanning
    <2> QED
      BY <1>1, <2>1
  <1>2. CASE rest = {}
    <2>1. scans' = Tail(scans)
      BY <1>2 DEF Scanning
    <2>2. \A j \in DOMAIN scans' : HiveBefore(r, scans'[j])
      BY <1>2, <2>1, TailScans
    <2> QED
      BY <2>2 DEF Behind
  <1> QED
    BY <1>1, <1>2

LEMMA EnumerateOrdered ==
  ASSUME IInv, OrderInv, EnumerateClasses
  PROVE  OrderInv'
  <1>0. TypeOK /\ scans # <<>> /\ pc = "enumerate"
    BY DEF IInv, Control, EnumerateClasses
  <1>1. CASE registrations' = <<>>
    <2>1. RegistrationsOrdered'
      BY <1>1 DEF RegistrationsOrdered
    <2>2. scans' \in {scans, Tail(scans), <<>>}
      BY DEF EnumerateClasses, Scanning
    <2> QED
      BY <1>0, <1>1, <2>1, <2>2, ScansOrdered DEF OrderInv
  <1>2. CASE registrations' # <<>>
    <2>1. PICK cs \in SUBSET Classes : Scanning(cs) /\ registrations' = registrations
      BY <1>2 DEF EnumerateClasses
    <2>2. scans' \in {scans, Tail(scans), <<>>}
      BY <2>1 DEF Scanning
    <2>3. ASSUME NEW i \in DOMAIN registrations
          PROVE  \A j \in DOMAIN scans' : Behind(registrations[i], j, scans', pc', listed')
      <3>1. \A j \in DOMAIN scans : HiveBefore(registrations[i], scans[j])
        BY <1>0 DEF OrderInv, Behind
      <3>2. cs # {} => scans' = scans
        BY <2>1 DEF Scanning
      <3>3. cs # {} => \A j \in DOMAIN scans : Behind(registrations[i], j, scans', pc', listed')
        BY <2>1, <3>1, <3>2 DEF Behind
      <3> QED
        BY <1>0, <2>1, <3>1, <3>3, ScanningBehind
    <2>4. RegistrationsOrdered'
      BY <2>1 DEF OrderInv, RegistrationsOrdered
    <2>5. \A i \in DOMAIN registrations', j \in DOMAIN scans' :
            Behind(registrations'[i], j, scans', pc', listed')
      BY <2>1, <2>3
    <2> QED
      BY <1>0, <2>2, <2>4, <2>5, ScansOrdered DEF OrderInv
  <1> QED
    BY <1>1, <1>2

LEMMA ReadOrdered ==
  ASSUME IInv, OrderInv, ReadServers
  PROVE  OrderInv'
  <1>0. TypeOK /\ scans # <<>> /\ pc = "classes" /\ listed # {}
    BY DEF IInv, Control, ReadServers
  <1>1. PICK named \in {<<>>, <<Inproc>>, <<Local>>, <<Inproc, Local>>} :
          registrations' = registrations \o Named(named)
    BY DEF ReadServers, Named
  <1> DEFINE rest == listed \ {NextClass}
             news == Named(named)
  <1>2. rest \in SUBSET Classes /\ Scanning(rest)
    BY <1>0 DEF TypeOK, ReadServers
  <1>3. NextClass \in listed /\ \A c \in listed : NextClass <= c
    BY <1>0, LeastNatural DEF TypeOK, NextClass
  <1>4. listed \subseteq Nat
    BY <1>0 DEF TypeOK
  <1>5. news \in Seq(Registrations) /\ DOMAIN news = DOMAIN named
        /\ \A i \in DOMAIN news : news[i] = <<scans[1][1], scans[1][2], NextClass, named[i]>>
    BY <1>0, NamedTyped DEF Named
  <1> HIDE DEF news
  <1>6. scans' \in {scans, Tail(scans), <<>>}
    BY <1>2 DEF Scanning
  <1>7. Ordered(news)
    <2>1. \A i, j \in DOMAIN named : i < j => named[i] = Inproc /\ named[j] = Local
      BY <1>1
    <2> QED
      BY <1>5, <2>1 DEF Ordered, Precedes
  <1>8. 1 \in DOMAIN scans
    BY <1>0, TailScans DEF TypeOK
  <1>9. ASSUME NEW i \in DOMAIN registrations
        PROVE  /\ \A j \in DOMAIN scans : \/ HiveBefore(registrations[i], scans[j])
                                          \/ /\ j = 1 /\ registrations[i][1] = scans[1][1]
                                             /\ registrations[i][2] = scans[1][2]
                                             /\ \A c \in listed : registrations[i][3] < c
    BY DEF OrderInv, Behind
  <1>10. \A i \in DOMAIN registrations, j \in DOMAIN news : Precedes(registrations[i], news[j])
    BY <1>3, <1>5, <1>8, <1>9 DEF HiveBefore, Precedes
  <1>11. Ordered(registrations \o news)
    <2>1. Ordered(registrations) /\ registrations \in Seq(Registrations)
      BY <1>0 DEF OrderInv, RegistrationsOrdered, Ordered, TypeOK
    <2> QED
      BY <1>5, <1>7, <1>10, <2>1, OrderedConcat
  <1>12. /\ rest # {} => scans' = scans /\ listed' = rest /\ pc' = "classes"
    BY <1>2 DEF Scanning, GoesTo
  <1>13. \A i \in DOMAIN registrations : \A j \in DOMAIN scans' :
            Behind(registrations[i], j, scans', pc', listed')
    <2>1. ASSUME NEW i \in DOMAIN registrations
          PROVE  \A j \in DOMAIN scans' : Behind(registrations[i], j, scans', pc', listed')
      <3>1. rest # {} => \A j \in DOMAIN scans : Behind(registrations[i], j, scans', pc', listed')
        BY <1>9, <1>12 DEF Behind
      <3>2. \A j \in DOMAIN scans : j # 1 => HiveBefore(registrations[i], scans[j])
        BY <1>9
      <3> QED
        BY <1>0, <1>2, <3>1, <3>2, ScanningBehind
    <2> QED
      BY <2>1
  <1>14. \A i \in DOMAIN news : \A j \in DOMAIN scans' : Behind(news[i], j, scans', pc', listed')
    <2>1. ASSUME NEW i \in DOMAIN news
          PROVE  \A j \in DOMAIN scans' : Behind(news[i], j, scans', pc', listed')
      <3>1. \A j \in DOMAIN scans : j # 1 => HiveBefore(news[i], scans[j])
        <4>1. \A j \in DOMAIN scans : j # 1 => 1 < j
          BY <1>0, TailScans
        <4>2. \A j \in DOMAIN scans : j # 1 => HiveBefore(scans[1], scans[j])
          BY <1>8, <4>1 DEF OrderInv
        <4> QED
          BY <1>5, <2>1, <4>2 DEF HiveBefore
      <3>2. \A c \in rest : NextClass < c
        BY <1>3, <1>4
      <3>3. rest # {} => \A j \in DOMAIN scans : Behind(news[i], j, scans', pc', listed')
        BY <1>5, <1>12, <3>1, <3>2 DEF Behind
      <3> QED
        BY <1>0, <1>2, <3>1, <3>3, ScanningBehind
    <2> QED
      BY <2>1
  <1>15. ASSUME NEW i \in DOMAIN registrations'
         PROVE  \/ \E k \in DOMAIN registrations : registrations'[i] = registrations[k]
                \/ \E k \in DOMAIN news : registrations'[i] = news[k]
    <2>1. registrations \in Seq(Registrations) /\ registrations' = registrations \o news
      BY <1>0, <1>1 DEF TypeOK, news
    <2> QED
      BY <1>5, <2>1
  <1>16. RegistrationsOrdered'
    BY <1>1, <1>11 DEF RegistrationsOrdered, Ordered, news
  <1>17. \A i \in DOMAIN registrations', j \in DOMAIN scans' :
            Behind(registrations'[i], j, scans', pc', listed')
    BY <1>13, <1>14, <1>15
  <1> QED
    BY <1>0, <1>6, <1>16, <1>17, ScansOrdered DEF OrderInv

\* reverse_lookup lists the registrations of a server in the documented order,
\* each once, whatever the order in which the registry enumerates classes and
\* however many there are.
THEOREM RegistrationsInOrder == Spec => []RegistrationsOrdered
  <1>1. OrderInv /\ IInv /\ [Next]_vars => OrderInv'
    <2> SUFFICES ASSUME OrderInv, IInv, [Next]_vars PROVE OrderInv'
      OBVIOUS
    <2>1. CASE TargetExists \/ TargetHeader \/ Manifest \/ Lookup \/ Exists \/ Header \/ Walk
      <3>1. /\ scans' = scans /\ registrations' = registrations
            /\ pc \notin {"enumerate", "classes"}
        BY <2>1 DEF TargetExists, TargetHeader, Manifest, Lookup, Exists, Header, Walk, reverse
      <3> QED
        BY <3>1 DEF OrderInv, RegistrationsOrdered, Behind
    <2>2. CASE Report
      BY <2>2 DEF Report, reverse, OrderInv, RegistrationsOrdered, Behind
    <2>3. CASE UNCHANGED vars
      BY <2>3 DEF vars, reverse, OrderInv, RegistrationsOrdered, Behind
    <2> QED
      BY <2>1, <2>2, <2>3, EnumerateOrdered, ReadOrdered DEF Next, Step, Done
  <1>2. OrderInv => RegistrationsOrdered
    BY DEF OrderInv
  <1> QED
    BY <1>1, <1>2, InitOrdered, Invariant, PTL DEF Spec

-----------------------------------------------------------------------------
(* The manifest of an audited target is heeded                             *)

\* What is kept of the manifest's answer, and where it leads the audit.
HitKept ==
  /\ cmd = "audit" => image \in Images
  /\ seen.manifest = None => hit = None
  /\ seen.manifest # None => cmd = "audit" /\ hit = ManifestHit
  /\ pc = "manifest" \/ seen.manifest # None => expected = Pe!MachineType(image)
HitLeads ==
  hit # None =>
    /\ lookup = None /\ pc \notin Start
    /\ hit.server # <<>> => kind = Inproc
    /\ hit.server = <<>> => pc \in {"report", "done"} /\ server = None
    /\ hit.server = <<>> /\ pc = "done" => exit = 10

AInv == IInv /\ HitKept /\ HitLeads

\* While the files stay, so does what is found in them.
LEMMA HitStays ==
  ASSUME UNCHANGED files
  PROVE  ManifestHit' = ManifestHit
<1>1. image' = image /\ sidecar' = sidecar /\ query' = query
  BY DEF files
<1> QED
  BY <1>1 DEF ManifestHit, Xml, Embedded, Matches, SelectInSeq

\* Steps that say nothing of the manifest.
LEMMA KeptElsewhere ==
  ASSUME HitKept, UNCHANGED <<files, hit>>, cmd' = cmd, seen'.manifest = seen.manifest,
         expected' = expected, pc' # "manifest"
  PROVE  HitKept'
<1>1. ManifestHit' = ManifestHit /\ image' = image /\ hit' = hit
  BY HitStays DEF files
<1>2. \A h : h = ManifestHit' <=> h = ManifestHit
  BY <1>1, Zenon
<1>. DEFINE mh == ManifestHit
            machine == Pe!MachineType(image)
<1>3. HitKept' <=> /\ cmd' = "audit" => image' \in Images
                   /\ seen'.manifest = None => hit' = None
                   /\ seen'.manifest # None => cmd' = "audit" /\ hit' = ManifestHit'
                   /\ pc' = "manifest" \/ seen'.manifest # None => expected' = Pe!MachineType(image')
  BY Zenon DEF HitKept
<1>4. Pe!MachineType(image') = machine
  BY <1>1, Zenon
<1> QED
  BY <1>1, <1>3, <1>4, Zenon DEF HitKept

LEMMA HitInit == AuditInit => HitKept /\ HitLeads
  BY DEF AuditInit, Init, HitKept, HitLeads

LEMMA HitHeader ==
  ASSUME AInv, AuditHeader
  PROVE  HitKept' /\ HitLeads'
<1>1. /\ TargetHeader /\ seen'.target \in {"unreadable", Pe!MachineType(image)}
      /\ UNCHANGED <<files, hit>>
  BY DEF AuditHeader
<1>2. /\ hit = None /\ seen \in Seen /\ cmd = "audit"
  BY <1>1 DEF AInv, IInv, HitLeads, TargetHeader, Start, TypeOK, Control, Commands
<1>3. hit' = None /\ image' = image /\ cmd' = cmd
  BY <1>1, <1>2 DEF TargetHeader, files
<1>4. HitLeads'
  BY <1>3 DEF HitLeads
<1>5. PICK h \in Headers :
        /\ seen' = [seen EXCEPT !.target = h]
        /\ \/ /\ h \in {"x64", "x86"}
              /\ expected' = h /\ views' = <<ViewOf[h]>>
              /\ GoesTo("manifest")
           \/ /\ h = "unknown" /\ UnsupportedArchitecture
              /\ UNCHANGED <<views, expected>>
           \/ /\ h \in {"unreadable", "malformed"} /\ Indeterminate
              /\ UNCHANGED <<views, expected>>
  BY <1>1, Zenon DEF TargetHeader
<1>6. seen'.target = h /\ seen'.manifest = seen.manifest
  BY <1>2, <1>5 DEF Seen
<1>7. CASE h \in {"x64", "x86"}
  <2>1. expected' = Pe!MachineType(image)
    <3>1. expected' = h
      BY <1>5, <1>7 DEF UnsupportedArchitecture, Indeterminate
    <3>2. h # "unreadable"
      BY <1>7
    <3> QED
      BY <1>1, <1>6, <3>1, <3>2, Zenon
  <2>2. expected' = Pe!MachineType(image')
    BY <1>3, <2>1, Zenon
  <2>3. ManifestHit' = ManifestHit
    BY <1>1, HitStays
  <2> QED
    BY <1>2, <1>3, <1>4, <1>6, <2>2, <2>3, Zenon DEF AInv, HitKept
<1>8. CASE h \notin {"x64", "x86"}
  <2>1. expected' = expected /\ pc' = "done"
    BY <1>5, <1>8 DEF UnsupportedArchitecture, Indeterminate, Fails, Prints
  <2>2. pc' # "manifest"
    BY <2>1
  <2> QED
    BY <1>1, <1>3, <1>4, <1>6, <2>1, <2>2, KeptElsewhere, Zenon DEF AInv
<1> QED
  BY <1>7, <1>8

LEMMA HitManifest ==
  ASSUME AInv, AuditManifest
  PROVE  HitKept' /\ HitLeads'
<1>1. /\ pc = "manifest" /\ hit' = ManifestHit /\ Manifest
      /\ seen'.manifest = ManifestOutcome(hit') /\ UNCHANGED files
  BY DEF AuditManifest
<1>2. /\ seen \in Seen /\ cmd = "audit" /\ lookup = None /\ server = None
      /\ expected = Pe!MachineType(image) /\ image \in Images
  BY <1>1 DEF AInv, IInv, TypeOK, Control, Commands, Start, HitKept
<1>3. /\ cmd' = "audit" /\ expected' = expected /\ lookup' = None /\ server' = None
      /\ image' = image
  BY <1>1, <1>2 DEF Manifest, inputs, files
<1>4. PICK m \in {"none", "unreadable", "no_server", "server"} :
        /\ seen' = [seen EXCEPT !.manifest = m]
        /\ kind' = IF m = "server" THEN Inproc ELSE None
        /\ GoesTo(IF m = "server" THEN "exists" ELSE IF m = "no_server" THEN "report" ELSE "lookup")
  BY <1>1, Zenon DEF Manifest
<1>5. seen'.manifest = m /\ m = ManifestOutcome(hit') /\ m # None
  <2>1. seen'.manifest = m
    BY <1>2, <1>4 DEF Seen
  <2>2. m # None
    BY <1>4, NoneAssumption
  <2> QED
    BY <1>1, <2>1, <2>2
<1>6. pc' = IF m = "server" THEN "exists" ELSE IF m = "no_server" THEN "report" ELSE "lookup"
  BY <1>4 DEF GoesTo
<1>7. HitKept'
  <2>1. ManifestHit' = ManifestHit
    BY <1>1, HitStays
  <2>2. hit' = ManifestHit'
    BY <1>1, <2>1, Zenon
  <2>3. expected' = Pe!MachineType(image') /\ image' \in Images
    BY <1>2, <1>3, Zenon
  <2> QED
    BY <1>3, <1>5, <2>2, <2>3, Zenon DEF HitKept
<1>8. HitLeads'
  <2>. DEFINE h == hit'
  <2>1. h # None => m = IF h.server = <<>> THEN "no_server" ELSE "server"
    BY <1>5, Zenon DEF ManifestOutcome
  <2>. HIDE DEF h
  <2>2. h # None => /\ pc' \notin Start
                    /\ h.server # <<>> => kind' = Inproc
                    /\ h.server = <<>> => pc' = "report"
    BY <1>4, <1>6, <2>1 DEF Start
  <2> QED
    BY <1>3, <2>2 DEF HitLeads, h
<1> QED
  BY <1>7, <1>8

LEMMA HitElsewhere ==
  ASSUME AInv, Elsewhere
  PROVE  HitKept' /\ HitLeads'
<1>1. UNCHANGED <<files, hit>> /\ hit' = hit /\ seen \in Seen
  BY DEF Elsewhere, AInv, IInv, TypeOK
<1>2. HitKept /\ HitLeads
  BY DEF AInv
<1>3. CASE TargetExists \/ Lookup
  <2>1. hit = None
    BY <1>2, <1>3 DEF HitLeads, TargetExists, Lookup, Start
  <2>2. HitLeads'
    BY <1>1, <2>1 DEF HitLeads
  <2>3. cmd' = cmd /\ expected' = expected /\ seen'.manifest = seen.manifest /\ pc' # "manifest"
    BY <1>1, <1>3 DEF TargetExists, Lookup, inputs, Seen, GoesTo, Indeterminate, Fails, Prints
  <2> QED
    BY <1>1, <1>2, <2>2, <2>3, KeptElsewhere, Zenon
<1>4. CASE Exists \/ Header \/ Walk
  <2>1. cmd' = cmd /\ expected' = expected /\ seen'.manifest = seen.manifest
        /\ lookup' = lookup /\ kind' = kind
    BY <1>1, <1>4 DEF Exists, Header, Walk, inputs, Seen
  <2>2. pc' \in {"header", "walk", "enumerate", "report", "done"}
    BY <1>4 DEF Exists, Header, Walk, GoesTo, Validated, Indeterminate, Fails, Prints
  <2>3. hit # None => hit.server # <<>> /\ lookup = None /\ kind = Inproc
    BY <1>2, <1>4 DEF HitLeads, Exists, Header, Walk
  <2>4. HitLeads'
    BY <1>1, <2>1, <2>2, <2>3 DEF HitLeads, Start
  <2>5. pc' # "manifest"
    BY <2>2
  <2> QED
    BY <1>1, <1>2, <2>1, <2>4, <2>5, KeptElsewhere, Zenon
<1>5. CASE EnumerateClasses \/ ReadServers
  <2>1. /\ cmd' = cmd /\ expected' = expected /\ seen'.manifest = seen.manifest
        /\ lookup' = lookup /\ kind' = kind
    BY <1>5 DEF EnumerateClasses, ReadServers, inputs
  <2>2. pc' \in {"classes", "enumerate", "report"}
    BY <1>5 DEF EnumerateClasses, ReadServers, Scanning, GoesTo
  <2>3. hit # None => hit.server # <<>> /\ lookup = None /\ kind = Inproc
    BY <1>2, <1>5 DEF HitLeads, EnumerateClasses, ReadServers
  <2>4. HitLeads'
    BY <1>1, <2>1, <2>2, <2>3 DEF HitLeads, Start
  <2>5. pc' # "manifest"
    BY <2>2
  <2> QED
    BY <1>1, <1>2, <2>1, <2>4, <2>5, KeptElsewhere, Zenon
<1>6. CASE Report
  <2>1. /\ cmd' = cmd /\ expected' = expected /\ seen' = seen /\ lookup' = lookup /\ kind' = kind
        /\ server' = server
    BY <1>6 DEF Report, inputs
  <2>2. pc' = "done"
    BY <1>6 DEF Report, ReportLookup, ReportServer, ReportAudit, Prints
  <2>3. hit # None => cmd = "audit"
    BY <1>2 DEF HitKept
  <2>4. hit # None /\ hit.server = <<>> => exit' = 10
    <3>1. SUFFICES ASSUME hit # None, hit.server = <<>> PROVE exit' = 10
      OBVIOUS
    <3>2. lookup = None /\ server = None
      BY <1>2, <3>1 DEF HitLeads
    <3>3. AuditStatus = "BROKEN_REGISTRATION"
      BY <3>2 DEF AuditStatus
    <3>4. ReportAudit
      BY <1>6, <2>3, <3>1 DEF Report, ReportLookup, ReportServer
    <3> QED
      BY <3>3, <3>4 DEF ReportAudit, Prints
  <2>5. HitLeads'
    BY <1>1, <1>2, <2>1, <2>2, <2>4 DEF HitLeads, Start
  <2>6. pc' # "manifest" /\ seen'.manifest = seen.manifest
    BY <2>1, <2>2
  <2> QED
    BY <1>1, <1>2, <2>1, <2>5, <2>6, KeptElsewhere, Zenon
<1>7. CASE Done
  <2>1. /\ cmd' = cmd /\ expected' = expected /\ seen' = seen /\ lookup' = lookup /\ kind' = kind
        /\ server' = server /\ pc' = pc /\ exit' = exit /\ pc = "done"
    BY <1>7 DEF Done, vars, inputs, output
  <2>2. HitLeads'
    BY <1>1, <1>2, <2>1 DEF HitLeads
  <2>3. pc' # "manifest" /\ seen'.manifest = seen.manifest
    BY <2>1
  <2> QED
    BY <1>1, <1>2, <2>1, <2>2, <2>3, KeptElsewhere, Zenon
<1> QED
  BY <1>3, <1>4, <1>5, <1>6, <1>7 DEF Elsewhere

LEMMA HitStutters ==
  ASSUME AInv, UNCHANGED auditvars
  PROVE  HitKept' /\ HitLeads'
<1>1. /\ cmd' = cmd /\ expected' = expected /\ seen' = seen /\ lookup' = lookup /\ kind' = kind
      /\ server' = server /\ pc' = pc /\ exit' = exit /\ hit' = hit /\ image' = image
      /\ UNCHANGED files
  BY DEF auditvars, vars, inputs, output, files
<1>2. ManifestHit' = ManifestHit
  BY <1>1, HitStays
<1>3. HitLeads'
  BY <1>1 DEF AInv, HitLeads
<1>4. Pe!MachineType(image') = Pe!MachineType(image)
  BY <1>1, Zenon
<1>5. HitKept'
  BY <1>1, <1>2, <1>4, Zenon DEF AInv, HitKept
<1> QED
  BY <1>3, <1>5

\* An audit takes from the manifest of a target what its author said of the
\* class, for every manifest and every image: the scanner of manifest.rs finds
\* the first declaration that matches and the file around it, the PE reader of
\* pe.rs the manifest that the loader sees, and audit_from_manifest goes by
\* what they find.
THEOREM ManifestHeeded == AuditSpec => []ManifestIsHeeded
<1>1. AuditInit => AInv
  <2>1. AuditInit => Init
    BY DEF AuditInit
  <2> QED
    BY <2>1, InitInvariant, HitInit DEF AInv
<1>2. AInv /\ [AuditNext]_auditvars => AInv'
  <2>1. SUFFICES ASSUME AInv, [AuditNext]_auditvars PROVE AInv'
    OBVIOUS
  <2>2. IInv'
    BY <2>1, AuditStep, StepInvariant DEF AInv
  <2>3. HitKept' /\ HitLeads'
    BY <2>1, HitHeader, HitManifest, HitElsewhere, HitStutters DEF AuditNext
  <2> QED
    BY <2>2, <2>3 DEF AInv
<1>3. AInv => ManifestIsHeeded
  <2>1. SUFFICES ASSUME AInv PROVE ManifestIsHeeded
    OBVIOUS
  <2>2. hit # None => seen.manifest # None
    BY <2>1 DEF AInv, HitKept
  <2>3. hit # None /\ pc = "done" =>
          /\ lookup = None
          /\ hit.server # <<>> => kind = Inproc /\ expected = Pe!MachineType(image)
          /\ hit.server = <<>> => exit = 10
    BY <2>1, <2>2, Zenon DEF AInv, HitKept, HitLeads
  <2>4. seen.manifest # None /\ Pe!IntactResources(image) => HeededHit
    <3>1. SUFFICES ASSUME seen.manifest # None, Pe!IntactResources(image) PROVE HeededHit
      OBVIOUS
    <3>2. image \in Images /\ hit = ManifestHit
      BY <2>1, <3>1, Zenon DEF AInv, HitKept
    <3> QED
      BY <3>1, <3>2, HitIsHeeded, Zenon
  <2> QED
    BY <2>3, <2>4, Zenon DEF ManifestIsHeeded, HeededHit
<1> QED
  BY <1>1, <1>2, <1>3, PTL DEF AuditSpec
=============================================================================
