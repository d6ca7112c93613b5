--------------------------- MODULE PEImageProofs ---------------------------
(***************************************************************************)
(* Theorems about PEImage, for every image a linker writes, all alignments *)
(* and every number of conversions.                                        *)
(***************************************************************************)
EXTENDS PEImage, DataLemmas, SequenceTheorems, TLAPS

(***************************************************************************)
(* Numbers.                                                                *)
(***************************************************************************)

(* Multiples can be added and subtracted.                                  *)
LEMMA MultiplesAdd ==
  ASSUME NEW m \in Nat, NEW n \in Nat, NEW a \in Nat \ {0}, m % a = 0, n % a = 0
  PROVE  (m + n) % a = 0 /\ (m <= n => (n - m) % a = 0)
<1>1. PICK p \in Nat : m = p * a
  BY Multiple
<1>2. PICK q \in Nat : n = q * a
  BY Multiple
<1>3. (m + n) % a = 0
  <2>1. m + n = (p + q) * a /\ p + q \in Nat
    BY <1>1, <1>2
  <2>2. ((p + q) * a) % a = 0
    BY <2>1, NoRemainder, Zenon
  <2> QED
    BY <2>1, <2>2
<1>4. ASSUME m <= n PROVE (n - m) % a = 0
  <2>1. p <= q
    <3> SUFFICES ASSUME p >= q + 1 PROVE FALSE
      OBVIOUS
    <3>1. p * a >= (q + 1) * a /\ (q + 1) * a = q * a + a
      OBVIOUS
    <3> QED
      BY <1>1, <1>2, <1>4, <3>1
  <2>2. n - m = (q - p) * a /\ q - p \in Nat
    BY <1>1, <1>2, <2>1
  <2> QED
    BY <2>2, NoRemainder
<1> QED
  BY <1>3, <1>4

(* AlignUp gives the least multiple that is not below a number.            *)
LEMMA AlignUpFacts ==
  ASSUME NEW n \in Nat, NEW a \in Nat \ {0}
  PROVE  /\ AlignUp(n, a) \in Nat /\ n <= AlignUp(n, a) /\ AlignUp(n, a) % a = 0
         /\ \A m \in Nat : n <= m /\ m % a = 0 => AlignUp(n, a) <= m
<1> DEFINE d == (n + a - 1) \div a
           r == (n + a - 1) % a
<1>1. d \in Nat /\ r \in 0 .. a - 1 /\ n + a - 1 = d * a + r
  BY Z3
<1>2. AlignUp(n, a) = d * a
  BY DEF AlignUp
<1> HIDE DEF d, r
<1>3. d * a \in Nat /\ n <= d * a /\ (d * a) % a = 0
  <2>1. (d * a) % a = 0
    BY <1>1, NoRemainder, Zenon
  <2> QED
    BY <1>1, <2>1
<1>4. ASSUME NEW m \in Nat, n <= m, m % a = 0 PROVE d * a <= m
  <2>1. PICK q \in Nat : m = q * a
    BY <1>4, Multiple
  <2> SUFFICES ASSUME q < d PROVE FALSE
    <3>1. q >= d => q * a >= d * a
      BY <1>1
    <3> QED
      BY <1>1, <2>1, <3>1
  <2>2. q * a <= (d - 1) * a /\ (d - 1) * a = d * a - a
    BY <1>1
  <2> QED
    BY <1>1, <1>4, <2>1, <2>2
<1> QED
  BY <1>2, <1>3, <1>4

(* What is aligned for a section is so for the file and for a directory.   *)
LEMMA Alignments ==
  /\ SectionAlignment \in Nat \ {0}
  /\ FileAlignment \in Nat \ {0} /\ DirAlignment \in Nat \ {0}
  /\ \A n \in Nat : n % SectionAlignment = 0 =>
       n % FileAlignment = 0 /\ n % DirAlignment = 0
<1>1. PICK p \in 1 .. SectionAlignment : SectionAlignment = p * FileAlignment
  BY ParametersAssumption
<1>2. PICK q \in 1 .. SectionAlignment : SectionAlignment = q * DirAlignment
  BY ParametersAssumption
<1>3. /\ FileAlignment \in Nat \ {0} /\ DirAlignment \in Nat \ {0}
      /\ p \in Nat \ {0} /\ q \in Nat \ {0}
  BY ParametersAssumption
<1>4. SectionAlignment \in Nat \ {0}
  BY <1>1, <1>3
<1>5. ASSUME NEW n \in Nat, n % SectionAlignment = 0
      PROVE  n % FileAlignment = 0 /\ n % DirAlignment = 0
  <2>1. PICK k \in Nat : n = k * SectionAlignment
    BY <1>4, <1>5, Multiple
  <2>2. n = (k * p) * FileAlignment /\ k * p \in Nat
    BY <1>1, <1>3, <2>1
  <2>3. n = (k * q) * DirAlignment /\ k * q \in Nat
    BY <1>2, <1>3, <2>1
  <2> QED
    BY <1>3, <2>2, <2>3, NoRemainder
<1> QED
  BY <1>3, <1>4, <1>5

-----------------------------------------------------------------------------
(***************************************************************************)
(* The inductive invariant.  The image is always one a linker might have   *)
(* written: that is what makes it safe to cut off the file at the first    *)
(* section that is dropped, and to find a section by its address.          *)
(***************************************************************************)

Whole == Layout(file, sec, sizeOfImage, symtab, original.symbols)

(* A directory in the file is one of those that were written, and one that *)
(* loadExe found is of CodeView.                                           *)
DirectoriesKnown ==
  /\ \A k \in DOMAIN file : file[k][1] = "dir" => file[k][2] \in DOMAIN entries
  /\ dbgDir # 0 => entries[dbgDir].type = "codeview"

OneDebugSection ==
  Converted => /\ sec[nsec].name = ".debug"
               /\ \A s \in 1 .. nsec - 1 : sec[s].name # ".debug"

SymbolsKept ==
  symtab # 0 =>
    /\ symtab = original.symtab
    /\ \A k \in symtab + 1 .. symtab + original.symbols : file[k] = original.file[k]

SectionKept(s) ==
  /\ s \in DOMAIN sec /\ sec[s] = original.sec[s]
  /\ Contents(file, sec[s]) = Contents(original.file, original.sec[s])
SectionsKept ==
  \A s \in DOMAIN original.sec : original.sec[s].name \in Lasting => SectionKept(s)

IInv ==
  /\ TypeOK /\ Whole /\ DirectoriesKnown /\ OneDebugSection
  /\ SymbolsKept /\ SectionsKept

(* RVA gives an offset that lies in the file.                              *)
LEMMA RVAFacts ==
  ASSUME TypeOK, NEW rva \in Nat, NEW len \in Nat, RVA(rva, len) # -1
  PROVE  /\ RVA(rva, len) \in Nat
         /\ RVA(rva, len) + len <= Len(file)
<1> DEFINE H == Holding(rva, len)
           s == CHOOSE s \in H : \A t \in H : s <= t
           off == sec[s].raw + rva - sec[s].va
<1>1. H # {} /\ off + len <= Len(file) /\ RVA(rva, len) = off
  BY DEF RVA
<1>2. H \in SUBSET Nat
  BY DEF Holding, TypeOK
<1>3. s \in H
  BY <1>1, <1>2, NatLeast, Zenon
<1> HIDE DEF s
<1>4. sec[s] \in Section /\ sec[s].va <= rva
  BY <1>3 DEF Holding, TypeOK
<1>5. off \in Nat
  BY <1>4 DEF Section
<1> QED
  BY <1>1, <1>5
-----------------------------------------------------------------------------
LEMMA InitIInv == Init => IInv
<1> SUFFICES ASSUME Init PROVE IInv
  OBVIOUS
<1>1. LinkerMade(original)
  BY ImagesAssumption DEF Init
<1>2. TypeOK
  BY <1>1 DEF Init, LinkerMade, TypeOK, Conversions, Layout
<1>3. Whole
  BY <1>1, Zenon DEF Init, LinkerMade, Whole
<1>4. DirectoriesKnown
  BY <1>1 DEF Init, LinkerMade, DirectoriesKnown
<1>5. OneDebugSection
  BY DEF Init, OneDebugSection, Converted, Conversions
<1>6. SymbolsKept /\ SectionsKept
  BY DEF Init, SymbolsKept, SectionsKept, SectionKept
<1> QED
  BY <1>2, <1>3, <1>4, <1>5, <1>6 DEF IInv

(* What is loaded or saved is as it was.                                   *)
LEMMA SameImage ==
  ASSUME IInv, UNCHANGED <<file, sec, sizeOfImage, symtab, original, given>>
  PROVE  Whole' /\ OneDebugSection' /\ SymbolsKept' /\ SectionsKept'
<1>1. Whole'
  BY DEF IInv, Whole
<1>2. OneDebugSection'
  BY DEF IInv, OneDebugSection, Converted, Conversions, nsec
<1>3. SymbolsKept'
  BY DEF IInv, SymbolsKept
<1>4. SectionsKept'
  BY DEF IInv, SectionsKept, SectionKept, Contents
<1> QED
  BY <1>1, <1>2, <1>3, <1>4

LEMMA LoadStep == IInv /\ LoadExe => IInv'
<1> SUFFICES ASSUME IInv, LoadExe PROVE IInv'
  OBVIOUS
<1> DEFINE first == CHOOSE i \in CodeViewEntries : \A j \in CodeViewEntries : i <= j
<1>1. FindsCodeView => /\ EntryAt(first) \in DOMAIN entries
                       /\ entries[EntryAt(first)].type = "codeview"
  <2> SUFFICES ASSUME FindsCodeView
               PROVE  /\ EntryAt(first) \in DOMAIN entries
                      /\ entries[EntryAt(first)].type = "codeview"
    OBVIOUS
  <2>1. CodeViewEntries # {} /\ CodeViewEntries \in SUBSET Nat
    <3>1. CodeViewEntries # {}
      BY Zenon DEF FindsCodeView
    <3>2. CodeViewEntries \in SUBSET Nat
      <4> DEFINE P(i) == EntryAt(i) # 0 /\ entries[EntryAt(i)].type = "codeview"
                 top == dir.size \div DirSize - 1
      <4>1. CodeViewEntries = {i \in 0 .. top : P(i)}
        BY Zenon DEF CodeViewEntries
      <4> HIDE DEF P
      <4>2. \A i \in 0 .. top : i \in Nat
        OBVIOUS
      <4> QED
        BY <4>1, <4>2, Zenon
    <3> QED
      BY <3>1, <3>2
  <2>2. first \in CodeViewEntries
    BY <2>1, NatLeast, Zenon
  <2> HIDE DEF first
  <2>3. EntryAt(first) # 0 /\ entries[EntryAt(first)].type = "codeview" /\ first \in Nat
    BY <2>2 DEF CodeViewEntries
  <2>4. EntryAt(first) \in DOMAIN entries
    <3> DEFINE off == RVA(dir.rva + first * DirSize, DirSize)
    <3>1. off # -1 /\ file[off + 1][1] = "dir" /\ EntryAt(first) = file[off + 1][2]
      BY <2>3, Zenon DEF EntryAt
    <3>2. off \in Nat /\ off + DirSize <= Len(file)
      <4>1. TypeOK /\ dir.rva \in Nat /\ DirSize \in Nat
        BY ParametersAssumption DEF IInv, TypeOK
      <4>2. first * DirSize \in Nat
        BY <2>3, <4>1
      <4>3. dir.rva + first * DirSize \in Nat
        BY <4>1, <4>2
      <4> QED
        BY <3>1, <4>1, <4>3, RVAFacts, Zenon
    <3>3. off + 1 \in DOMAIN file
      BY <3>2, ParametersAssumption DEF IInv, TypeOK
    <3> QED
      BY <3>1, <3>3 DEF IInv, DirectoriesKnown
  <2> QED
    BY <2>3, <2>4
<1>2. /\ UNCHANGED <<file, sec, sizeOfImage, dir, symtab, entries, original, given>>
      /\ pc' \in {"loaded", "failed"}
      /\ dbgDir' = IF FindsCodeView THEN EntryAt(first) ELSE 0
  BY Zenon DEF LoadExe
<1> HIDE DEF first
<1>3. dbgDir' \in 0 .. Len(entries) /\ (dbgDir' # 0 => entries[dbgDir'].type = "codeview")
  BY <1>1, <1>2 DEF IInv, TypeOK
<1>4. TypeOK'
  BY <1>2, <1>3 DEF IInv, TypeOK, Conversions
<1>5. DirectoriesKnown'
  BY <1>2, <1>3 DEF IInv, DirectoriesKnown
<1>6. Whole' /\ OneDebugSection' /\ SymbolsKept' /\ SectionsKept'
  BY <1>2, SameImage
<1> QED
  BY <1>4, <1>5, <1>6 DEF IInv

LEMMA SaveStep == IInv /\ (Save \/ UNCHANGED vars) => IInv'
<1> SUFFICES ASSUME IInv, Save \/ UNCHANGED vars PROVE IInv'
  OBVIOUS
<1>1. /\ UNCHANGED <<file, sec, sizeOfImage, dir, symtab, entries, dbgDir, original,
                     given>>
      /\ pc' \in {pc, "file", "done"}
  BY DEF Save, vars
<1>2. TypeOK'
  BY <1>1 DEF IInv, TypeOK, Conversions
<1>3. DirectoriesKnown'
  BY <1>1 DEF IInv, DirectoriesKnown
<1>4. Whole' /\ OneDebugSection' /\ SymbolsKept' /\ SectionsKept'
  BY <1>1, SameImage
<1> QED
  BY <1>2, <1>3, <1>4 DEF IInv

-----------------------------------------------------------------------------
(***************************************************************************)
(* replaceDebugSection.                                                    *)
(***************************************************************************)

(* Behind the first section; the sections that are dropped are debug       *)
(* sections, of some length, and of those that stay at most one that is    *)
(* not the last is called .debug.                                          *)
LEMMA NewSectionFacts ==
  ASSUME IInv
  PROVE  /\ nsec \in Nat \ {0} /\ NewSection \in 2 .. nsec + 1
         /\ \A s \in DOMAIN sec : sec[s].name \in Lasting => s < NewSection
         /\ NewSection <= nsec => sec[NewSection].rawsize # 0
<1>1. /\ sec \in Seq(Section) /\ nsec \in Nat \ {0} /\ DOMAIN sec = 1 .. nsec
      /\ sec[1].name = ".text"
      /\ \A s \in DOMAIN sec : sec[s].name \notin Lasting => sec[s].rawsize # 0
  BY DEF IInv, TypeOK, Whole, Layout, nsec
<1>2. CASE sec[nsec].name = ".debug"
  <2>1. NewSection = nsec
    BY <1>2 DEF NewSection
  <2>2. nsec # 1 /\ sec[nsec].name \notin Lasting
    BY <1>1, <1>2 DEF Lasting
  <2> QED
    BY <1>1, <2>1, <2>2
<1>3. CASE sec[nsec].name # ".debug" /\ DwarfTails # {} /\ 1 \notin DwarfTails
  <2> DEFINE first == CHOOSE s \in DwarfTails : \A t \in DwarfTails : s <= t
  <2>1. NewSection = first
    BY <1>3 DEF NewSection
  <2>2. first \in DwarfTails
    <3>1. DwarfTails \in SUBSET Nat
      BY <1>1 DEF DwarfTails
    <3> QED
      BY <1>3, <3>1, NatLeast, Zenon
  <2> HIDE DEF first
  <2>3. first \in 2 .. nsec /\ \A t \in first .. nsec : IsDwarf(t)
    BY <1>1, <1>3, <2>2 DEF DwarfTails
  <2>4. \A t \in first .. nsec : sec[t].name \notin Lasting
    BY <2>3 DEF IsDwarf, NameOf, Lasting
  <2>5. ASSUME NEW s \in DOMAIN sec, sec[s].name \in Lasting PROVE s < first
    BY <1>1, <2>3, <2>4, <2>5
  <2> QED
    BY <1>1, <2>1, <2>3, <2>4, <2>5
<1>4. CASE sec[nsec].name # ".debug" /\ (DwarfTails = {} \/ 1 \in DwarfTails)
  <2>1. NewSection = nsec + 1
    BY <1>4 DEF NewSection
  <2> QED
    BY <1>1, <2>1
<1> QED
  BY <1>2, <1>3, <1>4

(* Everything that stays is in what is kept of the file.                   *)
LEMMA KeptFacts ==
  ASSUME IInv
  PROVE  /\ Kept \in 0 .. Len(file) /\ Fill \in Nat
         /\ \A s \in 1 .. NewSection - 1 :
              sec[s].rawsize # 0 => sec[s].raw + sec[s].rawsize <= Kept
         /\ symtab # 0 /\ SymtabKept => symtab + original.symbols <= Kept
<1>1. /\ nsec \in Nat \ {0} /\ NewSection \in 2 .. nsec + 1
      /\ NewSection <= nsec => sec[NewSection].rawsize # 0
  BY NewSectionFacts
<1>2. /\ sec \in Seq(Section) /\ DOMAIN sec = 1 .. nsec
      /\ Len(file) \in Nat /\ DOMAIN file = 1 .. Len(file)
      /\ symtab \in Nat /\ original.symbols \in Nat
  BY ImagesAssumption DEF IInv, TypeOK, LinkerMade, nsec
<1>3. \A s \in 1 .. nsec : sec[s].raw \in Nat /\ sec[s].rawsize \in Nat
  <2>1. \A s \in 1 .. nsec : sec[s] \in Section
    BY <1>2, ElementOfSeq DEF nsec
  <2> QED
    BY <2>1 DEF Section
<1>4. \A s \in 1 .. nsec : sec[s].rawsize # 0 => sec[s].raw + sec[s].rawsize <= Len(file)
  <2> SUFFICES ASSUME NEW s \in 1 .. nsec, sec[s].rawsize # 0
               PROVE  sec[s].raw + sec[s].rawsize <= Len(file)
    OBVIOUS
  <2>1. InFile(sec[s]) \subseteq DOMAIN file
    BY <1>2 DEF IInv, Whole, Layout
  <2>2. sec[s].raw + sec[s].rawsize \in InFile(sec[s])
    BY <1>3 DEF InFile
  <2> QED
    BY <1>2, <2>1, <2>2
<1>5. \A s, t \in 1 .. nsec : s < t /\ sec[s].rawsize # 0 /\ sec[t].rawsize # 0 =>
        sec[s].raw + sec[s].rawsize <= sec[t].raw
  BY <1>2 DEF IInv, Whole, Layout
<1>6. Kept \in 0 .. Len(file)
  <2>1. CASE NewSection <= nsec
    <3>1. Kept = sec[NewSection].raw
      BY <2>1 DEF Kept
    <3> QED
      BY <1>1, <1>2, <1>3, <1>4, <2>1, <3>1
  <2>2. CASE ~(NewSection <= nsec)
    BY <1>2, <2>2 DEF Kept
  <2> QED
    BY <2>1, <2>2
<1>7. Fill \in Nat
  <2>1. Kept \in Nat /\ FileAlignment \in Nat \ {0}
    BY <1>2, <1>6, ParametersAssumption
  <2>2. AlignUp(Kept, FileAlignment) \in Nat /\ Kept <= AlignUp(Kept, FileAlignment)
    BY <2>1, AlignUpFacts
  <2> QED
    BY <2>1, <2>2 DEF Fill
<1>8. ASSUME NEW s \in 1 .. NewSection - 1, sec[s].rawsize # 0
      PROVE  sec[s].raw + sec[s].rawsize <= Kept
  <2>1. CASE NewSection <= nsec
    <3>1. Kept = sec[NewSection].raw
      BY <2>1 DEF Kept
    <3>2. s \in 1 .. nsec /\ NewSection \in 1 .. nsec /\ s < NewSection
      BY <1>1, <2>1
    <3> QED
      BY <1>1, <1>5, <1>8, <2>1, <3>1, <3>2
  <2>2. CASE ~(NewSection <= nsec)
    <3>1. Kept = Len(file) /\ s \in 1 .. nsec
      BY <1>1, <2>2 DEF Kept
    <3> QED
      BY <1>4, <1>8, <3>1
  <2> QED
    BY <2>1, <2>2
<1>9. ASSUME symtab # 0, SymtabKept PROVE symtab + original.symbols <= Kept
  <2>1. /\ symtab + original.symbols <= Len(file)
        /\ \A s \in 1 .. nsec : sec[s].rawsize # 0 =>
             \/ sec[s].raw + sec[s].rawsize <= symtab
             \/ symtab + original.symbols <= sec[s].raw
    BY <1>2, <1>9 DEF IInv, Whole, Layout
  <2>2. CASE NewSection <= nsec
    <3>1. Kept = sec[NewSection].raw /\ symtab < Kept
      BY <1>9, <2>2 DEF Kept, SymtabKept
    <3> QED
      BY <1>1, <1>2, <1>3, <2>1, <2>2, <3>1
  <2>3. CASE ~(NewSection <= nsec)
    BY <2>1, <2>3 DEF Kept
  <2> QED
    BY <2>2, <2>3
<1> QED
  BY <1>6, <1>7, <1>8, <1>9

(* The data are padded so that a directory behind them is aligned.         *)
LEMMA PaddedFacts ==
  ASSUME NEW len \in DataLengths
  PROVE  /\ len \in Nat \ {0} /\ DirSize \in Nat \ {0}
         /\ Padded(len) \in Nat /\ len <= Padded(len)
         /\ Padded(len) % DirAlignment = 0
<1>1. /\ len \in Nat \ {0} /\ DirSize \in Nat \ {0} /\ DirAlignment \in Nat \ {0}
  BY ParametersAssumption
<1> QED
  BY <1>1, AlignUpFacts DEF Padded

LEMMA BytesFacts ==
  ASSUME NEW what \in {"zero", "RSDS", "any", "dir"}, NEW n \in Nat, NEW len \in Nat
  PROVE  /\ Bytes(what, n, len) \in Seq(Byte) /\ Len(Bytes(what, n, len)) = len
         /\ \A k \in 1 .. len : Bytes(what, n, len)[k] = <<what, n, k>>
<1>1. \A k \in 1 .. len : <<what, n, k>> \in Byte
  BY DEF Byte
<1> QED
  BY <1>1 DEF Bytes

(* Two parts of a file, one behind the other.                              *)
LEMMA Behind ==
  ASSUME NEW f \in Seq(Byte), NEW g \in Seq(Byte)
  PROVE  /\ f \o g \in Seq(Byte) /\ Len(f \o g) = Len(f) + Len(g)
         /\ \A k \in 1 .. Len(f) : (f \o g)[k] = f[k]
         /\ \A k \in 1 .. Len(g) : (f \o g)[Len(f) + k] = g[k]
OBVIOUS

NewFile(len) ==
  SubSeq(file, 1, Kept) \o Bytes("zero", 0, Fill) \o Bytes("RSDS", Conversions + 2, len)
    \o Bytes("any", Conversions + 2, Padded(len) - len)
    \o Bytes("dir", Conversions + 2, DirSize)

LEMMA NewFileFacts ==
  ASSUME IInv, NEW len \in DataLengths
  PROVE  /\ NewFile(len) \in Seq(Byte)
         /\ Len(NewFile(len)) = Kept + Fill + Padded(len) + DirSize
         /\ \A k \in 1 .. Kept : NewFile(len)[k] = file[k]
         /\ \A k \in 1 .. len :
              NewFile(len)[Kept + Fill + k] = <<"RSDS", Conversions + 2, k>>
         /\ \A k \in 1 .. DirSize :
              NewFile(len)[Kept + Fill + Padded(len) + k] = <<"dir", Conversions + 2, k>>
         /\ \A k \in 1 .. Len(NewFile(len)) :
              NewFile(len)[k][1] = "dir" => \/ k <= Kept
                                           \/ NewFile(len)[k][2] = Conversions + 2
<1> DEFINE n  == Conversions + 2
           b1 == SubSeq(file, 1, Kept)
           b2 == Bytes("zero", 0, Fill)
           b3 == Bytes("RSDS", n, len)
           b4 == Bytes("any", n, Padded(len) - len)
           b5 == Bytes("dir", n, DirSize)
           f2 == b1 \o b2
           f3 == f2 \o b3
           f4 == f3 \o b4
           f5 == f4 \o b5
           p  == Padded(len)
<1>1. /\ file \in Seq(Byte) /\ Kept \in 0 .. Len(file) /\ Fill \in Nat /\ n \in Nat
      /\ len \in Nat /\ p \in Nat /\ p - len \in Nat /\ DirSize \in Nat
  BY KeptFacts, PaddedFacts DEF IInv, TypeOK, Conversions
<1>2. /\ b1 \in Seq(Byte) /\ Len(b1) = Kept
      /\ \A k \in 1 .. Kept : b1[k] = file[k]
  BY <1>1
<1>3. /\ b2 \in Seq(Byte) /\ Len(b2) = Fill
      /\ b3 \in Seq(Byte) /\ Len(b3) = len
      /\ b4 \in Seq(Byte) /\ Len(b4) = p - len
      /\ b5 \in Seq(Byte) /\ Len(b5) = DirSize
      /\ \A k \in 1 .. Fill : b2[k] = <<"zero", 0, k>>
      /\ \A k \in 1 .. len : b3[k] = <<"RSDS", n, k>>
      /\ \A k \in 1 .. p - len : b4[k] = <<"any", n, k>>
      /\ \A k \in 1 .. DirSize : b5[k] = <<"dir", n, k>>
  BY <1>1, BytesFacts
<1> HIDE DEF n, b1, b2, b3, b4, b5, p
<1>4. /\ f2 \in Seq(Byte) /\ Len(f2) = Kept + Fill
      /\ \A k \in 1 .. Kept : f2[k] = file[k]
      /\ \A k \in 1 .. Fill : f2[Kept + k] = <<"zero", 0, k>>
  <2>1. /\ f2 \in Seq(Byte) /\ Len(f2) = Len(b1) + Len(b2)
        /\ \A k \in 1 .. Len(b1) : f2[k] = b1[k]
        /\ \A k \in 1 .. Len(b2) : f2[Len(b1) + k] = b2[k]
    BY <1>2, <1>3, Behind, Zenon
  <2> HIDE DEF f2
  <2> QED
    BY <1>1, <1>2, <1>3, <2>1
<1> HIDE DEF f2
<1>5. /\ f3 \in Seq(Byte) /\ Len(f3) = Kept + Fill + len
      /\ \A k \in 1 .. Kept + Fill : f3[k] = f2[k]
      /\ \A k \in 1 .. len : f3[Kept + Fill + k] = <<"RSDS", n, k>>
  <2>1. /\ f3 \in Seq(Byte) /\ Len(f3) = Len(f2) + Len(b3)
        /\ \A k \in 1 .. Len(f2) : f3[k] = f2[k]
        /\ \A k \in 1 .. Len(b3) : f3[Len(f2) + k] = b3[k]
    BY <1>3, <1>4, Behind, Zenon
  <2> HIDE DEF f3
  <2> QED
    BY <1>1, <1>3, <1>4, <2>1
<1> HIDE DEF f3
<1>6. /\ f4 \in Seq(Byte) /\ Len(f4) = Kept + Fill + p
      /\ \A k \in 1 .. Kept + Fill + len : f4[k] = f3[k]
      /\ \A k \in 1 .. p - len : f4[Kept + Fill + len + k] = <<"any", n, k>>
  <2>1. /\ f4 \in Seq(Byte) /\ Len(f4) = Len(f3) + Len(b4)
        /\ \A k \in 1 .. Len(f3) : f4[k] = f3[k]
        /\ \A k \in 1 .. Len(b4) : f4[Len(f3) + k] = b4[k]
    BY <1>3, <1>5, Behind, Zenon
  <2> HIDE DEF f4
  <2>2. Len(f3) = Kept + Fill + len /\ Len(b4) = p - len
    BY <1>3, <1>5
  <2>3. Len(f3) + Len(b4) = Kept + Fill + p
    BY <1>1, <2>2
  <2>4. \A k \in 1 .. p - len : f4[Kept + Fill + len + k] = <<"any", n, k>>
    BY <1>3, <2>1, <2>2
  <2> QED
    BY <2>1, <2>2, <2>3, <2>4
<1> HIDE DEF f4
<1>7. /\ f5 \in Seq(Byte) /\ Len(f5) = Kept + Fill + p + DirSize
      /\ \A k \in 1 .. Kept + Fill + p : f5[k] = f4[k]
      /\ \A k \in 1 .. DirSize : f5[Kept + Fill + p + k] = <<"dir", n, k>>
  <2>1. /\ f5 \in Seq(Byte) /\ Len(f5) = Len(f4) + Len(b5)
        /\ \A k \in 1 .. Len(f4) : f5[k] = f4[k]
        /\ \A k \in 1 .. Len(b5) : f5[Len(f4) + k] = b5[k]
    BY <1>3, <1>6, Behind, Zenon
  <2> HIDE DEF f5
  <2> QED
    BY <1>1, <1>3, <1>6, <2>1
<1> HIDE DEF f5
<1>8. \A k \in 1 .. Kept : f5[k] = file[k]
  <2> TAKE k \in 1 .. Kept
  <2>1. /\ k \in 1 .. Kept + Fill /\ k \in 1 .. Kept + Fill + len
        /\ k \in 1 .. Kept + Fill + p
    BY <1>1
  <2> QED
    BY <1>4, <1>5, <1>6, <1>7, <2>1
<1>9. \A k \in 1 .. len : f5[Kept + Fill + k] = <<"RSDS", n, k>>
  <2> TAKE k \in 1 .. len
  <2>1. Kept + Fill + k \in 1 .. Kept + Fill + len /\ Kept + Fill + k \in 1 .. Kept + Fill + p
    BY <1>1
  <2> QED
    BY <1>5, <1>6, <1>7, <2>1
<1>10. ASSUME NEW k \in 1 .. Len(f5), f5[k][1] = "dir" PROVE k <= Kept \/ f5[k][2] = n
  <2>1. CASE k \in Kept + 1 .. Kept + Fill
    <3>1. f5[k] = <<"zero", 0, k - Kept>>
      <4>1. k - Kept \in 1 .. Fill /\ Kept + (k - Kept) = k
        BY <1>1, <2>1
      <4>2. f5[k] = f2[k]
        BY <1>1, <1>5, <1>6, <1>7, <2>1
      <4> QED
        BY <1>4, <4>1, <4>2
    <3> QED
      BY <1>10, <3>1
  <2>2. CASE k \in Kept + Fill + 1 .. Kept + Fill + len
    <3>1. k - (Kept + Fill) \in 1 .. len /\ Kept + Fill + (k - (Kept + Fill)) = k
      BY <1>1, <2>2
    <3>2. f5[k] = <<"RSDS", n, k - (Kept + Fill)>>
      BY <1>9, <3>1
    <3> QED
      BY <1>10, <3>2
  <2>3. CASE k \in Kept + Fill + len + 1 .. Kept + Fill + p
    <3>1. /\ k - (Kept + Fill + len) \in 1 .. p - len
          /\ Kept + Fill + len + (k - (Kept + Fill + len)) = k
      BY <1>1, <2>3
    <3>2. f5[k] = <<"any", n, k - (Kept + Fill + len)>>
      BY <1>1, <1>6, <1>7, <2>3, <3>1
    <3> QED
      BY <1>10, <3>2
  <2>4. CASE k \in Kept + Fill + p + 1 .. Kept + Fill + p + DirSize
    <3>1. /\ k - (Kept + Fill + p) \in 1 .. DirSize
          /\ Kept + Fill + p + (k - (Kept + Fill + p)) = k
      BY <1>1, <2>4
    <3>2. f5[k] = <<"dir", n, k - (Kept + Fill + p)>>
      BY <1>7, <3>1
    <3> QED
      BY <3>2
  <2> QED
    BY <1>1, <1>7, <2>1, <2>2, <2>3, <2>4
<1>11. NewFile(len) = f5
  BY DEF NewFile, f5, f4, f3, f2, b1, b2, b3, b4, b5, n
<1> QED
  BY <1>7, <1>8, <1>9, <1>10, <1>11 DEF n, p

(* The address behind what stays: neither the memory of a section nor what *)
(* the file has for it reaches further, as each is within the next         *)
(* multiple of the alignment.                                              *)
LEMMA AddressFacts ==
  ASSUME IInv
  PROVE  /\ LastAddress \in Nat /\ LastAddress % SectionAlignment = 0
         /\ \A s \in 1 .. NewSection - 1 :
              /\ sec[s].va + sec[s].vsize <= LastAddress
              /\ sec[s].va + sec[s].rawsize <= LastAddress
<1> DEFINE l == NewSection - 1
           a == SectionAlignment
<1>1. /\ nsec \in Nat \ {0} /\ NewSection \in 2 .. nsec + 1 /\ l \in 1 .. nsec
      /\ a \in Nat \ {0}
  BY NewSectionFacts, Alignments
<1>2. sec \in Seq(Section) /\ DOMAIN sec = 1 .. nsec
  BY DEF IInv, TypeOK, nsec
<1>3. \A s \in 1 .. nsec : /\ sec[s].va \in Nat /\ sec[s].vsize \in Nat
                           /\ sec[s].rawsize \in Nat
  <2>1. \A s \in 1 .. nsec : sec[s] \in Section
    BY <1>2, ElementOfSeq DEF nsec
  <2> QED
    BY <2>1 DEF Section
<1>4. /\ \A s \in 1 .. nsec : /\ sec[s].va % a = 0
                             /\ sec[s].rawsize <= AlignUp(sec[s].vsize, a)
      /\ \A s, t \in 1 .. nsec : s < t => sec[s].va + sec[s].vsize <= sec[t].va
  BY <1>2 DEF IInv, Whole, Layout
<1>5. /\ LastAddress = AlignUp(sec[l].va + sec[l].vsize, a)
      /\ sec[l].va + sec[l].vsize \in Nat
  BY <1>1, <1>3 DEF LastAddress
<1> HIDE DEF l, a
<1>6. /\ LastAddress \in Nat /\ LastAddress % a = 0
      /\ sec[l].va + sec[l].vsize <= LastAddress
  BY <1>1, <1>5, AlignUpFacts
<1>7. ASSUME NEW s \in 1 .. l PROVE sec[s].va + sec[s].vsize <= LastAddress
  <2>1. CASE s = l
    BY <1>6, <2>1
  <2>2. CASE s < l
    <3>1. s \in 1 .. nsec /\ sec[s].va + sec[s].vsize <= sec[l].va
      BY <1>1, <1>4, <2>2
    <3> QED
      BY <1>1, <1>3, <1>6, <3>1
  <2> QED
    BY <1>1, <2>1, <2>2
<1>8. ASSUME NEW s \in 1 .. l PROVE sec[s].va + sec[s].rawsize <= LastAddress
  <2>1. /\ s \in 1 .. nsec /\ sec[s].va \in Nat /\ sec[s].vsize \in Nat
        /\ sec[s].rawsize \in Nat /\ sec[s].va % a = 0
        /\ sec[s].rawsize <= AlignUp(sec[s].vsize, a)
    BY <1>1, <1>3, <1>4
  <2> DEFINE gap == LastAddress - sec[s].va
  <2>2. gap \in Nat /\ sec[s].vsize <= gap
    BY <1>6, <1>7, <2>1
  <2>3. gap % a = 0
    <3>1. sec[s].va <= LastAddress
      BY <1>6, <1>7, <2>1
    <3> QED
      BY <1>1, <1>6, <2>1, <3>1, MultiplesAdd
  <2> HIDE DEF gap
  <2>4. AlignUp(sec[s].vsize, a) \in Nat /\ AlignUp(sec[s].vsize, a) <= gap
    BY <1>1, <2>1, <2>2, <2>3, AlignUpFacts
  <2> QED
    BY <1>6, <2>1, <2>2, <2>4 DEF gap
<1> QED
  BY <1>6, <1>7, <1>8 DEF l, a

NewHeaders(len) ==
  [s \in 1 .. NewSection - 1 |-> Renamed(sec[s])] \o <<DebugSection(len)>>
NewSize(len) == LastAddress + AlignUp(Padded(len) + DirSize, SectionAlignment)

LEMMA DebugSectionFacts ==
  ASSUME IInv, NEW len \in DataLengths
  PROVE  LET new == DebugSection(len)
         IN  /\ new \in Section /\ new.name = ".debug" /\ new.va = LastAddress
             /\ new.raw = Kept + Fill /\ new.rawsize = Padded(len) + DirSize
             /\ new.rawsize # 0 /\ new.rawsize <= new.vsize
             /\ new.vsize <= AlignUp(new.vsize, SectionAlignment)
             /\ NewSize(len) \in Nat /\ new.va + new.vsize <= NewSize(len)
<1> DEFINE n == Padded(len) + DirSize
<1>1. n \in Nat \ {0} /\ LastAddress \in Nat /\ Kept + Fill \in Nat
  BY PaddedFacts, AddressFacts, KeptFacts, SMTT(30) DEF IInv, TypeOK
<1>2. /\ FileAlignment \in Nat \ {0} /\ SectionAlignment \in Nat \ {0}
      /\ \A m \in Nat : m % SectionAlignment = 0 => m % FileAlignment = 0
  BY Alignments
<1> HIDE DEF n
<1>3. /\ AlignUp(n, FileAlignment) \in Nat /\ n <= AlignUp(n, FileAlignment)
      /\ AlignUp(n, SectionAlignment) \in Nat
      /\ AlignUp(n, FileAlignment) <= AlignUp(n, SectionAlignment)
  <2>1. /\ AlignUp(n, SectionAlignment) \in Nat /\ n <= AlignUp(n, SectionAlignment)
        /\ AlignUp(n, SectionAlignment) % SectionAlignment = 0
    BY <1>1, <1>2, AlignUpFacts
  <2>2. AlignUp(n, SectionAlignment) % FileAlignment = 0
    BY <1>2, <2>1
  <2> QED
    BY <1>1, <1>2, <2>1, <2>2, AlignUpFacts
<1>4. /\ DebugSection(len) =
           [name |-> ".debug", va |-> LastAddress, vsize |-> AlignUp(n, FileAlignment),
            raw |-> Kept + Fill, rawsize |-> n]
      /\ NewSize(len) = LastAddress + AlignUp(n, SectionAlignment)
  BY DEF DebugSection, NewSize, n
<1>5. AlignUp(n, FileAlignment) <= AlignUp(AlignUp(n, FileAlignment), SectionAlignment)
  BY <1>2, <1>3, AlignUpFacts
<1>6. DebugSection(len) \in Section
  BY <1>1, <1>3, <1>4 DEF Section, Names
<1> QED
  BY <1>1, <1>3, <1>4, <1>5, <1>6 DEF n

LEMMA NewHeadersFacts ==
  ASSUME IInv, NEW len \in DataLengths
  PROVE  /\ NewHeaders(len) \in Seq(Section) /\ Len(NewHeaders(len)) = NewSection
         /\ NewHeaders(len)[NewSection] = DebugSection(len)
         /\ \A s \in 1 .. NewSection - 1 :
              /\ NewHeaders(len)[s] = Renamed(sec[s])
              /\ sec[s] \in Section /\ s \in DOMAIN sec
              /\ NewHeaders(len)[s].name # ".debug"
              /\ NewHeaders(len)[s].name \notin Lasting => sec[s].name \notin Lasting
              /\ NewHeaders(len)[s].va = sec[s].va
              /\ NewHeaders(len)[s].vsize = sec[s].vsize
              /\ NewHeaders(len)[s].raw = sec[s].raw
              /\ NewHeaders(len)[s].rawsize = sec[s].rawsize
<1> DEFINE old == [s \in 1 .. NewSection - 1 |-> Renamed(sec[s])]
<1>1. nsec \in Nat \ {0} /\ NewSection \in 2 .. nsec + 1
  BY NewSectionFacts
<1>2. \A s \in 1 .. nsec : sec[s] \in Section
  BY ElementOfSeq DEF IInv, TypeOK, nsec
<1>3. \A s \in 1 .. NewSection - 1 :
         /\ Renamed(sec[s]) \in Section /\ Renamed(sec[s]).name # ".debug"
         /\ Renamed(sec[s]).name \notin Lasting => sec[s].name \notin Lasting
         /\ Renamed(sec[s]).va = sec[s].va /\ Renamed(sec[s]).vsize = sec[s].vsize
         /\ Renamed(sec[s]).raw = sec[s].raw /\ Renamed(sec[s]).rawsize = sec[s].rawsize
  BY <1>1, <1>2 DEF Renamed, Section, Names, Lasting
<1>4. old \in Seq(Section) /\ Len(old) = NewSection - 1
  BY <1>1, <1>3
<1>5. DebugSection(len) \in Section
  BY DebugSectionFacts
<1>6. \A s \in 1 .. NewSection - 1 : old[s] = Renamed(sec[s])
  OBVIOUS
<1> HIDE DEF old
<1>7. /\ old \o <<DebugSection(len)>> \in Seq(Section)
      /\ Len(old \o <<DebugSection(len)>>) = NewSection
      /\ (old \o <<DebugSection(len)>>)[NewSection] = DebugSection(len)
      /\ \A s \in 1 .. NewSection - 1 : (old \o <<DebugSection(len)>>)[s] = old[s]
  BY <1>1, <1>4, <1>5
<1>8. NewHeaders(len) = old \o <<DebugSection(len)>>
  BY DEF NewHeaders, old
<1>9. DOMAIN sec = 1 .. nsec
  BY DEF IInv, TypeOK, nsec
<1> QED
  BY <1>1, <1>2, <1>3, <1>6, <1>7, <1>8, <1>9

NewTable == IF SymtabKept THEN symtab ELSE 0

(* The image that is left is again one a linker might have written.        *)
LEMMA WholeAgain ==
  ASSUME IInv, NEW len \in DataLengths
  PROVE  Layout(NewFile(len), NewHeaders(len), NewSize(len), NewTable, original.symbols)
<1> DEFINE f == NewFile(len)
           h == NewHeaders(len)
           n == NewSection
           size == NewSize(len)
           new == DebugSection(len)
           a == SectionAlignment
           end == Kept + Fill
<1>1. /\ f \in Seq(Byte) /\ Len(f) = end + new.rawsize
      /\ Kept \in 0 .. Len(file) /\ Len(file) \in Nat /\ Fill \in Nat
  BY NewFileFacts, KeptFacts, DebugSectionFacts, PaddedFacts, SMTT(30) DEF IInv, TypeOK
<1>2. /\ h \in Seq(Section) /\ Len(h) = n /\ n \in 2 .. nsec + 1 /\ nsec \in Nat
      /\ h[n] = new
      /\ \A s \in 1 .. n - 1 :
           /\ sec[s] \in Section /\ s \in DOMAIN sec
           /\ h[s].name \notin Lasting => sec[s].name \notin Lasting
           /\ h[s].va = sec[s].va /\ h[s].vsize = sec[s].vsize
           /\ h[s].raw = sec[s].raw /\ h[s].rawsize = sec[s].rawsize
  BY NewHeadersFacts, NewSectionFacts
<1>3. /\ new.va = LastAddress /\ new.raw = end /\ new.rawsize # 0
      /\ new.vsize \in Nat /\ new.rawsize \in Nat
      /\ new.rawsize <= AlignUp(new.vsize, a) /\ AlignUp(new.vsize, a) \in Nat
      /\ size \in Nat /\ LastAddress + new.vsize <= size
      /\ LastAddress \in Nat /\ LastAddress % a = 0
  <2>1. /\ new \in Section /\ new.va = LastAddress /\ new.raw = end /\ new.rawsize # 0
        /\ new.rawsize <= new.vsize /\ new.vsize <= AlignUp(new.vsize, a)
        /\ size \in Nat /\ new.va + new.vsize <= size
    BY DebugSectionFacts, Zenon
  <2>2. LastAddress \in Nat /\ LastAddress % a = 0
    BY AddressFacts
  <2> HIDE DEF new, size, a, end
  <2>3. new.vsize \in Nat /\ new.rawsize \in Nat
    BY <2>1 DEF Section
  <2>4. AlignUp(new.vsize, a) \in Nat
    BY <2>3, Alignments, AlignUpFacts DEF a
  <2> QED
    BY <2>1, <2>2, <2>3, <2>4
<1>4. \A s \in 1 .. n - 1 :
        /\ h[s].va + h[s].vsize <= LastAddress
        /\ h[s].rawsize # 0 => h[s].raw + h[s].rawsize <= Kept
  BY <1>2, AddressFacts, KeptFacts
<1>5. \A s \in 1 .. n - 1 :
        /\ h[s].va \in Nat /\ h[s].vsize \in Nat
        /\ h[s].raw \in Nat /\ h[s].rawsize \in Nat
  BY <1>2 DEF Section
<1> HIDE DEF f, h, n, size, new, end
<1>6. DOMAIN h = 1 .. n /\ DOMAIN f = 1 .. Len(f)
  BY <1>1, <1>2
<1>7. Len(h) > 0 /\ h[1].name = ".text"
  <2>1. h[1] = Renamed(sec[1]) /\ sec[1].name = ".text"
    <3>1. 1 \in 1 .. NewSection - 1
      BY NewSectionFacts
    <3> QED
      BY <3>1, NewHeadersFacts DEF IInv, Whole, Layout, h
  <2> QED
    BY <1>2, <2>1 DEF Renamed
<1>8. ASSUME NEW s \in DOMAIN h
      PROVE  /\ h[s].va % a = 0 /\ h[s].va + h[s].vsize <= size
             /\ h[s].rawsize <= AlignUp(h[s].vsize, a)
             /\ InFile(h[s]) \subseteq DOMAIN f
             /\ h[s].name \notin Lasting => h[s].rawsize # 0
  <2>1. CASE s = n
    <3>1. InFile(h[s]) \subseteq DOMAIN f
      BY <1>1, <1>2, <1>3, <1>6, <2>1 DEF InFile, end
    <3> QED
      BY <1>2, <1>3, <2>1, <3>1
  <2>2. CASE s \in 1 .. n - 1
    <3>1. /\ sec[s].va % a = 0 /\ sec[s].rawsize <= AlignUp(sec[s].vsize, a)
          /\ sec[s].name \notin Lasting => sec[s].rawsize # 0
      BY <1>2, <2>2 DEF IInv, Whole, Layout
    <3>2. h[s].va + h[s].vsize <= size
      BY <1>3, <1>4, <1>5, <2>2
    <3>3. InFile(h[s]) \subseteq DOMAIN f
      <4>1. CASE h[s].rawsize = 0
        BY <1>5, <2>2, <4>1 DEF InFile
      <4>2. CASE h[s].rawsize # 0
        <5>1. /\ h[s].raw + h[s].rawsize <= Len(f)
              /\ h[s].raw \in Nat /\ h[s].rawsize \in Nat /\ Len(f) \in Nat
          BY <1>1, <1>3, <1>4, <1>5, <2>2, <4>2, SMTT(30) DEF end
        <5> QED
          BY <1>6, <5>1 DEF InFile
      <4> QED
        BY <4>1, <4>2
    <3> QED
      BY <1>2, <2>2, <3>1, <3>2, <3>3
  <2> QED
    BY <1>2, <1>6, <2>1, <2>2
<1>9. ASSUME NEW s \in DOMAIN h, NEW t \in DOMAIN h, s < t
      PROVE  /\ h[s].va + h[s].vsize <= h[t].va
             /\ h[s].rawsize # 0 /\ h[t].rawsize # 0 =>
                  h[s].raw + h[s].rawsize <= h[t].raw
  <2>1. s \in 1 .. n - 1
    BY <1>2, <1>6, <1>9
  <2>2. CASE t = n
    <3>1. h[t].va = LastAddress /\ h[t].raw = Kept + Fill
      BY <1>2, <1>3, <2>2 DEF end
    <3> QED
      BY <1>1, <1>4, <1>5, <2>1, <3>1
  <2>3. CASE t \in 1 .. n - 1
    <3>1. /\ sec[s].va + sec[s].vsize <= sec[t].va
          /\ sec[s].rawsize # 0 /\ sec[t].rawsize # 0 =>
               sec[s].raw + sec[s].rawsize <= sec[t].raw
      BY <1>2, <1>9, <2>1, <2>3 DEF IInv, Whole, Layout
    <3> QED
      BY <1>2, <2>1, <2>3, <3>1
  <2> QED
    BY <1>2, <1>6, <2>2, <2>3
<1>10. ASSUME NewTable # 0
       PROVE  /\ NewTable + original.symbols <= Len(f)
              /\ \A s \in DOMAIN h : h[s].rawsize # 0 =>
                   \/ h[s].raw + h[s].rawsize <= NewTable
                   \/ NewTable + original.symbols <= h[s].raw
  <2>1. symtab # 0 /\ SymtabKept /\ NewTable = symtab
    BY <1>10 DEF NewTable
  <2>2. symtab + original.symbols <= Kept /\ symtab \in Nat /\ original.symbols \in Nat
    BY <2>1, KeptFacts, ImagesAssumption DEF IInv, TypeOK, LinkerMade
  <2>3. symtab + original.symbols <= end
    BY <1>1, <2>2 DEF end
  <2>4. symtab + original.symbols <= Len(f)
    BY <1>1, <1>3, <2>2 DEF end
  <2>5. ASSUME NEW s \in DOMAIN h, h[s].rawsize # 0
        PROVE  \/ h[s].raw + h[s].rawsize <= symtab
               \/ symtab + original.symbols <= h[s].raw
    <3>1. CASE s = n
      BY <1>2, <1>3, <2>3, <3>1
    <3>2. CASE s \in 1 .. n - 1
      <4>1. \/ sec[s].raw + sec[s].rawsize <= symtab
            \/ symtab + original.symbols <= sec[s].raw
        BY <1>2, <2>1, <2>5, <3>2 DEF IInv, Whole, Layout
      <4> QED
        BY <1>2, <3>2, <4>1
    <3> QED
      BY <1>2, <1>6, <3>1, <3>2
  <2> QED
    BY <2>1, <2>4, <2>5
<1> QED
  BY <1>7, <1>8, <1>9, <1>10 DEF Layout, f, h, size

(* What the action assigns, by the names above.                            *)
LEMMA Replaced ==
  ASSUME ReplaceDebugSection
  PROVE  /\ pc' = "replaced" /\ dbgDir' = dbgDir /\ original' = original
         /\ \E len \in DataLengths :
              /\ sec' = NewHeaders(len) /\ file' = NewFile(len)
              /\ sizeOfImage' = NewSize(len) /\ symtab' = NewTable
              /\ dir' = [rva |-> LastAddress + Padded(len), size |-> DirSize]
              /\ entries' = Append(entries, DebugDirectory(len))
              /\ given' = Append(given, len)
BY DEF ReplaceDebugSection, NewHeaders, NewFile, NewSize, NewTable

LEMMA DebugDirectoryFacts ==
  ASSUME IInv, NEW len \in DataLengths
  PROVE  /\ DebugDirectory(len) \in Entry /\ DebugDirectory(len).type = "codeview"
         /\ DebugDirectory(len).ptr = Kept + Fill
         /\ DebugDirectory(len).addr = LastAddress
         /\ DebugDirectory(len).size = Padded(len)
<1>1. /\ Kept + Fill \in Nat /\ LastAddress \in Nat /\ Padded(len) \in Nat
      /\ DirSize \in Nat
  BY KeptFacts, AddressFacts, PaddedFacts DEF IInv, TypeOK
<1>2. /\ DebugSection(len).raw = Kept + Fill /\ DebugSection(len).va = LastAddress
      /\ DebugSection(len).rawsize = Padded(len) + DirSize
  BY DebugSectionFacts, Zenon
<1>3. (IF dbgDir # 0 THEN entries[dbgDir].type ELSE "codeview") = "codeview"
  BY DEF IInv, DirectoriesKnown
<1> DEFINE new == DebugSection(len)
           type == IF dbgDir # 0 THEN entries[dbgDir].type ELSE "codeview"
<1>4. DebugDirectory(len) = [type |-> type, ptr |-> new.raw, addr |-> new.va,
                             size |-> new.rawsize - DirSize]
  BY DEF DebugDirectory
<1>5. new.rawsize - DirSize = Padded(len)
  BY <1>1, <1>2
<1> HIDE DEF new, type
<1>6. DebugDirectory(len) = [type |-> "codeview", ptr |-> Kept + Fill, addr |-> LastAddress,
                             size |-> Padded(len)]
  BY <1>2, <1>3, <1>4, <1>5, Zenon DEF new, type
<1> QED
  BY <1>1, <1>6 DEF Entry

LEMMA ReplaceStep == IInv /\ ReplaceDebugSection => IInv'
<1> SUFFICES ASSUME IInv, ReplaceDebugSection PROVE IInv'
  OBVIOUS
<1>1. PICK len \in DataLengths :
        /\ sec' = NewHeaders(len) /\ file' = NewFile(len)
        /\ sizeOfImage' = NewSize(len) /\ symtab' = NewTable
        /\ dir' = [rva |-> LastAddress + Padded(len), size |-> DirSize]
        /\ entries' = Append(entries, DebugDirectory(len))
        /\ given' = Append(given, len)
  BY Replaced
<1>2. pc' = "replaced" /\ dbgDir' = dbgDir /\ original' = original
  BY Replaced
<1>3. /\ entries' \in Seq(Entry) /\ given' \in Seq(DataLengths)
      /\ Len(entries') = Len(entries) + 1 /\ Len(given') = Len(given) + 1
      /\ Len(entries) = Len(given) + 1 /\ Len(given) \in Nat
      /\ \A i \in 1 .. Len(entries) : entries'[i] = entries[i]
      /\ DOMAIN entries = 1 .. Len(entries) /\ DOMAIN entries' = 1 .. Len(entries')
  <2>1. /\ entries \in Seq(Entry) /\ given \in Seq(DataLengths)
        /\ Len(entries) = Len(given) + 1 /\ DebugDirectory(len) \in Entry
    BY DebugDirectoryFacts DEF IInv, TypeOK, Conversions
  <2> QED
    BY <1>1, <2>1, AppendProperties
<1>4. /\ file \in Seq(Byte) /\ file' \in Seq(Byte)
      /\ Len(file') = Kept + Fill + Padded(len) + DirSize
      /\ Kept \in 0 .. Len(file) /\ Len(file) \in Nat /\ Fill \in Nat /\ Padded(len) \in Nat
      /\ DirSize \in Nat
      /\ \A k \in 1 .. Kept : file'[k] = file[k]
      /\ \A k \in 1 .. Len(file') :
           file'[k][1] = "dir" => k <= Kept \/ file'[k][2] = Conversions + 2
  <2>1. /\ file' \in Seq(Byte)
        /\ Len(file') = Kept + Fill + Padded(len) + DirSize
        /\ \A k \in 1 .. Kept : file'[k] = file[k]
        /\ \A k \in 1 .. Len(file') :
             file'[k][1] = "dir" => k <= Kept \/ file'[k][2] = Conversions + 2
    BY <1>1, NewFileFacts, Zenon
  <2>2. file \in Seq(Byte) /\ Len(file) \in Nat
    BY DEF IInv, TypeOK
  <2>3. /\ Kept \in 0 .. Len(file) /\ Fill \in Nat /\ Padded(len) \in Nat
        /\ DirSize \in Nat
    BY KeptFacts, PaddedFacts
  <2> QED
    BY <2>1, <2>2, <2>3
<1>5. /\ nsec \in Nat /\ NewSection \in 2 .. nsec + 1
      /\ sec' \in Seq(Section) /\ Len(sec') = NewSection
      /\ sec'[NewSection].name = ".debug"
      /\ \A s \in 1 .. NewSection - 1 : /\ sec'[s].name # ".debug"
                                        /\ sec'[s] = Renamed(sec[s])
  <2>1. DebugSection(len).name = ".debug"
    BY DebugSectionFacts, Zenon
  <2> QED
    BY <1>1, <2>1, NewHeadersFacts, NewSectionFacts
<1>6. TypeOK'
  <2>1. sizeOfImage' \in Nat
    BY <1>1, DebugSectionFacts, Zenon
  <2>2. dir' \in [rva : Nat, size : Nat]
    <3>1. LastAddress \in Nat
      BY AddressFacts
    <3> QED
      BY <1>1, <1>4, <3>1
  <2>3. symtab' \in 0 .. Len(file')
    BY <1>1, <1>4, SMTT(30) DEF NewTable, SymtabKept, IInv, TypeOK
  <2>4. dbgDir' \in 0 .. Len(entries') /\ original' \in Images
    BY <1>2, <1>3 DEF IInv, TypeOK
  <2> QED
    BY <1>2, <1>3, <1>4, <1>5, <2>1, <2>2, <2>3, <2>4 DEF TypeOK, Conversions
<1>7. Whole'
  <2>1. Layout(file', sec', sizeOfImage', symtab', original'.symbols)
    BY <1>1, <1>2, WholeAgain
  <2> QED
    BY <2>1 DEF Whole
<1>8. DirectoriesKnown'
  <2>1. ASSUME NEW k \in 1 .. Len(file'), file'[k][1] = "dir"
        PROVE  file'[k][2] \in DOMAIN entries'
    <3>1. CASE k <= Kept
      <4>1. k \in 1 .. Kept /\ k \in DOMAIN file
        BY <1>4, <3>1
      <4>2. file[k][2] \in DOMAIN entries /\ file'[k] = file[k]
        BY <1>4, <2>1, <4>1 DEF IInv, DirectoriesKnown
      <4> QED
        BY <1>3, <4>2
    <3>2. CASE file'[k][2] = Conversions + 2
      BY <1>3, <3>2 DEF Conversions
    <3> QED
      BY <1>4, <2>1, <3>1, <3>2
  <2>2. dbgDir' # 0 => entries'[dbgDir'].type = "codeview"
    BY <1>2, <1>3 DEF IInv, TypeOK, DirectoriesKnown
  <2> QED
    BY <1>4, <2>1, <2>2 DEF DirectoriesKnown
<1>9. OneDebugSection'
  BY <1>5 DEF OneDebugSection, nsec
<1>10. SymbolsKept'
  <2> SUFFICES ASSUME symtab' # 0
               PROVE  /\ symtab' = original'.symtab
                      /\ \A k \in symtab' + 1 .. symtab' + original'.symbols :
                           file'[k] = original'.file[k]
    BY DEF SymbolsKept
  <2>1. symtab # 0 /\ SymtabKept /\ symtab' = symtab
    BY <1>1 DEF NewTable
  <2>2. symtab + original.symbols <= Kept /\ symtab \in Nat /\ original.symbols \in Nat
    BY <2>1, KeptFacts, ImagesAssumption DEF IInv, TypeOK, LinkerMade
  <2>3. ASSUME NEW k \in symtab + 1 .. symtab + original.symbols
        PROVE  file'[k] = original.file[k]
    <3>1. k \in 1 .. Kept
      BY <1>4, <2>2
    <3> QED
      BY <1>4, <2>1, <3>1 DEF IInv, SymbolsKept
  <2> QED
    BY <1>2, <2>1, <2>3 DEF IInv, SymbolsKept
<1>11. SectionsKept'
  <2> SUFFICES ASSUME NEW s \in DOMAIN original.sec, original.sec[s].name \in Lasting
               PROVE  SectionKept(s)'
    BY <1>2 DEF SectionsKept
  <2>1. /\ s \in DOMAIN sec /\ sec[s] = original.sec[s]
        /\ Contents(file, sec[s]) = Contents(original.file, original.sec[s])
    BY DEF IInv, SectionsKept, SectionKept
  <2>2. s < NewSection /\ s \in 1 .. nsec
    BY <2>1, NewSectionFacts DEF IInv, TypeOK, nsec
  <2>3. s \in 1 .. NewSection - 1 /\ s \in DOMAIN sec'
    BY <1>5, <2>2
  <2>4. sec'[s] = sec[s]
    BY <1>5, <2>1, <2>3 DEF Renamed, Lasting
  <2>5. Contents(file', sec[s]) = Contents(file, sec[s])
    <3>1. sec[s].raw \in Nat /\ sec[s].rawsize \in Nat
      <4>1. sec[s] \in Section
        BY <2>3, NewHeadersFacts
      <4> QED
        BY <4>1 DEF Section
    <3>2. ASSUME NEW k \in 1 .. sec[s].rawsize PROVE file'[sec[s].raw + k] = file[sec[s].raw + k]
      <4>1. sec[s].raw + sec[s].rawsize <= Kept
        BY <2>3, <3>1, <3>2, KeptFacts
      <4>2. Kept \in Nat
        BY <1>4
      <4>3. sec[s].raw + k \in 1 .. Kept
        BY <3>1, <3>2, <4>1, <4>2
      <4> QED
        BY <1>4, <4>3
    <3> QED
      BY <3>2 DEF Contents
  <2> QED
    BY <1>2, <2>1, <2>3, <2>4, <2>5 DEF SectionKept
<1> QED
  BY <1>6, <1>7, <1>8, <1>9, <1>10, <1>11 DEF IInv

LEMMA IInvStep == IInv /\ [Next]_vars => IInv'
BY LoadStep, ReplaceStep, SaveStep DEF Next

LEMMA Invariance == Spec => []IInv
BY InitIInv, IInvStep, PTL DEF Spec

(* Type correctness of the image, its headers and its directories.         *)
THEOREM TypeCorrect == Spec => []TypeOK
<1>1. IInv => TypeOK
  BY DEF IInv
<1> QED
  BY <1>1, Invariance, PTL

LEMMA WholeImage == IInv => ImageWhole
<1> SUFFICES ASSUME IInv, Converted PROVE ImageWhole
  BY DEF ImageWhole
<1>1. sec \in Seq(Section) /\ nsec \in Nat \ {0} /\ DOMAIN sec = 1 .. nsec
  BY DEF IInv, TypeOK, Whole, Layout, nsec
<1>2. \A s \in DOMAIN sec : sec[s].raw \in Nat /\ sec[s].rawsize \in Nat
  <2>1. \A s \in DOMAIN sec : sec[s] \in Section
    BY <1>1
  <2> QED
    BY <2>1 DEF Section
<1>3. ASSUME NEW s \in DOMAIN sec, NEW t \in DOMAIN sec, s < t
      PROVE  /\ sec[s].va + sec[s].vsize <= sec[t].va
             /\ InFile(sec[s]) \cap InFile(sec[t]) = {}
  <2>1. /\ sec[s].va + sec[s].vsize <= sec[t].va
        /\ sec[s].rawsize # 0 /\ sec[t].rawsize # 0 =>
             sec[s].raw + sec[s].rawsize <= sec[t].raw
    BY <1>3 DEF IInv, Whole, Layout
  <2>2. InFile(sec[s]) \cap InFile(sec[t]) = {}
    BY <1>2, <2>1 DEF InFile
  <2> QED
    BY <2>1, <2>2
<1>4. \A s \in DOMAIN sec :
        /\ InFile(sec[s]) \subseteq DOMAIN file
        /\ sec[s].va % SectionAlignment = 0
        /\ sec[s].va + sec[s].vsize <= sizeOfImage
  BY DEF IInv, Whole, Layout
<1>5. Cardinality({s \in DOMAIN sec : sec[s].name = ".debug"}) = 1
  <2>1. {s \in DOMAIN sec : sec[s].name = ".debug"} = {nsec}
    BY <1>1 DEF IInv, OneDebugSection
  <2> QED
    BY <2>1, FS_Singleton
<1>6. \A s \in DOMAIN original.sec :
        original.sec[s].name \in Lasting =>
          /\ s \in DOMAIN sec /\ sec[s] = original.sec[s]
          /\ Contents(file, sec[s]) = Contents(original.file, original.sec[s])
  BY DEF IInv, SectionsKept, SectionKept
<1>7. symtab # 0 =>
        /\ symtab = original.symtab
        /\ \A k \in symtab + 1 .. symtab + original.symbols : file[k] = original.file[k]
  BY DEF IInv, SymbolsKept
<1> QED
  BY <1>3, <1>4, <1>5, <1>6, <1>7, Zenon DEF ImageWhole

(* However often it was converted, and whatever the sections and the       *)
(* alignments: the image is still an image, and nothing but its debug      *)
(* sections has changed (replaceDebugSection).                             *)
THEOREM StaysAnImage == Spec => []ImageWhole
BY WholeImage, Invariance, PTL

-----------------------------------------------------------------------------
(***************************************************************************)
(* The directory.                                                          *)
(***************************************************************************)

(* RVA as a function of a file and its headers.                            *)
Holders(h, rva, len) ==
  {s \in DOMAIN h : h[s].va <= rva /\ rva + len <= h[s].va + h[s].rawsize}
Offset(f, h, rva, len) ==
  IF Holders(h, rva, len) = {} THEN -1
  ELSE LET s   == CHOOSE s \in Holders(h, rva, len) :
                    \A t \in Holders(h, rva, len) : s <= t
           off == h[s].raw + rva - h[s].va
       IN  IF off + len <= Len(f) THEN off ELSE -1

(* Of all sections only the new one holds an address behind the others.    *)
LEMMA OnlyNewHolds ==
  ASSUME IInv, NEW len \in DataLengths,
         NEW off \in Nat, NEW size \in Nat \ {0}, off + size <= Padded(len) + DirSize
  PROVE  Offset(NewFile(len), NewHeaders(len), LastAddress + off, size) = Kept + Fill + off
<1> DEFINE a == LastAddress + off
           new == DebugSection(len)
           h == NewHeaders(len)
           f == NewFile(len)
<1>1. /\ LastAddress \in Nat
      /\ \A s \in 1 .. NewSection - 1 : sec[s].va + sec[s].rawsize <= LastAddress
  BY AddressFacts
<1>2. /\ h \in Seq(Section) /\ DOMAIN h = 1 .. NewSection /\ NewSection \in Nat \ {0}
      /\ h[NewSection] = new
      /\ \A s \in 1 .. NewSection - 1 :
           /\ sec[s] \in Section
           /\ h[s].va = sec[s].va /\ h[s].rawsize = sec[s].rawsize
  <2>1. NewSection \in Nat \ {0}
    BY NewSectionFacts
  <2> QED
    BY <2>1, NewHeadersFacts
<1>3. new.va = LastAddress /\ new.raw = Kept + Fill /\ new.rawsize = Padded(len) + DirSize
  BY DebugSectionFacts, Zenon
<1>4. /\ Len(f) = Kept + Fill + Padded(len) + DirSize
      /\ Kept \in Nat /\ Fill \in Nat /\ Padded(len) \in Nat /\ DirSize \in Nat
  <2>1. Kept \in Nat /\ Fill \in Nat
    BY KeptFacts DEF IInv, TypeOK
  <2> QED
    BY <2>1, NewFileFacts, PaddedFacts
<1> HIDE DEF new, h, f, a
<1> DEFINE H == {s \in DOMAIN h : /\ h[s].va <= a
                                    /\ a + size <= h[s].va + h[s].rawsize}
<1>5. H = {NewSection}
  <2>1. NewSection \in H
    BY <1>1, <1>2, <1>3, <1>4 DEF a
  <2>2. ASSUME NEW s \in 1 .. NewSection - 1 PROVE s \notin H
    <3>1. sec[s].va \in Nat /\ sec[s].rawsize \in Nat
      BY <1>2 DEF Section
    <3>2. h[s].va + h[s].rawsize <= LastAddress
      BY <1>1, <1>2
    <3>3. h[s].va + h[s].rawsize \in Nat
      BY <1>2, <3>1, SMTT(30)
    <3>4. ~(a + size <= h[s].va + h[s].rawsize)
      BY <1>1, <3>2, <3>3 DEF a
    <3> QED
      BY <3>4
  <2>3. \A s \in H : s \in 1 .. NewSection
    BY <1>2
  <2> HIDE DEF H
  <2>4. \A s \in H : s = NewSection
    <3>1. \A s \in 1 .. NewSection : s = NewSection \/ s \in 1 .. NewSection - 1
      BY <1>2
    <3> QED
      BY <2>2, <2>3, <3>1
  <2> QED
    BY <2>1, <2>4
<1>6. (CHOOSE s \in H : \A t \in H : s <= t) = NewSection
  <2> HIDE DEF H
  <2> QED
    BY <1>2, <1>5
<1>7. (Kept + Fill) + a - LastAddress = Kept + Fill + off
  BY <1>1, <1>4 DEF a
<1>8. (Kept + Fill) + off + size <= Len(f)
  BY <1>4
<1>9. Holders(h, a, size) = H
  BY DEF Holders
<1> HIDE DEF H
<1>10. Offset(f, h, a, size) = Kept + Fill + off
  BY <1>2, <1>3, <1>5, <1>6, <1>7, <1>8, <1>9 DEF Offset
<1> QED
  BY <1>10 DEF f, h, a

LEMMA ResolvesStep ==
  ASSUME IInv, ReplaceDebugSection
  PROVE  DirectoryResolves'
<1>1. PICK len \in DataLengths :
        /\ sec' = NewHeaders(len) /\ file' = NewFile(len)
        /\ dir' = [rva |-> LastAddress + Padded(len), size |-> DirSize]
        /\ entries' = Append(entries, DebugDirectory(len))
        /\ given' = Append(given, len)
  BY Replaced
<1> DEFINE n == Conversions + 2
           off == Kept + Fill + Padded(len)
<1>2. /\ len \in Nat \ {0} /\ Padded(len) \in Nat /\ len <= Padded(len)
      /\ Padded(len) % DirAlignment = 0 /\ DirSize \in Nat \ {0}
      /\ Kept \in Nat /\ Fill \in Nat
      /\ LastAddress \in Nat /\ LastAddress % SectionAlignment = 0
  BY PaddedFacts, KeptFacts, AddressFacts DEF IInv, TypeOK
<1>3. Conversions' = Conversions + 1 /\ given'[Conversions'] = len /\ Conversions \in Nat
  BY <1>1 DEF IInv, TypeOK, Conversions
<1>4. entries'[n] = DebugDirectory(len)
  <2>1. /\ entries \in Seq(Entry) /\ Len(entries) = Conversions + 1
        /\ DebugDirectory(len) \in Entry
    BY DebugDirectoryFacts DEF IInv, TypeOK
  <2>2. entries'[Len(entries) + 1] = DebugDirectory(len)
    BY <1>1, <2>1, AppendProperties
  <2> QED
    BY <1>3, <2>1, <2>2
<1>5. RVA(dir.rva, dir.size)' = off
  <2>1. Offset(file', sec', dir'.rva, dir'.size) = off
    <3>1. Offset(NewFile(len), NewHeaders(len), LastAddress + Padded(len), DirSize) = off
      <4>1. Padded(len) + DirSize <= Padded(len) + DirSize
        BY <1>2
      <4> QED
        BY <1>2, <4>1, OnlyNewHolds, Zenon
    <3> QED
      BY <1>1, <3>1
  <2> QED
    BY <2>1 DEF RVA, Holding, Offset, Holders
<1>6. dir'.rva % DirAlignment = 0
  <2>1. LastAddress % DirAlignment = 0 /\ DirAlignment \in Nat \ {0}
    BY <1>2, Alignments
  <2>2. (LastAddress + Padded(len)) % DirAlignment = 0
    BY <1>2, <2>1, MultiplesAdd
  <2> QED
    BY <1>1, <2>2
<1>7. \A k \in 1 .. DirSize : file'[off + k] = <<"dir", n, k>>
  BY <1>1, NewFileFacts, Zenon
<1>8. /\ DebugDirectory(len).type = "codeview" /\ DebugDirectory(len).size >= len
      /\ DebugDirectory(len).ptr = Kept + Fill /\ DebugDirectory(len).addr = LastAddress
  BY <1>2, DebugDirectoryFacts
<1>9. \A k \in 1 .. len : file'[Kept + Fill + k] = <<"RSDS", n, k>>
  BY <1>1, NewFileFacts, Zenon
<1>10. Offset(file', sec', LastAddress, len) = Kept + Fill
  <2>1. Offset(NewFile(len), NewHeaders(len), LastAddress + 0, len) = Kept + Fill + 0
    BY <1>2, OnlyNewHolds
  <2> QED
    BY <1>1, <1>2, <2>1
<1>11. n = Conversions' + 1 /\ off # -1
  BY <1>2, <1>3
<1> DEFINE e == DebugDirectory(len)
<1> HIDE DEF n, off, e
<1>12. /\ RVA(dir.rva, dir.size)' # -1 /\ dir'.rva % DirAlignment = 0
       /\ \A k \in 1 .. DirSize : file'[RVA(dir.rva, dir.size)' + k] = <<"dir", Conversions' + 1, k>>
  BY <1>5, <1>6, <1>7, <1>11
<1>13. /\ e.type = "codeview" /\ e.size >= len
       /\ \A k \in 1 .. len : file'[e.ptr + k] = <<"RSDS", Conversions' + 1, k>>
       /\ Offset(file', sec', e.addr, len) = e.ptr
  BY <1>8, <1>9, <1>10, <1>11 DEF e
<1>14. entries'[Conversions' + 1] = e
  BY <1>4, <1>11 DEF e
<1>15. RVA(entries[Conversions + 1].addr, given[Conversions])' = Offset(file', sec', e.addr, len)
  BY <1>3, <1>14 DEF RVA, Holding, Offset, Holders
<1> QED
  BY <1>3, <1>12, <1>13, <1>14, <1>15 DEF DirectoryResolves

LEMMA ResolvesSame ==
  ASSUME DirectoryResolves, UNCHANGED <<file, sec, dir, entries, given>>
  PROVE  DirectoryResolves'
BY DEF DirectoryResolves, Converted, Conversions, RVA, Holding

(* After every conversion the loader finds the directory by its address,   *)
(* and through it, whole, the name of the PDB that was put in last, in the *)
(* file and in memory (replaceDebugSection, RVA).                          *)
THEOREM DirectoryIsFound == Spec => []DirectoryResolves
<1>1. Init => DirectoryResolves
  BY DEF Init, DirectoryResolves, Converted, Conversions
<1>2. IInv /\ DirectoryResolves /\ [Next]_vars => DirectoryResolves'
  <2> SUFFICES ASSUME IInv, DirectoryResolves, [Next]_vars PROVE DirectoryResolves'
    OBVIOUS
  <2>1. CASE ReplaceDebugSection
    BY <2>1, ResolvesStep
  <2>2. CASE LoadExe \/ Save \/ UNCHANGED vars
    <3>1. UNCHANGED <<file, sec, dir, entries, given>>
      BY <2>2 DEF LoadExe, Save, vars
    <3> QED
      BY <3>1, ResolvesSame
  <2> QED
    BY <2>1, <2>2 DEF Next
<1> QED
  BY <1>1, <1>2, Invariance, PTL DEF Spec
=============================================================================
