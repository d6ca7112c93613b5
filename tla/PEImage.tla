------------------------------ MODULE PEImage ------------------------------
(***************************************************************************)
(* PEImage.cpp on the image that is converted: loadExe looks for its debug *)
(* information, and replaceDebugSection takes the debug sections off the   *)
(* end of the file and puts one in their place that holds the name of the  *)
(* PDB and the debug directory.  An image that names a debug link can be   *)
(* converted again, as long as its long names can be read.                 *)
(*                                                                         *)
(* The file is a sequence of bytes, each told from all others by a tuple   *)
(* of what it belongs to; the headers are the variables.  An offset or an  *)
(* address is a number, and byte n is at file[n + 1].                      *)
(***************************************************************************)
EXTENDS Integers, Sequences, FiniteSets

CONSTANTS
  Images,           \* the images there may be
  DataLengths,      \* the lengths of what names the PDB
  FileAlignment, SectionAlignment,
  DirAlignment,     \* 16
  DirSize,          \* sizeof(IMAGE_DEBUG_DIRECTORY)
  MaxConversions    \* a bound

Names   == {".text", ".data", ".gnu_debuglink", ".debug_line", ".debug_info",
            ".debug", ".ddebug"}
LongNames == {".gnu_debuglink", ".debug_line", ".debug_info"}  \* over 8 letters
Lasting   == {".text", ".data", ".gnu_debuglink"}   \* no debug sections
Section == [name : Names, va : Nat, vsize : Nat, raw : Nat, rawsize : Nat]
Entry   == [type : {"codeview", "other"}, ptr : Nat, addr : Nat, size : Nat]
Byte    == (Names \cup {"header", "zero", "NB09", "symbol", "RSDS", "any", "dir"})
             \X Nat \X Nat

AlignUp(n, a) == ((n + a - 1) \div a) * a

InFile(s) == s.raw + 1 .. s.raw + s.rawsize

ASSUME ParametersAssumption ==
  /\ DataLengths \subseteq Nat \ {0}
  /\ FileAlignment \in Nat \ {0} /\ DirAlignment \in Nat \ {0}
  /\ SectionAlignment \in {n * FileAlignment : n \in 1 .. SectionAlignment}
  /\ SectionAlignment \in {n * DirAlignment : n \in 1 .. SectionAlignment}
  /\ DirSize \in Nat \ {0} /\ MaxConversions \in Nat

(* What a linker writes: sections in the order of their addresses and, but *)
(* for those without contents, of their offsets; nothing in the file that  *)
(* the memory has no room for; the symbol table in no section; no empty    *)
(* debug section.                                                          *)
Layout(f, secs, size, table, symbols) ==
  /\ Len(secs) > 0 /\ secs[1].name = ".text"
  /\ \A s \in DOMAIN secs :
       /\ secs[s].va % SectionAlignment = 0
       /\ secs[s].va + secs[s].vsize <= size
       /\ secs[s].rawsize <= AlignUp(secs[s].vsize, SectionAlignment)
       /\ InFile(secs[s]) \subseteq DOMAIN f
       /\ secs[s].name \notin Lasting => secs[s].rawsize # 0
  /\ \A s, t \in DOMAIN secs : s < t =>
       /\ secs[s].va + secs[s].vsize <= secs[t].va
       /\ secs[s].rawsize # 0 /\ secs[t].rawsize # 0 =>
            secs[s].raw + secs[s].rawsize <= secs[t].raw
  /\ table # 0 =>
       /\ table + symbols <= Len(f)
       /\ \A s \in DOMAIN secs : secs[s].rawsize # 0 =>
            \/ secs[s].raw + secs[s].rawsize <= table
            \/ table + symbols <= secs[s].raw

(* Long names come only with the table that holds them.                    *)
LinkerMade(m) ==
  /\ m.file \in Seq(Byte) /\ m.sec \in Seq(Section) /\ m.sizeOfImage \in Nat
  /\ m.dir \in [rva : Nat, size : Nat] /\ m.entry \in Entry
  /\ m.symtab \in Nat /\ m.symbols \in Nat
  /\ Layout(m.file, m.sec, m.sizeOfImage, m.symtab, m.symbols)
  /\ \A s \in DOMAIN m.sec : m.sec[s].name \in LongNames => m.symtab # 0
  /\ \A k \in DOMAIN m.file : m.file[k][1] = "dir" => m.file[k][2] = 1

ASSUME ImagesAssumption == \A m \in Images : LinkerMade(m)

VARIABLES
  pc,             \* "file", "loaded", "replaced", "failed" or "done"
  file,           \* what dump_base points to, and later what save wrote
  sec,            \* the section headers
  sizeOfImage,
  dir,            \* the entry of the data directory: address and size
  symtab,         \* PointerToSymbolTable
  entries,        \* the contents of debug directories, by their number
  dbgDir,         \* the number of the one that was found, or 0
  original,       \* history: the image before it was converted
  given           \* history: the length of what was put in, each time

vars == <<pc, file, sec, sizeOfImage, dir, symtab, entries, dbgDir, original, given>>

Bytes(what, n, len) == [k \in 1 .. len |-> <<what, n, k>>]
nsec == Len(sec)
Conversions == Len(given)

(* A long name is in the string table, behind the symbols; without one,    *)
(* what is read in its place is no such name.                              *)
NameOf(s) == IF sec[s].name \in LongNames /\ symtab = 0 THEN "" ELSE sec[s].name

(* RVA: the offset in the file of len bytes at an address, or -1.          *)
Holding(rva, len) ==
  {s \in DOMAIN sec : sec[s].va <= rva /\ rva + len <= sec[s].va + sec[s].rawsize}
RVA(rva, len) ==
  IF Holding(rva, len) = {} THEN -1
  ELSE LET s   == CHOOSE s \in Holding(rva, len) : \A t \in Holding(rva, len) : s <= t
           off == sec[s].raw + rva - sec[s].va
       IN  IF off + len <= Len(file) THEN off ELSE -1

-----------------------------------------------------------------------------
(* loadExe: initCVPtr(true) || initDbgPtr(true) || initDWARFPtr(true).     *)

(* The entry of the debug directory at index i, or 0.                      *)
EntryAt(i) ==
  LET off == RVA(dir.rva + i * DirSize, DirSize)
  IN  IF off = -1 THEN 0 ELSE IF file[off + 1][1] = "dir" THEN file[off + 1][2] ELSE 0

CodeViewEntries ==
  {i \in 0 .. dir.size \div DirSize - 1 :
     EntryAt(i) # 0 /\ entries[EntryAt(i)].type = "codeview"}

(* _initFromCVDebugDir of the first such entry: the signature is NB09.     *)
FindsCodeView ==
  LET first == CHOOSE i \in CodeViewEntries : \A j \in CodeViewEntries : i <= j
      e     == entries[EntryAt(first)]
  IN  /\ CodeViewEntries # {}
      /\ e.ptr + e.size <= Len(file) /\ file[e.ptr + 1][1] = "NB09"

HasDWARF == \E s \in DOMAIN sec : NameOf(s) = ".debug_line"
HasLink  == \E s \in DOMAIN sec : NameOf(s) = ".gnu_debuglink"

LoadExe ==
  /\ pc = "file"
  /\ dbgDir' = IF FindsCodeView
                 THEN EntryAt(CHOOSE i \in CodeViewEntries : \A j \in CodeViewEntries : i <= j)
                 ELSE 0
  /\ pc' = IF FindsCodeView \/ HasDWARF \/ HasLink THEN "loaded" ELSE "failed"
  /\ UNCHANGED <<file, sec, sizeOfImage, dir, symtab, entries, original, given>>

-----------------------------------------------------------------------------
(* replaceDebugSection.                                                    *)

IsDwarf(s) == NameOf(s) \in {".debug_line", ".debug_info"}

(* The first of the DWARF sections that nothing else follows.              *)
DwarfTails == {s \in DOMAIN sec : \A t \in s .. nsec : IsDwarf(t)}

(* The section header that is used: the image keeps the sections before.   *)
(* Mutant: a .debug section is replaced wherever it is.                    *)
MutNewSection ==
  IF \E s \in DOMAIN sec : sec[s].name = ".debug"
    THEN CHOOSE s \in DOMAIN sec : sec[s].name = ".debug"
    ELSE nsec + 1
NewSection ==
  IF sec[nsec].name = ".debug" THEN nsec
  ELSE IF DwarfTails # {} /\ 1 \notin DwarfTails
         THEN CHOOSE s \in DwarfTails : \A t \in DwarfTails : s <= t
  ELSE nsec + 1

(* How much of the file is kept.                                           *)
Kept == IF NewSection <= nsec THEN sec[NewSection].raw ELSE Len(file)

Fill == AlignUp(Kept, FileAlignment) - Kept

(* The data, padded for the directory behind them.                         *)
(* Mutant: the directory is right behind the data.                         *)
MutPadded(len) == len
Padded(len) == AlignUp(len, DirAlignment)

LastAddress ==
  LET before == sec[NewSection - 1] IN AlignUp(before.va + before.vsize, SectionAlignment)

DebugSection(len) ==
  [name    |-> ".debug",
   va      |-> LastAddress,
   vsize   |-> AlignUp(Padded(len) + DirSize, FileAlignment),
   raw     |-> Kept + Fill,
   rawsize |-> Padded(len) + DirSize]

(* A .debug section that is not the last is only given another name.       *)
Renamed(s) == IF s.name = ".debug" THEN [s EXCEPT !.name = ".ddebug"] ELSE s

(* A directory that was found is kept, but for where its data are.         *)
DebugDirectory(len) ==
  [type |-> IF dbgDir # 0 THEN entries[dbgDir].type ELSE "codeview",
   ptr  |-> DebugSection(len).raw,
   addr |-> DebugSection(len).va,
   size |-> DebugSection(len).rawsize - DirSize]

(* The symbol table is given up if it was behind what is kept.             *)
(* Mutant: it is never given up.                                           *)
MutSymtabKept == TRUE
SymtabKept == symtab < Kept

ReplaceDebugSection ==
  /\ pc = "loaded"
  /\ \E len \in DataLengths :
       LET new == Conversions + 2
       IN  /\ sec' = [s \in 1 .. NewSection - 1 |-> Renamed(sec[s])] \o <<DebugSection(len)>>
           /\ sizeOfImage' = LastAddress + AlignUp(Padded(len) + DirSize, SectionAlignment)
           /\ dir' = [rva |-> LastAddress + Padded(len), size |-> DirSize]
           /\ symtab' = IF SymtabKept THEN symtab ELSE 0
           /\ file' = SubSeq(file, 1, Kept) \o Bytes("zero", 0, Fill) \o Bytes("RSDS", new, len)
                        \o Bytes("any", new, Padded(len) - len) \o Bytes("dir", new, DirSize)
           /\ entries' = Append(entries, DebugDirectory(len))
           /\ given' = Append(given, len)
  /\ pc' = "replaced"
  /\ UNCHANGED <<dbgDir, original>>

(* save; the file may be converted again.                                  *)
Save ==
  /\ pc = "replaced"
  /\ pc' = IF Conversions < MaxConversions THEN "file" ELSE "done"
  /\ UNCHANGED <<file, sec, sizeOfImage, dir, symtab, entries, dbgDir, original, given>>

(* entries[1] is the directory the image came with.                        *)
Init ==
  /\ original \in Images
  /\ pc = "file"
  /\ file = original.file
  /\ sec = original.sec
  /\ sizeOfImage = original.sizeOfImage
  /\ dir = original.dir
  /\ symtab = original.symtab
  /\ entries = <<original.entry>>
  /\ dbgDir = 0
  /\ given = <<>>

Next == LoadExe \/ ReplaceDebugSection \/ Save

Spec == Init /\ [][Next]_vars

-----------------------------------------------------------------------------
TypeOK ==
  /\ pc \in {"file", "loaded", "replaced", "failed", "done"}
  /\ file \in Seq(Byte) /\ sec \in Seq(Section)
  /\ sizeOfImage \in Nat
  /\ dir \in [rva : Nat, size : Nat]
  /\ symtab \in 0 .. Len(file)
  /\ entries \in Seq(Entry)
  /\ dbgDir \in 0 .. Len(entries)
  /\ given \in Seq(DataLengths) /\ Len(entries) = Conversions + 1
  /\ original \in Images

Converted == Conversions > 0
Contents(f, s) == [k \in 1 .. s.rawsize |-> f[s.raw + k]]

(* A converted image is still an image: its sections do not overlap, in    *)
(* memory or in the file, none ends behind the image or the file; and what *)
(* it had but for debug sections is as it was: the contents of sections    *)
(* and their headers, and the symbol table or none (and then no long name, *)
(* see NameOf).  It has one .debug section however often it was converted  *)
(* (replaceDebugSection).                                                  *)
ImageWhole ==
  Converted =>
    /\ \A s, t \in DOMAIN sec : s < t =>
         /\ sec[s].va + sec[s].vsize <= sec[t].va
         /\ InFile(sec[s]) \cap InFile(sec[t]) = {}
    /\ \A s \in DOMAIN sec :
         /\ InFile(sec[s]) \subseteq DOMAIN file
         /\ sec[s].va % SectionAlignment = 0
         /\ sec[s].va + sec[s].vsize <= sizeOfImage
    /\ Cardinality({s \in DOMAIN sec : sec[s].name = ".debug"}) = 1
    /\ \A s \in DOMAIN original.sec :
         LET old == original.sec[s]
         IN  old.name \in Lasting =>
               /\ s \in DOMAIN sec /\ sec[s] = old
               /\ Contents(file, sec[s]) = Contents(original.file, old)
    /\ symtab # 0 =>
         /\ symtab = original.symtab
         /\ \A k \in symtab + 1 .. symtab + original.symbols : file[k] = original.file[k]

(* The loader finds the debug directory by its address, and by it the name *)
(* of the PDB that was put in last, whole, in the file and in memory; the  *)
(* directory is aligned (replaceDebugSection, RVA).                        *)
DirectoryResolves ==
  Converted =>
    LET off == RVA(dir.rva, dir.size)
        e   == entries[Conversions + 1]
        len == given[Conversions]
    IN  /\ off # -1 /\ dir.rva % DirAlignment = 0
        /\ \A k \in 1 .. DirSize : file[off + k] = <<"dir", Conversions + 1, k>>
        /\ e.type = "codeview" /\ e.size >= len
        /\ \A k \in 1 .. len : file[e.ptr + k] = <<"RSDS", Conversions + 1, k>>
        /\ RVA(e.addr, len) = e.ptr
=============================================================================
