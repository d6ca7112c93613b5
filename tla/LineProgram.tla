----------------------------- MODULE LineProgram -----------------------------
(***************************************************************************)
(* interpretDWARFLines, addLineInfo and _flushDWARFLines (dwarflines.cpp): *)
(* each program of .debug_line runs on a machine whose registers           *)
(* (DWARF_LineState in readDwarf.h) make rows.  Rows are collected while   *)
(* file, order of addresses and reach of line numbers allow one block, and *)
(* a block is handed to AddLines with offsets relative to its first row.   *)
(*                                                                         *)
(* Not modelled: the registers no row depends on (column, is_stmt, ...),   *)
(* and op_index, which is always 0 as maximum_operations_per_instruction   *)
(* is the constant 1.                                                      *)
(***************************************************************************)
EXTENDS Integers, Sequences, SequencesExt

CONSTANTS
  Word,        \* addresses are kept modulo Word (2^32)
  LineWord,    \* the line of an entry is kept modulo LineWord (2^16)
  TextBase,    \* image base and address of .text: seg_offset
  Sections,    \* the image's sections
  Names,       \* of directories and files, the empty name among them
  Headers,     \* the headers a program may have
  Advances,    \* what an opcode may add to the address
  LineSteps,   \* what an opcode may add to the line
  Targets,     \* the operands of DW_LNE_set_address
  FileNumbers, \* the operands of DW_LNS_set_file
  MaxOps       \* the number of opcodes (a bound)

(* A name in the tables of a header: relative is what isRelativePath says; *)
(* dir is the index the producer wrote beside a file's name.               *)
Dir  == [name : Names, relative : BOOLEAN]
File == [name : Names, relative : BOOLEAN, dir : Nat]
Header == [version : 2 .. 5, wellFormed : BOOLEAN, dirs : Seq(Dir),
           files : Seq(File)]

ASSUME LineAssumption ==
  /\ Word \in Nat /\ LineWord \in Nat \ {0}
  /\ TextBase \in 1 .. Word - 1
  /\ Sections \in Seq([lo : Nat, hi : 0 .. Word - 1])
  /\ "" \in Names /\ Headers \subseteq Header
  /\ Advances \subseteq Nat /\ LineSteps \subseteq Int
  /\ Targets \subseteq 0 .. Word - 1 /\ FileNumbers \subseteq Nat
  /\ MaxOps \in Nat

VARIABLES
  pc,            \* "header", "program", "done" or "failed"
  header,        \* of the program that runs
  address, file, line,                   \* registers
  curFile,       \* the file of DW_LNE_define_file
  lineInfo,      \* rows not yet flushed: offset in .text, line from lowLine
  lineInfoFile,  \* the file register they were made with
  lowLine,       \* lineInfo_low_line
  added,         \* the arguments of the calls of AddLines
  ops,           \* opcodes so far
  matrix,        \* history: the rows the programs stand for
  sequence,      \* history: the number of the sequence of rows
  numbered       \* history: has set_file been seen in this sequence?

registers == <<address, file, line>>
pending   == <<lineInfo, lineInfoFile, lowLine>>
history   == <<matrix, sequence, numbered>>
vars == <<pc, header, registers, curFile, pending, added, ops, history>>

(* Mutant: unsigned differences may be negative.                           *)
MutWrap(n) == n
Wrap(n) == n % Word

(* img.findSection: the first section the address is in, or none.          *)
SectionsAt(a) == {s \in DOMAIN Sections : Sections[s].lo <= a /\ a < Sections[s].hi}
SectionOf(a) ==
  IF SectionsAt(a) = {} THEN 0
  ELSE CHOOSE s \in SectionsAt(a) : \A t \in SectionsAt(a) : s <= t

-----------------------------------------------------------------------------
(* The tables of a header.  A directory or a file is a sequence of names,  *)
(* the path that the code makes of it.                                     *)

IncludeDirs(h) ==
  [i \in DOMAIN h.dirs |->
    IF h.version = 5 /\ i > 1 /\ h.dirs[i].relative
      THEN <<h.dirs[1].name, h.dirs[i].name>> ELSE <<h.dirs[i].name>>]

(* A file of the table: where directories count from 0, its index is       *)
(* biased by 1 as the table is read (that of DW_LNE_define_file never is). *)
TableFile(h, n) == [h.files[n] EXCEPT !.dir = IF h.version = 5 THEN @ + 1 ELSE @]

Path(h, f) ==
  IF f.relative /\ f.dir \in DOMAIN h.dirs
    THEN Append(IncludeDirs(h)[f.dir], f.name)
    ELSE <<f.name>>

NoFile == [name |-> "", relative |-> TRUE, dir |-> 0]

(* dfn in _flushDWARFLines, from the file register.                        *)
FileKnown(h, n) == n = 0 \/ n \in DOMAIN h.files
FileEntry(h, n, defined) == IF n = 0 THEN defined ELSE TableFile(h, n)

-----------------------------------------------------------------------------
(* _flushDWARFLines, when the address register is a.                       *)
LowOffset  == lineInfo[1].offset
LastOffset == lineInfo[Len(lineInfo)].offset

(* Mutant: the last offset is compared after it was made relative.         *)
MutHigh(a) ==
  IF Wrap(a - TextBase) < LastOffset - LowOffset
    THEN LastOffset ELSE Wrap(a - TextBase)
High(a) == IF Wrap(a - TextBase) < LastOffset THEN LastOffset ELSE Wrap(a - TextBase)

Block(a) ==
  [section |-> SectionOf(Wrap(LowOffset + TextBase)),
   path    |-> Path(header, FileEntry(header, lineInfoFile, curFile)),
   offset  |-> LowOffset,
   length  |-> Wrap(High(a) - 1 - LowOffset),   \* the end belongs to the range
   line    |-> lowLine,
   entries |-> [i \in DOMAIN lineInfo |->
                 [offset |-> lineInfo[i].offset - LowOffset,
                  line   |-> lineInfo[i].line]]]

(* Lines of no section, mostly those of code that was linked to address 0, *)
(* are thrown away.                                                        *)
Invalid == lineInfo # <<>> /\ SectionOf(Wrap(LowOffset + TextBase)) = 0
CanFlush == lineInfo = <<>> \/ Invalid \/ FileKnown(header, lineInfoFile)

AddBlock(a) ==
  added' = IF lineInfo = <<>> \/ Invalid THEN added ELSE Append(added, Block(a))

Fail == pc' = "failed" /\ UNCHANGED <<pending, added>>

(* AddLines does not take the block: its rows are gone, and so is the run. *)
Refused ==
  /\ lineInfo # <<>> /\ ~Invalid /\ FileKnown(header, lineInfoFile)
  /\ pc' = "failed" /\ lineInfo' = <<>>
  /\ UNCHANGED <<lineInfoFile, lowLine, added>>

FlushFails == Refused \/ (~CanFlush /\ Fail)

-----------------------------------------------------------------------------
(* addLineInfo for a row at address a with line l.                         *)
Entry(a, l, base) == [offset |-> a - TextBase, line |-> (l - base) % LineWord]

(* Mutant: a row of another file goes into the same block.                 *)
MutEndsBlock(a, l) ==
  \/ l < lowLine \/ l > lowLine + LineWord - 1
  \/ a - TextBase < LastOffset
EndsBlock(a, l) ==
  \/ l < lowLine \/ l > lowLine + LineWord - 1
  \/ a - TextBase < LastOffset
  \/ lineInfoFile # file

IsDuplicate(a, l) ==
  /\ l = lineInfo[Len(lineInfo)].line + lowLine
  /\ a - TextBase = LastOffset

StartBlock(a, l) ==
  /\ lineInfo' = <<Entry(a, l, l)>> /\ lowLine' = l /\ lineInfoFile' = file

(* What becomes of pc, the rows and the calls of AddLines.                 *)
AddLineInfo(a, l) ==
  IF a < TextBase
    THEN UNCHANGED <<pc, pending, added>>
  ELSE IF lineInfo = <<>>
    THEN StartBlock(a, l) /\ UNCHANGED <<pc, added>>
  ELSE IF EndsBlock(a, l)
    THEN FlushFails \/ (CanFlush /\ StartBlock(a, l) /\ AddBlock(a) /\ UNCHANGED pc)
  ELSE IF IsDuplicate(a, l)
    THEN UNCHANGED <<pc, pending, added>>
  ELSE /\ lineInfo' = Append(lineInfo, Entry(a, l, lowLine))
       /\ lineInfoFile' = file
       /\ UNCHANGED <<pc, lowLine, added>>

-----------------------------------------------------------------------------
(* The history.  Files of version 5 are numbered from 0, the register      *)
(* begins with 1, and the code keeps the number plus 1; exact says whether *)
(* the file can be what DWARF means: see FilesAsNumbered.                  *)
FileMeant == IF header.version = 5 /\ ~numbered THEN file + 1 ELSE file
Row(a, l) ==
  [address |-> a, line |-> l, sequence |-> sequence,
   file |-> file, exact |-> header.version # 5 \/ numbered,
   meant |-> IF FileMeant \in DOMAIN header.files
               THEN Path(header, TableFile(header, FileMeant)) ELSE <<>>]

IsRepeated(row) ==
  /\ matrix # <<>>
  /\ \A f \in {"address", "line", "sequence", "file"} :
       matrix[Len(matrix)][f] = row[f]
Recorded(a, l) ==
  matrix' = IF a < TextBase \/ SectionOf(a) = 0 \/ IsRepeated(Row(a, l))
              THEN matrix ELSE Append(matrix, Row(a, l))

(* Precondition: the rows of a sequence are all in one section, or in none *)
(* (a sequence is the code of one section that the linker has placed).     *)
InOneSection(a) ==
  (lineInfo # <<>>) => SectionOf(a) = SectionOf(Wrap(LastOffset + TextBase))

Op == pc = "program" /\ ops < MaxOps /\ ops' = ops + 1

(* state.init(hdr).                                                        *)
InitRegisters == address' = 0 /\ file' = 1 /\ line' = 1

Init ==
  /\ pc = "header"
  /\ header \in Headers
  /\ address = 0 /\ file = 1 /\ line = 1 /\ curFile = NoFile
  /\ lineInfo = <<>> /\ lineInfoFile = 0 /\ lowLine = 0
  /\ added = <<>> /\ ops = 0
  /\ matrix = <<>> /\ sequence = 1 /\ numbered = FALSE

(* A header with a form that is not known ends it all, as does a first     *)
(* unit of .debug_info that cannot be read: its size of addresses is       *)
(* needed.                                                                 *)
ReadHeader ==
  /\ pc = "header"
  /\ pc' = IF header.wellFormed THEN "program" ELSE "failed"
  /\ UNCHANGED <<header, registers, curFile, pending, added, ops, history>>

Special(adv, dl) ==
  /\ Op /\ line + dl >= 0 /\ InOneSection(Wrap(address + adv))
  /\ address' = Wrap(address + adv) /\ line' = line + dl
  /\ AddLineInfo(address', line')
  /\ Recorded(address', line')
  /\ UNCHANGED <<header, file, curFile, sequence, numbered>>

Copy ==
  /\ Op /\ InOneSection(address)
  /\ AddLineInfo(address, line)
  /\ Recorded(address, line)
  /\ UNCHANGED <<header, registers, curFile, sequence, numbered>>

(* DW_LNS_advance_pc, const_add_pc and fixed_advance_pc.                   *)
AdvancePc(adv) ==
  /\ Op /\ address' = Wrap(address + adv)
  /\ UNCHANGED <<pc, header, file, line, curFile, pending, added, history>>

AdvanceLine(dl) ==
  /\ Op /\ line + dl >= 0 /\ line' = line + dl
  /\ UNCHANGED <<pc, header, address, file, curFile, pending, added, history>>

FileRegister(n) == IF header.version = 5 THEN n + 1 ELSE n

SetFile(n) ==
  /\ Op /\ file' = FileRegister(n) /\ numbered' = TRUE
  /\ UNCHANGED <<pc, header, address, line, curFile, pending, added, matrix,
                 sequence>>

(* Within a sequence the address stays in the section (see InOneSection).  *)
SetAddress(a) ==
  /\ Op /\ InOneSection(a) /\ address' = a
  /\ UNCHANGED <<pc, header, file, line, curFile, pending, added, history>>

DefineFile(f) ==
  /\ Op /\ curFile' = f /\ file' = 0 /\ numbered' = TRUE
  /\ UNCHANGED <<pc, header, address, line, pending, added, matrix, sequence>>

EndSequence ==
  /\ Op
  /\ \/ /\ CanFlush /\ AddBlock(address) /\ lineInfo' = <<>>
        /\ InitRegisters /\ sequence' = sequence + 1 /\ numbered' = FALSE
        /\ UNCHANGED <<pc, lineInfoFile, lowLine>>
     \/ FlushFails /\ UNCHANGED <<registers, sequence, numbered>>
  /\ UNCHANGED <<header, curFile, matrix>>

(* The end of the program; the next one has a state of its own.            *)
EndProgram ==
  /\ pc = "program" /\ CanFlush
  /\ AddBlock(address)
  /\ \/ ops < MaxOps /\ pc' = "header" /\ header' \in Headers
     \/ pc' = "done" /\ UNCHANGED header
  /\ InitRegisters
  /\ curFile' = NoFile
  /\ lineInfo' = <<>> /\ lineInfoFile' = 0 /\ lowLine' = 0
  /\ ops' = ops + 1
  /\ sequence' = sequence + 1 /\ numbered' = FALSE /\ UNCHANGED matrix

FailAtEnd ==
  /\ pc = "program" /\ FlushFails
  /\ UNCHANGED <<header, registers, curFile, ops, history>>

Next ==
  \/ ReadHeader \/ Copy \/ EndSequence \/ EndProgram
  \/ FailAtEnd
  \/ \E adv \in Advances : AdvancePc(adv) \/ \E dl \in LineSteps : Special(adv, dl)
  \/ \E dl \in LineSteps : AdvanceLine(dl)
  \/ \E n \in FileNumbers : SetFile(n)
  \/ \E a \in Targets : SetAddress(a)
  \/ \E i \in DOMAIN header.files : DefineFile(header.files[i])

Spec == Init /\ [][Next]_vars

-----------------------------------------------------------------------------
BlockType ==
  [section : DOMAIN Sections, path : Seq(Names), offset : Nat,
   length : 0 .. Word - 1, line : Nat,
   entries : Seq([offset : Nat, line : 0 .. LineWord - 1])]

TypeOK ==
  /\ pc \in {"header", "program", "done", "failed"}
  /\ header \in Headers
  /\ address \in 0 .. Word - 1 /\ file \in Nat /\ line \in Nat
  /\ curFile \in File
  /\ lineInfo \in Seq([offset : 0 .. Word - 1, line : 0 .. LineWord - 1])
  /\ lineInfoFile \in Nat /\ lowLine \in Nat
  /\ added \in Seq(BlockType)
  /\ ops \in Nat

(* What a debugger reads: the rows of the blocks, and those to come.       *)
RowsOf(b) ==
  [i \in DOMAIN b.entries |->
    [address |-> Sections[b.section].lo + b.offset + b.entries[i].offset,
     line |-> b.line + b.entries[i].line, path |-> b.path,
     section |-> b.section]]
ToCome ==
  IF lineInfo = <<>> \/ Invalid \/ ~FileKnown(header, lineInfoFile)
    THEN <<>> ELSE RowsOf(Block(address))
RowsOfFirst(n) == FlattenSeq([i \in 1 .. n |-> RowsOf(added[i])])
Delivered == RowsOfFirst(Len(added)) \o ToCome

InText(row) == Sections[row.section].lo = TextBase

(* Every row that a program makes in the image, and no other, is handed to *)
(* AddLines, in order, with its own line, the section and the address it   *)
(* has in it, and the file it was made for: whatever ends a block, a row   *)
(* of an earlier block is never put into the next one nor lost             *)
(* (addLineInfo, _flushDWARFLines).  Addresses are those of .text only;    *)
(* files are those of DW_LNS_set_file, or of a header before version 5.    *)
RowsDelivered ==
  (pc # "failed" /\ (lineInfo = <<>> \/ FileKnown(header, lineInfoFile))) =>
    /\ Len(Delivered) = Len(matrix)
    /\ \A i \in DOMAIN matrix :
         /\ Delivered[i].line = matrix[i].line
         /\ Delivered[i].section = SectionOf(matrix[i].address)
         /\ InText(Delivered[i]) => Delivered[i].address = matrix[i].address
         /\ (matrix[i].exact /\ matrix[i].file # 0) =>
              Delivered[i].path = matrix[i].meant

(* The range of a block, as AddLines counts it.                            *)
End(b) == Wrap(b.offset + b.length + 1)
LastOf(b) == b.offset + b.entries[Len(b.entries)].offset
FirstRow(i) == matrix[Len(RowsOfFirst(i - 1)) + 1]

(* The ranges of the blocks hold every row they are for (one that ends     *)
(* where it begins may be empty), and where a sequence goes upwards, each  *)
(* ends where the next one begins: none hides the lines of another, and no *)
(* address between them is without a line (_flushDWARFLines on "PDB        *)
(* address ranges are fully closed").                                      *)
RangesMeet ==
  pc # "failed" =>
    \A i \in DOMAIN added :
      /\ End(added[i]) >= LastOf(added[i])
      /\ (/\ i < Len(added)
          /\ FirstRow(i).sequence = FirstRow(i + 1).sequence
          /\ added[i + 1].offset >= LastOf(added[i])) =>
            End(added[i]) = added[i + 1].offset

(* "DWARF5 numbers all files starting at zero.  We will subtract one in    *)
(* _flushDWARFLines when indexing the files array" (dwarflines.cpp:483):   *)
(* a row of version 5 is in the file its register names.                   *)
FilesAsNumbered ==
  pc = "done" =>
    \A i \in DOMAIN matrix :
      matrix[i].file # 0 => Delivered[i].path = matrix[i].meant
=============================================================================
