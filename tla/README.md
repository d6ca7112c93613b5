# A formal model of cv2pdb

cv2pdb converts the debug information of a Windows executable, CodeView (old D
compilers) or DWARF (gcc, clang, ldc), into a PDB file, and rewrites the
executable so that it names that PDB. It is a sequential command line program;
what makes it hard is not concurrency but bookkeeping: type ids that are handed
out before the record they belong to exists, two record buffers that are
numbered apart and glued together at the end, records with a size limit, a
cursor over a serialised tree that is copied and continued elsewhere, and two
files on disk that must agree with each other whatever fails in between.

The TLA+ modules here model those parts. TLC checks them on small instances;
TLAPS proves the most important of their properties for all values of the
constants. Paths below are relative to the root of the repository.

## The system

| Component | State it keeps | Operations | What makes it correct |
|---|---|---|---|
| Driver: `main.cpp`, `openPDB`, `globalMod`, `cleanup`, `writeImage` in `cv2pdb.cpp` | open handles of the PDB, the last error, the files on disk | load, unlink, open, convert in steps, replace the section, save, destroy | a PDB is committed only complete and with its image; the input survives a failure |
| PE image: `PEImage.cpp` | the mapped file, section table, symbol cache | `loadExe`, `replaceDebugSection`, `save`, `findSection`, `findSymbol`, `relocateDebugLineInfo` | sections and directory stay inside the file; a symbol resolves to its section |
| DWARF reader: `readDwarf.cpp`, `readDwarf.h` | cursor (position, level, links), abbreviation cache, current DIE | `readNext`, `gotoSibling`, `getSubtreeCursor`, `decodeLocation`, `LOCCursor`, `RangeCursor` | the cursor visits the tree that the bytes encode; a location is what the expression means in a process |
| DWARF types: `mapTypes`, `createTypes`, `addDWARFStructure/Fields/Enum/Array` in `dwarf2pdb.cpp` | `nextUserType`, `nextDwarfType`, `userTypes`, `dwarfTypes`, the map from DIEs to ids | two passes over every unit | ids written into records are positions of the right records |
| DWARF symbols: `addDWARFProc`, `appendStackVar`, `getRanges`, CFI | symbol buffer, stack of lexical blocks | one call per subprogram | scopes are the nesting of the DIEs; all code is covered once; variables are where the process has them |
| DWARF lines: `dwarflines.cpp` | line state machine, rows not yet flushed | `interpretDWARFLines`, `addLineInfo`, `_flushDWARFLines` | every row reaches the module once, with its own file, line and section; blocks neither overlap nor leave a gap |
| CodeView types: `initGlobalTypes`, `_doFields`, `appendTypedefs` in `cv2pdb.cpp` | translated types, appended types, typedef table | translate all, append, insert into lists | every index names what it is meant to; classes count the members they have |
| CodeView symbols and lines: `initSegMap`, `createModules`, `copySymbols`, `addSrcLines`, `addPublics` | segment map, bitmap of source lines, symbol buffers | one pass per kind of directory entry | symbols of a procedure fit its type; ranges of lines meet |
| PDB library: `mspdb.cpp` (external DLL) | which version was found | search, open, the interfaces | closed streams are committed once |
| Strings and leaves: `symutil.cpp`, `cvutil.cpp`, `demangle.cpp` | none | conversions | what is written is what is read back |
| `dumplines`, `dviewhelper`, `managed` | separate tools | | |

How they interact: everything is a call on one thread. `T_main` builds a
`CV2PDB` over one or two `PEImage`s and calls its steps in order; each step
returns false (or the program exits in `fatal`) when it fails. The steps share
the buffers and counters of `CV2PDB`; the two passes over `.debug_info`
communicate only through `mapEntryPtrToTypeID` and the tree that the first one
links. The PDB library is called through interfaces and keeps what it is given;
the PDB exists on disk when `commit` returns. There are no callbacks, threads
or timers; a second actor is only the operating system, which may stop the
process or fail a call.

Hard behaviours, each a hazard with its line in `PROJECT.json`: partial
failure and a stop between two steps (driver), state computed in one pass and
used in another (type ids), order of appends to two buffers, limits of records
and buffers, copies of a cursor, numbers that are cut to 16 or 8 bits.

## The modules

```
Publication  <--implemented by--  Conversion        MCConversion     ConversionProofs
                                  DwarfTypes        MCDwarfTypes     DwarfTypesProofs
FieldLeaves  <---extended by----  EnumFields        MCEnumFields     EnumFieldsProofs
DieCursor    <---extended by----  StructFields      MCStructFields   StructFieldsProofs
DieCursor, DebugLists, CallFrames
             <---extended by----  ProcSymbols       MCProcSymbols    ProcSymbolsProofs
Location     <---extended by----  DebugLists, CallFrames
                                  LineProgram       MCLineProgram    LineProgramProofs
CvInput      <--- CvTypes <--- CvSymbols
CvInput      <--- CvLines
CvSymbols, CvLines <-extended by- CodeView          MCCodeView
                                  PEImage           MCPEImage        PEImageProofs
DataLemmas   <---extended by----  EnumFieldsProofs, StructFieldsProofs, ProcSymbolsProofs,
                                  LineProgramProofs, PEImageProofs
```

The DWARF modules look at the same functions from several sides, and each leaves
out what another has: `DwarfTypes` numbers whole records and does not look into
them; `EnumFields` and `StructFields` look into one record each and take the ids
as given; `ProcSymbols` has the symbols `createTypes` makes and no types.
`Conversion` has all of it as steps that succeed or fail.

**Conversion** models `T_main` (`main.cpp:187-348`) with `openPDB`, `cleanup`
and the two ways of writing the image. `pc` is the place in `T_main`, `step`
the call inside a part of it; `handles` and `pdbFile` are what the mspdb
library holds and has on disk; `content` is the list of conversion steps whose
result has gone into the PDB; `files` are the input and the output file. The
input says for each file what loading it finds and which options were given.
Each action has a failing outcome. Where the code tests the result, `Fatal`
exits without the destructor, as `exit` does. Where it does not (`unlink`, and
every `Close` and the `Commit` of `cleanup`), the run goes on and `ignored` keeps
what nobody looked at. `Kill` stops the process between any two steps. The image is truncated in one step and written in another.
External: what the mspdb DLL does, taken from how `cv2pdb.cpp` uses it.

**Publication** is what a user may rely on: the old PDB goes, the image is
rewritten, the new PDB appears. `Conversion` implements it under the mapping in
`Abstract`; `torn` is an image that is being written.

**DwarfTypes** models `createDWARFModules` (`dwarf2pdb.cpp:2194-2299`) for
types. `dies` is `.debug_info` as a sequence of DIEs; `pc` is the pass. `MapDie`
is the body of the loop of `mapTypes`, the `Create...` actions are the cases of
`createTypes`, and a struct is taken member by member (`OpenStructure`,
`AddField`, `AddBitfield`, `EmbedMember`, `AddBaseClass`, `SkipMember`,
`ClipFields`, `CloseStructure`). A record carries the id the converter believes
it to have and the ids written into it; sizes are counted in records, so
`FieldListRoom` stands for the 64 kB test. `created` is a history variable: the
id each DIE's record was given. What the cursor yields for a struct is a
sequence of members; that it may be the wrong sequence is the subject of
`StructFields`.

**FieldLeaves** has `numeric_leaf`, `write_numeric_leaf`, the length of names
and padding as functions; **EnumFields** models `addDWARFEnum`
(`dwarf2pdb.cpp:1496-1644`) byte by byte in size and position: `lists` are the
field list records, `fieldlistLength`, `cbDwarfTypes`, `nextDwarfType` and
`allocDwarfTypes` the variables of the code. `SplitList` is the whole branch in
which an enumerator does not fit: the LF_INDEX leaf over it, the length of the
closed record, the new record and the enumerator again. Names are numbers with
a length.

**DieCursor** has the moves of `DIECursor` as functions on a sequence of
entries (a DIE, or the null entry that ends a level); **StructFields** models
`addDWARFStructure` and `addDWARFFields` on top of it. `calls` is the stack of
calls of `addDWARFFields`, each with its own cursor and its own `id`, of which
only the access survives `clear`. `cumulative_bit_offset` is not modelled: the
branch that reads it needs `bit_offset < 0`, and `bit_offset` is unsigned.

**Location** is `decodeLocation` (`readDwarf.cpp:112-364`) as a machine over
operations, with the operands it leaves to be read as operations (`Misread`);
beside it, `Run` says what an expression means in a process, written from the
DWARF standard and not from the code. The two part in a few operations, and
where more than one value is left; `Departs` names those cases. Offsets are
integers, where the code's wrap around at 32 bits; the logical operations are on
truth values, shifts by up to 15, and the operand of `DW_OP_addr` has the four
bytes the code reads. **DebugLists** has `RangeCursor`,
`LOCCursor`, `getRanges` and `findBestFBLoc` on lists of entries before and
from version 5, and what the lists mean (`EntriesAt`); **CallFrames** has
`CFIIndex.lookup`, `CFACursor` and `findBestCFA`, and the rule that a frame has
at an address (`RuleAt`).

**ProcSymbols** puts them together: `cursor` is that of `createTypes`, which
reads every DIE of a unit (`ReadCompileUnit`, `ReadSubprogram`, `ReadVariable`,
`ReadOther`); for a subprogram with code, `addDWARFProc` reads the DIEs below it
with `scan`, once for parameters (`ReadParameter`) and once for variables and
blocks (`EnterBlock`, `ReadLocal`, `EndScope`) with `lexicalBlocks` as its stack
of cursors, and ends with the code that lies elsewhere (`EndProc`). `symbols` is
`udtSymbols`, each with the DIE it was made for; `publics` are the calls of
`AddPublic2`.

**LineProgram** models `interpretDWARFLines`, `addLineInfo` and
`_flushDWARFLines` (`dwarflines.cpp:55-529`). `address`, `file` and `line` are
the registers; `lineInfo`, `lineInfoFile` and `lowLine` the rows not yet
flushed; `added` the calls of `AddLines` that were accepted, and one that is
refused ends the run (`Refused`). `matrix` is a history variable: the
rows that the programs stand for, which is what a reader of the PDB should get.
Addresses and the 16 bits of a line are cut modulo `Word` and `LineWord`;
`Names` are the names of files and directories that a header may have.

**CvInput, CvTypes, CvSymbols, CvLines** are the CodeView path in the order of
`T_main`, and **CodeView** is their composition with the properties. `CvTypes`
converts the types one by one (`globalTypes`), collects what is made up for D
(`user`: `appendDynamicArray`, `appendAssocArray`, `appendDelegate`,
`appendTypedefs` and the rest of the appends), inserts the enumerations that
tell the kind of a class into the lists it is walking, and hands all to
`AddTypes`. `CvSymbols` copies the symbols, with the parameters it skips, the
type it replaces and the blocks it moves, up to a symbol without an id; the
count of parameters does not stop at the end of a stream, and up to `Overrun`
symbols may seem to lie there. `CvLines` has the segments, the contributions, the
bitmap of line starts, which may be left half made, and both ways of writing
lines.

**PEImage** models `loadExe`, `replaceDebugSection`, `save` and `RVA`. Every
byte of `file` is tagged with what it belongs to, so that "the same contents"
can be said; headers are variables. An image that has a debug link can be
converted again, `MaxConversions` times. `Layout` is what holds of every image,
`LinkerMade` what the first one is assumed to be.

The MC modules give the constants of a run. In every module the definitions
named `Mut...` are plausible mistakes; each property of a passing run is
violated when one of them takes the place of the definition after it.

## The runs

| Run | What it shows | Bounds |
|---|---|---|
| `conversion` | whatever fails or stops the run, a committed PDB is complete, if its streams could be closed, and has its image; success leaves both files, or hides a failure of `cleanup` that nobody looks at; nothing of the user's is given up early; the commit finds the streams closed; `Publication` is implemented | none: all 240 inputs |
| `dwarf_types` | where ids agree with positions: always for the ids of `nextUserType` without base classes and, among themselves, those of `nextDwarfType`; for all references and symbols without structs; between a struct, its field list and its bitfields without base classes; and that both passes end | `.debug_info` of up to 3 DIEs of every kind, D version 2, no room, so that lists are cut |
| `enum_fields` | records fit, adjoin, are chained and stay inside the buffer; a reader gets back every enumerator | 5 children of 7 kinds, records of 39 bytes (three or fewer leaves), a buffer of 10 bytes |
| `struct_fields` | the cursor stays among the members of its struct; members come out in order and place, those of unnamed members included; the access of a bitfield comes from its own struct | two structs, beside or inside each other, each with one or two members of eleven kinds, siblings named or not |
| `struct_members` (violation) | a struct without children takes the members of the struct around it | as above |
| `struct_bitfields` (violation) | the byte part of `data_bit_offset` is lost | as above |
| `proc_symbols` | the scopes of a procedure mirror its blocks, with every variable once; its code is covered once, from its entry point; a variable's symbol is its address in every process while the frame stands | every location expression of up to three operations out of 26 that has a meaning and does not depart from the standard (`Decodable`), in five frames, at the first and the last address of the body; procedures with blocks two deep beside another procedure; code in one or two ranges with four entry points, lists of version 4 and 5 |
| `proc_parameters` (violation) | a procedure without children takes the parameters of the next | one unit |
| `line_program` | every row is delivered once, in order, with its line, section, address and file; blocks reach over their rows and, going up, meet | up to 5 opcodes in up to 5 programs, two sections, five targets, headers of versions 4 and 5 and one that is refused |
| `line_files` (violation) | a program of version 5 that sets no file has its rows in the wrong one | as above |
| `codeview` | references lead to what they are named as; classes are completed from their base classes and count their members; the walk that inserts leaves stays on records; procedures keep the parameters their type counts and become the method they are; ranges of lines reach over them and do not overlap, as far as marks were made | families of images: two classes, their lists in three orders; every D type over five elements, typedefs as modifiers and as enumerations; two procedures with 0-3 parameters, closures and methods, the last cut off or followed by a zero symbol, `Overrun` 2; four blocks of lines in three segments, marks that cannot be made; both library versions |
| `pe_image` | the image stays whole and leads to the name of its PDB, however often it is converted | 92 images of two to five sections, three lengths of data, three conversions |

Why the bounds are enough. `Conversion` has no unbounded part. In `DwarfTypes`
the counters differ by what one struct takes, so a struct, a DIE that refers to
it and one more show every order of a reference and its target; the invariants
that do not depend on the length are proved for any. In `EnumFields` the
records are so small that five children need up to four of them, each split
falls before, on and after every size of leaf, and the buffer grows at almost
every leaf. `FieldLeaves` has the real limits of the numeric forms. In
`StructFields` two structs with two members each have all that a cursor can
meet: a level to skip, with and without a named sibling, a level to return to,
and a copy that goes on before, behind or inside its parent. `MaxDepth` bounds
the nesting of calls; only a struct without children reaches it, where the
code would recurse until its stack is used up.

`ProcSymbols` treats every operation by the kinds of the values it takes, and
three operations reach every kind for each of them, the third below the top
included. Blocks two deep with DIEs before, between and behind them have every
order of entering, leaving and going on; a second procedure behind the first is
what a cursor that went too far would read. In `LineProgram` a row ends a block
for four reasons (file, address, line, end); five opcodes have a row, a reason,
a row and another end, and `LineWord = 4` makes lines wrap as 16 bits would. The
images of `CodeView` each vary what one part of the converter depends on; the
parts do not read each other's data other than through the types, which all of
them have. In `PEImage` alignments of 4 and 8 with contents of 3 to 12 bytes
have every remainder, and a third conversion starts from what a second one
made, as every later one would.

Deadlock is not checked where the program ends and a finished run has no next
step; `CodeView` has explicit end states and is checked. Fairness is weak
fairness of `Next` in `DwarfTypes`, and nowhere else: the program is a single
thread that does nothing but its next step, so the assumption is only that the
process is not suspended for ever. `Conversion` states none, since it may be
stopped anywhere.

Preconditions, on what the input files may hold:

* `DwarfTypes`, `StructFields`: references stay in the section and name types;
  no struct contains itself; levels are ended, and no DIE that announces
  children is without (`readNext` asserts it).
* `ProcSymbols`, by `UnitsAssumption`: the first DIE of a unit is the unit's and
  no other is; code has a low and a high address or ranges, not both; it lies in
  the sections, from `.text` on, no address is in two ranges of a list, and an
  entry point is in the code; before version 5 a list of ranges holds pairs
  only, since `RangeCursor` passes over a change of the base; an expression is
  `Decodable` (it has a meaning, from which the code does not depart; the others
  are the subject of `DecodeDeparts`), and what it leaves for a frame base or a
  variable is of the kind that is asked for. The expressions of the run for
  64-bit images have no `DW_OP_addr`, of whose eight bytes the code reads four.
* `VariablesWhereDwarfSays` and its theorem, beyond that, by `Framed`, which
  `FramesAssumption` checks of the units of the run. Procedures with code have
  children, the parameters in front of the first null entry are their own, and
  no block or variable of the stack stands behind a procedure that is nested in
  its parent: `addDWARFProc` would read on behind it (`OwnDies`;
  `proc_parameters` is about a unit that is not so). FDEs do not overlap. At the
  addresses of the `body` the frame is set up (`SetUp`): the one expression that
  the converter takes from a location list is the one that is for the address;
  the FDE is found by the low address of the procedure, and covers it; what has
  been executed at the address is the rule that stands before the first restore
  (`FrameStands`). All of these are about the input alone and say nothing of what
  `addDWARFProc` makes of it. One with ranges only gets the default rule for the
  frame address, since `findBestCFA` looks the FDE up by low and high address.
* `LineProgram`: within a sequence the address stays in one section.
* `CodeView`: procedures have LF_PROCEDURE types and, where
  `ProceduresMatchTypes` speaks of their parameters, another symbol (S_ENDARG)
  behind these in the stream; entries of modules come before those of source
  modules, frames of line blocks are in the segment map, blocks
  of a segment follow one another.
* `PEImage` (`LinkerMade`): sections ascend in memory and, those without contents
  aside, in the file, the first is `.text`, the symbol table lies outside of
  them, there is room for one more header, and names of more than eight letters
  have their string table. When the converter gives that table up with the
  sections before it, such names are lost (`NameOf`): a `.gnu_debuglink` that
  stays is no longer found.

An unmodelled error of a reader is a failing step of `Conversion`.

## What is proved

All proofs are in the `...Proofs` modules and `DataLemmas`, from the named
assumptions on the constants in the module they extend and nothing else: the
parameters are numbers of the right kind, and the inputs are files as a compiler
and a linker make them (under "Preconditions"). Only `VariablesFound` has a
hypothesis of its own, that the units are `Framed`. A theorem on a specification has
the form `Spec => []P` and follows from an invariant that is inductive, named in
the module; one lemma per action shows that it is kept. `NumericRoundTrip`,
`DecodeSound`, `DecodeDeparts`, `RangesCoverCode` and `ReadNextReadsAll` are on the
functions that a specification calls.

* `DwarfTypesProofs`: `TypeCorrect`, `UserNumbering` (`UserIdsArePositions`) and
  `DwarfNumbering` (`DwarfIdsConsecutive`). `TypeOK` carries the relation of
  `list`, `mark` and `todo` to the open struct. The two numberings are each
  inductive together with it, because they speak of the parked bitfields as if
  they had been copied already: that is what `CloseStructure` needs when it cuts
  `dwarfTypes`.

  On references: `PassesAgree` (`TypeMapHonoured`), `RecordsResolve`
  (`RefsResolve`) and `SymbolsFindTypes` (`SymbolsResolve`), from `RefInv`. Its
  core is that without structs the id that `mapTypes` reserves for a DIE is
  `FirstUserType` plus the number of DIEs with a record before it (`Reserved`),
  and that `createTypes` has come, in `Built`, to exactly as many records in
  `userTypes`; a record in `dwarfTypes` lies as far behind the last of those as
  `DwarfBase` says, which is where gluing the buffers together puts it. That
  `nextDwarfType` already starts there is why the ids of field lists come out
  right before `userTypes` is complete. `OwnRecordsFound` (`OwnRecordsResolve`)
  needs none of this but `UserNumbering`: every struct leads to a field list of
  its DIE, and every bitfield either has its field list in front of it or still
  waits behind the mark for the struct that is open (`Owning`).
* `ConversionProofs`: `TypeCorrect`, `CommitIsComplete` (`NoPartialCommit`),
  `SuccessIsComplete` (`SuccessHidesOnlyIgnored`), `KeepsTheUsers`
  (`NothingGivenUpEarly`), `CommitsClosed` (`CommitAfterClose`) and `Implements`
  (`ImplementsPublication`). `IInv` adds what `pc` says about the rest:
  `content` is the prefix of `Steps` up to `step`, the PDB and the image are in
  the state that belongs to the place in `T_main`. `HInv` builds on it: which
  handles cleanup has left at each of its steps, what the run may have touched
  where, and that an exit without error has been through all of cleanup, where
  all that can go wrong unseen is in `ignored`. Every action then maps to a step of `Publication` or to none.
* `EnumFieldsProofs`: `NumericRoundTrip`, `TypeCorrect`, `FitEverywhere`,
  `NoGaps`, `Chained`, `InsideBuffer`, `ReaderGetsAll` (`ReaderSeesEnum`). The
  invariant describes the list of records by their form: all but the last are
  closed and continued in the next, the last is open, with room for an LF_INDEX
  leaf, and ends at `fieldlistLength`; `allocDwarfTypes` covers the end of it.
  That a record has room for any single enumerator (`RoomAssumption`) is needed:
  otherwise the one that opens a record might not fit. `Complete` adds that what
  a reader would get at any time is what the cursor has passed, and that `count`
  counts it.
* `StructFieldsProofs`: `TypeCorrect`, `CursorStays` (`CursorAmongMembers`) and
  `AccessOwn` (`AccessFromOwnList`). They rest on what `DataLemmas` shows of the
  tree that a sequence of entries holds: `EndOfLevel` finds the entry that ends
  a level, no entry in between belongs to another parent, and therefore
  `readNext` with `gotoSibling` goes from a child to the next one or to the end,
  whether the DIE names its sibling or not. The invariant then is one sentence
  per frame of `calls` and one per leaf (`CallFits`, `LeafFits`).
* `ProcSymbolsProofs`: first of the functions that the DWARF symbols rest on.
  `DecodeSound`: for an expression of any length that has a meaning, the location
  that `decodeLocation` finds is that meaning in every process, or there is none,
  or the expression is one of those that depart (`Departs`): a difference of two
  addresses that is not 0, `pick`, a branch that is not taken, `mod` and `shr` of
  negative numbers, or more than one value left. After every operation each
  value on the one stack stands for the value at its place on the other
  (`Stands`); the least number of operations for which that fails gives the
  contradiction. `DecodeDeparts`: the exception is needed. For every register and
  any two offsets, the four expressions of `Departing`, one for the difference,
  `pick`, the branch and two values left, have a meaning in every process and are
  decoded to a location that is another one.
  `RangesCoverCode`: what `getRanges` returns is the code of the DIE, every
  address once, with the entry point in front; `ReadSoFar` and `SplitSoFar` say
  it of the entries read and of the ranges placed so far. `ReadNextReadsAll`:
  the cursor of `createTypes` comes to each DIE of a unit, since its level is
  the number of levels that are open where it is (`Level`), so that the null
  entries are passed as many at a time as levels end there, and it stops at the
  end and not before.

  Then `TypeCorrect` and `CodeAlwaysCovered` (`CodeCovered`) from `Inv`: the
  cursor is at its level, those of `addDWARFProc` are in the unit, the base
  address is the unit's once its first DIE has been read, and the symbols of code
  are those of the DIEs before the cursor (`CodeSymbols`): none of another, each
  part of each procedure, no part twice; the procedure that `addDWARFProc` is at
  has as yet only its first (`Busy`). Since the cursor gets to the end, the
  symbols are in the end those of all DIEs.

  Last `VariablesFound` (`VariablesWhereDwarfSays`), for every unit that is
  `Framed`. Its invariant, `InvScope`, says whose each symbol is: every one of
  the stack has the location that its DIE gives with the frame base and the
  frame address of the procedure around it (`Owned`). To be inductive it needs
  where the cursors may be: while parameters are read, no null entry has been
  passed (`AmongFirst`), so that the DIE is one of the procedure; later neither
  the cursor nor any that waits on the stack of blocks is within another
  procedure (`Stays`), which `readNext` preserves whether it enters children,
  goes on or passes null entries. What is left does not depend on the state.
  `CfaStands` runs the instructions of an FDE side by side as
  `CFACursor` does, up to the first restore, and as the standard does, up to an
  address: where the frame is set up both give the same register and offset.
  `FrameBaseIs` has the same for the one entry of the frame base's list, and
  `VariableStands` puts both into `DecodeSound`, which gives the address; at
  last `CvReg` is shown to give no two registers one number.
* `LineProgramProofs`: `TypeCorrect`, `RowsReachThePDB` (`RowsDelivered`) and
  `BlocksMeet` (`RangesMeet`). `matrix` is split in two: the blocks already in
  `added` stand for its first rows (`Blocks`), the rows that wait in `lineInfo`
  for the rest (`Pending`), provided that they lie in a section; rows outside
  of the image are in neither. Rows that wait go upwards and stay in the section
  of the first (`Ordered`), which is why one section and one file can be given
  for all of them, and `MayFollow` says where the last block has to end when the
  next one begins.
* `PEImageProofs`: `TypeCorrect`, `StaysAnImage` (`ImageWhole`) and
  `DirectoryIsFound` (`DirectoryResolves`), for all images, lengths and
  alignments that divide each other as they must. `Layout`, which every image
  has at first, is shown to hold of what `replaceDebugSection` makes: sections
  that ascend in the file are what makes it safe to cut the file off at the
  first one dropped, and sections that ascend in memory make `RVA` find the new
  one.
* `DataLemmas` holds what these share: division and remainders, the folds of
  sequences, and the tree that a sequence of entries holds.

The prover does not do induction over data, but what is defined by a recursive
function on numbers (`FlattenSeq`, a chain of records, `EndOfLevel`) can be
unfolded all the same: a function that satisfies the equation on an initial
part is extended by one step, and the least number for which there is none
(`NatLeast`) gives the contradiction.

Model-checked only:

* `Terminates`, since liveness and ENABLED are out of the prover's reach;
* `MembersInPlace`: its reference, `MembersOf`, recurs from a struct to the
  types of its members, which are ordered by nothing but the absence of cycles;
* `ScopesMirrorBlocks`: it counts the scopes that are open after every symbol,
  and needs an invariant that ties the symbols written so far to every cursor on
  the stack of blocks, one inside the other. The prover could do it; that proof
  is not done;
* `CodeView`: its types refer to each other and are searched by RECURSIVE
  operators, which the prover does not accept;
* the violations.

## What the violations say

Each quotes the repository in `PROJECT.json` under `findings`: the comment on
the cursor in `addDWARFFields` and the architecture document on
`data_bit_offset` for structs, the comment on the parameters in `addDWARFProc`,
and the comment on the file numbers of version 5 in `interpretDWARFLines`.

Other places where the code and what is said of it part, or where it goes wrong
and no comment says otherwise, met while modelling and not turned into runs:

* `cleanup` does not look at the result of `Commit` (`cv2pdb.cpp:77-78`), and
  `main` returns 0: the image may name a PDB that is not there.
  `SuccessHidesOnlyIgnored` shows that nothing else of the kind is hidden;
* `decodeLocation` gives another address than the standard for the expressions
  of `DecodeDeparts` (`readDwarf.cpp:229`, `313`, `327`, `363`);
* the loop that counts the parameters of a procedure tests `i` where it means
  `j` (`cv2pdb.cpp:3157`) and reads on behind the symbols, so that a procedure
  cut off there may lose parameters it should keep;
* a bitmap of lines that could not be completed is used as if it were
  (`cv2pdb.cpp:2708`): the range of a block may reach over the next one, if the
  start of that was not marked any more; and where the last line of a block
  lies outside of its segment, the 0 that `getNextSrcLine` returns for it is
  taken for an address, and the length of the block is negative
  (`cv2pdb.cpp:2840`);
* the asserts of `createTypes` (`dwarf2pdb.cpp:2160`, `2166`) that tie `typeID`
  to both counters hold only while every DIE makes one record; one struct
  breaks them, and `BITFIELD_CHANGES.md:390-407` on ids and the order of the
  buffers holds only without a field list of an enum behind a struct;
* "no more space in field list" (`dwarf2pdb.cpp:1053`) is not what the test there
  finds: it subtracts `flStart`, a position in `userTypes`
  (`dwarf2pdb.cpp:1222`), from `cbDwarfTypes`, a position in the other buffer;
* with a separate debug file the image that is written may be that file
  (`main.cpp:259`) where `README.MD` says executable, and a linked file with
  CodeView is accepted and then not used (`main.cpp:266-270`);
* a field list with LF_FRIENDFCN_V2 is read for ever (`cv2pdb.cpp:641`), which
  is the state `looping` of `CvTypes`.

## Plan

Done: all modules of the diagram, and proofs for every component but CodeView.
What would add most now: of `ProcSymbols`, that the scopes mirror the blocks, for
which the lemmas on the tree in `DataLemmas` are the ground; of `CodeView`, its
lines (`CvLines` has no recursion) and, with searches written as functions, the
references of its types. `MembersInPlace` needs an order of the structs as an
assumption on the units.

## Not modelled

The abbreviation table, attribute forms and LEB128 (parsers without state of
their own) and the links of DIEs into a tree, which only qualified names read;
the layout of bytes in records beyond sizes and positions, and with it the
64 kB test of `addDWARFFields`; the 32 bits of the numbers in `decodeLocation`; names, demangling and the compression of D
symbols; what flags that are constants switch off; relocations of object files;
the search for the PDB library; debug output; the parsing of the command line;
`dumplines`, the debugger add-in and the managed build.
