-------------------------- MODULE LineProgramProofs --------------------------
(***************************************************************************)
(* Theorems about LineProgram, for programs of any length and number over  *)
(* any headers, in an image with any sections.                             *)
(***************************************************************************)
EXTENDS LineProgram, DataLemmas, SequenceTheorems, TLAPS

LEMMA Words ==
  /\ Word \in Nat \ {0} /\ LineWord \in Nat \ {0} /\ TextBase \in 1 .. Word - 1
  /\ Sections \in Seq([lo : Nat, hi : 0 .. Word - 1])
<1>1. Word \in Nat /\ LineWord \in Nat \ {0} /\ TextBase \in 1 .. Word - 1
  BY LineAssumption, Zenon
<1>2. Sections \in Seq([lo : Nat, hi : 0 .. Word - 1])
  BY LineAssumption, Zenon
<1> QED
  BY <1>1, <1>2

LEMMA Operands ==
  /\ Advances \subseteq Nat /\ LineSteps \subseteq Int /\ FileNumbers \subseteq Nat
  /\ Targets \subseteq 0 .. Word - 1 /\ Headers \subseteq Header /\ "" \in Names
BY LineAssumption, Zenon

LEMMA Wraps ==
  ASSUME NEW n \in Int
  PROVE  /\ Wrap(n) \in 0 .. Word - 1
         /\ n \in 0 .. Word - 1 => Wrap(n) = n
         /\ n \in -Word .. -1 => Wrap(n) = n + Word
         /\ n \in Word .. 2 * Word - 1 => Wrap(n) = n - Word
BY Words, Remainders DEF Wrap

LEMMA SectionFound ==
  ASSUME NEW a \in Nat
  PROVE  SectionOf(a) \in Nat /\ (SectionOf(a) # 0 => SectionOf(a) \in DOMAIN Sections)
<1>1. SectionsAt(a) \in SUBSET Nat /\ SectionsAt(a) \subseteq DOMAIN Sections
  BY Words DEF SectionsAt
<1>2. CASE SectionsAt(a) = {}
  BY <1>2 DEF SectionOf
<1>3. CASE SectionsAt(a) # {}
  <2> DEFINE c == CHOOSE s \in SectionsAt(a) : \A t \in SectionsAt(a) : s <= t
  <2>1. c \in SectionsAt(a)
    BY <1>1, <1>3, NatLeast, Zenon
  <2>2. SectionOf(a) = c
    BY <1>3 DEF SectionOf
  <2> HIDE DEF c
  <2> QED
    BY <1>1, <2>1, <2>2
<1> QED
  BY <1>2, <1>3

(* A path is made of names.                                                *)
LEMMA PathType ==
  ASSUME NEW h \in Header, NEW f \in File
  PROVE  Path(h, f) \in Seq(Names)
<1>1. f.name \in Names /\ <<f.name>> \in Seq(Names)
  BY DEF File
<1>2. \A i \in DOMAIN h.dirs : IncludeDirs(h)[i] \in Seq(Names)
  <2> SUFFICES ASSUME NEW i \in DOMAIN h.dirs PROVE IncludeDirs(h)[i] \in Seq(Names)
    OBVIOUS
  <2>1. h.dirs \in Seq(Dir) /\ DOMAIN h.dirs = 1 .. Len(h.dirs)
    BY DEF Header
  <2>2. i \in 1 .. Len(h.dirs) /\ 1 \in 1 .. Len(h.dirs)
    BY <2>1
  <2>3. h.dirs[1] \in Dir /\ h.dirs[i] \in Dir
    BY <2>1, <2>2, ElementOfSeq
  <2>4. h.dirs[1].name \in Names /\ h.dirs[i].name \in Names
    BY <2>3 DEF Dir
  <2>5. /\ <<h.dirs[1].name, h.dirs[i].name>> \in Seq(Names)
        /\ <<h.dirs[i].name>> \in Seq(Names)
    BY <2>4
  <2>6. \/ IncludeDirs(h)[i] = <<h.dirs[1].name, h.dirs[i].name>>
        \/ IncludeDirs(h)[i] = <<h.dirs[i].name>>
    BY DEF IncludeDirs
  <2> QED
    BY <2>5, <2>6
<1>3. CASE f.relative /\ f.dir \in DOMAIN h.dirs
  <2>1. Path(h, f) = Append(IncludeDirs(h)[f.dir], f.name)
    BY <1>3 DEF Path
  <2>2. IncludeDirs(h)[f.dir] \in Seq(Names)
    BY <1>2, <1>3
  <2> HIDE DEF IncludeDirs
  <2> QED
    BY <1>1, <2>1, <2>2
<1>4. CASE ~(f.relative /\ f.dir \in DOMAIN h.dirs)
  BY <1>1, <1>4 DEF Path
<1> QED
  BY <1>3, <1>4

(* A file of a table is one after its directory was biased.                *)
LEMMA TableFileType ==
  ASSUME NEW h \in Header, NEW n \in DOMAIN h.files
  PROVE  TableFile(h, n) \in File
<1>1. h.files \in Seq(File)
  BY DEF Header
<1>2. h.files[n] \in File
  <2> HIDE DEF File
  <2> QED
    BY <1>1
<1> QED
  BY <1>2 DEF TableFile, File

-----------------------------------------------------------------------------
(***************************************************************************)
(* The rows of the blocks.                                                 *)
(***************************************************************************)
Delivery == [address : Nat, line : Nat, path : Seq(Names), section : DOMAIN Sections]

LEMMA RowsOfFacts ==
  ASSUME NEW b \in BlockType
  PROVE  RowsOf(b) \in Seq(Delivery) /\ Len(RowsOf(b)) = Len(b.entries)
<1> DEFINE E == [offset : Nat, line : 0 .. LineWord - 1]
<1>1. /\ b.entries \in Seq(E) /\ b.section \in DOMAIN Sections /\ b.offset \in Nat
      /\ b.line \in Nat /\ b.path \in Seq(Names)
  BY DEF BlockType
<1>2. DOMAIN b.entries = 1 .. Len(b.entries) /\ Len(b.entries) \in Nat
  BY <1>1
<1>3. Sections[b.section].lo \in Nat
  <2>1. b.section \in 1 .. Len(Sections)
    BY <1>1, Words
  <2>2. Sections[b.section] \in [lo : Nat, hi : 0 .. Word - 1]
    BY <2>1, Words, ElementOfSeq
  <2> QED
    BY <2>2
<1>4. \A i \in DOMAIN b.entries : RowsOf(b)[i] \in Delivery
  <2> SUFFICES ASSUME NEW i \in DOMAIN b.entries PROVE RowsOf(b)[i] \in Delivery
    OBVIOUS
  <2>1. b.entries[i] \in E
    BY <1>1, <1>2, ElementOfSeq
  <2>2. b.entries[i].offset \in Nat /\ b.entries[i].line \in Nat
    BY <2>1, Words
  <2>3. RowsOf(b)[i] =
          [address |-> Sections[b.section].lo + b.offset + b.entries[i].offset,
           line |-> b.line + b.entries[i].line, path |-> b.path,
           section |-> b.section]
    BY DEF RowsOf
  <2>4. /\ Sections[b.section].lo + b.offset + b.entries[i].offset \in Nat
        /\ b.line + b.entries[i].line \in Nat
    <3>1. \A x, y, z \in Nat : x + y + z \in Nat /\ x + y \in Nat
      OBVIOUS
    <3>2. b.offset \in Nat /\ b.line \in Nat
      BY <1>1
    <3> QED
      BY <1>3, <2>2, <3>1, <3>2, Zenon
  <2> QED
    BY <1>1, <2>3, <2>4 DEF Delivery
<1>5. RowsOf(b) \in [1 .. Len(b.entries) -> Delivery]
  <2>1. RowsOf(b) = [i \in 1 .. Len(b.entries) |-> RowsOf(b)[i]]
    BY <1>2 DEF RowsOf
  <2> QED
    BY <1>2, <1>4, <2>1
<1> QED
  BY <1>2, <1>5

RowsIn(blocks, n) == FlattenSeq([i \in 1 .. n |-> RowsOf(blocks[i])])
Rows(blocks)      == RowsIn(blocks, Len(blocks))

LEMMA RowsInFacts ==
  ASSUME NEW bs \in Seq(BlockType), NEW n \in 0 .. Len(bs)
  PROVE  /\ RowsIn(bs, n) \in Seq(Delivery)
         /\ n = 0 => RowsIn(bs, n) = <<>>
         /\ n < Len(bs) => RowsIn(bs, n + 1) = RowsIn(bs, n) \o RowsOf(bs[n + 1])
<1> DEFINE R(k) == [i \in 1 .. k |-> RowsOf(bs[i])]
<1>1. \A i \in 1 .. Len(bs) : RowsOf(bs[i]) \in Seq(Delivery)
  BY ElementOfSeq, RowsOfFacts
<1>2. \A k \in 0 .. Len(bs) : R(k) \in Seq(Seq(Delivery)) /\ Len(R(k)) = k
  <2> SUFFICES ASSUME NEW k \in 0 .. Len(bs)
               PROVE  R(k) \in Seq(Seq(Delivery)) /\ Len(R(k)) = k
    OBVIOUS
  <2>1. \A i \in 1 .. k : RowsOf(bs[i]) \in Seq(Delivery)
    BY <1>1
  <2> HIDE DEF Delivery
  <2> QED
    BY <2>1
<1>3. n = 0 => R(n) = <<>>
  OBVIOUS
<1>4. n < Len(bs) => R(n + 1) = Append(R(n), RowsOf(bs[n + 1]))
  OBVIOUS
<1>5. n < Len(bs) => RowsOf(bs[n + 1]) \in Seq(Delivery)
  BY <1>1
<1>6. \A k \in 0 .. Len(bs) : RowsIn(bs, k) = FlattenSeq(R(k))
  BY DEF RowsIn
<1> HIDE DEF R
<1>7. RowsIn(bs, n) \in Seq(Delivery)
  <2>1. <<>> \in Seq(Delivery)
    OBVIOUS
  <2>2. R(n) \in Seq(Seq(Delivery)) /\ RowsIn(bs, n) = FlattenSeq(R(n))
    BY <1>2, <1>6
  <2>3. FlattenSeq(R(n)) \in Seq(Delivery)
    BY <2>1, <2>2, FlattenAppend, Zenon
  <2> QED
    BY <2>2, <2>3
<1>8. n = 0 => RowsIn(bs, n) = <<>>
  BY <1>3, <1>6, FlattenEmpty
<1>9. ASSUME n < Len(bs) PROVE RowsIn(bs, n + 1) = RowsIn(bs, n) \o RowsOf(bs[n + 1])
  <2>1. n + 1 \in 0 .. Len(bs) /\ n \in 0 .. Len(bs)
    BY <1>9
  <2>2. RowsIn(bs, n + 1) = FlattenSeq(R(n + 1)) /\ RowsIn(bs, n) = FlattenSeq(R(n))
    BY <2>1, <1>6
  <2>3. R(n) \in Seq(Seq(Delivery)) /\ RowsOf(bs[n + 1]) \in Seq(Delivery)
        /\ R(n + 1) = Append(R(n), RowsOf(bs[n + 1]))
    BY <1>2, <1>4, <1>5, <1>9
  <2>4. FlattenSeq(Append(R(n), RowsOf(bs[n + 1])))
          = FlattenSeq(R(n)) \o RowsOf(bs[n + 1])
    BY <2>3, FlattenAppend, Zenon
  <2> QED
    BY <2>2, <2>3, <2>4
<1> QED
  BY <1>7, <1>8, <1>9

(* One more block adds its rows to those of the others.                    *)
LEMMA RowsGrow ==
  ASSUME NEW bs \in Seq(BlockType), NEW b \in BlockType
  PROVE  /\ \A n \in 0 .. Len(bs) : RowsIn(Append(bs, b), n) = RowsIn(bs, n)
         /\ Rows(Append(bs, b)) = Rows(bs) \o RowsOf(b)
<1> DEFINE cs == Append(bs, b)
<1>1. /\ cs \in Seq(BlockType) /\ Len(cs) = Len(bs) + 1 /\ Len(bs) \in Nat
      /\ \A i \in 1 .. Len(bs) : cs[i] = bs[i]
      /\ cs[Len(bs) + 1] = b
  OBVIOUS
<1> HIDE DEF cs
<1>2. ASSUME NEW n \in 0 .. Len(bs) PROVE RowsIn(cs, n) = RowsIn(bs, n)
  <2>1. \A i \in 1 .. n : cs[i] = bs[i]
    BY <1>1
  <2>2. [i \in 1 .. n |-> RowsOf(cs[i])] = [i \in 1 .. n |-> RowsOf(bs[i])]
    BY <2>1
  <2> QED
    BY <2>2 DEF RowsIn
<1>3. RowsIn(cs, Len(bs) + 1) = RowsIn(cs, Len(bs)) \o RowsOf(b)
  <2>1. Len(bs) \in 0 .. Len(cs) /\ Len(bs) < Len(cs)
    BY <1>1
  <2> QED
    BY <1>1, <2>1, RowsInFacts
<1>4. RowsIn(cs, Len(bs)) = RowsIn(bs, Len(bs))
  BY <1>1, <1>2
<1>5. Rows(cs) = Rows(bs) \o RowsOf(b)
  BY <1>1, <1>3, <1>4 DEF Rows
<1> QED
  BY <1>2, <1>5 DEF cs

-----------------------------------------------------------------------------
(***************************************************************************)
(* The inductive invariant.  It relates the rows that are pending to the   *)
(* end of the history, the blocks to its beginning, and says how a block   *)
(* may still be followed: these are the parts that RowsDelivered and       *)
(* RangesMeet do not speak of, as they see the blocks only.                *)
(***************************************************************************)
MatrixRow ==
  [address : 0 .. Word - 1, line : Nat, sequence : Nat, file : Nat,
   exact : BOOLEAN, meant : Seq(Names)]
PendingRow == [offset : 0 .. Word - 1, line : 0 .. LineWord - 1]

LEMMA NoRows == <<>> \in Seq(PendingRow)
OBVIOUS

HistoryOK == matrix \in Seq(MatrixRow) /\ sequence \in Nat /\ numbered \in BOOLEAN

Address(e) == e.offset + TextBase
Placed(li) == li # <<>> /\ SectionOf(Address(li[1])) # 0

(* The rows that are pending go upwards, and are all in the first's section. *)
Ordered(li) ==
  /\ \A i, j \in DOMAIN li : i <= j => li[i].offset <= li[j].offset
  /\ \A i \in DOMAIN li : /\ Address(li[i]) < Word
                          /\ SectionOf(Address(li[i])) = SectionOf(Address(li[1]))

(* Row r of the history is the one kept as e.                              *)
Meant(h, n) == IF n \in DOMAIN h.files THEN Path(h, TableFile(h, n)) ELSE <<>>
StandsFor(r, e, n, low, seq, h) ==
  /\ r.address = Address(e) /\ r.line = low + e.line
  /\ r.sequence = seq /\ r.file = n
  /\ r.exact => r.meant = Meant(h, n)

(* What RowsDelivered says of one row, and RangesMeet of a block.          *)
Answers(d, r) ==
  /\ d.line = r.line
  /\ d.section = SectionOf(r.address)
  /\ InText(d) => d.address = r.address
  /\ (r.exact /\ r.file # 0) => d.path = r.meant
FirstOf(bs, m, i) == m[Len(RowsIn(bs, i - 1)) + 1]
Meets(bs, m, i) ==
  /\ End(bs[i]) >= LastOf(bs[i])
  /\ (/\ i < Len(bs) /\ FirstOf(bs, m, i).sequence = FirstOf(bs, m, i + 1).sequence
      /\ bs[i + 1].offset >= LastOf(bs[i])) => End(bs[i]) = bs[i + 1].offset

(* The blocks bs have the first rows of the history m, at least one each.  *)
Blocks(bs, m) ==
  /\ Len(Rows(bs)) <= Len(m)
  /\ \A k \in 1 .. Len(Rows(bs)) : Answers(Rows(bs)[k], m[k])
  /\ \A i \in DOMAIN bs : /\ Len(RowsIn(bs, i - 1)) + 1 \in 1 .. Len(Rows(bs))
                          /\ Meets(bs, m, i)

(* The last block may be followed by one of the same sequence that begins  *)
(* at offset o.                                                            *)
MayFollow(o, bs, m, seq) ==
  (bs # <<>> /\ FirstOf(bs, m, Len(bs)).sequence = seq /\ o >= LastOf(bs[Len(bs)])) =>
    End(bs[Len(bs)]) = o

(* The pending rows li are the others.                                     *)
Pending(li, n, low, bs, m, seq, h) ==
  /\ Ordered(li)
  /\ Len(m) = Len(Rows(bs)) + (IF Placed(li) THEN Len(li) ELSE 0)
  /\ Placed(li) => /\ \A i \in DOMAIN li :
                         StandsFor(m[Len(Rows(bs)) + i], li[i], n, low, seq, h)
                   /\ MayFollow(li[1].offset, bs, m, seq)
  /\ \A k \in DOMAIN m : /\ m[k].sequence <= seq
                         /\ ~Placed(li) => m[k].sequence < seq

Consistent ==
  /\ lineInfo # <<>> => pc = "program"
  /\ Blocks(added, matrix)
  /\ Pending(lineInfo, lineInfoFile, lowLine, added, matrix, sequence, header)

IInv == TypeOK /\ HistoryOK /\ (pc # "failed" => Consistent)

-----------------------------------------------------------------------------
(***************************************************************************)
(* A block.                                                                *)
(***************************************************************************)

(* The terms of the code, in those of the invariant.                       *)
LEMMA PendingTerms ==
  ASSUME TypeOK, Ordered(lineInfo), lineInfo # <<>>
  PROVE  /\ Len(lineInfo) \in Nat \ {0} /\ 1 \in DOMAIN lineInfo
         /\ Len(lineInfo) \in DOMAIN lineInfo /\ DOMAIN lineInfo = 1 .. Len(lineInfo)
         /\ \A i \in DOMAIN lineInfo : /\ lineInfo[i] \in PendingRow
                                       /\ lineInfo[i].offset \in 0 .. Word - 1
                                       /\ lineInfo[i].line \in 0 .. LineWord - 1
                                       /\ lineInfo[i].offset <= LastOffset
                                       /\ LowOffset <= lineInfo[i].offset
         /\ Wrap(LowOffset + TextBase) = Address(lineInfo[1])
         /\ Wrap(LastOffset + TextBase) = Address(lineInfo[Len(lineInfo)])
         /\ Address(lineInfo[1]) \in 0 .. Word - 1
         /\ SectionOf(Address(lineInfo[Len(lineInfo)])) = SectionOf(Address(lineInfo[1]))
         /\ Placed(lineInfo) <=> ~Invalid
<1>1. lineInfo \in Seq(PendingRow)
  BY DEF TypeOK, PendingRow
<1>2. /\ Len(lineInfo) \in Nat \ {0} /\ 1 \in DOMAIN lineInfo
      /\ Len(lineInfo) \in DOMAIN lineInfo /\ DOMAIN lineInfo = 1 .. Len(lineInfo)
  BY <1>1
<1>3. \A i \in DOMAIN lineInfo : lineInfo[i] \in PendingRow
  BY <1>1, <1>2, ElementOfSeq
<1>4. \A i \in DOMAIN lineInfo : /\ lineInfo[i].offset \in 0 .. Word - 1
                                 /\ lineInfo[i].line \in 0 .. LineWord - 1
  BY <1>3 DEF PendingRow
<1>5. \A i \in DOMAIN lineInfo : /\ lineInfo[i].offset <= LastOffset
                                 /\ LowOffset <= lineInfo[i].offset
  BY <1>2 DEF Ordered, LastOffset, LowOffset
<1>6. \A i \in DOMAIN lineInfo : /\ Address(lineInfo[i]) \in 0 .. Word - 1
                                 /\ Wrap(lineInfo[i].offset + TextBase) = Address(lineInfo[i])
  <2> SUFFICES ASSUME NEW i \in DOMAIN lineInfo
               PROVE  /\ Address(lineInfo[i]) \in 0 .. Word - 1
                      /\ Wrap(lineInfo[i].offset + TextBase) = Address(lineInfo[i])
    OBVIOUS
  <2>1. Address(lineInfo[i]) < Word /\ Address(lineInfo[i]) = lineInfo[i].offset + TextBase
    BY DEF Ordered, Address
  <2>2. lineInfo[i].offset + TextBase \in 0 .. Word - 1
    BY <1>4, <2>1, Words
  <2> QED
    BY <2>1, <2>2, Wraps
<1>7. SectionOf(Address(lineInfo[Len(lineInfo)])) = SectionOf(Address(lineInfo[1]))
  BY <1>2 DEF Ordered
<1>8. /\ Wrap(LowOffset + TextBase) = Address(lineInfo[1])
      /\ Wrap(LastOffset + TextBase) = Address(lineInfo[Len(lineInfo)])
      /\ Address(lineInfo[1]) \in 0 .. Word - 1
  BY <1>2, <1>6 DEF LowOffset, LastOffset
<1>9. Placed(lineInfo) <=> ~Invalid
  BY <1>8 DEF Placed, Invalid
<1> QED
  BY <1>2, <1>3, <1>4, <1>5, <1>7, <1>8, <1>9

LEMMA HighFacts ==
  ASSUME TypeOK, Ordered(lineInfo), lineInfo # <<>>, NEW a \in 0 .. Word - 1
  PROVE  /\ High(a) \in 0 .. Word - 1 /\ LastOffset <= High(a)
         /\ a >= TextBase /\ a - TextBase >= LastOffset => High(a) = a - TextBase
<1>1. LastOffset \in 0 .. Word - 1
  BY PendingTerms DEF LastOffset
<1>2. /\ Wrap(a - TextBase) \in 0 .. Word - 1
      /\ a >= TextBase => Wrap(a - TextBase) = a - TextBase
  BY Words, Wraps
<1> QED
  BY <1>1, <1>2, Words DEF High

(* A range that is closed, or ends before it begins, in unsigned numbers.  *)
LEMMA RangeEnd ==
  ASSUME NEW lo \in 0 .. Word - 1, NEW hi \in 0 .. Word - 1, lo <= hi
  PROVE  /\ Wrap(hi - 1 - lo) \in 0 .. Word - 1
         /\ Wrap(lo + Wrap(hi - 1 - lo) + 1) = hi
<1>1. PICK x \in -1 .. Word - 1 : x = hi - 1 - lo
  BY Words
<1>2. PICK len \in 0 .. Word - 1 :
        /\ len = Wrap(x)
        /\ x \in 0 .. Word - 1 => len = x
        /\ x \in -Word .. -1 => len = x + Word
  BY Wraps, Words
<1>3. PICK y \in Int : y = lo + len + 1
  BY Words
<1>4. /\ y \in 0 .. Word - 1 => Wrap(y) = y
      /\ y \in Word .. 2 * Word - 1 => Wrap(y) = y - Word
  BY Wraps
<1>5. Wrap(y) = hi
  BY <1>1, <1>2, <1>3, <1>4, Words, SMTT(30)
<1>6. Wrap(hi - 1 - lo) = len /\ Wrap(lo + len + 1) = Wrap(y)
  BY <1>1, <1>2, <1>3, Zenon
<1> QED
  BY <1>5, <1>6

LEMMA BlockFacts ==
  ASSUME TypeOK, HistoryOK, Ordered(lineInfo), Placed(lineInfo),
         FileKnown(header, lineInfoFile), NEW a \in 0 .. Word - 1
  PROVE  /\ Block(a) \in BlockType
         /\ Block(a).offset = LowOffset /\ LastOf(Block(a)) = LastOffset
         /\ End(Block(a)) = High(a)
         /\ Len(RowsOf(Block(a))) = Len(lineInfo)
         /\ \A i \in DOMAIN lineInfo, r \in MatrixRow :
              StandsFor(r, lineInfo[i], lineInfoFile, lowLine, sequence, header) =>
                Answers(RowsOf(Block(a))[i], r)
<1> DEFINE b == Block(a)
           s == SectionOf(Address(lineInfo[1]))
           E == [offset : Nat, line : 0 .. LineWord - 1]
           len == Wrap(High(a) - 1 - LowOffset)
<1>0. lineInfo # <<>>
  BY DEF Placed
<1>1. s # 0 /\ s \in DOMAIN Sections /\ SectionOf(Wrap(LowOffset + TextBase)) = s
  BY <1>0, PendingTerms, SectionFound DEF Placed
<1>2. LowOffset \in 0 .. Word - 1 /\ LastOffset \in 0 .. Word - 1 /\ LowOffset <= LastOffset
  BY <1>0, PendingTerms DEF LowOffset, LastOffset
<1>3. High(a) \in 0 .. Word - 1 /\ LastOffset <= High(a)
  BY <1>0, HighFacts
<1>4. len \in 0 .. Word - 1 /\ Wrap(LowOffset + len + 1) = High(a)
  BY <1>2, <1>3, RangeEnd
<1> DEFINE f == FileEntry(header, lineInfoFile, curFile)
           es == [i \in DOMAIN lineInfo |-> [offset |-> lineInfo[i].offset - LowOffset,
                                            line   |-> lineInfo[i].line]]
<1>5. header \in Header /\ f \in File
  <2>1. header \in Header /\ curFile \in File
    BY LineAssumption DEF TypeOK
  <2>2. lineInfoFile # 0 => TableFile(header, lineInfoFile) \in File
    BY <2>1, TableFileType, Zenon DEF FileKnown
  <2> QED
    BY <2>1, <2>2 DEF FileEntry
<1>6. Path(header, f) \in Seq(Names)
  BY <1>5, PathType
<1>7. /\ b.section = s /\ b.path = Path(header, f) /\ b.offset = LowOffset
      /\ b.length = len /\ b.line = lowLine /\ b.entries = es
      /\ b = [section |-> s, path |-> Path(header, f), offset |-> LowOffset,
             length |-> len, line |-> lowLine, entries |-> es]
  BY <1>1 DEF Block
<1>8. es \in Seq(E) /\ Len(es) = Len(lineInfo)
  <2>1. DOMAIN lineInfo = 1 .. Len(lineInfo) /\ Len(lineInfo) \in Nat
    BY <1>0, PendingTerms
  <2>2. \A i \in 1 .. Len(lineInfo) :
          /\ lineInfo[i].offset - LowOffset \in Nat
          /\ lineInfo[i].line \in 0 .. LineWord - 1
    <3> SUFFICES ASSUME NEW i \in 1 .. Len(lineInfo)
                 PROVE  /\ lineInfo[i].offset - LowOffset \in Nat
                        /\ lineInfo[i].line \in 0 .. LineWord - 1
      OBVIOUS
    <3>1. /\ lineInfo[i].offset \in 0 .. Word - 1 /\ lineInfo[i].line \in 0 .. LineWord - 1
          /\ LowOffset <= lineInfo[i].offset
      BY <1>0, <2>1, PendingTerms
    <3> QED
      BY <1>2, <3>1
  <2>3. es \in [1 .. Len(lineInfo) -> E]
    BY <2>1, <2>2
  <2> QED
    BY <2>1, <2>3
<1>9. b \in BlockType
  <2>1. lowLine \in Nat /\ LowOffset \in Nat
    BY <1>2 DEF TypeOK
  <2> HIDE DEF b, s, f, es, len
  <2>2. b \in [section : DOMAIN Sections, path : Seq(Names), offset : Nat,
               length : 0 .. Word - 1, line : Nat, entries : Seq(E)]
    BY <1>1, <1>4, <1>6, <1>7, <1>8, <2>1
  <2> QED
    BY <2>2 DEF BlockType
<1>10. LastOf(b) = LastOffset
  <2>1. Len(lineInfo) \in DOMAIN lineInfo
    BY <1>0, PendingTerms
  <2>2. es[Len(es)].offset = LastOffset - LowOffset
    BY <1>8, <2>1 DEF LastOffset
  <2> HIDE DEF es, b
  <2> QED
    BY <1>2, <1>7, <2>2 DEF LastOf
<1>11. End(b) = High(a)
  <2> HIDE DEF b, len
  <2> QED
    BY <1>4, <1>7 DEF End
<1>12. Len(RowsOf(b)) = Len(lineInfo)
  <2> HIDE DEF b, es
  <2> QED
    BY <1>7, <1>8, <1>9, RowsOfFacts
<1>13. ASSUME NEW i \in DOMAIN lineInfo, NEW r \in MatrixRow,
              StandsFor(r, lineInfo[i], lineInfoFile, lowLine, sequence, header)
       PROVE  Answers(RowsOf(b)[i], r)
  <2> DEFINE d == RowsOf(b)[i]
  <2>1. /\ es[i].offset = lineInfo[i].offset - LowOffset /\ es[i].line = lineInfo[i].line
        /\ i \in DOMAIN es
    OBVIOUS
  <2>2. /\ d.address = Sections[s].lo + LowOffset + es[i].offset
        /\ d.line = lowLine + es[i].line /\ d.path = Path(header, f) /\ d.section = s
    <3> HIDE DEF b, es, s, f
    <3> QED
      BY <1>7, <2>1 DEF RowsOf
  <2>3. SectionOf(Address(lineInfo[i])) = s
    BY DEF Ordered
  <2>4. d.line = r.line /\ d.section = SectionOf(r.address)
    <3> HIDE DEF d, s, es
    <3> QED
      BY <1>13, <2>1, <2>2, <2>3 DEF StandsFor
  <2>5. ASSUME InText(d) PROVE d.address = r.address
    <3>1. lineInfo[i].offset \in 0 .. Word - 1
      BY <1>0, PendingTerms
    <3>2. r.address = lineInfo[i].offset + TextBase
      BY <1>13 DEF StandsFor, Address
    <3>3. Sections[s].lo = TextBase
      BY <2>2, <2>5, Zenon DEF InText
    <3>4. d.address = TextBase + LowOffset + (lineInfo[i].offset - LowOffset)
      BY <2>1, <2>2, <3>3, Zenon
    <3> HIDE DEF d, s, es
    <3> QED
      BY <1>2, <3>1, <3>2, <3>4, Words
  <2>6. (r.exact /\ r.file # 0) => d.path = r.meant
    <3> HIDE DEF d
    <3> QED
      BY <1>13, <2>2 DEF StandsFor, Meant, FileKnown, FileEntry
  <2> QED
    BY <2>4, <2>5, <2>6 DEF Answers
<1> QED
  BY <1>7, <1>9, <1>10, <1>11, <1>12, <1>13

-----------------------------------------------------------------------------
(***************************************************************************)
(* A block is handed over.                                                 *)
(***************************************************************************)

(* Where the first row of a block is.                                      *)
LEMMA FirstRows ==
  ASSUME NEW bs \in Seq(BlockType), NEW m \in Seq(MatrixRow), Blocks(bs, m),
         NEW i \in 1 .. Len(bs)
  PROVE  /\ Len(RowsIn(bs, i - 1)) + 1 \in 1 .. Len(Rows(bs))
         /\ Len(RowsIn(bs, i - 1)) + 1 \in 1 .. Len(m)
         /\ FirstOf(bs, m, i) \in MatrixRow
<1>1. Len(RowsIn(bs, i - 1)) + 1 \in 1 .. Len(Rows(bs)) /\ Len(Rows(bs)) <= Len(m)
  <2>1. i \in DOMAIN bs
    OBVIOUS
  <2> QED
    BY <2>1, Zenon DEF Blocks
<1>2. Len(bs) \in 0 .. Len(bs) /\ Len(m) \in Nat
  OBVIOUS
<1>3. Rows(bs) \in Seq(Delivery)
  BY <1>2, RowsInFacts DEF Rows
<1>4. Len(Rows(bs)) \in Nat
  BY <1>3, LenProperties
<1>5. Len(RowsIn(bs, i - 1)) + 1 \in 1 .. Len(m)
  BY <1>1, <1>2, <1>4
<1> QED
  BY <1>1, <1>5, ElementOfSeq DEF FirstOf

LEMMA BlocksGrow ==
  ASSUME IInv, pc # "failed", Placed(lineInfo), FileKnown(header, lineInfoFile),
         NEW a \in 0 .. Word - 1
  PROVE  /\ Append(added, Block(a)) \in Seq(BlockType)
         /\ Blocks(Append(added, Block(a)), matrix)
         /\ Len(matrix) = Len(Rows(Append(added, Block(a))))
<1> DEFINE b  == Block(a)
           bs == Append(added, b)
           n  == Len(added)
           c  == Len(Rows(added))
           len == Len(lineInfo)
<1>1. /\ TypeOK /\ HistoryOK /\ Blocks(added, matrix) /\ Ordered(lineInfo)
      /\ Pending(lineInfo, lineInfoFile, lowLine, added, matrix, sequence, header)
      /\ lineInfo # <<>>
  BY DEF IInv, Consistent, Pending, Placed
<1>2. /\ b \in BlockType /\ b.offset = LowOffset /\ LastOf(b) = LastOffset
      /\ End(b) = High(a) /\ Len(RowsOf(b)) = len
  BY <1>1, BlockFacts
<1>3. /\ added \in Seq(BlockType) /\ n \in Nat /\ matrix \in Seq(MatrixRow)
      /\ n \in 0 .. n
  BY <1>1 DEF TypeOK, HistoryOK
<1>4. len \in Nat \ {0} /\ 1 \in DOMAIN lineInfo /\ DOMAIN lineInfo = 1 .. len
  BY <1>1, PendingTerms
<1> HIDE DEF b
<1>5. /\ bs \in Seq(BlockType) /\ Len(bs) = n + 1 /\ bs[n + 1] = b
      /\ \A i \in 1 .. n : bs[i] = added[i]
  BY <1>2, <1>3
<1>6. /\ \A k \in 0 .. n : RowsIn(bs, k) = RowsIn(added, k)
      /\ Rows(bs) = Rows(added) \o RowsOf(b)
  BY <1>2, <1>3, RowsGrow
<1>7. Rows(added) \in Seq(Delivery) /\ c \in Nat /\ RowsOf(b) \in Seq(Delivery)
  <2>1. Rows(added) \in Seq(Delivery)
    BY <1>3, RowsInFacts DEF Rows
  <2> HIDE DEF Delivery
  <2> QED
    BY <1>2, <2>1, RowsOfFacts, LenProperties
<1>8. Len(Rows(bs)) = c + len /\ Len(matrix) = c + len
  <2>1. Len(Rows(bs)) = c + len
    <3>1. Len(Rows(added) \o RowsOf(b)) = Len(Rows(added)) + Len(RowsOf(b))
      BY <1>7, ConcatProperties, Zenon
    <3> QED
      BY <1>2, <1>6, <3>1
  <2> QED
    BY <1>1, <2>1 DEF Pending
<1> HIDE DEF bs
<1>9. ASSUME NEW k \in 1 .. Len(Rows(bs)) PROVE Answers(Rows(bs)[k], matrix[k])
  <2>1. Rows(bs)[k] = IF k <= c THEN Rows(added)[k] ELSE RowsOf(b)[k - c]
    <3>1. \A i \in 1 .. Len(Rows(added)) + Len(RowsOf(b)) :
            (Rows(added) \o RowsOf(b))[i]
              = IF i <= Len(Rows(added)) THEN Rows(added)[i]
                ELSE RowsOf(b)[i - Len(Rows(added))]
      BY <1>7, ConcatProperties, Zenon
    <3> QED
      BY <1>2, <1>6, <1>8, <3>1
  <2>2. CASE k <= c
    <3>1. k \in 1 .. c
      BY <1>7, <2>2
    <3>2. Answers(Rows(added)[k], matrix[k])
      BY <1>1, <3>1, Zenon DEF Blocks
    <3> QED
      BY <2>1, <2>2, <3>2
  <2>3. CASE ~(k <= c)
    <3>1. k - c \in DOMAIN lineInfo /\ c + (k - c) = k /\ k \in 1 .. Len(matrix)
      BY <1>4, <1>7, <1>8, <2>3
    <3>2. matrix[k] \in MatrixRow
      BY <1>3, <3>1, ElementOfSeq
    <3>3. StandsFor(matrix[c + (k - c)], lineInfo[k - c], lineInfoFile, lowLine, sequence,
                    header)
      BY <1>1, <3>1, Zenon DEF Pending
    <3>4. StandsFor(matrix[k], lineInfo[k - c], lineInfoFile, lowLine, sequence, header)
      BY <3>1, <3>3
    <3>5. Answers(RowsOf(b)[k - c], matrix[k])
      BY <1>1, <3>1, <3>2, <3>4, BlockFacts, Zenon DEF b
    <3> QED
      BY <2>1, <2>3, <3>5
  <2> QED
    BY <2>2, <2>3
<1>10. ASSUME NEW i \in 1 .. n + 1
       PROVE  /\ Len(RowsIn(bs, i - 1)) + 1 \in 1 .. Len(Rows(bs))
              /\ Meets(bs, matrix, i)
  <2>1. CASE i = n + 1
    <3>1. RowsIn(bs, i - 1) = Rows(added)
      BY <1>3, <1>6, <2>1 DEF Rows
    <3>2. End(bs[i]) >= LastOf(bs[i])
      <4>1. LastOffset <= High(a) /\ LastOffset \in 0 .. Word - 1 /\ High(a) \in 0 .. Word - 1
        BY <1>1, HighFacts, PendingTerms DEF LastOffset
      <4> QED
        BY <1>2, <1>5, <2>1, <4>1
    <3>3. Meets(bs, matrix, i)
      BY <1>3, <1>5, <2>1, <3>2 DEF Meets
    <3> QED
      BY <1>4, <1>7, <1>8, <3>1, <3>3
  <2>2. CASE i \in 1 .. n
    <3>1. Len(RowsIn(added, i - 1)) + 1 \in 1 .. c /\ Meets(added, matrix, i)
      <4>1. i \in DOMAIN added
        BY <1>3, <2>2
      <4> QED
        BY <1>1, <4>1, Zenon DEF Blocks
    <3>2. RowsIn(bs, i - 1) = RowsIn(added, i - 1) /\ bs[i] = added[i]
      BY <1>3, <1>5, <1>6, <2>2
    <3>3. FirstOf(bs, matrix, i) = FirstOf(added, matrix, i)
      BY <3>2 DEF FirstOf
    <3>4. CASE i # n
      <4>1. i + 1 \in 1 .. n /\ i < Len(added) /\ i < Len(bs)
        BY <1>3, <1>5, <2>2, <3>4
      <4>2. RowsIn(bs, i + 1 - 1) = RowsIn(added, i + 1 - 1) /\ bs[i + 1] = added[i + 1]
        BY <1>5, <1>6, <2>2, <4>1
      <4>3. FirstOf(bs, matrix, i + 1) = FirstOf(added, matrix, i + 1)
        BY <4>2 DEF FirstOf
      <4> QED
        BY <1>4, <1>7, <1>8, <3>1, <3>2, <3>3, <4>1, <4>2, <4>3 DEF Meets
    <3>5. CASE i = n
      <4>1. FirstOf(bs, matrix, i + 1) = matrix[c + 1]
        <5>1. RowsIn(bs, i + 1 - 1) = Rows(added)
          BY <1>3, <1>6, <3>5 DEF Rows
        <5> QED
          BY <5>1 DEF FirstOf
      <4>2. matrix[c + 1].sequence = sequence
        <5>1. StandsFor(matrix[c + 1], lineInfo[1], lineInfoFile, lowLine, sequence, header)
          BY <1>1, <1>4, Zenon DEF Pending
        <5> QED
          BY <5>1 DEF StandsFor
      <4>3. MayFollow(LowOffset, added, matrix, sequence)
        BY <1>1, Zenon DEF Pending, LowOffset
      <4>4. added # <<>> /\ bs[i + 1] = b
        BY <1>3, <1>5, <2>2, <3>5
      <4>5. End(bs[i]) >= LastOf(bs[i])
        BY <3>1, <3>2 DEF Meets
      <4>6. (/\ FirstOf(bs, matrix, i).sequence = FirstOf(bs, matrix, i + 1).sequence
             /\ bs[i + 1].offset >= LastOf(bs[i])) => End(bs[i]) = bs[i + 1].offset
        BY <1>2, <3>2, <3>3, <3>5, <4>1, <4>2, <4>3, <4>4 DEF MayFollow
      <4>7. Meets(bs, matrix, i)
        BY <4>5, <4>6, Zenon DEF Meets
      <4> QED
        BY <1>4, <1>7, <1>8, <3>1, <3>2, <4>7
    <3> QED
      BY <3>4, <3>5
  <2> QED
    BY <1>3, <2>1, <2>2
<1>11. Blocks(bs, matrix)
  <2>1. DOMAIN bs = 1 .. n + 1
    BY <1>5
  <2>2. Len(Rows(bs)) <= Len(matrix)
    BY <1>4, <1>7, <1>8
  <2> QED
    BY <1>9, <1>10, <2>1, <2>2 DEF Blocks
<1> QED
  BY <1>5, <1>8, <1>11 DEF bs, b

(* Blocks keep what they have when a row is added to the history.          *)
LEMMA HistoryGrows ==
  ASSUME NEW bs \in Seq(BlockType), NEW m \in Seq(MatrixRow), Blocks(bs, m),
         NEW r \in MatrixRow
  PROVE  /\ Append(m, r) \in Seq(MatrixRow) /\ Blocks(bs, Append(m, r))
         /\ \A i \in 1 .. Len(bs) : FirstOf(bs, Append(m, r), i) = FirstOf(bs, m, i)
<1> DEFINE ms == Append(m, r)
<1>1. /\ ms \in Seq(MatrixRow) /\ Len(ms) = Len(m) + 1 /\ Len(m) \in Nat
      /\ \A k \in 1 .. Len(m) : ms[k] = m[k]
  OBVIOUS
<1> HIDE DEF ms
<1>2. \A i \in 1 .. Len(bs) : FirstOf(bs, ms, i) = FirstOf(bs, m, i)
  BY <1>1, FirstRows DEF FirstOf
<1>3. Len(Rows(bs)) <= Len(m) /\ Len(Rows(bs)) \in Nat
  <2>1. Len(bs) \in 0 .. Len(bs)
    OBVIOUS
  <2>2. Rows(bs) \in Seq(Delivery)
    BY <2>1, RowsInFacts DEF Rows
  <2> QED
    BY <2>2, LenProperties DEF Blocks
<1>4. \A k \in 1 .. Len(Rows(bs)) : Answers(Rows(bs)[k], ms[k])
  BY <1>1, <1>3 DEF Blocks
<1>5. ASSUME NEW i \in DOMAIN bs PROVE Meets(bs, ms, i)
  <2>1. i \in 1 .. Len(bs) /\ (i < Len(bs) => i + 1 \in 1 .. Len(bs)) /\ Meets(bs, m, i)
    BY DEF Blocks
  <2>2. /\ FirstOf(bs, ms, i) = FirstOf(bs, m, i)
        /\ i < Len(bs) => FirstOf(bs, ms, i + 1) = FirstOf(bs, m, i + 1)
    BY <1>2, <2>1
  <2> QED
    BY <2>1, <2>2, Zenon DEF Meets
<1>6. Blocks(bs, ms)
  BY <1>1, <1>3, <1>4, <1>5 DEF Blocks
<1> QED
  BY <1>1, <1>2, <1>6 DEF ms

-----------------------------------------------------------------------------
(***************************************************************************)
(* A row is kept.                                                          *)
(***************************************************************************)
IsRow(r, a, l, n, seq, h) ==
  /\ r \in MatrixRow /\ r.address = a /\ r.line = l /\ r.file = n /\ r.sequence = seq
  /\ r.exact => r.meant = Meant(h, n)
Longer(m, r, a) == IF SectionOf(a) = 0 THEN m ELSE Append(m, r)

LEMMA EntryFacts ==
  ASSUME NEW a \in TextBase .. Word - 1, NEW l \in Nat, NEW low \in Nat
  PROVE  /\ Entry(a, l, low) \in PendingRow
         /\ Address(Entry(a, l, low)) = a /\ Entry(a, l, low).offset = a - TextBase
         /\ low <= l /\ l <= low + LineWord - 1 => low + Entry(a, l, low).line = l
<1>1. PICK d \in Int : d = l - low
  OBVIOUS
<1>2. /\ d % LineWord \in 0 .. LineWord - 1
      /\ d \in 0 .. LineWord - 1 => d % LineWord = d
  BY Remainders, Words
<1>3. (l - low) % LineWord = d % LineWord
  BY <1>1
<1>4. Entry(a, l, low) = [offset |-> a - TextBase, line |-> d % LineWord]
  BY <1>3 DEF Entry
<1>5. a - TextBase \in 0 .. Word - 1 /\ a - TextBase + TextBase = a
  BY Words
<1>6. Entry(a, l, low) \in PendingRow
  BY <1>2, <1>4, <1>5 DEF PendingRow
<1>7. low <= l /\ l <= low + LineWord - 1 => low + (d % LineWord) = l
  BY <1>1, <1>2, Words
<1> QED
  BY <1>4, <1>5, <1>6, <1>7 DEF Address

LEMMA LongerFacts ==
  ASSUME NEW m \in Seq(MatrixRow), NEW r \in MatrixRow, NEW a
  PROVE  /\ SectionOf(a) = 0 => Longer(m, r, a) = m
         /\ SectionOf(a) # 0 =>
              /\ Longer(m, r, a) = Append(m, r) /\ Len(Longer(m, r, a)) = Len(m) + 1
              /\ DOMAIN Longer(m, r, a) = 1 .. Len(m) + 1
              /\ Longer(m, r, a)[Len(m) + 1] = r
              /\ \A k \in 1 .. Len(m) : Longer(m, r, a)[k] = m[k]
<1>1. SectionOf(a) = 0 => Longer(m, r, a) = m
  BY DEF Longer
<1>2. SectionOf(a) # 0 => Longer(m, r, a) = Append(m, r)
  BY DEF Longer
<1>3. /\ Len(Append(m, r)) = Len(m) + 1
      /\ DOMAIN Append(m, r) = 1 .. Len(m) + 1
      /\ Append(m, r)[Len(m) + 1] = r
      /\ \A k \in 1 .. Len(m) : Append(m, r)[k] = m[k]
  OBVIOUS
<1> QED
  BY <1>1, <1>2, <1>3

LEMMA LongerEarlier ==
  ASSUME NEW m \in Seq(MatrixRow), NEW r \in MatrixRow, NEW a, NEW seq \in Nat,
         r.sequence = seq, \A k \in DOMAIN m : m[k].sequence <= seq,
         SectionOf(a) = 0 => \A k \in DOMAIN m : m[k].sequence < seq
  PROVE  \A k \in DOMAIN Longer(m, r, a) :
            /\ Longer(m, r, a)[k].sequence <= seq
            /\ SectionOf(a) = 0 => Longer(m, r, a)[k].sequence < seq
<1>1. CASE SectionOf(a) = 0
  BY <1>1, LongerFacts
<1>2. CASE SectionOf(a) # 0
  <2>1. DOMAIN m = 1 .. Len(m) /\ Len(m) \in Nat
    OBVIOUS
  <2>2. ASSUME NEW k \in DOMAIN Longer(m, r, a) PROVE Longer(m, r, a)[k].sequence <= seq
    <3>1. k \in 1 .. Len(m) + 1
      BY <1>2, LongerFacts
    <3>2. CASE k \in 1 .. Len(m)
      BY <1>2, <2>1, <3>2, LongerFacts
    <3>3. CASE k = Len(m) + 1
      BY <1>2, <3>3, LongerFacts
    <3> QED
      BY <2>1, <3>1, <3>2, <3>3
  <2> QED
    BY <1>2, <2>2
<1> QED
  BY <1>1, <1>2

LEMMA PendingStarts ==
  ASSUME NEW bs \in Seq(BlockType), NEW m \in Seq(MatrixRow), NEW seq \in Nat,
         Blocks(bs, m), Len(m) = Len(Rows(bs)),
         \A k \in DOMAIN m : m[k].sequence <= seq,
         NEW a \in TextBase .. Word - 1, NEW l \in Nat, NEW n, NEW h, NEW r,
         IsRow(r, a, l, n, seq, h),
         SectionOf(a) = 0 => \A k \in DOMAIN m : m[k].sequence < seq,
         SectionOf(a) # 0 => MayFollow(a - TextBase, bs, m, seq)
  PROVE  Pending(<<Entry(a, l, l)>>, n, l, bs, Longer(m, r, a), seq, h)
<1> DEFINE e  == Entry(a, l, l)
           li == <<e>>
           ms == Longer(m, r, a)
<1>1. /\ Address(e) = a /\ e.offset = a - TextBase /\ l + e.line = l
      /\ e.offset \in 0 .. Word - 1
  BY EntryFacts, Words DEF PendingRow
<1>2. DOMAIN li = {1} /\ li[1] = e /\ Len(li) = 1 /\ li # <<>>
  OBVIOUS
<1>3. r \in MatrixRow /\ Len(m) \in Nat
  BY DEF IsRow
<1>4. /\ SectionOf(a) = 0 => ms = m
      /\ SectionOf(a) # 0 => /\ ms = Append(m, r) /\ Len(ms) = Len(m) + 1
                             /\ DOMAIN ms = 1 .. Len(m) + 1 /\ ms[Len(m) + 1] = r
                             /\ \A k \in 1 .. Len(m) : ms[k] = m[k]
  BY <1>3, LongerFacts
<1> HIDE DEF e, li, ms
<1>5. Placed(li) <=> SectionOf(a) # 0
  BY <1>1, <1>2 DEF Placed
<1>6. Ordered(li)
  <2>1. Address(e) < Word /\ e.offset <= e.offset
    BY <1>1, Words
  <2>2. \A i \in DOMAIN li : i = 1 /\ li[i] = e
    BY <1>2
  <2> QED
    BY <2>1, <2>2 DEF Ordered
<1>7. Len(ms) = Len(Rows(bs)) + (IF Placed(li) THEN Len(li) ELSE 0)
  BY <1>2, <1>3, <1>4, <1>5
<1>8. ASSUME SectionOf(a) # 0
      PROVE  /\ \A i \in DOMAIN li :
                   StandsFor(ms[Len(Rows(bs)) + i], li[i], n, l, seq, h)
             /\ MayFollow(li[1].offset, bs, ms, seq)
  <2>1. StandsFor(ms[Len(Rows(bs)) + 1], li[1], n, l, seq, h)
    BY <1>1, <1>2, <1>4, <1>8 DEF StandsFor, IsRow
  <2>2. bs # <<>> => FirstOf(bs, ms, Len(bs)) = FirstOf(bs, m, Len(bs))
    <3>1. bs # <<>> => Len(bs) \in 1 .. Len(bs)
      OBVIOUS
    <3> QED
      BY <1>3, <1>4, <1>8, <3>1, HistoryGrows
  <2>3. MayFollow(li[1].offset, bs, ms, seq)
    BY <1>1, <1>2, <1>8, <2>2 DEF MayFollow
  <2> QED
    BY <1>2, <2>1, <2>3
<1>9. \A k \in DOMAIN ms : ms[k].sequence <= seq /\ (~Placed(li) => ms[k].sequence < seq)
  <2>1. r.sequence = seq
    BY DEF IsRow
  <2>2. \A k \in DOMAIN Longer(m, r, a) :
          /\ Longer(m, r, a)[k].sequence <= seq
          /\ SectionOf(a) = 0 => Longer(m, r, a)[k].sequence < seq
    BY <1>3, <2>1, LongerEarlier
  <2> QED
    BY <1>5, <2>2 DEF ms
<1>10. Pending(li, n, l, bs, ms, seq, h)
  BY <1>5, <1>6, <1>7, <1>8, <1>9 DEF Pending
<1> QED
  BY <1>10 DEF li, ms, e

LEMMA PendingGrows ==
  ASSUME NEW bs \in Seq(BlockType), NEW m \in Seq(MatrixRow), NEW seq \in Nat,
         NEW li \in Seq(PendingRow), li # <<>>, NEW n, NEW low \in Nat, NEW h,
         Blocks(bs, m), Pending(li, n, low, bs, m, seq, h),
         NEW a \in TextBase .. Word - 1, NEW l \in low .. low + LineWord - 1,
         a - TextBase >= li[Len(li)].offset, SectionOf(a) = SectionOf(Address(li[1])),
         NEW r, IsRow(r, a, l, n, seq, h)
  PROVE  Pending(Append(li, Entry(a, l, low)), n, low, bs, Longer(m, r, a), seq, h)
<1> DEFINE e   == Entry(a, l, low)
           ls  == Append(li, e)
           ms  == Longer(m, r, a)
           len == Len(li)
           c   == Len(Rows(bs))
<1>1. /\ e \in PendingRow /\ Address(e) = a /\ e.offset = a - TextBase /\ low + e.line = l
      /\ e.offset \in 0 .. Word - 1
  <2>1. l \in Nat /\ low <= l /\ l <= low + LineWord - 1
    BY Words
  <2>2. /\ e \in PendingRow /\ Address(e) = a /\ e.offset = a - TextBase /\ low + e.line = l
    BY <2>1, EntryFacts
  <2> HIDE DEF e
  <2> QED
    BY <2>2 DEF PendingRow
<1> HIDE DEF e
<1>2. /\ DOMAIN ls = 1 .. len + 1 /\ ls[len + 1] = e /\ Len(ls) = len + 1
      /\ \A i \in 1 .. len : ls[i] = li[i]
      /\ ls # <<>> /\ len \in Nat \ {0} /\ DOMAIN li = 1 .. len /\ ls[1] = li[1]
  BY <1>1
<1>3. r \in MatrixRow /\ Len(m) \in Nat /\ DOMAIN m = 1 .. Len(m)
  BY DEF IsRow
<1>4. /\ SectionOf(a) = 0 => ms = m
      /\ SectionOf(a) # 0 => /\ ms = Append(m, r) /\ Len(ms) = Len(m) + 1
                             /\ DOMAIN ms = 1 .. Len(m) + 1 /\ ms[Len(m) + 1] = r
                             /\ \A k \in 1 .. Len(m) : ms[k] = m[k]
  BY <1>3, LongerFacts
<1>5. c \in Nat
  <2>1. Len(bs) \in 0 .. Len(bs)
    OBVIOUS
  <2>2. Rows(bs) \in Seq(Delivery)
    BY <2>1, RowsInFacts DEF Rows
  <2> QED
    BY <2>2, LenProperties
<1> HIDE DEF ls, ms
<1>6. (Placed(li) <=> SectionOf(a) # 0) /\ (Placed(ls) <=> SectionOf(a) # 0)
  BY <1>2 DEF Placed
<1>7. Ordered(ls)
  <2>1. Ordered(li)
    BY DEF Pending
  <2>2. \A i \in 1 .. len : li[i].offset \in 0 .. Word - 1
    <3>1. \A i \in 1 .. len : li[i] \in PendingRow
      BY ElementOfSeq
    <3> QED
      BY <3>1 DEF PendingRow
  <2>3. \A i \in 1 .. len : li[i].offset <= e.offset
    <3>1. \A i \in 1 .. len : li[i].offset <= li[len].offset
      BY <1>2, <2>1, SMTT(30) DEF Ordered
    <3>2. li[len].offset \in 0 .. Word - 1 /\ li[len].offset <= e.offset
      BY <1>1, <1>2, <2>2, Words
    <3> QED
      BY <1>1, <2>2, <3>1, <3>2
  <2>4. ASSUME NEW i \in DOMAIN ls, NEW j \in DOMAIN ls, i <= j
        PROVE  ls[i].offset <= ls[j].offset
    <3>1. CASE j \in 1 .. len
      BY <1>2, <2>1, <2>4, <3>1 DEF Ordered
    <3>2. CASE j = len + 1 /\ i \in 1 .. len
      BY <1>2, <2>3, <3>2
    <3>3. CASE j = len + 1 /\ i = len + 1
      BY <1>1, <1>2, <3>3
    <3> QED
      BY <1>2, <2>4, <3>1, <3>2, <3>3
  <2>5. ASSUME NEW i \in DOMAIN ls
        PROVE  Address(ls[i]) < Word /\ SectionOf(Address(ls[i])) = SectionOf(Address(ls[1]))
    <3>1. CASE i \in 1 .. len
      BY <1>2, <2>1, <3>1 DEF Ordered
    <3>2. CASE i = len + 1
      BY <1>1, <1>2, <3>2, Words
    <3> QED
      BY <1>2, <3>1, <3>2
  <2> QED
    BY <2>4, <2>5 DEF Ordered
<1>8. Len(m) = c + (IF SectionOf(a) # 0 THEN len ELSE 0)
  BY <1>6 DEF Pending
<1>9. Len(ms) = c + (IF Placed(ls) THEN Len(ls) ELSE 0)
  BY <1>2, <1>3, <1>4, <1>5, <1>6, <1>8
<1>10. ASSUME SectionOf(a) # 0
       PROVE  /\ \A i \in DOMAIN ls : StandsFor(ms[c + i], ls[i], n, low, seq, h)
              /\ MayFollow(ls[1].offset, bs, ms, seq)
  <2>1. ASSUME NEW i \in DOMAIN ls PROVE StandsFor(ms[c + i], ls[i], n, low, seq, h)
    <3>1. CASE i \in 1 .. len
      <4>1. StandsFor(m[c + i], li[i], n, low, seq, h)
        BY <1>2, <1>6, <1>10, <3>1, Zenon DEF Pending
      <4>2. c + i \in 1 .. Len(m)
        BY <1>2, <1>5, <1>8, <1>10, <3>1
      <4>3. ms[c + i] = m[c + i] /\ ls[i] = li[i]
        BY <1>2, <1>4, <1>10, <3>1, <4>2
      <4> QED
        BY <4>1, <4>3
    <3>2. CASE i = len + 1
      <4>1. ms[c + i] = r /\ ls[i] = e
        BY <1>2, <1>4, <1>5, <1>8, <1>10, <3>2
      <4> QED
        BY <1>1, <4>1 DEF StandsFor, IsRow
    <3> QED
      BY <1>2, <3>1, <3>2
  <2>2. bs # <<>> => FirstOf(bs, ms, Len(bs)) = FirstOf(bs, m, Len(bs))
    <3>1. bs # <<>> => Len(bs) \in 1 .. Len(bs)
      OBVIOUS
    <3> QED
      BY <1>3, <1>4, <1>10, <3>1, HistoryGrows
  <2>3. MayFollow(li[1].offset, bs, m, seq)
    BY <1>6, <1>10 DEF Pending
  <2>4. MayFollow(ls[1].offset, bs, ms, seq)
    BY <1>2, <2>2, <2>3 DEF MayFollow
  <2> QED
    BY <2>1, <2>4
<1>11. \A k \in DOMAIN ms : ms[k].sequence <= seq /\ (~Placed(ls) => ms[k].sequence < seq)
  <2>1. \A k \in DOMAIN m : m[k].sequence <= seq /\ (~Placed(li) => m[k].sequence < seq)
    BY DEF Pending
  <2>2. r.sequence = seq
    BY DEF IsRow
  <2>3. \A k \in DOMAIN Longer(m, r, a) :
          /\ Longer(m, r, a)[k].sequence <= seq
          /\ SectionOf(a) = 0 => Longer(m, r, a)[k].sequence < seq
    BY <1>3, <1>6, <2>1, <2>2, LongerEarlier
  <2> QED
    BY <1>6, <2>3 DEF ms
<1>12. Pending(ls, n, low, bs, ms, seq, h)
  BY <1>6, <1>7, <1>9, <1>10, <1>11 DEF Pending
<1> QED
  BY <1>12 DEF ls, ms, e

(* After the last row of a sequence.                                       *)
LEMMA PendingEnds ==
  ASSUME NEW bs, NEW m \in Seq(MatrixRow), NEW seq \in Nat,
         Len(m) = Len(Rows(bs)), \A k \in DOMAIN m : m[k].sequence <= seq,
         NEW n, NEW low, NEW h
  PROVE  Pending(<<>>, n, low, bs, m, seq + 1, h)
<1>1. \A k \in DOMAIN m : m[k].sequence \in Nat
  <2>1. \A k \in DOMAIN m : m[k] \in MatrixRow
    BY ElementOfSeq
  <2> QED
    BY <2>1 DEF MatrixRow
<1>2. \A k \in DOMAIN m : m[k].sequence < seq + 1 /\ m[k].sequence <= seq + 1
  BY <1>1
<1>3. ~Placed(<<>>) /\ Ordered(<<>>)
  BY DEF Placed, Ordered
<1>4. Len(Rows(bs)) = Len(Rows(bs)) + 0
  <2>1. Len(m) \in Nat
    OBVIOUS
  <2> QED
    BY <2>1
<1> QED
  BY <1>2, <1>3, <1>4 DEF Pending

-----------------------------------------------------------------------------
(***************************************************************************)
(* addLineInfo, and the flush at the end of a sequence.                    *)
(***************************************************************************)
LEMMA RowOf ==
  ASSUME IInv, NEW a \in 0 .. Word - 1, NEW l \in Nat
  PROVE  IsRow(Row(a, l), a, l, file, sequence, header)
<1>1. header \in Header /\ file \in Nat /\ sequence \in Nat /\ numbered \in BOOLEAN
  BY LineAssumption DEF IInv, TypeOK, HistoryOK
<1> DEFINE mt == IF FileMeant \in DOMAIN header.files
                   THEN Path(header, TableFile(header, FileMeant)) ELSE <<>>
           ex == header.version # 5 \/ numbered
<1>2. mt \in Seq(Names)
  <2>1. ASSUME FileMeant \in DOMAIN header.files
        PROVE  Path(header, TableFile(header, FileMeant)) \in Seq(Names)
    <3>1. TableFile(header, FileMeant) \in File
      BY <1>1, <2>1, TableFileType, Zenon
    <3> QED
      BY <1>1, <3>1, PathType
  <2>2. <<>> \in Seq(Names)
    OBVIOUS
  <2> QED
    BY <2>1, <2>2, Zenon
<1>3. ex => mt = Meant(header, file)
  BY DEF FileMeant, Meant
<1>4. ex \in BOOLEAN
  OBVIOUS
<1> HIDE DEF ex, mt
<1>5. Row(a, l) = [address |-> a, line |-> l, sequence |-> sequence, file |-> file,
                   exact |-> ex, meant |-> mt]
  BY Zenon DEF Row, ex, mt
<1>6. Row(a, l) \in MatrixRow
  BY <1>1, <1>2, <1>4, <1>5 DEF MatrixRow
<1> QED
  BY <1>3, <1>5, <1>6 DEF IsRow

(* What the history makes of a row: is it one that is kept already?        *)
LEMMA RecordedRow ==
  ASSUME IInv, NEW a \in 0 .. Word - 1, NEW l \in Nat, Recorded(a, l)
  PROVE  /\ a < TextBase => matrix' = matrix
         /\ a >= TextBase /\ (SectionOf(a) = 0 \/ ~IsRepeated(Row(a, l))) =>
              matrix' = Longer(matrix, Row(a, l), a)
         /\ SectionOf(a) = 0 \/ IsRepeated(Row(a, l)) => matrix' = matrix
         /\ IsRepeated(Row(a, l)) <=>
              /\ matrix # <<>>
              /\ matrix[Len(matrix)].address = a /\ matrix[Len(matrix)].line = l
              /\ matrix[Len(matrix)].sequence = sequence
              /\ matrix[Len(matrix)].file = file
<1>1. TextBase \in Nat
  BY Words
<1>2. a < TextBase <=> ~(a >= TextBase)
  BY <1>1
<1>3. /\ Row(a, l).address = a /\ Row(a, l).line = l
      /\ Row(a, l).sequence = sequence /\ Row(a, l).file = file
  BY DEF Row
<1>4. IsRepeated(Row(a, l)) <=>
        /\ matrix # <<>>
        /\ matrix[Len(matrix)].address = Row(a, l).address
        /\ matrix[Len(matrix)].line = Row(a, l).line
        /\ matrix[Len(matrix)].sequence = Row(a, l).sequence
        /\ matrix[Len(matrix)].file = Row(a, l).file
  BY DEF IsRepeated
<1> QED
  BY <1>2, <1>3, <1>4, Zenon DEF Recorded, Longer

(* The last row of the history is the last one that is pending.            *)
LEMMA LastPending ==
  ASSUME IInv, pc # "failed", Placed(lineInfo)
  PROVE  LET e == lineInfo[Len(lineInfo)]
         IN  /\ matrix # <<>>
             /\ StandsFor(matrix[Len(matrix)], e, lineInfoFile, lowLine, sequence, header)
             /\ e.offset = LastOffset /\ e.offset \in 0 .. Word - 1
             /\ e.line \in 0 .. LineWord - 1
<1> DEFINE len == Len(lineInfo)
           c   == Len(Rows(added))
<1>1. /\ TypeOK /\ HistoryOK /\ Ordered(lineInfo) /\ lineInfo # <<>>
      /\ Pending(lineInfo, lineInfoFile, lowLine, added, matrix, sequence, header)
  BY DEF IInv, Consistent, Pending, Placed
<1>2. len \in Nat \ {0} /\ len \in DOMAIN lineInfo
  BY <1>1, PendingTerms
<1>3. c \in Nat
  <2>1. added \in Seq(BlockType) /\ Len(added) \in 0 .. Len(added)
    BY <1>1 DEF TypeOK
  <2>2. Rows(added) \in Seq(Delivery)
    BY <2>1, RowsInFacts DEF Rows
  <2> QED
    BY <2>2, LenProperties
<1>4. Len(matrix) = c + len
  BY <1>1 DEF Pending
<1>5. StandsFor(matrix[c + len], lineInfo[len], lineInfoFile, lowLine, sequence, header)
  BY <1>1, <1>2, Zenon DEF Pending
<1>6. matrix # <<>>
  <2>1. Len(matrix) # 0
    BY <1>2, <1>3, <1>4
  <2> QED
    BY <2>1, EmptySeq
<1>7. /\ lineInfo[len].offset \in 0 .. Word - 1 /\ lineInfo[len].line \in 0 .. LineWord - 1
  BY <1>1, <1>2, PendingTerms
<1> QED
  BY <1>4, <1>5, <1>6, <1>7 DEF LastOffset

(* A row begins a block where none is pending, or no block is made of what *)
(* is: rows of no section.                                                 *)
LEMMA RowStarts ==
  ASSUME IInv, pc = "program", NEW a \in TextBase .. Word - 1, NEW l \in Nat,
         Recorded(a, l), ~Placed(lineInfo), lineInfo # <<>> => SectionOf(a) = 0
  PROVE  /\ Blocks(added, matrix')
         /\ Pending(<<Entry(a, l, l)>>, file, l, added, matrix', sequence, header)
<1> DEFINE r == Row(a, l)
<1>1. /\ TypeOK /\ HistoryOK /\ Blocks(added, matrix)
      /\ Pending(lineInfo, lineInfoFile, lowLine, added, matrix, sequence, header)
      /\ added \in Seq(BlockType) /\ matrix \in Seq(MatrixRow) /\ sequence \in Nat
  BY DEF IInv, Consistent, TypeOK, HistoryOK
<1>2. a \in 0 .. Word - 1 /\ a >= TextBase /\ TextBase \in Nat
  BY Words
<1>3. IsRow(r, a, l, file, sequence, header) /\ r \in MatrixRow
  BY <1>2, RowOf DEF IsRow
<1> HIDE DEF r
<1>4. /\ \A k \in DOMAIN matrix : matrix[k].sequence < sequence
      /\ \A k \in DOMAIN matrix : matrix[k].sequence <= sequence
  BY <1>1 DEF Pending
<1>5. Len(matrix) = Len(Rows(added))
  <2>1. Len(matrix) = Len(Rows(added)) + 0
    BY <1>1 DEF Pending
  <2>2. Len(Rows(added)) \in Nat
    <3>1. Len(added) \in 0 .. Len(added)
      BY <1>1
    <3>2. Rows(added) \in Seq(Delivery)
      BY <1>1, <3>1, RowsInFacts DEF Rows
    <3> QED
      BY <3>2, LenProperties
  <2> QED
    BY <2>1, <2>2
<1>6. ~IsRepeated(r)
  <2> SUFFICES ASSUME matrix # <<>>, matrix[Len(matrix)].sequence = sequence PROVE FALSE
    BY <1>2, RecordedRow DEF r
  <2>1. Len(matrix) \in DOMAIN matrix
    BY <1>1
  <2> QED
    BY <1>1, <1>4, <2>1
<1>7. matrix' = Longer(matrix, r, a)
  BY <1>2, <1>6, RecordedRow DEF r
<1>8. Blocks(added, matrix')
  <2>1. CASE SectionOf(a) = 0
    BY <1>1, <1>7, <2>1 DEF Longer
  <2>2. CASE SectionOf(a) # 0
    <3>1. matrix' = Append(matrix, r)
      BY <1>7, <2>2 DEF Longer
    <3> QED
      BY <1>1, <1>3, <3>1, HistoryGrows
  <2> QED
    BY <2>1, <2>2
<1>9. MayFollow(a - TextBase, added, matrix, sequence)
  <2> SUFFICES ASSUME added # <<>>, FirstOf(added, matrix, Len(added)).sequence = sequence
               PROVE  FALSE
    BY DEF MayFollow
  <2>1. Len(added) \in 1 .. Len(added)
    BY <1>1
  <2>2. Len(RowsIn(added, Len(added) - 1)) + 1 \in 1 .. Len(matrix)
    BY <1>1, <2>1, FirstRows
  <2>3. Len(RowsIn(added, Len(added) - 1)) + 1 \in DOMAIN matrix
    BY <1>1, <2>2
  <2>4. FirstOf(added, matrix, Len(added)).sequence < sequence
    BY <1>4, <2>3, Zenon DEF FirstOf
  <2> QED
    BY <1>1, <2>4
<1>10. Pending(<<Entry(a, l, l)>>, file, l, added, Longer(matrix, r, a), sequence, header)
  BY <1>1, <1>3, <1>4, <1>5, <1>9, PendingStarts
<1> QED
  BY <1>7, <1>8, <1>10

(* A row that is not of the block ends it, and begins the next one.        *)
LEMMA RowEnds ==
  ASSUME IInv, pc = "program", NEW a \in TextBase .. Word - 1, NEW l \in Nat,
         Recorded(a, l), Placed(lineInfo), FileKnown(header, lineInfoFile),
         SectionOf(a) = SectionOf(Address(lineInfo[1])), EndsBlock(a, l)
  PROVE  /\ Append(added, Block(a)) \in Seq(BlockType)
         /\ Blocks(Append(added, Block(a)), matrix')
         /\ Pending(<<Entry(a, l, l)>>, file, l, Append(added, Block(a)), matrix', sequence,
                    header)
<1> DEFINE r  == Row(a, l)
           bs == Append(added, Block(a))
           e  == lineInfo[Len(lineInfo)]
<1>1. /\ TypeOK /\ HistoryOK /\ Blocks(added, matrix) /\ Ordered(lineInfo)
      /\ Pending(lineInfo, lineInfoFile, lowLine, added, matrix, sequence, header)
      /\ added \in Seq(BlockType) /\ matrix \in Seq(MatrixRow) /\ sequence \in Nat
      /\ lowLine \in Nat /\ lineInfo # <<>> /\ pc # "failed"
  BY DEF IInv, Consistent, Pending, TypeOK, HistoryOK, Placed
<1>2. a \in 0 .. Word - 1 /\ a >= TextBase /\ TextBase \in Nat
  BY Words
<1>3. IsRow(r, a, l, file, sequence, header) /\ r \in MatrixRow
  BY <1>2, RowOf DEF IsRow
<1> HIDE DEF r
<1>4. bs \in Seq(BlockType) /\ Blocks(bs, matrix) /\ Len(matrix) = Len(Rows(bs))
  BY <1>1, <1>2, BlocksGrow
<1>5. SectionOf(a) # 0
  BY DEF Placed
<1>6. ~IsRepeated(r)
  <2> SUFFICES ASSUME matrix[Len(matrix)].address = a, matrix[Len(matrix)].line = l,
                      matrix[Len(matrix)].file = file
               PROVE  FALSE
    BY <1>2, RecordedRow DEF r
  <2>1. /\ StandsFor(matrix[Len(matrix)], e, lineInfoFile, lowLine, sequence, header)
        /\ e.offset = LastOffset /\ e.offset \in 0 .. Word - 1
        /\ e.line \in 0 .. LineWord - 1
    BY <1>1, LastPending
  <2>2. a = e.offset + TextBase /\ l = lowLine + e.line /\ file = lineInfoFile
    BY <2>1 DEF StandsFor, Address
  <2> HIDE DEF e
  <2>3. ~(l < lowLine \/ l > lowLine + LineWord - 1 \/ a - TextBase < LastOffset)
    <3>1. PICK o \in 0 .. Word - 1, d \in 0 .. LineWord - 1 : o = e.offset /\ d = e.line
      BY <2>1
    <3>2. a = o + TextBase /\ l = lowLine + d /\ LastOffset = o
      BY <2>1, <2>2, <3>1
    <3>3. d <= LineWord - 1 /\ d \in Nat /\ o \in Int /\ TextBase \in Int /\ lowLine \in Int
      BY <1>1, Words
    <3>4. a - TextBase = o
      BY <3>2, <3>3
    <3>5. ~(l < lowLine) /\ ~(l > lowLine + LineWord - 1)
      BY <3>2, <3>3, Words
    <3>6. ~(a - TextBase < LastOffset)
      BY <3>2, <3>3, <3>4
    <3> QED
      BY <3>5, <3>6
  <2> QED
    BY <2>2, <2>3 DEF EndsBlock
<1>7. matrix' = Append(matrix, r) /\ matrix' = Longer(matrix, r, a)
  BY <1>2, <1>5, <1>6, RecordedRow DEF r, Longer
<1>8. Blocks(bs, matrix')
  BY <1>1, <1>3, <1>4, <1>7, HistoryGrows
<1>9. MayFollow(a - TextBase, bs, matrix, sequence)
  <2>1. bs[Len(bs)] = Block(a)
    BY <1>1
  <2>2. LastOf(Block(a)) = LastOffset /\ End(Block(a)) = High(a)
    BY <1>1, <1>2, BlockFacts
  <2>3. a - TextBase >= LastOffset => High(a) = a - TextBase
    BY <1>1, <1>2, HighFacts
  <2> QED
    BY <2>1, <2>2, <2>3 DEF MayFollow
<1>10. \A k \in DOMAIN matrix : matrix[k].sequence <= sequence
  BY <1>1 DEF Pending
<1> HIDE DEF bs
<1>11. Pending(<<Entry(a, l, l)>>, file, l, bs, Longer(matrix, r, a), sequence, header)
  BY <1>1, <1>3, <1>4, <1>5, <1>9, <1>10, PendingStarts
<1> QED
  BY <1>4, <1>7, <1>8, <1>11 DEF bs

(* A row of the block is the last one again, or is kept.                   *)
LEMMA RowJoins ==
  ASSUME IInv, pc = "program", NEW a \in TextBase .. Word - 1, NEW l \in Nat,
         Recorded(a, l), lineInfo # <<>>,
         SectionOf(a) = SectionOf(Address(lineInfo[1])), ~EndsBlock(a, l)
  PROVE  /\ IsDuplicate(a, l) => matrix' = matrix
         /\ ~IsDuplicate(a, l) =>
              /\ Append(lineInfo, Entry(a, l, lowLine)) \in Seq(PendingRow)
              /\ Blocks(added, matrix')
              /\ Pending(Append(lineInfo, Entry(a, l, lowLine)), file, lowLine, added,
                         matrix', sequence, header)
<1> DEFINE r == Row(a, l)
           e == lineInfo[Len(lineInfo)]
<1>1. /\ TypeOK /\ HistoryOK /\ Blocks(added, matrix) /\ Ordered(lineInfo)
      /\ Pending(lineInfo, lineInfoFile, lowLine, added, matrix, sequence, header)
      /\ added \in Seq(BlockType) /\ matrix \in Seq(MatrixRow) /\ sequence \in Nat
      /\ lowLine \in Nat /\ pc # "failed" /\ lineInfo \in Seq(PendingRow)
  BY DEF IInv, Consistent, Pending, TypeOK, HistoryOK, PendingRow
<1>2. a \in 0 .. Word - 1 /\ a >= TextBase /\ TextBase \in Nat
  BY Words
<1>3. IsRow(r, a, l, file, sequence, header) /\ r \in MatrixRow
  BY <1>2, RowOf DEF IsRow
<1> HIDE DEF r
<1>4. /\ lineInfoFile = file /\ LastOffset <= a - TextBase
      /\ lowLine <= l /\ l <= lowLine + LineWord - 1
  <2>1. LastOffset \in 0 .. Word - 1
    BY <1>1, PendingTerms DEF LastOffset
  <2> QED
    BY <1>1, <1>2, <2>1, Words DEF EndsBlock
<1>5. SectionOf(a) # 0 => (IsDuplicate(a, l) <=> IsRepeated(r))
  <2> SUFFICES ASSUME SectionOf(a) # 0 PROVE IsDuplicate(a, l) <=> IsRepeated(r)
    OBVIOUS
  <2>1. Placed(lineInfo)
    BY DEF Placed
  <2>2. /\ StandsFor(matrix[Len(matrix)], e, lineInfoFile, lowLine, sequence, header)
        /\ e.offset = LastOffset /\ e.offset \in 0 .. Word - 1
        /\ e.line \in 0 .. LineWord - 1 /\ matrix # <<>>
    BY <1>1, <2>1, LastPending
  <2>3. /\ matrix[Len(matrix)].address = e.offset + TextBase
        /\ matrix[Len(matrix)].line = lowLine + e.line
        /\ matrix[Len(matrix)].sequence = sequence
        /\ matrix[Len(matrix)].file = file
    BY <1>4, <2>2 DEF StandsFor, Address
  <2>4. IsRepeated(r) <=> e.offset + TextBase = a /\ lowLine + e.line = l
    BY <1>2, <2>2, <2>3, RecordedRow DEF r
  <2>5. IsDuplicate(a, l) <=> l = e.line + lowLine /\ a - TextBase = e.offset
    BY <2>2 DEF IsDuplicate
  <2> HIDE DEF e
  <2> QED
    BY <1>1, <1>2, <2>2, <2>4, <2>5, Words, SMTT(30)
<1>6. ASSUME IsDuplicate(a, l) PROVE matrix' = matrix
  BY <1>2, <1>5, <1>6, RecordedRow DEF r
<1>7. ASSUME ~IsDuplicate(a, l)
      PROVE  /\ Append(lineInfo, Entry(a, l, lowLine)) \in Seq(PendingRow)
             /\ Blocks(added, matrix')
             /\ Pending(Append(lineInfo, Entry(a, l, lowLine)), file, lowLine, added,
                        matrix', sequence, header)
  <2>1. matrix' = Longer(matrix, r, a)
    BY <1>2, <1>5, <1>7, RecordedRow DEF r
  <2>2. Blocks(added, matrix')
    <3>1. CASE SectionOf(a) = 0
      BY <1>1, <2>1, <3>1 DEF Longer
    <3>2. CASE SectionOf(a) # 0
      <4>1. matrix' = Append(matrix, r)
        BY <2>1, <3>2 DEF Longer
      <4> QED
        BY <1>1, <1>3, <4>1, HistoryGrows
    <3> QED
      BY <3>1, <3>2
  <2>3. Append(lineInfo, Entry(a, l, lowLine)) \in Seq(PendingRow)
    <3>1. Entry(a, l, lowLine) \in PendingRow
      BY <1>1, EntryFacts
    <3> QED
      BY <1>1, <3>1
  <2>4. l \in lowLine .. lowLine + LineWord - 1
    BY <1>1, <1>4, Words
  <2>5. a - TextBase >= lineInfo[Len(lineInfo)].offset
    BY <1>1, <1>2, <1>4, PendingTerms DEF LastOffset
  <2>6. Pending(lineInfo, file, lowLine, added, matrix, sequence, header)
    BY <1>1, <1>4
  <2>7. Pending(Append(lineInfo, Entry(a, l, lowLine)), file, lowLine, added,
                Longer(matrix, r, a), sequence, header)
    BY <1>1, <1>3, <2>4, <2>5, <2>6, PendingGrows
  <2> QED
    BY <2>1, <2>2, <2>3, <2>7
<1> QED
  BY <1>6, <1>7

(* What a row leaves behind.                                               *)
AfterRow ==
  /\ pc' \in {"program", "failed"}
  /\ lineInfo' \in Seq(PendingRow) /\ lineInfoFile' \in Nat /\ lowLine' \in Nat
  /\ added' \in Seq(BlockType) /\ matrix' \in Seq(MatrixRow)
  /\ pc' # "failed" =>
       /\ Blocks(added', matrix')
       /\ Pending(lineInfo', lineInfoFile', lowLine', added', matrix', sequence, header)

LEMMA AddLineInfoStep ==
  ASSUME IInv, pc = "program", NEW a \in 0 .. Word - 1, NEW l \in Nat, InOneSection(a),
         AddLineInfo(a, l), Recorded(a, l)
  PROVE  AfterRow
<1>1. /\ TypeOK /\ HistoryOK /\ Blocks(added, matrix) /\ Ordered(lineInfo)
      /\ Pending(lineInfo, lineInfoFile, lowLine, added, matrix, sequence, header)
      /\ added \in Seq(BlockType) /\ matrix \in Seq(MatrixRow) /\ sequence \in Nat
      /\ lowLine \in Nat /\ file \in Nat /\ lineInfoFile \in Nat
      /\ lineInfo \in Seq(PendingRow)
  BY DEF IInv, Consistent, Pending, TypeOK, HistoryOK, PendingRow
<1>2. TextBase \in Nat /\ (a >= TextBase => a \in TextBase .. Word - 1)
  BY Words
<1>3. matrix' \in Seq(MatrixRow)
  <2>1. Row(a, l) \in MatrixRow
    BY RowOf DEF IsRow
  <2>2. Append(matrix, Row(a, l)) \in Seq(MatrixRow)
    BY <1>1, <2>1
  <2> QED
    BY <1>1, <2>2 DEF Recorded
<1>4. lineInfo # <<>> =>
        /\ SectionOf(a) = SectionOf(Address(lineInfo[1]))
        /\ Placed(lineInfo) <=> ~Invalid
        /\ Placed(lineInfo) <=> SectionOf(a) # 0
  BY <1>1, PendingTerms DEF InOneSection, Placed
<1>5. CASE a < TextBase
  <2>1. UNCHANGED <<pc, lineInfo, lineInfoFile, lowLine, added>>
    BY <1>5 DEF AddLineInfo, pending
  <2>2. matrix' = matrix
    BY <1>5, RecordedRow
  <2> QED
    BY <1>1, <2>1, <2>2 DEF AfterRow
<1>6. CASE ~(a < TextBase) /\ lineInfo = <<>>
  <2>1. /\ lineInfo' = <<Entry(a, l, l)>> /\ lowLine' = l /\ lineInfoFile' = file
        /\ UNCHANGED <<pc, added>>
    BY <1>6 DEF AddLineInfo, StartBlock
  <2>2. a \in TextBase .. Word - 1 /\ ~Placed(lineInfo)
    BY <1>2, <1>6 DEF Placed
  <2>3. /\ Blocks(added, matrix')
        /\ Pending(<<Entry(a, l, l)>>, file, l, added, matrix', sequence, header)
    BY <1>6, <2>2, RowStarts
  <2>4. <<Entry(a, l, l)>> \in Seq(PendingRow)
    <3>1. Entry(a, l, l) \in PendingRow
      BY <2>2, EntryFacts
    <3> QED
      BY <3>1
  <2> QED
    BY <1>1, <1>3, <2>1, <2>3, <2>4 DEF AfterRow
<1>7. CASE /\ ~(a < TextBase) /\ lineInfo # <<>> /\ EndsBlock(a, l)
           /\ CanFlush /\ ~FlushFails
  <2>1. /\ lineInfo' = <<Entry(a, l, l)>> /\ lowLine' = l /\ lineInfoFile' = file
        /\ AddBlock(a) /\ UNCHANGED pc
    BY <1>7 DEF AddLineInfo, StartBlock
  <2>2. a \in TextBase .. Word - 1
    BY <1>2, <1>7
  <2>3. <<Entry(a, l, l)>> \in Seq(PendingRow)
    <3>1. Entry(a, l, l) \in PendingRow
      BY <2>2, EntryFacts
    <3> QED
      BY <3>1
  <2>4. CASE Invalid
    <3>1. added' = added
      BY <2>1, <2>4 DEF AddBlock
    <3>2. /\ Blocks(added, matrix')
          /\ Pending(<<Entry(a, l, l)>>, file, l, added, matrix', sequence, header)
      BY <1>4, <1>7, <2>2, <2>4, RowStarts
    <3> QED
      BY <1>1, <1>3, <2>1, <2>3, <3>1, <3>2 DEF AfterRow
  <2>5. CASE ~Invalid
    <3>1. added' = Append(added, Block(a))
      BY <1>7, <2>1, <2>5 DEF AddBlock
    <3>2. FileKnown(header, lineInfoFile)
      BY <1>7, <2>5 DEF CanFlush
    <3>3. /\ Append(added, Block(a)) \in Seq(BlockType)
          /\ Blocks(Append(added, Block(a)), matrix')
          /\ Pending(<<Entry(a, l, l)>>, file, l, Append(added, Block(a)), matrix',
                     sequence, header)
      BY <1>4, <1>7, <2>2, <2>5, <3>2, RowEnds
    <3> QED
      BY <1>1, <1>3, <2>1, <2>3, <3>1, <3>3 DEF AfterRow
  <2> QED
    BY <2>4, <2>5
<1>8. CASE FlushFails
  <2>1. pc' = "failed" /\ lineInfo' \in {<<>>, lineInfo}
        /\ UNCHANGED <<lineInfoFile, lowLine, added>>
    BY <1>8 DEF FlushFails, Refused, Fail, pending
  <2>2. lineInfo' \in Seq(PendingRow)
    BY <1>1, <2>1, NoRows
  <2> QED
    BY <1>1, <1>3, <2>1, <2>2 DEF AfterRow
<1>9. CASE ~(a < TextBase) /\ lineInfo # <<>> /\ ~EndsBlock(a, l) /\ IsDuplicate(a, l)
  <2>1. UNCHANGED <<pc, lineInfo, lineInfoFile, lowLine, added>>
    BY <1>9 DEF AddLineInfo, pending
  <2>2. matrix' = matrix
    BY <1>2, <1>4, <1>9, RowJoins
  <2> QED
    BY <1>1, <2>1, <2>2 DEF AfterRow
<1>10. CASE ~(a < TextBase) /\ lineInfo # <<>> /\ ~EndsBlock(a, l) /\ ~IsDuplicate(a, l)
  <2>1. /\ lineInfo' = Append(lineInfo, Entry(a, l, lowLine)) /\ lineInfoFile' = file
        /\ UNCHANGED <<pc, lowLine, added>>
    BY <1>10 DEF AddLineInfo
  <2>2. /\ Append(lineInfo, Entry(a, l, lowLine)) \in Seq(PendingRow)
        /\ Blocks(added, matrix')
        /\ Pending(Append(lineInfo, Entry(a, l, lowLine)), file, lowLine, added,
                   matrix', sequence, header)
    BY <1>2, <1>4, <1>10, RowJoins
  <2> QED
    BY <1>1, <1>3, <2>1, <2>2 DEF AfterRow
<1>11. (~(a < TextBase) /\ lineInfo # <<>> /\ EndsBlock(a, l)) => FlushFails \/ CanFlush
  BY DEF AddLineInfo
<1> QED
  BY <1>5, <1>6, <1>7, <1>8, <1>9, <1>10, <1>11

(* The rows of a sequence are flushed, and the next one begins.            *)
LEMMA FlushStep ==
  ASSUME IInv, pc = "program", CanFlush, NEW a \in 0 .. Word - 1, AddBlock(a)
  PROVE  /\ added' \in Seq(BlockType) /\ Blocks(added', matrix)
         /\ \A n, low, h : Pending(<<>>, n, low, added', matrix, sequence + 1, h)
<1>1. /\ TypeOK /\ HistoryOK /\ Blocks(added, matrix) /\ Ordered(lineInfo)
      /\ Pending(lineInfo, lineInfoFile, lowLine, added, matrix, sequence, header)
      /\ added \in Seq(BlockType) /\ matrix \in Seq(MatrixRow) /\ sequence \in Nat
  BY DEF IInv, Consistent, Pending, TypeOK, HistoryOK
<1>2. \A k \in DOMAIN matrix : matrix[k].sequence <= sequence
  BY <1>1 DEF Pending
<1>3. CASE lineInfo = <<>> \/ Invalid
  <2>1. added' = added
    BY <1>3 DEF AddBlock
  <2>2. ~Placed(lineInfo)
    BY <1>1, <1>3, PendingTerms DEF Placed
  <2>3. Len(matrix) = Len(Rows(added))
    <3>1. Len(matrix) = Len(Rows(added)) + 0
      BY <1>1, <2>2 DEF Pending
    <3>2. Len(Rows(added)) \in Nat
      <4>1. Len(added) \in 0 .. Len(added)
        BY <1>1
      <4>2. Rows(added) \in Seq(Delivery)
        BY <1>1, <4>1, RowsInFacts DEF Rows
      <4> QED
        BY <4>2, LenProperties
    <3> QED
      BY <3>1, <3>2
  <2> QED
    BY <1>1, <1>2, <2>1, <2>3, PendingEnds
<1>4. CASE ~(lineInfo = <<>> \/ Invalid)
  <2>1. added' = Append(added, Block(a)) /\ FileKnown(header, lineInfoFile)
    BY <1>4 DEF AddBlock, CanFlush
  <2>2. Placed(lineInfo)
    BY <1>1, <1>4, PendingTerms
  <2>3. /\ added' \in Seq(BlockType) /\ Blocks(added', matrix)
        /\ Len(matrix) = Len(Rows(added'))
    BY <2>1, <2>2, BlocksGrow
  <2> QED
    BY <1>1, <1>2, <2>3, PendingEnds
<1> QED
  BY <1>3, <1>4

-----------------------------------------------------------------------------
(***************************************************************************)
(* The invariant is kept.                                                  *)
(***************************************************************************)
LEMMA InitIInv == Init => IInv
<1> SUFFICES ASSUME Init PROVE IInv
  OBVIOUS
<1>1. TypeOK
  <2>1. header \in Headers /\ 0 \in 0 .. Word - 1
    BY Words DEF Init
  <2>2. NoFile \in File
    BY Operands DEF NoFile, File
  <2>3. /\ <<>> \in Seq([offset : 0 .. Word - 1, line : 0 .. LineWord - 1])
        /\ <<>> \in Seq(BlockType)
    OBVIOUS
  <2> QED
    BY <2>1, <2>2, <2>3 DEF Init, TypeOK
<1>2. HistoryOK
  <2>1. matrix \in Seq(MatrixRow) /\ sequence \in Nat
    BY DEF Init
  <2>2. numbered \in BOOLEAN
    BY Zenon DEF Init
  <2> QED
    BY <2>1, <2>2 DEF HistoryOK
<1>3. added = <<>> /\ matrix = <<>> /\ lineInfo = <<>>
  BY DEF Init
<1>4. Rows(<<>>) = <<>>
  <2>1. <<>> \in Seq(BlockType) /\ 0 \in 0 .. Len(<<>>) /\ Len(<<>>) = 0
    OBVIOUS
  <2> QED
    BY <2>1, RowsInFacts DEF Rows
<1>5. Blocks(<<>>, <<>>)
  <2>1. Len(Rows(<<>>)) = 0 /\ Len(<<>>) = 0 /\ DOMAIN <<>> = {} /\ 1 .. 0 = {}
    BY <1>4
  <2> QED
    BY <2>1 DEF Blocks
<1>6. Pending(<<>>, lineInfoFile, lowLine, <<>>, <<>>, sequence, header)
  <2>1. Len(Rows(<<>>)) = 0 /\ Len(<<>>) = 0 /\ DOMAIN <<>> = {}
    BY <1>4
  <2>2. ~Placed(<<>>) /\ Ordered(<<>>)
    BY DEF Placed, Ordered
  <2> QED
    BY <2>1, <2>2 DEF Pending
<1>7. Consistent
  BY <1>3, <1>5, <1>6 DEF Consistent
<1> QED
  BY <1>1, <1>2, <1>7 DEF IInv

(* A step that leaves the rows and the blocks alone.                       *)
LEMMA SameRows ==
  ASSUME IInv, UNCHANGED <<header, lineInfo, lineInfoFile, lowLine, added, matrix, sequence>>,
         TypeOK', numbered' \in BOOLEAN,
         pc' # "failed" => pc # "failed" /\ (lineInfo # <<>> => pc' = "program")
  PROVE  IInv'
<1>1. HistoryOK'
  BY DEF IInv, HistoryOK
<1>2. ASSUME pc' # "failed" PROVE Consistent'
  BY <1>2 DEF IInv, Consistent
<1> QED
  BY <1>1, <1>2 DEF IInv

LEMMA RegisterSteps ==
  ASSUME IInv,
         \/ ReadHeader \/ FailAtEnd
         \/ \E adv \in Advances : AdvancePc(adv)
         \/ \E dl \in LineSteps : AdvanceLine(dl)
         \/ \E n \in FileNumbers : SetFile(n)
         \/ \E a \in Targets : SetAddress(a)
         \/ \E i \in DOMAIN header.files : DefineFile(header.files[i])
         \/ UNCHANGED vars
  PROVE  IInv'
<1>1. /\ TypeOK /\ HistoryOK /\ header \in Header
      /\ pc # "failed" => (lineInfo # <<>> => pc = "program")
  BY Operands DEF IInv, TypeOK, Consistent
<1>2. CASE ReadHeader
  <2>1. /\ pc = "header" /\ pc' \in {"program", "failed"}
        /\ UNCHANGED <<header, address, file, line, curFile, lineInfo, lineInfoFile, lowLine,
                       added, ops, matrix, sequence, numbered>>
    BY <1>2 DEF ReadHeader, registers, pending, history
  <2>2. TypeOK' /\ numbered' \in BOOLEAN
    BY <1>1, <2>1 DEF TypeOK, HistoryOK
  <2> QED
    BY <1>1, <2>1, <2>2, SameRows
<1>3. CASE FailAtEnd
  <2>1. /\ pc' = "failed" /\ lineInfo' \in {<<>>, lineInfo}
        /\ UNCHANGED <<header, address, file, line, curFile, lineInfoFile, lowLine,
                       added, ops, matrix, sequence, numbered>>
    BY <1>3 DEF FailAtEnd, FlushFails, Refused, Fail, registers, pending, history
  <2>2. lineInfo' \in Seq(PendingRow)
    BY <1>1, <2>1, NoRows DEF TypeOK, PendingRow
  <2>3. TypeOK'
    BY <1>1, <2>1, <2>2 DEF TypeOK, PendingRow
  <2>4. HistoryOK'
    BY <1>1, <2>1, Zenon DEF HistoryOK
  <2> QED
    BY <2>1, <2>3, <2>4 DEF IInv
<1>4. ASSUME NEW adv \in Advances, AdvancePc(adv) PROVE IInv'
  <2>1. /\ pc = "program" /\ ops' = ops + 1 /\ address' = Wrap(address + adv)
        /\ UNCHANGED <<pc, header, file, line, curFile, lineInfo, lineInfoFile, lowLine,
                       added, matrix, sequence, numbered>>
    BY <1>4 DEF AdvancePc, Op, pending, history
  <2>2. address' \in 0 .. Word - 1
    <3>1. address + adv \in Int
      <4>1. adv \in Nat
        BY Operands, Zenon
      <4>2. address \in 0 .. Word - 1
        BY <1>1 DEF TypeOK
      <4> QED
        BY <4>1, <4>2
    <3> QED
      BY <2>1, <3>1, Wraps
  <2>3. TypeOK' /\ numbered' \in BOOLEAN
    BY <1>1, <2>1, <2>2 DEF TypeOK, HistoryOK
  <2> QED
    BY <1>1, <2>1, <2>3, SameRows
<1>5. ASSUME NEW dl \in LineSteps, AdvanceLine(dl) PROVE IInv'
  <2>1. /\ pc = "program" /\ ops' = ops + 1 /\ line' = line + dl /\ line + dl >= 0
        /\ UNCHANGED <<pc, header, address, file, curFile, lineInfo, lineInfoFile, lowLine,
                       added, matrix, sequence, numbered>>
    BY <1>5 DEF AdvanceLine, Op, pending, history
  <2>2. line' \in Nat
    <3>1. dl \in Int
      BY Operands, Zenon
    <3>2. line \in Nat
      BY <1>1 DEF TypeOK
    <3> QED
      BY <2>1, <3>1, <3>2
  <2>3. TypeOK' /\ numbered' \in BOOLEAN
    BY <1>1, <2>1, <2>2 DEF TypeOK, HistoryOK
  <2> QED
    BY <1>1, <2>1, <2>3, SameRows
<1>6. ASSUME NEW n \in FileNumbers, SetFile(n) PROVE IInv'
  <2>1. /\ pc = "program" /\ ops' = ops + 1 /\ file' = FileRegister(n) /\ numbered' = TRUE
        /\ UNCHANGED <<pc, header, address, line, curFile, lineInfo, lineInfoFile, lowLine,
                       added, matrix, sequence>>
    BY <1>6 DEF SetFile, Op, pending
  <2>2. file' \in Nat
    <3>1. n \in Nat
      BY Operands, Zenon
    <3> QED
      BY <2>1, <3>1 DEF FileRegister
  <2>3. TypeOK' /\ numbered' \in BOOLEAN
    BY <1>1, <2>1, <2>2 DEF TypeOK, HistoryOK
  <2> QED
    BY <1>1, <2>1, <2>3, SameRows
<1>7. ASSUME NEW a \in Targets, SetAddress(a) PROVE IInv'
  <2>1. /\ pc = "program" /\ ops' = ops + 1 /\ address' = a
        /\ UNCHANGED <<pc, header, file, line, curFile, lineInfo, lineInfoFile, lowLine,
                       added, matrix, sequence, numbered>>
    BY <1>7 DEF SetAddress, Op, pending, history
  <2>2. address' \in 0 .. Word - 1
    BY <2>1, Operands
  <2>3. TypeOK' /\ numbered' \in BOOLEAN
    BY <1>1, <2>1, <2>2 DEF TypeOK, HistoryOK
  <2> QED
    BY <1>1, <2>1, <2>3, SameRows
<1>8. ASSUME NEW i \in DOMAIN header.files, DefineFile(header.files[i]) PROVE IInv'
  <2>1. /\ pc = "program" /\ ops' = ops + 1 /\ curFile' = header.files[i] /\ file' = 0
        /\ numbered' = TRUE
        /\ UNCHANGED <<pc, header, address, line, lineInfo, lineInfoFile, lowLine,
                       added, matrix, sequence>>
    BY <1>8 DEF DefineFile, Op, pending
  <2>2. curFile' \in File
    <3>1. header.files \in Seq(File)
      BY <1>1 DEF Header
    <3> HIDE DEF File
    <3> QED
      BY <2>1, <3>1
  <2>3. TypeOK' /\ numbered' \in BOOLEAN
    BY <1>1, <2>1, <2>2 DEF TypeOK, HistoryOK
  <2> QED
    BY <1>1, <2>1, <2>3, SameRows
<1>9. CASE UNCHANGED vars
  <2>1. UNCHANGED <<pc, header, address, file, line, curFile, lineInfo, lineInfoFile, lowLine,
                    added, ops, matrix, sequence, numbered>>
    BY <1>9 DEF vars, registers, pending, history
  <2>2. TypeOK' /\ numbered' \in BOOLEAN
    BY <1>1, <2>1 DEF TypeOK, HistoryOK
  <2> QED
    BY <1>1, <2>1, <2>2, SameRows
<1> QED
  BY <1>2, <1>3, <1>4, <1>5, <1>6, <1>7, <1>8, <1>9

LEMMA RowSteps ==
  ASSUME IInv,
         \/ Copy
         \/ \E adv \in Advances : \E dl \in LineSteps : Special(adv, dl)
  PROVE  IInv'
<1>1. TypeOK /\ HistoryOK
  BY DEF IInv
<1>2. PICK a \in 0 .. Word - 1, l \in Nat :
        /\ pc = "program" /\ ops' = ops + 1 /\ InOneSection(a)
        /\ AddLineInfo(a, l) /\ Recorded(a, l) /\ address' = a /\ line' = l
        /\ UNCHANGED <<header, file, curFile, sequence, numbered>>
  <2>1. CASE Copy
    <3>1. address \in 0 .. Word - 1 /\ line \in Nat
      BY <1>1 DEF TypeOK
    <3>2. /\ pc = "program" /\ ops' = ops + 1 /\ InOneSection(address)
          /\ AddLineInfo(address, line) /\ Recorded(address, line)
          /\ address' = address /\ line' = line
          /\ UNCHANGED <<header, file, curFile, sequence, numbered>>
      BY <2>1 DEF Copy, Op, registers
    <3> QED
      BY <3>1, <3>2, Zenon
  <2>2. ASSUME NEW adv \in Advances, NEW dl \in LineSteps, Special(adv, dl)
        PROVE  \E a \in 0 .. Word - 1, l \in Nat :
                 /\ pc = "program" /\ ops' = ops + 1 /\ InOneSection(a)
                 /\ AddLineInfo(a, l) /\ Recorded(a, l) /\ address' = a /\ line' = l
                 /\ UNCHANGED <<header, file, curFile, sequence, numbered>>
    <3>1. /\ pc = "program" /\ ops' = ops + 1 /\ line + dl >= 0
          /\ InOneSection(Wrap(address + adv))
          /\ address' = Wrap(address + adv) /\ line' = line + dl
          /\ AddLineInfo(address', line') /\ Recorded(address', line')
          /\ UNCHANGED <<header, file, curFile, sequence, numbered>>
      BY <2>2, Zenon DEF Special, Op
    <3>2. address' \in 0 .. Word - 1
      <4>1. address + adv \in Int
        <5>1. adv \in Nat
          BY Operands, Zenon
        <5>2. address \in 0 .. Word - 1
          BY <1>1 DEF TypeOK
        <5> QED
          BY <5>1, <5>2
      <4> QED
        BY <3>1, <4>1, Wraps
    <3>3. line' \in Nat
      <4>1. dl \in Int
        BY Operands, Zenon
      <4>2. line \in Nat
        BY <1>1 DEF TypeOK
      <4> QED
        BY <3>1, <4>1, <4>2
    <3>4. InOneSection(address')
      BY <3>1, Zenon
    <3> QED
      BY <3>1, <3>2, <3>3, <3>4, Zenon
  <2> QED
    BY <2>1, <2>2
<1>3. AfterRow
  BY <1>2, AddLineInfoStep
<1>4. TypeOK'
  BY <1>1, <1>2, <1>3 DEF TypeOK, AfterRow, PendingRow
<1>5. HistoryOK'
  BY <1>1, <1>2, <1>3 DEF HistoryOK, AfterRow
<1>6. ASSUME pc' # "failed" PROVE Consistent'
  <2>1. pc' = "program"
    BY <1>3, <1>6 DEF AfterRow
  <2> QED
    BY <1>2, <1>3, <1>6, <2>1 DEF Consistent, AfterRow
<1> QED
  BY <1>4, <1>5, <1>6 DEF IInv

LEMMA EndSteps ==
  ASSUME IInv, EndSequence \/ EndProgram
  PROVE  IInv'
<1>1. TypeOK /\ HistoryOK /\ 0 \in 0 .. Word - 1 /\ address \in 0 .. Word - 1
  BY Words DEF IInv, TypeOK
<1>2. CASE EndSequence /\ FlushFails
  <2>1. /\ pc' = "failed" /\ lineInfo' \in {<<>>, lineInfo}
        /\ UNCHANGED <<lineInfoFile, lowLine, added>>
    BY <1>2 DEF FlushFails, Refused, Fail, pending
  <2>2. /\ ops' = ops + 1 /\ UNCHANGED <<header, curFile, matrix>>
        /\ UNCHANGED <<registers, sequence, numbered>>
    BY <1>2, <2>1 DEF EndSequence, Op
  <2>3. lineInfo' \in Seq(PendingRow)
    BY <1>1, <2>1, NoRows DEF TypeOK, PendingRow
  <2>4. TypeOK'
    BY <1>1, <2>1, <2>2, <2>3 DEF TypeOK, PendingRow, registers
  <2>5. HistoryOK'
    BY <1>1, <2>1, <2>2, Zenon DEF HistoryOK
  <2> QED
    BY <2>1, <2>4, <2>5 DEF IInv
<1>3. ASSUME CanFlush, pc = "program", AddBlock(address), lineInfo' = <<>>,
             pc' \in {"header", "program", "done"}, header' \in Headers, ops' = ops + 1,
             address' = 0, file' = 1, line' = 1, curFile' \in File, lineInfoFile' \in Nat,
             lowLine' \in Nat, sequence' = sequence + 1, numbered' = FALSE, matrix' = matrix
      PROVE  IInv'
  <2>1. /\ added' \in Seq(BlockType) /\ Blocks(added', matrix)
        /\ \A n, low, h : Pending(<<>>, n, low, added', matrix, sequence + 1, h)
    BY <1>1, <1>3, FlushStep
  <2>2. lineInfo' \in Seq([offset : 0 .. Word - 1, line : 0 .. LineWord - 1])
    BY <1>3
  <2>3. TypeOK'
    BY <1>1, <1>3, <2>1, <2>2 DEF TypeOK
  <2>4. HistoryOK'
    <3>1. sequence' \in Nat /\ matrix' \in Seq(MatrixRow)
      BY <1>1, <1>3 DEF HistoryOK
    <3>2. numbered' \in BOOLEAN
      BY <1>3, Zenon
    <3> QED
      BY <3>1, <3>2, Zenon DEF HistoryOK
  <2>5. Consistent'
    BY <1>3, <2>1 DEF Consistent
  <2> QED
    BY <2>3, <2>4, <2>5 DEF IInv
<1>4. CASE EndSequence /\ ~FlushFails
  <2>1. /\ pc = "program" /\ CanFlush /\ AddBlock(address) /\ lineInfo' = <<>> /\ ops' = ops + 1
        /\ address' = 0 /\ file' = 1 /\ line' = 1 /\ sequence' = sequence + 1
        /\ numbered' = FALSE
        /\ UNCHANGED <<pc, header, curFile, lineInfoFile, lowLine, matrix>>
    BY <1>4, Zenon DEF EndSequence, Op, InitRegisters
  <2>2. header' \in Headers /\ curFile' \in File /\ lineInfoFile' \in Nat /\ lowLine' \in Nat
    BY <1>1, <2>1 DEF TypeOK
  <2> QED
    BY <1>3, <1>4, <2>1, <2>2
<1>5. CASE EndProgram
  <2>1. /\ pc = "program" /\ CanFlush /\ AddBlock(address) /\ lineInfo' = <<>>
        /\ ops' = ops + 1 /\ address' = 0 /\ file' = 1 /\ line' = 1 /\ curFile' = NoFile
        /\ lineInfoFile' = 0 /\ lowLine' = 0 /\ sequence' = sequence + 1
        /\ numbered' = FALSE /\ matrix' = matrix
        /\ pc' \in {"header", "done"} /\ (header' \in Headers \/ header' = header)
    BY <1>5 DEF EndProgram, InitRegisters
  <2>2. header' \in Headers /\ curFile' \in File
    BY <1>1, <2>1, Operands DEF TypeOK, NoFile, File
  <2> QED
    BY <1>3, <2>1, <2>2
<1> QED
  BY <1>2, <1>4, <1>5

LEMMA Invariance == Spec => []IInv
<1>1. IInv /\ [Next]_vars => IInv'
  BY RegisterSteps, RowSteps, EndSteps DEF Next
<1> QED
  BY InitIInv, <1>1, PTL DEF Spec

-----------------------------------------------------------------------------
(* Registers, pending rows and the blocks handed to AddLines are always    *)
(* numbers of their widths, and a block always lies in a section.          *)
THEOREM TypeCorrect == Spec => []TypeOK
<1>1. IInv => TypeOK
  BY DEF IInv
<1> QED
  BY Invariance, <1>1, PTL

LEMMA AllDelivered == IInv => RowsDelivered
<1> SUFFICES ASSUME IInv, pc # "failed",
                    lineInfo = <<>> \/ FileKnown(header, lineInfoFile)
             PROVE  /\ Len(Delivered) = Len(matrix)
                    /\ \A i \in DOMAIN matrix : Answers(Delivered[i], matrix[i])
  BY DEF RowsDelivered, Answers
<1> DEFINE c == Len(Rows(added))
<1>1. /\ TypeOK /\ HistoryOK /\ Blocks(added, matrix) /\ Ordered(lineInfo)
      /\ Pending(lineInfo, lineInfoFile, lowLine, added, matrix, sequence, header)
      /\ added \in Seq(BlockType) /\ matrix \in Seq(MatrixRow)
      /\ address \in 0 .. Word - 1
  BY DEF IInv, Consistent, Pending, TypeOK, HistoryOK
<1>2. Rows(added) \in Seq(Delivery) /\ c \in Nat
  <2>1. Len(added) \in 0 .. Len(added)
    BY <1>1
  <2>2. Rows(added) \in Seq(Delivery)
    BY <1>1, <2>1, RowsInFacts DEF Rows
  <2> QED
    BY <2>2, LenProperties
<1>3. RowsOfFirst(Len(added)) = Rows(added)
  BY DEF RowsOfFirst, Rows, RowsIn
<1>4. CASE ~Placed(lineInfo)
  <2>1. ToCome = <<>>
    BY <1>1, <1>4, PendingTerms DEF ToCome
  <2>2. Delivered = Rows(added)
    BY <1>2, <1>3, <2>1, ConcatEmptySeq DEF Delivered
  <2>3. Len(matrix) = c
    <3>1. Len(matrix) = c + 0
      BY <1>1, <1>4 DEF Pending
    <3> QED
      BY <1>2, <3>1
  <2> QED
    BY <1>1, <2>2, <2>3 DEF Blocks
<1>5. CASE Placed(lineInfo)
  <2> DEFINE b == Block(address)
             len == Len(lineInfo)
  <2>1. lineInfo # <<>> /\ FileKnown(header, lineInfoFile) /\ ~Invalid
    BY <1>1, <1>5, PendingTerms DEF Placed
  <2>2. len \in Nat \ {0} /\ DOMAIN lineInfo = 1 .. len
    BY <1>1, <2>1, PendingTerms
  <2>3. ToCome = RowsOf(b)
    BY <2>1 DEF ToCome
  <2>4. RowsOf(b) \in Seq(Delivery) /\ Len(RowsOf(b)) = len
    <3>1. b \in BlockType /\ Len(RowsOf(b)) = len
      BY <1>1, <1>5, <2>1, BlockFacts
    <3> QED
      BY <3>1, RowsOfFacts
  <2> HIDE DEF b
  <2>5. /\ Len(Rows(added) \o RowsOf(b)) = Len(Rows(added)) + Len(RowsOf(b))
        /\ \A i \in 1 .. Len(Rows(added)) + Len(RowsOf(b)) :
             (Rows(added) \o RowsOf(b))[i]
               = IF i <= Len(Rows(added)) THEN Rows(added)[i]
                 ELSE RowsOf(b)[i - Len(Rows(added))]
    BY <1>2, <2>4, ConcatProperties, Zenon
  <2>6. Delivered = Rows(added) \o RowsOf(b)
    BY <1>3, <2>3 DEF Delivered
  <2>7. Len(matrix) = c + len
    BY <1>1, <1>5 DEF Pending
  <2>8. ASSUME NEW i \in DOMAIN matrix PROVE Answers(Delivered[i], matrix[i])
    <3>1. i \in 1 .. c + len
      BY <1>1, <2>7
    <3>2. Delivered[i] = IF i <= c THEN Rows(added)[i] ELSE RowsOf(b)[i - c]
      BY <2>4, <2>5, <2>6, <3>1
    <3>3. CASE i <= c
      <4>1. i \in 1 .. c
        BY <1>2, <3>1, <3>3
      <4>2. Answers(Rows(added)[i], matrix[i])
        BY <1>1, <4>1, Zenon DEF Blocks
      <4> QED
        BY <3>2, <3>3, <4>2
    <3>4. CASE ~(i <= c)
      <4>1. i - c \in DOMAIN lineInfo /\ c + (i - c) = i
        BY <1>2, <2>2, <3>1, <3>4
      <4>2. matrix[i] \in MatrixRow
        BY <1>1
      <4>3. StandsFor(matrix[c + (i - c)], lineInfo[i - c], lineInfoFile, lowLine, sequence,
                      header)
        BY <1>1, <1>5, <4>1, Zenon DEF Pending
      <4>4. StandsFor(matrix[i], lineInfo[i - c], lineInfoFile, lowLine, sequence, header)
        BY <4>1, <4>3
      <4>5. Answers(RowsOf(b)[i - c], matrix[i])
        BY <1>1, <1>5, <2>1, <4>1, <4>2, <4>4, BlockFacts, Zenon DEF b
      <4> QED
        BY <3>2, <3>4, <4>5
    <3> QED
      BY <3>3, <3>4
  <2> QED
    BY <2>4, <2>5, <2>6, <2>7, <2>8
<1> QED
  BY <1>4, <1>5

(* Every row that a program makes in the image, and no other, is handed to *)
(* AddLines, in order, with its own line, its section and the address it   *)
(* has in it, and its file, whatever ends the blocks it is collected in    *)
(* (addLineInfo, _flushDWARFLines).                                        *)
THEOREM RowsReachThePDB == Spec => []RowsDelivered
BY Invariance, AllDelivered, PTL

LEMMA AllMeet == IInv => RangesMeet
<1> SUFFICES ASSUME IInv, pc # "failed", NEW i \in DOMAIN added
             PROVE  /\ End(added[i]) >= LastOf(added[i])
                    /\ (/\ i < Len(added)
                        /\ FirstRow(i).sequence = FirstRow(i + 1).sequence
                        /\ added[i + 1].offset >= LastOf(added[i])) =>
                          End(added[i]) = added[i + 1].offset
  BY DEF RangesMeet
<1>1. Meets(added, matrix, i)
  BY DEF IInv, Consistent, Blocks
<1>2. \A k : FirstRow(k) = FirstOf(added, matrix, k)
  BY DEF FirstRow, FirstOf, RowsOfFirst, RowsIn
<1> QED
  BY <1>1, <1>2, Zenon DEF Meets

(* The range of a block holds its rows, and where a sequence goes upwards  *)
(* ends where the next block begins, for every order in which the rows of  *)
(* a program come (_flushDWARFLines).                                      *)
THEOREM BlocksMeet == Spec => []RangesMeet
BY Invariance, AllMeet, PTL
=============================================================================
