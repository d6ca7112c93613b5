----------------------------- MODULE EnumFields -----------------------------
(***************************************************************************)
(* How addDWARFEnum (dwarf2pdb.cpp) writes the enumerators of one enum.    *)
(* A type record may not exceed MaxRecord bytes, so the field list is      *)
(* split over as many LF_FIELDLIST records as it takes, each of which ends *)
(* in an LF_INDEX leaf with the type id of the next one.  The records lie  *)
(* one after the other in dwarfTypes and are numbered by nextDwarfType.    *)
(***************************************************************************)
EXTENDS FieldLeaves, SequencesExt

CONSTANTS
  Enums,            \* what the cursor may yield below an enum
  FirstFieldList,   \* nextDwarfType,
  BufferUsed,       \*   cbDwarfTypes
  BufferSize,       \*   and allocDwarfTypes when the enum is met
  AllocAdd,         \* what the buffer grows by beyond what is needed
  MaxRecord,        \* the largest record (0xffff)
  CountRange        \* the count of LF_ENUM is a number below this (2^16)

(* A name is a number that stands for it, and its length.                  *)
Child == [tag : {"enumerator", "other"}, hasValue : BOOLEAN, value : Int,
          name : Nat, nameLen : Nat]

ASSUME EnumAssumption ==
  /\ Enums \subseteq Seq(Child)
  /\ FirstFieldList \in Nat
  /\ BufferUsed \in Nat /\ BufferSize \in Nat /\ BufferUsed <= BufferSize
  /\ AllocAdd \in Nat
  /\ CountRange \in Nat \ {0}
  /\ MaxRecord \in Nat

(* A record has room for any enumerator.                                   *)
ASSUME RoomAssumption ==
  HeaderSize + Aligned(4 + 6 + MaxNameLen) + IndexSize <= MaxRecord

VARIABLES
  children,         \* the DIEs below the enum (never changes)
  next,             \* the one the cursor comes to next
  lists,            \* the LF_FIELDLIST records, the last one being filled
  fieldlistLength,  \* the bytes of the last one so far
  nextDwarfType,
  cbDwarfTypes,
  allocDwarfTypes,
  count,            \* enumerators so far
  enums             \* the LF_ENUM record in userTypes, when it is written

vars == <<children, next, lists, fieldlistLength, nextDwarfType,
          cbDwarfTypes, allocDwarfTypes, count, enums>>

(* Where a leaf and a record begin in dwarfTypes is part of them; len is   *)
(* the first word of the record, 0 until it is filled in.                  *)
Leaf == [kind : {"enumerate", "index"}, pos : Nat, size : Nat,
         name : Nat, value : NumericLeaf, ref : Nat]
FieldList == [pos : Nat, len : Nat, leaves : Seq(Leaf)]

addFieldEnumerate(pos, c) ==
  [kind |-> "enumerate", pos |-> pos, size |-> EnumerateSize(c.value, c.nameLen),
   name |-> c.name, value |-> write_numeric_leaf(c.value), ref |-> 0]

IndexLeaf(pos, ref) ==
  [kind |-> "index", pos |-> pos, size |-> IndexSize,
   name |-> 0, value |-> write_numeric_leaf(0), ref |-> ref]

NewList(pos) == [pos |-> pos, len |-> 0, leaves |-> <<>>]
WithLeaf(list, leaf) == [list EXCEPT !.leaves = Append(@, leaf)]
Closed(list, bytes)  == [list EXCEPT !.len = @ + bytes - 2]

(* checkDWARFTypeAlloc(size) with cb bytes in use.                         *)
(* Mutant: the buffer grows by half and no more.                           *)
MutChecked(cb, alloc, size) ==
  IF cb + size > alloc THEN alloc + alloc \div 2 + AllocAdd ELSE alloc
Checked(cb, alloc, size) ==
  IF cb + size > alloc THEN alloc + alloc \div 2 + size + AllocAdd ELSE alloc

NameRoom == MaxNameLen + 100

Init ==
  /\ children \in Enums
  /\ next = 1 /\ count = 0 /\ enums = <<>>
  /\ lists = <<NewList(BufferUsed)>>
  /\ fieldlistLength = HeaderSize
  /\ nextDwarfType = FirstFieldList + 1
  /\ cbDwarfTypes = BufferUsed
  /\ allocDwarfTypes = Checked(BufferUsed, BufferSize, 100)

-----------------------------------------------------------------------------
Filling   == Len(lists)
ListEnd   == lists[Filling].pos + fieldlistLength
AtChild   == next <= Len(children)
IsEnumerator(c) == c.tag = "enumerator" /\ c.hasValue

(* Does the next enumerator leave room for an LF_INDEX leaf?               *)
(* Mutant: that room is forgotten.                                         *)
MutFits ==
  fieldlistLength + EnumerateSize(children[next].value, children[next].nameLen)
    <= MaxRecord
Fits ==
  fieldlistLength + EnumerateSize(children[next].value, children[next].nameLen)
    + IndexSize <= MaxRecord

SkipChild ==
  /\ enums = <<>> /\ AtChild /\ ~IsEnumerator(children[next])
  /\ next' = next + 1
  /\ UNCHANGED <<children, lists, fieldlistLength, nextDwarfType,
                 cbDwarfTypes, allocDwarfTypes, count, enums>>

AddEnumerator ==
  /\ enums = <<>> /\ AtChild /\ IsEnumerator(children[next]) /\ Fits
  /\ LET leaf == addFieldEnumerate(ListEnd, children[next])
     IN  /\ lists' = [lists EXCEPT ![Filling] = WithLeaf(@, leaf)]
         /\ fieldlistLength' = fieldlistLength + leaf.size
  /\ cbDwarfTypes' = ListEnd
  /\ allocDwarfTypes' = Checked(ListEnd, allocDwarfTypes, NameRoom)
  /\ next' = next + 1 /\ count' = count + 1
  /\ UNCHANGED <<children, nextDwarfType, enums>>

(* The record that is being filled, with an LF_INDEX leaf at its end.      *)
(* Mutant: the leaf names the record it is in.                             *)
MutContinued(list, ref) ==
  Closed(WithLeaf(list, IndexLeaf(ListEnd, ref - 1)), fieldlistLength + IndexSize)
Continued(list, ref) ==
  Closed(WithLeaf(list, IndexLeaf(ListEnd, ref)), fieldlistLength + IndexSize)

(* A new record begins with the enumerator that did not fit.               *)
(* Mutant: its place is computed before the LF_INDEX leaf was counted.     *)
MutNewStart == ListEnd
NewStart == ListEnd + IndexSize

(* It was written twice by then, and is counted once.                      *)
(* Mutant: it is counted with each of the two.                             *)
MutCountedOnce == count + 2
CountedOnce == count + 1

SplitList ==
  /\ enums = <<>> /\ AtChild /\ IsEnumerator(children[next]) /\ ~Fits
  /\ LET start == NewStart
         leaf  == addFieldEnumerate(start + HeaderSize, children[next])
     IN  /\ lists' = Append([lists EXCEPT ![Filling] = Continued(@, nextDwarfType)],
                            WithLeaf(NewList(start), leaf))
         /\ fieldlistLength' = HeaderSize + leaf.size
         /\ cbDwarfTypes' = start + HeaderSize
         /\ allocDwarfTypes' =
              Checked(start + HeaderSize,
                      Checked(ListEnd, allocDwarfTypes, NameRoom), NameRoom)
  /\ nextDwarfType' = nextDwarfType + 1
  /\ next' = next + 1 /\ count' = CountedOnce
  /\ UNCHANGED <<children, enums>>

(* The field list is complete and the LF_ENUM refers to its first record.  *)
(* Mutant: it refers to the last one.                                      *)
MutEnumRecord == [count |-> count % CountRange, fieldlist |-> nextDwarfType - 1]
EnumRecord == [count |-> count % CountRange, fieldlist |-> FirstFieldList]

FinishEnum ==
  /\ enums = <<>> /\ ~AtChild
  /\ cbDwarfTypes' = ListEnd
  /\ lists' = [lists EXCEPT ![Filling] = Closed(@, fieldlistLength)]
  /\ enums' = <<EnumRecord>>
  /\ UNCHANGED <<children, next, fieldlistLength, nextDwarfType,
                 allocDwarfTypes, count>>

Next == SkipChild \/ AddEnumerator \/ SplitList \/ FinishEnum

Spec == Init /\ [][Next]_vars

-----------------------------------------------------------------------------
(* Properties *)

(* Every variable has its type.                                            *)
TypeOK ==
  /\ children \in Seq(Child)
  /\ next \in 1 .. Len(children) + 1
  /\ lists \in Seq(FieldList) /\ lists # <<>>
  /\ fieldlistLength \in Nat /\ nextDwarfType \in Nat
  /\ cbDwarfTypes \in Nat /\ allocDwarfTypes \in Nat
  /\ count \in 0 .. next - 1
  /\ enums \in {<<>>, <<EnumRecord>>}

EndOf(list) ==
  IF list.leaves = <<>> THEN list.pos + HeaderSize
  ELSE list.leaves[Len(list.leaves)].pos + list.leaves[Len(list.leaves)].size

(* No record grows beyond what a record may have, and the one that is      *)
(* being filled can always still be continued in another one.              *)
RecordsFit ==
  /\ \A k \in 1 .. Len(lists) : EndOf(lists[k]) - lists[k].pos <= MaxRecord
  /\ EndOf(lists[Filling]) - lists[Filling].pos + IndexSize <= MaxRecord

(* The lengths lead a reader from leaf to leaf and from record to record:  *)
(* no gaps, nothing overwritten, nothing left over at the end.             *)
LeavesAdjoin(list) ==
  \A i \in 1 .. Len(list.leaves) :
    list.leaves[i].pos =
      IF i = 1 THEN list.pos + HeaderSize
      ELSE list.leaves[i - 1].pos + list.leaves[i - 1].size
RecordsAdjoin ==
  /\ \A k \in 1 .. Len(lists) : LeavesAdjoin(lists[k])
  /\ \A k \in 1 .. Len(lists) - 1 :
       /\ lists[k + 1].pos = EndOf(lists[k])
       /\ lists[k].len + 2 = EndOf(lists[k]) - lists[k].pos
  /\ enums # <<>> =>
       /\ cbDwarfTypes = EndOf(lists[Filling])
       /\ lists[Filling].len + 2 = EndOf(lists[Filling]) - lists[Filling].pos

(* A record is continued exactly at its end, and exactly in the record     *)
(* that is numbered next.                                                  *)
ChainUnbroken ==
  \A k \in 1 .. Len(lists) : \A i \in 1 .. Len(lists[k].leaves) :
    LET leaf == lists[k].leaves[i]
    IN  /\ leaf.kind = "index" <=> (k < Len(lists) /\ i = Len(lists[k].leaves))
        /\ leaf.kind = "index" => leaf.ref = FirstFieldList + k

(* Whatever is written lies in the memory that was allocated before.       *)
LeavesInsideBuffer ==
  \A k \in 1 .. Len(lists) : EndOf(lists[k]) <= allocDwarfTypes

(* What a reader of the PDB finds who follows the chain from record k.     *)
Shown(leaf) ==
  IF leaf.kind = "enumerate" THEN <<<<leaf.name, numeric_leaf(leaf.value)>>>>
  ELSE <<>>
Enumerators(list) ==
  FlattenSeq([i \in DOMAIN list.leaves |-> Shown(list.leaves[i])])
ReadFrom[k \in 1 .. Len(lists)] ==
  LET leaves == lists[k].leaves
      last   == leaves[Len(leaves)]
  IN  Enumerators(lists[k]) \o
      IF /\ leaves # <<>> /\ last.kind = "index"
         /\ last.ref - FirstFieldList \in k .. Len(lists) - 1
      THEN ReadFrom[last.ref - FirstFieldList + 1] ELSE <<>>

(* What the program declares.                                              *)
Declared(c) == IF IsEnumerator(c) THEN <<<<c.name, c.value>>>> ELSE <<>>
DeclaredFirst(n) == FlattenSeq([j \in 1 .. n |-> Declared(children[j])])

(* From the LF_ENUM a reader gets every enumerator of the enum, with its   *)
(* own value, once and in order, and as many as the record announces.      *)
ReaderSeesEnum ==
  \A i \in 1 .. Len(enums) :
    LET read == ReadFrom[enums[i].fieldlist - FirstFieldList + 1]
    IN  /\ read = DeclaredFirst(Len(children))
        /\ enums[i].count = Len(read) % CountRange
=============================================================================
