---------------------------- MODULE StructFields ----------------------------
(***************************************************************************)
(* How addDWARFStructure and addDWARFFields (dwarf2pdb.cpp) turn the DIEs  *)
(* below a struct into the members of a field list: which DIEs they take   *)
(* for members, at what offset and how many.  An unnamed member of struct  *)
(* type is replaced by the members of its type, wherever in the unit that  *)
(* is, by a call of addDWARFFields with a cursor of its own.               *)
(*                                                                         *)
(* What the ids of the types are, and which buffer the records go to, is   *)
(* the subject of DwarfTypes.                                              *)
(***************************************************************************)
EXTENDS DieCursor, SequencesExt

CONSTANTS
  Units,            \* what a unit of .debug_info may hold
  FieldListRoom,    \* how far dwarfTypes may be ahead before fields are cut
  Leads,            \* how far it may be ahead when the struct is met
  MaxDepth          \* bound: calls of addDWARFFields in each other

StructTags == {"class_type", "structure_type", "union_type"}

(* name and nameless types are numbers; loc is where the member is in the  *)
(* struct, dataBitOffset in bits, -1 where the DIE does not say; bitOffset *)
(* counts from the other end of the bits of the storage; access is 0 where *)
(* the DIE does not say.                                                   *)
Die == [tag : StructTags \cup {"member", "inheritance", "other", "null"},
        hasChild : BOOLEAN, sibling : Nat, named : BOOLEAN, type : Nat,
        loc : Nat \cup {-1}, bitSize : Nat, dataBitOffset : Nat \cup {-1},
        bitOffset : Nat, storage : Nat, access : 0 .. 3]

ASSUME UnitsAssumption ==
  /\ \A u \in Units :
       /\ u \in Seq(Die) /\ WellNested(u)
       /\ \A i \in 1 .. Len(u) : /\ u[i].type <= Len(u)
                                 /\ u[i].type # 0 => ~IsNull(u[u[i].type])
  /\ FieldListRoom \in Nat /\ Leads \subseteq Int /\ MaxDepth \in Nat \ {0}

VARIABLES
  dies,             \* the unit (never changes)
  root,             \* the struct (never changes)
  calls,            \* addDWARFFields: the innermost call last
  leaves,           \* the LF_MEMBER leaves of the field list
  bases,            \* the LF_BCLASS leaves, which go to dwarfTypes
  ahead,            \* cbDwarfTypes - flStart
  nfields,
  clipped           \* a call ended before its cursor did

vars == <<dies, root, calls, leaves, bases, ahead, nfields, clipped>>

(* A call, the struct whose members it reads, where that is in the root,   *)
(* and the access that is left in id.                                      *)
Call == [cursor : Cursor, struct : Nat, base : Nat, access : 0 .. 3]

(* A leaf: the DIE it is made from, in the call for which struct; bits and *)
(* bitoff are those of the LF_BITFIELD it refers to (bits is 0: none).     *)
Leaf == [die : Nat, struct : Nat, offset : Nat, bits : Nat, bitoff : Nat,
         attribute : 0 .. 3]

LevelOfDie(u, i) == Cardinality(Around(u, i))

(* createTypes hands its cursor on as it is after it read the struct.      *)
Init ==
  /\ dies \in Units
  /\ root \in {i \in 1 .. Len(dies) : dies[i].tag \in StructTags}
  /\ calls = <<[cursor |-> [ptr |-> root + 1, level |-> LevelOfDie(dies, root),
                            prevHasChild |-> dies[root].hasChild,
                            sibling |-> dies[root].sibling],
                struct |-> root, base |-> 0, access |-> 0]>>
  /\ leaves = <<>> /\ bases = <<>>
  /\ ahead \in Leads
  /\ nfields = 0 /\ clipped = FALSE

-----------------------------------------------------------------------------
Top     == Last(calls)
IsUnion == dies[Top.struct].tag = "union_type"
Read    == readNext(dies, Top.cursor, TRUE)
Id      == dies[Read.die]

(* The cursor yields a DIE, and there is room for it.                      *)
Reading == calls # <<>> /\ Read.die # 0 /\ ahead <= FieldListRoom

Access == IF Id.access # 0 THEN Id.access ELSE Top.access
Attribute == CASE Access = 2 -> 2 [] Access = 3 -> 1 [] OTHER -> 3

(* The call goes on at the next sibling.                                   *)
Advanced ==
  [calls EXCEPT ![Len(calls)].cursor = gotoSibling(dies, Read.cursor),
                ![Len(calls)].access = Access]

Offset == IF IsUnion \/ Id.loc = -1 THEN 0 ELSE Id.loc
IsMember == Id.tag = "member" /\ (IsUnion \/ Id.loc # -1 \/ Id.bitSize > 0)

NewLeaf(offset, bits, bitoff, attribute) ==
  [die |-> Read.die, struct |-> Top.struct, offset |-> offset, bits |-> bits,
   bitoff |-> bitoff, attribute |-> attribute]

EndCall ==
  /\ calls # <<>> /\ Read.die = 0
  /\ calls' = Front(calls)
  /\ UNCHANGED <<dies, root, leaves, bases, ahead, nfields, clipped>>

Clip ==
  /\ calls # <<>> /\ Read.die # 0 /\ ahead > FieldListRoom
  /\ calls' = Front(calls) /\ clipped' = TRUE
  /\ UNCHANGED <<dies, root, leaves, bases, ahead, nfields>>

AddField ==
  /\ Reading /\ IsMember /\ Id.named /\ Id.bitSize = 0
  /\ leaves' = Append(leaves, NewLeaf(Top.base + Offset, 0, 0, 0))
  /\ nfields' = nfields + 1 /\ calls' = Advanced
  /\ UNCHANGED <<dies, root, bases, ahead, clipped>>

(* Where in its storage a bitfield is; the LF_BITFIELD has a byte for it.  *)
(* Mutant: the byte is forgotten.                                          *)
MutBitOffset ==
  IF Id.dataBitOffset # -1 THEN Id.dataBitOffset % 8
  ELSE (IF Id.storage > 0 THEN 8 * Id.storage ELSE 32) - Id.bitOffset - Id.bitSize
BitOffset ==
  (IF Id.dataBitOffset # -1 THEN Id.dataBitOffset % 8
   ELSE (IF Id.storage > 0 THEN 8 * Id.storage ELSE 32)
          - Id.bitOffset - Id.bitSize) % 256

(* The leaf of a bitfield has offset 0, and its LF_BITFIELD record goes to *)
(* dwarfTypes.                                                             *)
BitfieldSize == 12
AddBitfield ==
  /\ Reading /\ IsMember /\ Id.named /\ Id.bitSize > 0
  /\ leaves' = Append(leaves, NewLeaf(0, Id.bitSize, BitOffset, Attribute))
  /\ ahead' = ahead + BitfieldSize
  /\ nfields' = nfields + 1 /\ calls' = Advanced
  /\ UNCHANGED <<dies, root, bases, clipped>>

(* The access that is left in id when a call begins.                       *)
(* Mutant: id is shared by the calls.                                      *)
MutFirstAccess == Access
FirstAccess == 0

(* An unnamed member: its type is read with a copy of the cursor.          *)
TypeRead == readNext(dies, ChildCursor(Read.cursor, Id.type), FALSE)
IsEmbedded == /\ IsMember /\ ~Id.named /\ Id.type # 0
              /\ TypeRead.die # 0 /\ dies[TypeRead.die].tag \in StructTags

(* Mutant: the place of the unnamed member is forgotten.                   *)
MutInnerBase == Top.base
InnerBase == Top.base + Offset

EmbedMember ==
  /\ Reading /\ IsEmbedded /\ Len(calls) < MaxDepth
  /\ calls' = Append(Advanced,
                [cursor |-> TypeRead.cursor, struct |-> TypeRead.die,
                 base |-> InnerBase, access |-> FirstAccess])
  /\ UNCHANGED <<dies, root, leaves, bases, ahead, nfields, clipped>>

BaseClassSize == 12
AddBaseClass ==
  /\ Reading /\ Id.tag = "inheritance" /\ Id.loc # -1
  /\ bases' = Append(bases, NewLeaf(Top.base + Id.loc, 0, 0, 3))
  /\ ahead' = ahead + BaseClassSize
  /\ nfields' = nfields + 1 /\ calls' = Advanced
  /\ UNCHANGED <<dies, root, leaves, clipped>>

SkipDie ==
  /\ Reading /\ ~IsEmbedded
  /\ ~(IsMember /\ Id.named) /\ ~(Id.tag = "inheritance" /\ Id.loc # -1)
  /\ calls' = Advanced
  /\ UNCHANGED <<dies, root, leaves, bases, ahead, nfields, clipped>>

Next == \/ EndCall \/ Clip \/ AddField \/ AddBitfield
        \/ EmbedMember \/ AddBaseClass \/ SkipDie

Spec == Init /\ [][Next]_vars

-----------------------------------------------------------------------------
(* Properties *)

(* Every variable has its type, and nfields counts what was written.       *)
TypeOK ==
  /\ dies \in Seq(Die) /\ root \in 1 .. Len(dies)
  /\ calls \in Seq(Call) /\ Len(calls) <= MaxDepth
  /\ leaves \in Seq(Leaf) /\ bases \in Seq(Leaf)
  /\ ahead \in Int /\ clipped \in BOOLEAN
  /\ nfields = Len(leaves) + Len(bases)

(* A call for a struct with children is always at one of them, or at the   *)
(* null entry behind the last: gotoSibling skips what is below a member,   *)
(* and a copy of the cursor for an embedded struct starts at its first.    *)
CursorAmongMembers ==
  \A k \in 1 .. Len(calls) :
    LET c == calls[k]
    IN  dies[c.struct].hasChild =>
          c.cursor.ptr \in ChildrenOf(dies, c.struct)
                            \cup {EndOfLevel(dies, c.struct + 1)}

(* What the tree says about the members of struct s when it is at base:    *)
(* the DIEs in the order of declaration, an unnamed struct by its members. *)
EmbeddedIn(i) ==
  LET d == dies[i]
  IN  d.tag = "member" /\ ~d.named /\ d.type # 0 /\ dies[d.type].tag \in StructTags
InPlace(i) ==
  LET d == dies[i]
      off == IF dies[ParentOf(dies, i)].tag = "union_type" \/ d.loc = -1
             THEN 0 ELSE d.loc
  IN  [die |-> i, offset |-> off]
IsField(i) ==
  LET d == dies[i]
      placed == d.loc # -1
  IN  \/ d.tag = "inheritance" /\ placed
      \/ /\ d.tag = "member" /\ (d.named \/ EmbeddedIn(i))
         /\ placed \/ d.bitSize > 0 \/ dies[ParentOf(dies, i)].tag = "union_type"
MembersOf[s \in 1 .. Len(dies)] ==
  LET items == SetToSortSeq({i \in ChildrenOf(dies, s) : IsField(i)}, <)
      Expanded(i) ==
        IF EmbeddedIn(i)
        THEN LET inner == MembersOf[dies[i].type]
             IN  [k \in 1 .. Len(inner) |->
                    [inner[k] EXCEPT !.offset = @ + InPlace(i).offset]]
        ELSE <<InPlace(i)>>
  IN  FlattenSeq([k \in 1 .. Len(items) |-> Expanded(items[k])])

(* No struct whose members are asked for is without children.              *)
Solid ==
  /\ dies[root].hasChild
  /\ \A i \in 1 .. Len(dies) : EmbeddedIn(i) => dies[dies[i].type].hasChild

(* The members of the struct come out in the order of declaration, those   *)
(* of an embedded struct in its place, each at its offset from the         *)
(* beginning of the struct; none is lost unless the list was clipped.      *)
MembersInPlace ==
  Solid =>
    LET declared == MembersOf[root]
        IsLeaf(m) == dies[m.die].tag = "member"
        members  == SelectSeq(declared, IsLeaf)
    IN  /\ Len(leaves) <= Len(members)
        /\ \A i \in 1 .. Len(leaves) :
             /\ leaves[i].die = members[i].die
             /\ leaves[i].bits = 0 => leaves[i].offset = members[i].offset
        /\ calls = <<>> /\ ~clipped => nfields = Len(declared)

(* The access of a bitfield is that of a member of its own struct, not     *)
(* that of the struct it is embedded in.                                   *)
AccessFromOwnList ==
  \A i \in 1 .. Len(leaves) :
    LET l == leaves[i]
    IN  l.bits > 0 /\ l.attribute # 3 /\ dies[l.struct].hasChild =>
          \E j \in ChildrenOf(dies, l.struct) :
            j <= l.die /\ dies[j].access = 4 - l.attribute

(* What a comment says of addDWARFFields, "cursor points to the first      *)
(* member of the class/struct/union": a leaf is made from a member of the  *)
(* struct that is being read.                                              *)
LeavesAreOwn ==
  \A i \in 1 .. Len(leaves) : ParentOf(dies, leaves[i].die) = leaves[i].struct

(* What the documentation says of DW_AT_data_bit_offset: it is the byte    *)
(* offset of the member times 8 and the bit offset in that byte.           *)
BitfieldsWhereDwarfSays ==
  \A i \in 1 .. Len(leaves) :
    LET l == leaves[i]
    IN  l.bits > 0 /\ l.struct = root /\ dies[l.die].dataBitOffset # -1 =>
          8 * l.offset + l.bitoff = dies[l.die].dataBitOffset
=============================================================================
