----------------------------- MODULE DwarfTypes -----------------------------
(***************************************************************************)
(* The numbering of types on the DWARF path of cv2pdb (dwarf2pdb.cpp).     *)
(*                                                                         *)
(* createDWARFModules walks .debug_info twice.  mapTypes reserves one type *)
(* id per type DIE; createTypes emits the records.  Records go to two      *)
(* buffers: userTypes, numbered by nextUserType, and dwarfTypes, numbered  *)
(* by nextDwarfType.  At the end dwarfTypes is appended to userTypes and   *)
(* the whole stream is handed to Mod::AddTypes, which numbers the records  *)
(* by their position.  Nothing in the stream says what id the converter    *)
(* meant a record to have, so every id that was written into another       *)
(* record is right only if the two numberings agree.                       *)
(*                                                                         *)
(* One step of the model is one DIE, except for a struct, whose members    *)
(* are taken one step at a time.  Sizes are counted in records.            *)
(***************************************************************************)
EXTENDS Integers, Sequences, FiniteSets

CONSTANTS
  BASE_USER_TYPE,   \* id of the first record of the stream (0x1000)
  Dversion,         \* the D compiler version on the command line; 0 for C
  UseTypedefEnum,   \* -e: write base types as enums without enumerators
  FieldListRoom,    \* how far dwarfTypes may be ahead before fields are cut
  Inputs            \* the sequences of DIEs that .debug_info may hold

T_NOTYPE == 0       \* a type id that names nothing
NoName == "anonymous"

StructTags   == {"class_type", "structure_type", "union_type"}
ModifierTags == {"typedef", "const_type", "subrange_type"}
PointerTags  == {"pointer_type", "reference_type"}
OpaqueTags   == {"subroutine_type", "string_type", "ptr_to_member_type",
                 "set_type", "file_type", "packed_type", "thrown_type",
                 "volatile_type", "restrict_type", "interface_type",
                 "unspecified_type", "mutable_type", "shared_type",
                 "rvalue_reference_type"}
TypeTags     == StructTags \cup ModifierTags \cup PointerTags \cup OpaqueTags
                  \cup {"base_type", "array_type", "enumeration_type"}
Tags         == TypeTags \cup {"variable", "subprogram"}

MemberKinds  == {"plain", "bitfield", "anonymous", "inheritance", "other"}
Symbols      == {"none", "defined", "dllimport"}   \* what a variable names

(***************************************************************************)
(* A DIE: ref is the DIE its DW_AT_type names (0: none); name stands for   *)
(* the name and the names of the scopes around it; abbrev is the           *)
(* abbreviation it was written with; members is what the cursor yields for *)
(* a struct; lists is the number of LF_FIELDLIST records its enumerators   *)
(* need; symbol is what the location of a variable resolves to.            *)
(***************************************************************************)
Member == [kind : MemberKinds, ref : Nat]
Die == [tag : Tags, ref : Nat, name : STRING, decl : BOOLEAN, abbrev : Nat,
        members : Seq(Member), lists : Nat \ {0}, symbol : Symbols]

(* Every reference stays in the section: getTypeByDWARFPtr asserts that    *)
(* the DIE it is asked for was indexed.                                    *)
RefsInside(s) ==
  \A d \in 1 .. Len(s) :
    /\ s[d].ref <= Len(s)
    /\ \A i \in 1 .. Len(s[d].members) : s[d].members[i].ref <= Len(s)

ASSUME ConstAssumption ==
  /\ BASE_USER_TYPE \in Nat \ {0}
  /\ Dversion \in Nat
  /\ UseTypedefEnum \in BOOLEAN
  /\ FieldListRoom \in Nat
  /\ Inputs \subseteq Seq(Die)
  /\ \A s \in Inputs : RefsInside(s)

VARIABLES
  dies,             \* .debug_info, as a sequence of DIEs (never changes)
  pc,               \* "map", "create", "fields" or "done"
  pos,              \* the DIE the cursor is at
  typeID,           \* the local of mapTypes, then that of createTypes
  nextUserType,
  nextDwarfType,
  typeMap,          \* mapEntryPtrToTypeID; T_NOTYPE for a DIE not in it
  userTypes,        \* the two record buffers
  dwarfTypes,
  list,             \* the open struct: the index of its field list,
  mark,             \*   the length dwarfTypes had before its members,
  backRef,          \*   hasBackRef,
  todo,             \*   and the members still to be read
  udts,             \* the S_UDT symbols: sequence of [die, type]
  globals,          \* the type ids of the global variables' symbols
  created,          \* history: the id the record of each DIE was given
  stream            \* the argument of Mod::AddTypes

structVars == <<list, mark, backRef, todo>>
vars == <<dies, pc, pos, typeID, nextUserType, nextDwarfType, typeMap,
          userTypes, dwarfTypes, structVars, udts, globals, created, stream>>

-----------------------------------------------------------------------------
(* Records.  id is the id the converter believes the record to have (it is *)
(* not written anywhere), refs the ids written into the record.            *)

RecordKinds == {"fieldlist", "bitfield", "struct", "incomplete", "enum",
                "modifier", "pointer", "array", "leaf"}
Record == [kind : RecordKinds, die : Nat, id : Nat, refs : SUBSET Nat]

(* A symbol that names a type.                                             *)
Symbol == [die : Nat, type : Nat]

Rec(kind, die, id, refs) ==
  [kind |-> kind, die |-> die, id |-> id, refs |-> refs]

(* The empty field list, and a field list and a struct for each of the     *)
(* three complex types of D.                                               *)
Prelude ==
  [i \in 1 .. (IF Dversion > 0 THEN 7 ELSE 1) |->
     LET id == BASE_USER_TYPE + i - 1
     IN  IF i = 1 THEN Rec("fieldlist", 0, id, {})
         ELSE IF i % 2 = 0 THEN Rec("fieldlist", 0, id, {})
         ELSE Rec("struct", 0, id, {id - 1})]

FirstUserType == BASE_USER_TYPE + Len(Prelude)

PreludeUdts ==
  [i \in 1 .. (IF Dversion > 0 THEN 3 ELSE 0) |->
     [die |-> 0, type |-> BASE_USER_TYPE + 2 * i]]

(* Mutant: mapTypes reserves an id for a declaration as well.              *)
MutIsMapped(d) == d.tag \in TypeTags

IsMapped(d) == d.tag \in TypeTags /\ ~(d.tag \in StructTags /\ d.decl)
IsStruct(d) == d.tag \in StructTags /\ ~d.decl

(* getTypeByDWARFPtr: the reserved id; for a declaration, that of a        *)
(* definition with the same tag, name and scope.  With several the last    *)
(* one of the hash bucket wins, whichever that is.                         *)
Definitions(r) ==
  {c \in 1 .. Len(dies) :
     /\ c # r
     /\ ~dies[c].decl
     /\ dies[c].tag = dies[r].tag
     /\ dies[c].name = dies[r].name}

TypesByPtr(r) ==
  IF r = 0 THEN {T_NOTYPE}
  ELSE IF typeMap[r] # T_NOTYPE THEN {typeMap[r]}
  ELSE IF dies[r].name = NoName \/ Definitions(r) = {} THEN {T_NOTYPE}
  ELSE {typeMap[c] : c \in Definitions(r)}

Init ==
  /\ dies \in Inputs
  /\ pc = "map"
  /\ pos = 1
  /\ typeID = FirstUserType
  /\ nextUserType = FirstUserType
  /\ nextDwarfType = BASE_USER_TYPE
  /\ typeMap = [d \in 1 .. Len(dies) |-> T_NOTYPE]
  /\ userTypes = Prelude
  /\ dwarfTypes = <<>>
  /\ list = 0 /\ mark = 0 /\ backRef = FALSE /\ todo = <<>>
  /\ udts = PreludeUdts
  /\ globals = {}
  /\ created = [d \in 1 .. Len(dies) |-> T_NOTYPE]
  /\ stream = <<>>

-----------------------------------------------------------------------------
(* mapTypes *)

MapDie ==
  /\ pc = "map" /\ pos <= Len(dies)
  /\ IF IsMapped(dies[pos])
       THEN /\ typeMap' = [typeMap EXCEPT ![pos] = typeID]
            /\ typeID' = typeID + 1
       ELSE UNCHANGED <<typeMap, typeID>>
  /\ pos' = pos + 1
  /\ UNCHANGED <<dies, pc, nextUserType, nextDwarfType, userTypes, dwarfTypes,
                 structVars, udts, globals, created, stream>>

FinishMap ==
  /\ pc = "map" /\ pos > Len(dies)
  /\ nextDwarfType' = typeID
  /\ pc' = "create" /\ pos' = 1
  /\ typeID' = nextUserType
  /\ UNCHANGED <<dies, nextUserType, typeMap, userTypes, dwarfTypes,
                 structVars, udts, globals, created, stream>>

-----------------------------------------------------------------------------
(* createTypes: one action per group of cases of its switch *)

(* What createTypes does with its typeID after each record.                *)
Sync(cvtype) ==
  LET t == IF cvtype > typeID THEN cvtype + 1
           ELSE IF cvtype = typeID THEN typeID + 1
           ELSE typeID
  IN  typeID' = IF nextDwarfType' > t THEN nextDwarfType' ELSE t

(* The end of an iteration that made the record cvtype for the DIE.        *)
FinishDie(cvtype) ==
  /\ created' = [created EXCEPT ![pos] = cvtype]
  /\ Sync(cvtype)
  /\ pc' = "create" /\ pos' = pos + 1
  /\ UNCHANGED <<dies, typeMap, globals, stream>>

(* Mutant: the id is read after the counter was advanced.                  *)
MutAddUdtSymbol(type) == udts' = Append(udts, [die |-> pos, type |-> type + 1])

AddUdtSymbol(type) == udts' = Append(udts, [die |-> pos, type |-> type])

At(tags) == pc = "create" /\ pos <= Len(dies) /\ dies[pos].tag \in tags

AppendUserType(kind, refs) ==
  /\ userTypes' = Append(userTypes, Rec(kind, pos, nextUserType, refs))
  /\ nextUserType' = nextUserType + 1

(* A base type is an enum on the empty field list with -e, and a modifier  *)
(* of the basic CodeView type otherwise.                                   *)
CreateBasic ==
  /\ At({"base_type"})
  /\ IF UseTypedefEnum
       THEN /\ AppendUserType("enum", {BASE_USER_TYPE})
            /\ AddUdtSymbol(nextUserType)
       ELSE /\ AppendUserType("modifier", {})
            /\ UNCHANGED udts
  /\ UNCHANGED <<nextDwarfType, dwarfTypes, structVars>>
  /\ FinishDie(nextUserType)

(* The tags that are all written as a pointer to int.                      *)
CreateOpaque ==
  /\ At(OpaqueTags)
  /\ AppendUserType("pointer", {})
  /\ UNCHANGED <<nextDwarfType, dwarfTypes, structVars, udts>>
  /\ FinishDie(nextUserType)

CreateModifier ==
  /\ At(ModifierTags)
  /\ \E type \in TypesByPtr(dies[pos].ref) : AppendUserType("modifier", {type})
  /\ IF dies[pos].tag = "typedef" THEN AddUdtSymbol(nextUserType)
                                  ELSE UNCHANGED udts
  /\ UNCHANGED <<nextDwarfType, dwarfTypes, structVars>>
  /\ FinishDie(nextUserType)

CreatePointer ==
  /\ At(PointerTags)
  /\ \E type \in TypesByPtr(dies[pos].ref) : AppendUserType("pointer", {type})
  /\ UNCHANGED <<nextDwarfType, dwarfTypes, structVars, udts>>
  /\ FinishDie(nextUserType)

CreateArray ==
  /\ At({"array_type"})
  /\ \E type \in TypesByPtr(dies[pos].ref) : AppendUserType("array", {type})
  /\ UNCHANGED <<nextDwarfType, dwarfTypes, structVars, udts>>
  /\ FinishDie(nextUserType)

(* addDWARFEnum: the field lists go to dwarfTypes, each one but the last   *)
(* ends in an LF_INDEX that names the next; the LF_ENUM goes to userTypes. *)
CreateEnum ==
  LET n == dies[pos].lists
      first == nextDwarfType
      FieldList(k) ==
        Rec("fieldlist", pos, first + k - 1, IF k < n THEN {first + k} ELSE {})
  IN  /\ At({"enumeration_type"})
      /\ dwarfTypes' = dwarfTypes \o [k \in 1 .. n |-> FieldList(k)]
      /\ nextDwarfType' = nextDwarfType + n
      /\ AppendUserType("enum", {first})
      /\ AddUdtSymbol(nextUserType)
      /\ UNCHANGED structVars
      /\ FinishDie(nextUserType)

(* A variable whose address is known gets a symbol; one imported from a    *)
(* DLL is given a reference type of its own, in dwarfTypes.                *)
CreateVariable ==
  /\ At({"variable"}) /\ dies[pos].symbol # "none"
  /\ \E type \in TypesByPtr(dies[pos].ref) :
       IF dies[pos].symbol = "dllimport"
         THEN /\ dwarfTypes' = Append(dwarfTypes, Rec("pointer", pos,
                                                      nextDwarfType, {type}))
              /\ globals' = globals \cup {[die |-> pos, type |-> nextDwarfType]}
              /\ nextDwarfType' = nextDwarfType + 1
         ELSE /\ globals' = globals \cup {[die |-> pos, type |-> type]}
              /\ UNCHANGED <<dwarfTypes, nextDwarfType>>
  /\ pos' = pos + 1
  /\ UNCHANGED <<dies, pc, typeID, nextUserType, typeMap, userTypes,
                 structVars, udts, created, stream>>

(* Declarations of structs, variables without an address, and DIEs that    *)
(* have nothing to do with types.                                          *)
SkipDie ==
  /\ pc = "create" /\ pos <= Len(dies)
  /\ \/ dies[pos].tag \in StructTags /\ dies[pos].decl
     \/ dies[pos].tag = "variable" /\ dies[pos].symbol = "none"
     \/ dies[pos].tag = "subprogram"
  /\ pos' = pos + 1
  /\ UNCHANGED <<dies, pc, typeID, nextUserType, nextDwarfType, typeMap,
                 userTypes, dwarfTypes, structVars, udts, globals, created,
                 stream>>

-----------------------------------------------------------------------------
(* addDWARFStructure and addDWARFFields *)

Agenda(d) == [i \in 1 .. Len(dies[d].members) |->
                [owner |-> d, member |-> dies[d].members[i]]]

(* The field list header is written and given its id first.                *)
OpenStructure ==
  /\ At(StructTags) /\ ~dies[pos].decl
  /\ AppendUserType("fieldlist", {})
  /\ pc' = "fields"
  /\ list' = Len(userTypes) + 1
  /\ mark' = Len(dwarfTypes)
  /\ backRef' = FALSE
  /\ todo' = Agenda(pos)
  /\ UNCHANGED <<dies, pos, typeID, nextDwarfType, typeMap, dwarfTypes, udts,
                 globals, created, stream>>

(* The test at the top of the loop compares a position in dwarfTypes with  *)
(* a position in userTypes.                                                *)
NoRoom == Len(dwarfTypes) - (list - 1) > FieldListRoom

AtMember(kinds) ==
  /\ pc = "fields" /\ todo # <<>> /\ ~NoRoom
  /\ Head(todo).member.kind \in kinds

fieldsUnchanged == <<dies, pc, pos, typeID, nextDwarfType, typeMap, list, mark,
                     udts, globals, created, stream>>

(* Mutant: the bitfield's id is read after the counter was advanced.       *)
MutFieldRefers(type) ==
  userTypes' = [userTypes EXCEPT ![list].refs = @ \cup {type + 1}]

FieldRefers(type) == userTypes' = [userTypes EXCEPT ![list].refs = @ \cup {type}]

(* A pointer to a struct that has the abbreviation of the one being read   *)
(* is taken for a pointer back to it.                                      *)
IsBackRef(item) ==
  LET r == item.member.ref IN
  /\ r # 0 /\ dies[r].tag = "pointer_type" /\ dies[r].ref # 0
  /\ dies[dies[r].ref].abbrev = dies[item.owner].abbrev

AddField ==
  /\ AtMember({"plain"})
  /\ \E type \in TypesByPtr(Head(todo).member.ref) : FieldRefers(type)
  /\ backRef' = (backRef \/ IsBackRef(Head(todo)))
  /\ todo' = Tail(todo)
  /\ UNCHANGED <<nextUserType, dwarfTypes>>
  /\ UNCHANGED fieldsUnchanged

(* The LF_BITFIELD record is numbered as a user type but parked in         *)
(* dwarfTypes until the field list is complete.                            *)
AddBitfield ==
  /\ AtMember({"bitfield"})
  /\ \E type \in TypesByPtr(Head(todo).member.ref) :
       dwarfTypes' = Append(dwarfTypes,
                            Rec("bitfield", pos, nextUserType, {type}))
  /\ FieldRefers(nextUserType)
  /\ nextUserType' = nextUserType + 1
  /\ todo' = Tail(todo)
  /\ UNCHANGED backRef
  /\ UNCHANGED fieldsUnchanged

(* The members of an unnamed struct member are read in its place.          *)
EmbedMember ==
  LET r == Head(todo).member.ref IN
  /\ AtMember({"anonymous"})
  /\ todo' = IF r # 0 /\ dies[r].tag \in StructTags
               THEN Agenda(r) \o Tail(todo) ELSE Tail(todo)
  /\ UNCHANGED <<userTypes, nextUserType, dwarfTypes, backRef>>
  /\ UNCHANGED fieldsUnchanged

(* A base class: the LF_BCLASS leaf is a part of the field list, but it is *)
(* written to dwarfTypes, where it has no number.                          *)
AddBaseClass ==
  /\ AtMember({"inheritance"})
  /\ \E type \in TypesByPtr(Head(todo).member.ref) :
       dwarfTypes' = Append(dwarfTypes, Rec("leaf", pos, T_NOTYPE, {type}))
  /\ todo' = Tail(todo)
  /\ UNCHANGED <<userTypes, nextUserType, backRef>>
  /\ UNCHANGED fieldsUnchanged

(* Mutant: the cursor stays at a member it has no use for.                 *)
MutSkipMember == AtMember({"other"}) /\ UNCHANGED vars

SkipMember ==
  /\ AtMember({"other"})
  /\ todo' = Tail(todo)
  /\ UNCHANGED <<userTypes, nextUserType, dwarfTypes, backRef>>
  /\ UNCHANGED fieldsUnchanged

ClipFields ==
  /\ pc = "fields" /\ todo # <<>> /\ NoRoom
  /\ todo' = <<>>
  /\ UNCHANGED <<userTypes, nextUserType, dwarfTypes, backRef>>
  /\ UNCHANGED fieldsUnchanged

(* What is left in dwarfTypes once the parked records were moved.          *)
(* Mutant: they are copied but stay behind as well.                        *)
MutKept == dwarfTypes
Kept == SubSeq(dwarfTypes, 1, mark)

(* The parked records follow the field list; then comes the struct itself. *)
(* Mutant: the struct is written before they are copied.                   *)
MutWithParked(struct) ==
  Append(userTypes, struct) \o SubSeq(dwarfTypes, mark + 1, Len(dwarfTypes))
WithParked(struct) ==
  Append(userTypes \o SubSeq(dwarfTypes, mark + 1, Len(dwarfTypes)), struct)

(* Mutant: the place in dwarfTypes survives the struct.                    *)
MutLeaveStructure ==
  list' = 0 /\ backRef' = FALSE /\ todo' = <<>> /\ UNCHANGED mark
LeaveStructure ==
  list' = 0 /\ mark' = 0 /\ backRef' = FALSE /\ todo' = <<>>

(* If a member points back to the struct, its record in userTypes is only  *)
(* a forward reference and the definition goes to dwarfTypes.              *)
CloseStructure ==
  LET fieldlistType == userTypes[list].id IN
  /\ pc = "fields" /\ todo = <<>>
  /\ IF backRef
       THEN /\ userTypes' = WithParked(Rec("incomplete", pos, nextUserType, {}))
            /\ dwarfTypes' = Append(Kept, Rec("struct", pos, nextDwarfType,
                                              {fieldlistType}))
            /\ nextDwarfType' = nextDwarfType + 1
            /\ AddUdtSymbol(nextDwarfType)
       ELSE /\ userTypes' = WithParked(Rec("struct", pos, nextUserType,
                                           {fieldlistType}))
            /\ dwarfTypes' = Kept
            /\ AddUdtSymbol(nextUserType)
            /\ UNCHANGED nextDwarfType
  /\ nextUserType' = nextUserType + 1
  /\ LeaveStructure
  /\ FinishDie(nextUserType)

-----------------------------------------------------------------------------
(* The end of createTypes and of createDWARFModules *)

(* Mutant: the chunks are concatenated the other way round.                *)
MutConcatenated == dwarfTypes \o userTypes
Concatenated == userTypes \o dwarfTypes

AddTypes ==
  /\ pc = "create" /\ pos > Len(dies)
  /\ stream' = Concatenated
  /\ userTypes' = stream'
  /\ dwarfTypes' = <<>>
  /\ pc' = "done"
  /\ UNCHANGED <<dies, pos, typeID, nextUserType, nextDwarfType, typeMap,
                 structVars, udts, globals, created>>

CreateDie == \/ CreateBasic \/ CreateOpaque \/ CreateModifier
             \/ CreatePointer \/ CreateArray \/ CreateEnum
             \/ CreateVariable \/ SkipDie
Structure == \/ OpenStructure \/ AddField \/ AddBitfield \/ EmbedMember
             \/ AddBaseClass \/ SkipMember \/ ClipFields \/ CloseStructure

Next == MapDie \/ FinishMap \/ CreateDie \/ Structure \/ AddTypes

Spec == Init /\ [][Next]_vars
FairSpec == Spec /\ WF_vars(Next)

-----------------------------------------------------------------------------
(* Properties *)

Item == [owner : 1 .. Len(dies),
         member : [kind : MemberKinds, ref : 0 .. Len(dies)]]

StructVarsOK ==
  /\ list \in 0 .. Len(userTypes)
  /\ mark \in 0 .. Len(dwarfTypes)
  /\ backRef \in BOOLEAN
  /\ todo \in Seq(Item)
  /\ pc = "fields" => /\ pos <= Len(dies) /\ IsStruct(dies[pos])
                      /\ list > 0
  /\ pc # "fields" => list = 0 /\ mark = 0 /\ todo = <<>>

(* Every variable has its type, and the variables of the open struct are   *)
(* set exactly while its members are read (addDWARFStructure).             *)
TypeOK ==
  /\ dies \in Seq(Die) /\ RefsInside(dies)
  /\ pc \in {"map", "create", "fields", "done"}
  /\ pos \in 1 .. Len(dies) + 1
  /\ typeID \in Nat /\ nextUserType \in Nat /\ nextDwarfType \in Nat
  /\ typeMap \in [1 .. Len(dies) -> Nat]
  /\ created \in [1 .. Len(dies) -> Nat]
  /\ userTypes \in Seq(Record) /\ dwarfTypes \in Seq(Record)
  /\ stream \in Seq(Record)
  /\ udts \in Seq(Symbol) /\ globals \in SUBSET Symbol
  /\ StructVarsOK

(* The records of dwarfTypes that wait for the open field list to end.     *)
Parked == IF pc = "fields" THEN Len(dwarfTypes) - mark ELSE 0

NoInheritance ==
  \A d \in 1 .. Len(dies) : \A i \in 1 .. Len(dies[d].members) :
    dies[d].members[i].kind # "inheritance"

(* The order BITFIELD_CHANGES.md calls critical: as long as no struct has  *)
(* a base class, the id taken from nextUserType for every record of        *)
(* userTypes is its position in the buffer, and the bitfield records that  *)
(* are parked in dwarfTypes will be at theirs once they are copied.        *)
UserIdsArePositions ==
  (NoInheritance /\ pc # "done") =>
    /\ \A i \in 1 .. Len(userTypes) : userTypes[i].id = BASE_USER_TYPE + i - 1
    /\ \A k \in 1 .. Parked :
         dwarfTypes[mark + k].id = BASE_USER_TYPE + Len(userTypes) + k - 1
    /\ nextUserType = BASE_USER_TYPE + Len(userTypes) + Parked

(* The records that stay in dwarfTypes were numbered one after the other,  *)
(* whatever was parked behind them in between: no id of theirs is taken    *)
(* twice and none is lost when CloseStructure cuts the buffer.             *)
DwarfIdsConsecutive ==
  \A k \in 1 .. Len(dwarfTypes) - Parked :
    dwarfTypes[k].id = nextDwarfType - (Len(dwarfTypes) - Parked) + k - 1

AggregateFree == \A d \in 1 .. Len(dies) : ~IsStruct(dies[d])

(* Without structs the two passes agree: the record createTypes makes for  *)
(* a DIE gets the id mapTypes reserved for it, which is the assertion that *)
(* createTypes has commented out.                                          *)
TypeMapHonoured ==
  AggregateFree =>
    \A d \in 1 .. Len(dies) : created[d] # T_NOTYPE => created[d] = typeMap[d]

(* The record mspdb will find under an id: none or one.                    *)
Found(type) ==
  {stream[i] : i \in {type - BASE_USER_TYPE + 1} \cap DOMAIN stream}

(* Without structs, what AddTypes is given resolves: every record is where *)
(* its id says, and the id a modifier, pointer or array was given for the  *)
(* DIE its DW_AT_type names is the position of that DIE's record.          *)
RefsResolve ==
  (AggregateFree /\ pc = "done") =>
    \A i \in 1 .. Len(stream) :
      LET r == stream[i] IN
      /\ r.id = BASE_USER_TYPE + i - 1
      /\ (r.kind \in {"modifier", "pointer", "array"} /\ r.refs # {}) =>
           \A t \in r.refs \ {T_NOTYPE} :
             \E x \in Found(t) : x.die = dies[r.die].ref
      /\ (r.kind = "enum" /\ r.die # 0) =>
           \A t \in r.refs :
             \E x \in Found(t) : x.kind = "fieldlist" /\ x.die \in {0, r.die}

(* Without structs, every S_UDT symbol names the record of its own DIE and *)
(* every global variable the record of its type, or the reference made for *)
(* it when it comes from a DLL.                                            *)
SymbolsResolve ==
  (AggregateFree /\ pc = "done") =>
    /\ \A i \in 1 .. Len(udts) :
         \E x \in Found(udts[i].type) : x.die = udts[i].die
    /\ \A g \in globals :
         g.type # T_NOTYPE =>
           \E x \in Found(g.type) :
             x.die = IF dies[g.die].symbol = "dllimport"
                       THEN g.die ELSE dies[g.die].ref

(* With structs but no base classes, a struct still finds its own field    *)
(* list, and a field list the LF_BITFIELD records made for its members.    *)
OwnRecordsResolve ==
  (NoInheritance /\ pc = "done") =>
    \A i \in 1 .. Len(stream) :
      LET r == stream[i] IN
      /\ r.kind = "struct" =>
           \A t \in r.refs :
             \E x \in Found(t) : x.kind = "fieldlist" /\ x.die = r.die
      /\ r.kind = "bitfield" =>
           \E j \in 1 .. i - 1 : /\ stream[j].kind = "fieldlist"
                                 /\ stream[j].die = r.die
                                 /\ BASE_USER_TYPE + i - 1 \in stream[j].refs

(* The conversion of the types ends, unnamed members of unnamed members    *)
(* included.                                                               *)
Terminates == <>(pc = "done")
=============================================================================
