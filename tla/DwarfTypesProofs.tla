-------------------------- MODULE DwarfTypesProofs --------------------------
(***************************************************************************)
(* Theorems about DwarfTypes, for every .debug_info, every D version and   *)
(* every amount of room in a field list.                                   *)
(***************************************************************************)
EXTENDS DwarfTypes, FiniteSetTheorems, SequenceTheorems, TLAPS

(* A reference inside the section resolves to a natural number.            *)
LEMMA TypesAreNats ==
  ASSUME TypeOK, NEW r \in 0 .. Len(dies)
  PROVE  TypesByPtr(r) \subseteq Nat
<1>1. typeMap \in [1 .. Len(dies) -> Nat]
  BY DEF TypeOK
<1>2. dies \in Seq(Die)
  BY DEF TypeOK
<1>3. Definitions(r) \subseteq 1 .. Len(dies)
  BY DEF Definitions
<1>4. T_NOTYPE \in Nat
  BY DEF T_NOTYPE
<1>5. CASE r = 0
  BY <1>4, <1>5 DEF TypesByPtr
<1>6. CASE r # 0
  <2>1. r \in 1 .. Len(dies)
    BY <1>2, <1>6
  <2> QED
    BY <1>1, <1>3, <1>4, <2>1 DEF TypesByPtr
<1> QED
  BY <1>5, <1>6

(* A record built from natural numbers is a record.                        *)
LEMMA RecIsRecord ==
  ASSUME NEW kind \in RecordKinds, NEW die \in Nat, NEW id \in Nat,
         NEW refs \in SUBSET Nat
  PROVE  Rec(kind, die, id, refs) \in Record
BY DEF Rec, Record

LEMMA FunctionIsSeq ==
  ASSUME NEW S, NEW n \in Nat, NEW f \in [1 .. n -> S]
  PROVE  f \in Seq(S) /\ Len(f) = n
BY SeqDef

(* The prelude is a sequence of records, numbered from BASE_USER_TYPE on.  *)
LEMMA PreludeFacts ==
  /\ Prelude \in Seq(Record)
  /\ Len(Prelude) \in Nat \ {0}
  /\ FirstUserType \in Nat
  /\ \A i \in 1 .. Len(Prelude) : Prelude[i].id = BASE_USER_TYPE + i - 1
  /\ PreludeUdts \in Seq(Symbol)
<1> DEFINE n == IF Dversion > 0 THEN 7 ELSE 1
           m == IF Dversion > 0 THEN 3 ELSE 0
<1>1. BASE_USER_TYPE \in Nat /\ n \in Nat \ {0} /\ m \in Nat
  BY ConstAssumption
<1>2. \A i \in 1 .. n : /\ Prelude[i] \in Record
                        /\ Prelude[i].id = BASE_USER_TYPE + i - 1
  BY <1>1, SMTT(30) DEF Prelude, Rec, Record, RecordKinds
<1>3. Prelude \in Seq(Record) /\ Len(Prelude) = n
  <2>1. Prelude \in [1 .. n -> Record]
    BY <1>2 DEF Prelude
  <2> QED
    BY <1>1, <2>1
<1>4. PreludeUdts \in Seq(Symbol)
  <2>1. PreludeUdts \in [1 .. m -> Symbol]
    BY <1>1 DEF PreludeUdts, Symbol
  <2> QED
    BY <1>1, <2>1
<1> QED
  BY <1>1, <1>2, <1>3, <1>4 DEF FirstUserType

LEMMA InitTypeOK == Init => TypeOK
<1> SUFFICES ASSUME Init PROVE TypeOK
  OBVIOUS
<1>1. dies \in Seq(Die) /\ RefsInside(dies)
  BY ConstAssumption DEF Init
<1>2. /\ typeMap \in [1 .. Len(dies) -> Nat]
      /\ created \in [1 .. Len(dies) -> Nat]
  BY DEF Init, T_NOTYPE
<1>3. pos \in 1 .. Len(dies) + 1
  BY <1>1 DEF Init
<1>4. StructVarsOK
  <2>1. Len(userTypes) \in Nat /\ Len(dwarfTypes) = 0
    BY PreludeFacts DEF Init
  <2>2. todo \in Seq(Item)
    BY EmptySeq DEF Init
  <2>3. pc # "fields" /\ list = 0 /\ mark = 0 /\ todo = <<>>
    BY DEF Init
  <2>4. list \in 0 .. Len(userTypes) /\ mark \in 0 .. Len(dwarfTypes)
    BY <2>1, <2>3
  <2>5. backRef \in BOOLEAN
    BY Zenon DEF Init
  <2> QED
    BY <2>2, <2>3, <2>4, <2>5 DEF StructVarsOK
<1> QED
  BY <1>1, <1>2, <1>3, <1>4, PreludeFacts, ConstAssumption DEF Init, TypeOK
-----------------------------------------------------------------------------
(* What the pieces the actions share do to the types of the variables.     *)

LEMMA AppendUserTypeOK ==
  ASSUME TypeOK, NEW kind \in RecordKinds, NEW refs \in SUBSET Nat,
         AppendUserType(kind, refs)
  PROVE  /\ userTypes' \in Seq(Record)
         /\ Len(userTypes') = Len(userTypes) + 1
         /\ nextUserType' \in Nat
<1>1. pos \in Nat /\ nextUserType \in Nat /\ userTypes \in Seq(Record)
  BY DEF TypeOK
<1>2. Rec(kind, pos, nextUserType, refs) \in Record
  BY <1>1, RecIsRecord
<1> QED
  BY <1>1, <1>2 DEF AppendUserType

LEMMA AddUdtSymbolOK ==
  ASSUME TypeOK, NEW type \in Nat, AddUdtSymbol(type)
  PROVE  udts' \in Seq(Symbol)
<1>1. pos \in Nat /\ udts \in Seq(Symbol)
  BY DEF TypeOK
<1>2. [die |-> pos, type |-> type] \in Symbol
  BY <1>1 DEF Symbol
<1> QED
  BY <1>1, <1>2 DEF AddUdtSymbol

LEMMA FinishDieOK ==
  ASSUME TypeOK, NEW cvtype \in Nat, nextDwarfType' \in Nat,
         pos <= Len(dies), FinishDie(cvtype)
  PROVE  /\ dies' = dies /\ typeMap' = typeMap
         /\ globals' = globals /\ stream' = stream
         /\ pc' = "create" /\ pos' \in 1 .. Len(dies) + 1
         /\ typeID' \in Nat
         /\ created' \in [1 .. Len(dies) -> Nat]
<1>1. /\ dies' = dies /\ typeMap' = typeMap
      /\ globals' = globals /\ stream' = stream /\ pc' = "create"
  BY DEF FinishDie
<1>2. Len(dies) \in Nat /\ pos \in 1 .. Len(dies) + 1
  BY DEF TypeOK
<1>3. pos' \in 1 .. Len(dies) + 1
  BY <1>2 DEF FinishDie
<1>4. created' \in [1 .. Len(dies) -> Nat]
  BY <1>2 DEF FinishDie, TypeOK
<1>5. typeID' \in Nat
  BY DEF FinishDie, Sync, TypeOK
<1> QED
  BY <1>1, <1>3, <1>4, <1>5

(* An action that leaves the struct variables at rest keeps them typed.    *)
LEMMA RestingStructVars ==
  ASSUME TypeOK, pc # "fields", pc' # "fields", UNCHANGED structVars,
         dies' = dies,
         userTypes' \in Seq(Record), dwarfTypes' \in Seq(Record)
  PROVE  StructVarsOK'
<1>1. list = 0 /\ mark = 0 /\ todo = <<>> /\ backRef \in BOOLEAN
  BY DEF TypeOK, StructVarsOK
<1>2. list' = 0 /\ mark' = 0 /\ todo' = <<>>
  BY <1>1 DEF structVars
<1>3. backRef' \in BOOLEAN
  BY <1>1, Zenon DEF structVars
<1>4. list' \in 0 .. Len(userTypes') /\ mark' \in 0 .. Len(dwarfTypes')
  BY <1>2, LenProperties
<1>5. todo' \in Seq(Item')
  BY <1>2, EmptySeq
<1> QED
  BY <1>2, <1>3, <1>4, <1>5 DEF StructVarsOK

-----------------------------------------------------------------------------
(* Type correctness, group of actions by group of actions.                 *)

LEMMA MapTypeOK == TypeOK /\ (MapDie \/ FinishMap) => TypeOK'
<1> SUFFICES ASSUME TypeOK, MapDie \/ FinishMap PROVE TypeOK'
  OBVIOUS
<1>1. dies' = dies /\ pc # "fields" /\ pc' # "fields"
  BY DEF MapDie, FinishMap
<1>2. UNCHANGED <<userTypes, dwarfTypes, structVars, udts, globals, created,
                  stream, nextUserType>>
  BY DEF MapDie, FinishMap
<1>3. StructVarsOK'
  BY <1>1, <1>2, RestingStructVars DEF TypeOK
<1>4. /\ typeMap' \in [1 .. Len(dies) -> Nat] /\ typeID' \in Nat
      /\ pos' \in 1 .. Len(dies) + 1 /\ nextDwarfType' \in Nat
      /\ pc' \in {"map", "create", "fields", "done"}
  <2>1. /\ Len(dies) \in Nat /\ pos \in 1 .. Len(dies) + 1
        /\ typeID \in Nat /\ nextUserType \in Nat /\ nextDwarfType \in Nat
        /\ typeMap \in [1 .. Len(dies) -> Nat]
    BY DEF TypeOK
  <2>2. CASE MapDie
    BY <2>1, <2>2 DEF MapDie
  <2>3. CASE FinishMap
    BY <2>1, <2>3 DEF FinishMap
  <2> QED
    BY <2>2, <2>3
<1> QED
  BY <1>1, <1>2, <1>3, <1>4 DEF TypeOK

(* The cases of createTypes that append one record to userTypes.           *)
LEMMA OneRecordTypeOK ==
  ASSUME TypeOK, pc = "create", pos <= Len(dies),
         NEW kind \in RecordKinds, NEW refs \in SUBSET Nat,
         AppendUserType(kind, refs), UNCHANGED structVars,
         nextDwarfType' \in Nat, dwarfTypes' \in Seq(Record),
         udts' = udts \/ AddUdtSymbol(nextUserType),
         FinishDie(nextUserType)
  PROVE  TypeOK'
<1>1. nextUserType \in Nat
  BY DEF TypeOK
<1>2. userTypes' \in Seq(Record) /\ nextUserType' \in Nat
  BY AppendUserTypeOK
<1>3. udts' \in Seq(Symbol)
  BY <1>1, AddUdtSymbolOK DEF TypeOK
<1>4. /\ dies' = dies /\ typeMap' = typeMap
      /\ globals' = globals /\ stream' = stream
      /\ pc' = "create" /\ pos' \in 1 .. Len(dies) + 1
      /\ typeID' \in Nat
      /\ created' \in [1 .. Len(dies) -> Nat]
  BY <1>1, FinishDieOK
<1>5. StructVarsOK'
  BY <1>2, <1>4, RestingStructVars
<1> QED
  BY <1>2, <1>3, <1>4, <1>5 DEF TypeOK

LEMMA CreateTypeOK == TypeOK /\ CreateDie => TypeOK'
<1> SUFFICES ASSUME TypeOK, CreateDie PROVE TypeOK'
  OBVIOUS
<1> DEFINE r == dies[pos].ref
<1>1. /\ Len(dies) \in Nat /\ pos \in 1 .. Len(dies) + 1 /\ pos \in Nat
      /\ dies \in Seq(Die)
      /\ nextUserType \in Nat /\ nextDwarfType \in Nat
      /\ dwarfTypes \in Seq(Record)
      /\ userTypes \in Seq(Record)
  BY DEF TypeOK
<1>2. ASSUME pos <= Len(dies)
      PROVE  r \in 0 .. Len(dies) /\ dies[pos].lists \in Nat \ {0}
  <2>1. dies[pos] \in Die
    BY <1>1, <1>2, ElementOfSeq
  <2>2. r <= Len(dies)
    BY <1>1, <1>2 DEF TypeOK, RefsInside
  <2> QED
    BY <1>1, <2>1, <2>2 DEF Die
<1>3. ASSUME pos <= Len(dies), NEW t \in TypesByPtr(r)
      PROVE  {t} \in SUBSET Nat /\ t \in Nat
  BY <1>2, <1>3, TypesAreNats
<1>4. CASE CreateBasic
  <2>1. {BASE_USER_TYPE} \in SUBSET Nat /\ {} \in SUBSET Nat
    BY ConstAssumption
  <2>2. {"enum", "modifier"} \subseteq RecordKinds
    BY DEF RecordKinds
  <2> QED
    BY <1>1, <1>4, <2>1, <2>2, OneRecordTypeOK DEF CreateBasic, At
<1>5. CASE CreateOpaque
  BY <1>1, <1>5, OneRecordTypeOK DEF CreateOpaque, At, RecordKinds
<1>6. CASE CreateModifier
  <2>1. PICK t \in TypesByPtr(r) : AppendUserType("modifier", {t})
    BY <1>6 DEF CreateModifier
  <2> QED
    BY <1>1, <1>3, <1>6, <2>1, OneRecordTypeOK
    DEF CreateModifier, At, RecordKinds
<1>7. CASE CreatePointer
  <2>1. PICK t \in TypesByPtr(r) : AppendUserType("pointer", {t})
    BY <1>7 DEF CreatePointer
  <2> QED
    BY <1>1, <1>3, <1>7, <2>1, OneRecordTypeOK
    DEF CreatePointer, At, RecordKinds
<1>8. CASE CreateArray
  <2>1. PICK t \in TypesByPtr(r) : AppendUserType("array", {t})
    BY <1>8 DEF CreateArray
  <2> QED
    BY <1>1, <1>3, <1>8, <2>1, OneRecordTypeOK
    DEF CreateArray, At, RecordKinds
<1>9. CASE CreateEnum
  <2> DEFINE n == dies[pos].lists
             List(k) == Rec("fieldlist", pos, nextDwarfType + k - 1,
                            IF k < n THEN {nextDwarfType + k} ELSE {})
             lists == [k \in 1 .. n |-> List(k)]
  <2>1. pc = "create" /\ pos <= Len(dies)
    BY <1>9 DEF CreateEnum, At
  <2>2. n \in Nat
    BY <1>2, <2>1
  <2>3. \A k \in 1 .. n : List(k) \in Record
    BY <1>1, <2>2 DEF Rec, Record, RecordKinds
  <2>4. lists \in Seq(Record)
    <3>1. lists \in [1 .. n -> Record]
      BY <2>3
    <3> HIDE DEF lists, n
    <3> QED
      BY <2>2, <3>1, FunctionIsSeq
  <2>5. dwarfTypes' = dwarfTypes \o lists
    BY <1>9 DEF CreateEnum
  <2>6. dwarfTypes' \in Seq(Record)
    BY <1>1, <2>4, <2>5, ConcatProperties
  <2>7. nextDwarfType' \in Nat
    BY <1>1, <1>9, <2>2 DEF CreateEnum
  <2>8. {nextDwarfType} \in SUBSET Nat /\ "enum" \in RecordKinds
    BY <1>1 DEF RecordKinds
  <2> QED
    BY <1>9, <2>1, <2>6, <2>7, <2>8, OneRecordTypeOK DEF CreateEnum
<1>10. CASE CreateVariable
  <2>1. pc = "create" /\ pos <= Len(dies)
    BY <1>10 DEF CreateVariable, At
  <2>2. PICK t \in TypesByPtr(r) :
          \/ /\ dwarfTypes' = Append(dwarfTypes,
                               Rec("pointer", pos, nextDwarfType, {t}))
             /\ globals' = globals \cup {[die |-> pos, type |-> nextDwarfType]}
             /\ nextDwarfType' = nextDwarfType + 1
          \/ /\ globals' = globals \cup {[die |-> pos, type |-> t]}
             /\ UNCHANGED <<dwarfTypes, nextDwarfType>>
    BY <1>10 DEF CreateVariable
  <2>3. Rec("pointer", pos, nextDwarfType, {t}) \in Record
    BY <1>1, <1>3, <2>1, RecIsRecord DEF RecordKinds
  <2>4. dwarfTypes' \in Seq(Record) /\ nextDwarfType' \in Nat
    <3>1. \/ dwarfTypes' = Append(dwarfTypes,
                                Rec("pointer", pos, nextDwarfType, {t}))
          \/ dwarfTypes' = dwarfTypes
      BY <2>2
    <3>2. nextDwarfType' \in {nextDwarfType, nextDwarfType + 1}
      BY <2>2
    <3>3. Append(dwarfTypes, Rec("pointer", pos, nextDwarfType, {t}))
            \in Seq(Record)
      BY <1>1, <2>3
    <3>4. nextDwarfType' \in Nat
      BY <1>1, <3>2
    <3> QED
      BY <1>1, <3>1, <3>3, <3>4
  <2>5. globals' \in SUBSET Symbol
    <3>1. globals \in SUBSET Symbol
      BY DEF TypeOK
    <3>2. /\ [die |-> pos, type |-> nextDwarfType] \in Symbol
          /\ [die |-> pos, type |-> t] \in Symbol
      BY <1>1, <1>3, <2>1 DEF Symbol
    <3> QED
      BY <2>2, <3>1, <3>2
  <2>6. /\ UNCHANGED <<dies, pc, typeID, nextUserType, typeMap, userTypes,
                       structVars, udts, created, stream>>
        /\ pos' \in 1 .. Len(dies) + 1
    BY <1>1, <1>10, <2>1 DEF CreateVariable
  <2>7. StructVarsOK'
    BY <1>1, <2>1, <2>4, <2>6, RestingStructVars
  <2> QED
    BY <2>4, <2>5, <2>6, <2>7 DEF TypeOK
<1>11. CASE SkipDie
  <2>1. /\ UNCHANGED <<dies, pc, typeID, nextUserType, nextDwarfType, typeMap,
                       userTypes, dwarfTypes, structVars, udts, globals,
                       created, stream>>
        /\ pos' \in 1 .. Len(dies) + 1 /\ pc = "create"
    BY <1>1, <1>11 DEF SkipDie
  <2>2. StructVarsOK'
    BY <1>1, <2>1, RestingStructVars
  <2> QED
    BY <2>1, <2>2 DEF TypeOK
<1> QED
  BY <1>4, <1>5, <1>6, <1>7, <1>8, <1>9, <1>10, <1>11 DEF CreateDie

(* The members of a struct are put on the agenda with their owner.         *)
LEMMA AgendaOK ==
  ASSUME TypeOK, NEW d \in 1 .. Len(dies)
  PROVE  Agenda(d) \in Seq(Item)
<1> DEFINE members == dies[d].members
<1>1. members \in Seq(Member)
  <2>1. dies[d] \in Die
    BY ElementOfSeq DEF TypeOK
  <2> QED
    BY <2>1 DEF Die
<1>2. ASSUME NEW i \in 1 .. Len(members)
      PROVE  [owner |-> d, member |-> members[i]] \in Item
  <2>1. members[i] \in Member
    BY <1>1, ElementOfSeq
  <2>2. members[i].ref <= Len(dies)
    BY DEF TypeOK, RefsInside
  <2>3. Len(dies) \in Nat
    BY DEF TypeOK
  <2>4. members[i] \in [kind : MemberKinds, ref : 0 .. Len(dies)]
    BY <2>1, <2>2, <2>3 DEF Member
  <2> QED
    BY <2>4 DEF Item
<1>3. Len(members) \in Nat
  BY <1>1, LenProperties
<1>4. Agenda(d) \in [1 .. Len(members) -> Item]
  BY <1>2 DEF Agenda
<1> QED
  BY <1>3, <1>4, SeqDef

LEMMA StructureTypeOK == TypeOK /\ Structure => TypeOK'
<1> SUFFICES ASSUME TypeOK, Structure PROVE TypeOK'
  OBVIOUS
<1>1. /\ Len(dies) \in Nat /\ pos \in 1 .. Len(dies) + 1 /\ pos \in Nat
      /\ dies \in Seq(Die) /\ RefsInside(dies)
      /\ nextUserType \in Nat /\ nextDwarfType \in Nat
      /\ dwarfTypes \in Seq(Record) /\ userTypes \in Seq(Record)
      /\ todo \in Seq(Item) /\ backRef \in BOOLEAN
  BY DEF TypeOK, StructVarsOK
<1>2. \A d \in 1 .. Len(dies) : Agenda(d) \in Seq(Item)
  BY AgendaOK
<1>3. CASE OpenStructure
  <2>1. /\ pc = "create" /\ pos <= Len(dies) /\ IsStruct(dies[pos])
        /\ UNCHANGED <<dies, pos, typeID, nextDwarfType, typeMap, dwarfTypes,
                       udts, globals, created, stream>>
        /\ AppendUserType("fieldlist", {})
        /\ pc' = "fields" /\ list' = Len(userTypes) + 1
        /\ mark' = Len(dwarfTypes) /\ todo' = Agenda(pos)
    BY <1>3 DEF OpenStructure, At, IsStruct
  <2>2. /\ userTypes' \in Seq(Record) /\ nextUserType' \in Nat
        /\ Len(userTypes') = Len(userTypes) + 1
    BY <2>1, AppendUserTypeOK DEF RecordKinds
  <2>3. todo' \in Seq(Item')
    <3>1. Item' = Item
      BY <2>1 DEF Item
    <3>2. Agenda(pos) \in Seq(Item)
      BY <1>1, <1>2, <2>1
    <3> QED
      BY <2>1, <3>1, <3>2
  <2>4. list' \in 1 .. Len(userTypes') /\ mark' \in 0 .. Len(dwarfTypes')
    BY <1>1, <2>1, <2>2, LenProperties
  <2>5. backRef' \in BOOLEAN
    BY <1>3, Zenon DEF OpenStructure
  <2>6. StructVarsOK'
    BY <2>1, <2>3, <2>4, <2>5 DEF StructVarsOK
  <2> QED
    BY <2>1, <2>2, <2>6 DEF TypeOK
<1>4. ASSUME pc = "fields", UNCHANGED fieldsUnchanged,
             todo' \in Seq(Item), backRef' \in BOOLEAN,
             nextUserType' \in Nat,
             userTypes' \in Seq(Record), Len(userTypes') = Len(userTypes),
             dwarfTypes' \in Seq(Record), Len(dwarfTypes') >= Len(dwarfTypes)
      PROVE  TypeOK'
  <2>1. /\ UNCHANGED <<dies, pc, pos, typeID, nextDwarfType, typeMap, list,
                       mark, udts, globals, created, stream>>
        /\ Item' = Item
    BY <1>4 DEF fieldsUnchanged, Item
  <2>2. mark' \in 0 .. Len(dwarfTypes') /\ list' \in 0 .. Len(userTypes')
    BY <1>1, <1>4, <2>1, LenProperties DEF TypeOK, StructVarsOK
  <2>3. StructVarsOK'
    BY <1>4, <2>1, <2>2 DEF TypeOK, StructVarsOK
  <2> QED
    BY <1>4, <2>1, <2>3 DEF TypeOK
<1>5. ASSUME pc = "fields", todo # <<>>
      PROVE  /\ Head(todo).member.ref \in 0 .. Len(dies)
             /\ Tail(todo) \in Seq(Item)
  <2>1. Head(todo) \in Item /\ Tail(todo) \in Seq(Item)
    BY <1>1, <1>5, HeadTailProperties
  <2> QED
    BY <2>1 DEF Item
<1>6. ASSUME pc = "fields", NEW t \in Nat, FieldRefers(t)
      PROVE  userTypes' \in Seq(Record) /\ Len(userTypes') = Len(userTypes)
  <2>1. list \in 1 .. Len(userTypes)
    BY <1>6 DEF TypeOK, StructVarsOK
  <2>2. userTypes[list] \in Record
    BY <1>1, <2>1, ElementOfSeq
  <2> DEFINE r == [userTypes[list] EXCEPT !.refs = @ \cup {t}]
  <2>3. r \in Record
    BY <2>2 DEF Record
  <2>4. userTypes' = [userTypes EXCEPT ![list] = r]
    BY <1>6 DEF FieldRefers
  <2> QED
    BY <1>1, <2>1, <2>3, <2>4, ExceptSeq
<1>7. CASE AddField
  <2>1. /\ pc = "fields" /\ todo # <<>> /\ todo' = Tail(todo)
        /\ UNCHANGED <<nextUserType, dwarfTypes>>
        /\ UNCHANGED fieldsUnchanged
    BY <1>7 DEF AddField, AtMember
  <2>2. PICK t \in TypesByPtr(Head(todo).member.ref) : FieldRefers(t)
    BY <1>7 DEF AddField
  <2>3. t \in Nat
    BY <1>5, <2>1, <2>2, TypesAreNats
  <2>4. backRef' \in BOOLEAN
    BY <1>7, Zenon DEF AddField
  <2>5. userTypes' \in Seq(Record) /\ Len(userTypes') = Len(userTypes)
    BY <1>6, <2>1, <2>2, <2>3
  <2> QED
    BY <1>1, <1>4, <1>5, <2>1, <2>4, <2>5
<1>8. CASE AddBitfield
  <2>1. /\ pc = "fields" /\ todo # <<>> /\ todo' = Tail(todo)
        /\ UNCHANGED backRef /\ UNCHANGED fieldsUnchanged
        /\ nextUserType' = nextUserType + 1 /\ FieldRefers(nextUserType)
    BY <1>8 DEF AddBitfield, AtMember
  <2>2. PICK t \in TypesByPtr(Head(todo).member.ref) :
          dwarfTypes' = Append(dwarfTypes,
                               Rec("bitfield", pos, nextUserType, {t}))
    BY <1>8 DEF AddBitfield
  <2>3. t \in Nat
    BY <1>5, <2>1, <2>2, TypesAreNats
  <2>4. Rec("bitfield", pos, nextUserType, {t}) \in Record
    BY <1>1, <2>3, RecIsRecord DEF RecordKinds
  <2>5. dwarfTypes' \in Seq(Record) /\ Len(dwarfTypes') >= Len(dwarfTypes)
    BY <1>1, <2>2, <2>4
  <2>6. userTypes' \in Seq(Record) /\ Len(userTypes') = Len(userTypes)
    BY <1>1, <1>6, <2>1
  <2> QED
    BY <1>1, <1>4, <1>5, <2>1, <2>5, <2>6
<1>9. CASE EmbedMember
  <2> DEFINE r == Head(todo).member.ref
  <2>1. /\ pc = "fields" /\ todo # <<>>
        /\ UNCHANGED <<userTypes, nextUserType, dwarfTypes, backRef>>
        /\ UNCHANGED fieldsUnchanged
        /\ todo' = IF r # 0 /\ dies[r].tag \in StructTags
                     THEN Agenda(r) \o Tail(todo) ELSE Tail(todo)
    BY <1>9 DEF EmbedMember, AtMember
  <2>2. r # 0 => Agenda(r) \in Seq(Item)
    BY <1>1, <1>2, <1>5, <2>1
  <2>3. todo' \in Seq(Item)
    BY <1>5, <2>1, <2>2, ConcatProperties
  <2> QED
    BY <1>1, <1>4, <2>1, <2>3, LenProperties
<1>10. CASE AddBaseClass
  <2>1. /\ pc = "fields" /\ todo # <<>> /\ todo' = Tail(todo)
        /\ UNCHANGED <<userTypes, nextUserType, backRef>>
        /\ UNCHANGED fieldsUnchanged
    BY <1>10 DEF AddBaseClass, AtMember
  <2>2. PICK t \in TypesByPtr(Head(todo).member.ref) :
          dwarfTypes' = Append(dwarfTypes, Rec("leaf", pos, T_NOTYPE, {t}))
    BY <1>10 DEF AddBaseClass
  <2>3. t \in Nat
    BY <1>5, <2>1, <2>2, TypesAreNats
  <2>4. Rec("leaf", pos, T_NOTYPE, {t}) \in Record
    BY <1>1, <2>3, RecIsRecord DEF RecordKinds, T_NOTYPE
  <2>5. dwarfTypes' \in Seq(Record) /\ Len(dwarfTypes') >= Len(dwarfTypes)
    BY <1>1, <2>2, <2>4
  <2> QED
    BY <1>1, <1>4, <1>5, <2>1, <2>5
<1>11. CASE SkipMember
  <2>1. /\ pc = "fields" /\ todo # <<>> /\ todo' = Tail(todo)
        /\ UNCHANGED <<userTypes, nextUserType, dwarfTypes, backRef>>
        /\ UNCHANGED fieldsUnchanged
    BY <1>11 DEF SkipMember, AtMember
  <2> QED
    BY <1>1, <1>4, <1>5, <2>1, LenProperties
<1>12. CASE ClipFields
  <2>1. /\ pc = "fields" /\ todo' = <<>>
        /\ UNCHANGED <<userTypes, nextUserType, dwarfTypes, backRef>>
        /\ UNCHANGED fieldsUnchanged
    BY <1>12 DEF ClipFields
  <2> QED
    BY <1>1, <1>4, <2>1, LenProperties, EmptySeq
<1>13. CASE CloseStructure
  <2> DEFINE ref == userTypes[list].id
  <2>1. /\ pc = "fields" /\ pos <= Len(dies) /\ list \in 1 .. Len(userTypes)
        /\ mark \in 0 .. Len(dwarfTypes)
    BY <1>13 DEF CloseStructure, TypeOK, StructVarsOK
  <2>2. ref \in Nat
    <3>1. userTypes[list] \in Record
      BY <1>1, <2>1, ElementOfSeq
    <3> QED
      BY <3>1 DEF Record
  <2>3. Kept \in Seq(Record)
    BY <1>1, <2>1, SubSeqProperties, ElementOfSeq, LenProperties DEF Kept
  <2>4. ASSUME NEW s \in Record PROVE WithParked(s) \in Seq(Record)
    <3>1. SubSeq(dwarfTypes, mark + 1, Len(dwarfTypes)) \in Seq(Record)
      BY <1>1, <2>1, SubSeqProperties, ElementOfSeq, LenProperties
    <3>2. userTypes \o SubSeq(dwarfTypes, mark + 1, Len(dwarfTypes))
            \in Seq(Record)
      BY <1>1, <3>1, ConcatProperties
    <3> QED
      BY <2>4, <3>2 DEF WithParked
  <2>5. /\ Rec("incomplete", pos, nextUserType, {}) \in Record
        /\ Rec("struct", pos, nextUserType, {ref}) \in Record
        /\ Rec("struct", pos, nextDwarfType, {ref}) \in Record
    BY <1>1, <2>2, RecIsRecord DEF RecordKinds
  <2>6. /\ userTypes' \in Seq(Record) /\ dwarfTypes' \in Seq(Record)
        /\ nextDwarfType' \in Nat /\ udts' \in Seq(Symbol)
    <3>1. CASE backRef
      <4>1. /\ userTypes' = WithParked(Rec("incomplete", pos, nextUserType, {}))
            /\ dwarfTypes' = Append(Kept, Rec("struct", pos, nextDwarfType, {ref}))
            /\ nextDwarfType' = nextDwarfType + 1
            /\ AddUdtSymbol(nextDwarfType)
        BY <1>13, <3>1 DEF CloseStructure
      <4>2. Append(Kept, Rec("struct", pos, nextDwarfType, {ref}))
              \in Seq(Record)
        BY <2>3, <2>5
      <4>3. udts' \in Seq(Symbol)
        BY <1>1, <4>1, AddUdtSymbolOK
      <4>4. userTypes' \in Seq(Record)
        BY <2>4, <2>5, <4>1
      <4>5. nextDwarfType' \in Nat
        BY <1>1, <4>1
      <4> QED
        BY <4>1, <4>2, <4>3, <4>4, <4>5
    <3>2. CASE ~backRef
      BY <1>1, <1>13, <2>3, <2>4, <2>5, <3>2, AddUdtSymbolOK
      DEF CloseStructure
    <3> QED
      BY <3>1, <3>2
  <2>7. /\ dies' = dies /\ typeMap' = typeMap
        /\ globals' = globals /\ stream' = stream
        /\ pc' = "create" /\ pos' \in 1 .. Len(dies) + 1
        /\ typeID' \in Nat
        /\ created' \in [1 .. Len(dies) -> Nat]
    BY <1>1, <1>13, <2>1, <2>6, FinishDieOK DEF CloseStructure
  <2>8. list' = 0 /\ mark' = 0 /\ todo' = <<>> /\ nextUserType' \in Nat
    BY <1>1, <1>13 DEF CloseStructure, LeaveStructure
  <2>9. backRef' \in BOOLEAN
    BY <1>13, Zenon DEF CloseStructure, LeaveStructure
  <2>10. StructVarsOK'
    <3>1. list' \in 0 .. Len(userTypes') /\ mark' \in 0 .. Len(dwarfTypes')
      BY <2>6, <2>8, LenProperties
    <3>2. todo' \in Seq(Item')
      BY <2>8, EmptySeq
    <3> QED
      BY <2>7, <2>8, <2>9, <3>1, <3>2 DEF StructVarsOK
  <2> QED
    BY <2>6, <2>7, <2>8, <2>10 DEF TypeOK
<1> QED
  BY <1>3, <1>7, <1>8, <1>9, <1>10, <1>11, <1>12, <1>13 DEF Structure

LEMMA AddTypesTypeOK == TypeOK /\ AddTypes => TypeOK'
<1> SUFFICES ASSUME TypeOK, AddTypes PROVE TypeOK'
  OBVIOUS
<1>1. userTypes \in Seq(Record) /\ dwarfTypes \in Seq(Record)
  BY DEF TypeOK
<1>2. /\ stream' = userTypes \o dwarfTypes /\ userTypes' = stream'
      /\ dwarfTypes' = <<>> /\ pc = "create" /\ pc' = "done"
      /\ UNCHANGED <<dies, pos, typeID, nextUserType, nextDwarfType, typeMap,
                     structVars, udts, globals, created>>
  BY DEF AddTypes, Concatenated
<1>3. /\ userTypes' \in Seq(Record) /\ stream' \in Seq(Record)
      /\ dwarfTypes' \in Seq(Record)
  BY <1>1, <1>2, ConcatProperties, EmptySeq
<1>4. StructVarsOK'
  BY <1>2, <1>3, RestingStructVars
<1> QED
  BY <1>2, <1>3, <1>4 DEF TypeOK

LEMMA TypeOKStep == TypeOK /\ [Next]_vars => TypeOK'
<1> SUFFICES ASSUME TypeOK, [Next]_vars PROVE TypeOK'
  OBVIOUS
<1>1. CASE UNCHANGED vars
  BY <1>1 DEF TypeOK, StructVarsOK, Item, vars, structVars
<1>2. CASE Next
  BY <1>2, MapTypeOK, CreateTypeOK, StructureTypeOK, AddTypesTypeOK DEF Next
<1> QED
  BY <1>1, <1>2

(* Every variable keeps its type, for every section and every option.      *)
THEOREM TypeCorrect == Spec => []TypeOK
BY InitTypeOK, TypeOKStep, PTL DEF Spec

-----------------------------------------------------------------------------
(* The numbering of userTypes.  UserIdsArePositions is inductive once it   *)
(* is known that without base classes none is ever about to be read: a     *)
(* base class would park a record that took no number.                     *)

NoBaseToRead ==
  NoInheritance =>
    \A i \in 1 .. Len(todo) : todo[i].member.kind # "inheritance"

UserNumbers ==
  /\ \A i \in 1 .. Len(userTypes) : userTypes[i].id = BASE_USER_TYPE + i - 1
  /\ \A k \in 1 .. Parked :
       dwarfTypes[mark + k].id = BASE_USER_TYPE + Len(userTypes) + k - 1
  /\ nextUserType = BASE_USER_TYPE + Len(userTypes) + Parked

(* .debug_info is never written.                                           *)
LEMMA DiesConstant == Next => dies' = dies
BY DEF Next, MapDie, FinishMap, CreateDie, CreateBasic, CreateOpaque,
       CreateModifier, CreatePointer, CreateArray, CreateEnum, CreateVariable,
       SkipDie, Structure, OpenStructure, AddField, AddBitfield, EmbedMember,
       AddBaseClass, SkipMember, ClipFields, CloseStructure, AddTypes,
       FinishDie, fieldsUnchanged

LEMMA NoBaseToReadStep ==
  TypeOK /\ NoBaseToRead /\ [Next]_vars => NoBaseToRead'
<1> SUFFICES ASSUME TypeOK, NoBaseToRead, [Next]_vars, NoInheritance'
             PROVE  \A i \in 1 .. Len(todo') :
                      todo'[i].member.kind # "inheritance"
  BY DEF NoBaseToRead
<1>1. dies' = dies
  BY DiesConstant DEF vars
<1>2. NoInheritance
  BY <1>1 DEF NoInheritance
<1>3. todo \in Seq(Item) /\ dies \in Seq(Die) /\ pos \in 1 .. Len(dies) + 1
  BY DEF TypeOK, StructVarsOK
<1>4. \A i \in 1 .. Len(todo) : todo[i].member.kind # "inheritance"
  BY <1>2 DEF NoBaseToRead
<1>5. ASSUME NEW d \in 1 .. Len(dies)
      PROVE  /\ Agenda(d) \in Seq(Item)
             /\ \A i \in 1 .. Len(Agenda(d)) :
                  Agenda(d)[i].member.kind # "inheritance"
  <2>1. Agenda(d) \in Seq(Item)
    BY AgendaOK
  <2>2. DOMAIN Agenda(d) = 1 .. Len(Agenda(d))
    BY <2>1, LenProperties
  <2>3. DOMAIN Agenda(d) = 1 .. Len(dies[d].members)
    BY DEF Agenda
  <2> QED
    BY <1>2, <2>1, <2>2, <2>3 DEF Agenda, NoInheritance
<1>6. todo # <<>> => /\ Tail(todo) \in Seq(Item)
                     /\ \A i \in 1 .. Len(Tail(todo)) :
                          Tail(todo)[i].member.kind # "inheritance"
  BY <1>3, <1>4, HeadTailProperties
<1>7. CASE todo' = todo
  BY <1>4, <1>7
<1>8. CASE todo' = <<>>
  BY <1>8
<1>9. CASE todo # <<>> /\ todo' = Tail(todo)
  BY <1>6, <1>9
<1>10. CASE OpenStructure
  <2>1. pos \in 1 .. Len(dies) /\ todo' = Agenda(pos)
    BY <1>3, <1>10 DEF OpenStructure, At
  <2> QED
    BY <1>5, <2>1
<1>11. CASE EmbedMember
  <2> DEFINE r == Head(todo).member.ref
  <2>1. todo # <<>> /\ r \in 0 .. Len(dies)
    <3>1. todo # <<>>
      BY <1>11 DEF EmbedMember, AtMember
    <3>2. Head(todo) \in Item
      BY <1>3, <3>1, HeadTailProperties
    <3> QED
      BY <3>1, <3>2 DEF Item
  <2>2. CASE todo' = Tail(todo)
    BY <1>9, <2>1, <2>2
  <2>3. CASE r # 0 /\ todo' = Agenda(r) \o Tail(todo)
    <3>1. r \in 1 .. Len(dies)
      BY <1>3, <2>1, <2>3
    <3> DEFINE a == Agenda(r)
               b == Tail(todo)
    <3>2. /\ a \in Seq(Item) /\ b \in Seq(Item)
          /\ \A i \in 1 .. Len(a) : a[i].member.kind # "inheritance"
          /\ \A i \in 1 .. Len(b) : b[i].member.kind # "inheritance"
      BY <1>5, <1>6, <2>1, <3>1
    <3> HIDE DEF a, b
    <3>3. \A i \in 1 .. Len(a \o b) : (a \o b)[i].member.kind # "inheritance"
      BY <3>2
    <3> QED
      BY <2>3, <3>3 DEF a, b
  <2> QED
    BY <1>11, <2>2, <2>3 DEF EmbedMember
<1> QED
  <2>1. \/ UNCHANGED todo \/ todo' = <<>> \/ (todo # <<>> /\ todo' = Tail(todo))
        \/ OpenStructure \/ EmbedMember
    BY DEF vars, structVars, Next, MapDie, FinishMap, CreateDie, CreateBasic,
           CreateOpaque, CreateModifier, CreatePointer, CreateArray,
           CreateEnum, CreateVariable, SkipDie, Structure, AddField,
           AddBitfield, AddBaseClass, SkipMember, ClipFields, CloseStructure,
           AtMember, LeaveStructure, AddTypes
  <2> QED
    BY <1>7, <1>8, <1>9, <1>10, <1>11, <2>1

(* An append to userTypes while nothing is parked keeps the numbering.     *)
LEMMA AppendKeepsNumbers ==
  ASSUME TypeOK, UserNumbers, Parked = 0, Parked' = 0,
         NEW kind, NEW refs, AppendUserType(kind, refs)
  PROVE  UserNumbers'
<1>1. /\ userTypes \in Seq(Record) /\ nextUserType \in Nat
      /\ Len(userTypes) \in Nat
  BY DEF TypeOK
<1>2. BASE_USER_TYPE \in Nat
  BY ConstAssumption
<1> DEFINE r == Rec(kind, pos, nextUserType, refs)
<1>3. userTypes' = Append(userTypes, r) /\ nextUserType' = nextUserType + 1
  BY DEF AppendUserType
<1>4. r.id = nextUserType
  BY DEF Rec
<1> HIDE DEF r
<1>5. /\ Len(userTypes') = Len(userTypes) + 1
      /\ userTypes'[Len(userTypes) + 1] = r
      /\ \A i \in 1 .. Len(userTypes) : userTypes'[i] = userTypes[i]
  BY <1>1, <1>3
<1>6. /\ nextUserType = BASE_USER_TYPE + Len(userTypes)
      /\ \A i \in 1 .. Len(userTypes) :
           userTypes[i].id = BASE_USER_TYPE + i - 1
  BY <1>1, <1>2 DEF UserNumbers
<1>7. ASSUME NEW i \in 1 .. Len(userTypes')
      PROVE  userTypes'[i].id = BASE_USER_TYPE + i - 1
  <2>1. CASE i = Len(userTypes) + 1
    BY <1>1, <1>2, <1>4, <1>5, <1>6, <2>1
  <2>2. CASE i # Len(userTypes) + 1
    BY <1>1, <1>5, <1>6, <1>7, <2>2
  <2> QED
    BY <2>1, <2>2
<1>8. nextUserType' = BASE_USER_TYPE + Len(userTypes') + 0
  BY <1>1, <1>2, <1>3, <1>5, <1>6
<1> QED
  BY <1>7, <1>8 DEF UserNumbers

(* The reference a member adds to its field list changes no id.            *)
LEMMA FieldRefersKeepsIds ==
  ASSUME TypeOK, pc = "fields", NEW t \in Nat, FieldRefers(t)
  PROVE  /\ Len(userTypes') = Len(userTypes)
         /\ \A i \in 1 .. Len(userTypes) : userTypes'[i].id = userTypes[i].id
<1>1. userTypes \in Seq(Record) /\ list \in 1 .. Len(userTypes)
  BY DEF TypeOK, StructVarsOK
<1> DEFINE r == [userTypes[list] EXCEPT !.refs = @ \cup {t}]
<1>2. userTypes' = [userTypes EXCEPT ![list] = r]
  BY DEF FieldRefers
<1>3. r \in Record /\ r.id = userTypes[list].id
  <2>1. userTypes[list] \in Record
    BY <1>1, ElementOfSeq
  <2> QED
    BY <2>1 DEF Record
<1> HIDE DEF r
<1>4. /\ Len(userTypes') = Len(userTypes)
      /\ \A i \in 1 .. Len(userTypes) :
           userTypes'[i] = IF i = list THEN r ELSE userTypes[i]
  BY <1>1, <1>2, <1>3, ExceptSeq
<1> QED
  BY <1>3, <1>4

LEMMA UserNumbersFields ==
  ASSUME TypeOK, UserNumbers, NoBaseToRead, NoInheritance,
         AddField \/ AddBitfield \/ EmbedMember \/ AddBaseClass
           \/ SkipMember \/ ClipFields
  PROVE  UserNumbers'
<1>1. /\ pc = "fields" /\ pc' = "fields" /\ mark' = mark
      /\ nextUserType \in Nat /\ mark \in 0 .. Len(dwarfTypes)
      /\ userTypes \in Seq(Record) /\ dwarfTypes \in Seq(Record)
      /\ Len(userTypes) \in Nat /\ Len(dwarfTypes) \in Nat
      /\ todo \in Seq(Item) /\ pos \in Nat
  <2>1. pc = "fields" /\ UNCHANGED fieldsUnchanged
    BY DEF AddField, AddBitfield, EmbedMember, AddBaseClass, SkipMember,
           ClipFields, AtMember
  <2>2. pc' = pc /\ mark' = mark
    BY <2>1 DEF fieldsUnchanged
  <2>3. /\ nextUserType \in Nat /\ mark \in 0 .. Len(dwarfTypes)
        /\ userTypes \in Seq(Record) /\ dwarfTypes \in Seq(Record)
        /\ todo \in Seq(Item) /\ pos \in Nat
    BY DEF TypeOK, StructVarsOK
  <2> QED
    BY <2>1, <2>2, <2>3, LenProperties
<1>2. BASE_USER_TYPE \in Nat
  BY ConstAssumption
<1>3. Parked = Len(dwarfTypes) - mark /\ Parked' = Len(dwarfTypes') - mark
  BY <1>1 DEF Parked
<1>4. ASSUME todo # <<>>
      PROVE  /\ Head(todo).member.ref \in 0 .. Len(dies)
             /\ Head(todo).member.kind # "inheritance"
  <2>1. Head(todo) \in Item /\ Len(todo) \in Nat \ {0} /\ Head(todo) = todo[1]
    BY <1>1, <1>4
  <2> QED
    BY <2>1 DEF Item, NoBaseToRead
<1>5. ASSUME UNCHANGED <<dwarfTypes, nextUserType>>,
             Len(userTypes') = Len(userTypes),
             \A i \in 1 .. Len(userTypes) : userTypes'[i].id = userTypes[i].id
      PROVE  UserNumbers'
  BY <1>1, <1>3, <1>5 DEF UserNumbers
<1>6. CASE EmbedMember \/ SkipMember \/ ClipFields
  <2>1. UNCHANGED <<userTypes, dwarfTypes, nextUserType>>
    BY <1>6 DEF EmbedMember, SkipMember, ClipFields
  <2> QED
    BY <1>5, <2>1
<1>7. CASE AddField
  <2>1. todo # <<>> /\ UNCHANGED <<dwarfTypes, nextUserType>>
    BY <1>7 DEF AddField, AtMember
  <2>2. PICK t \in TypesByPtr(Head(todo).member.ref) : FieldRefers(t)
    BY <1>7 DEF AddField
  <2>3. t \in Nat
    BY <1>4, <2>1, <2>2, TypesAreNats
  <2>4. /\ Len(userTypes') = Len(userTypes)
        /\ \A i \in 1 .. Len(userTypes) : userTypes'[i].id = userTypes[i].id
    BY <1>1, <2>2, <2>3, FieldRefersKeepsIds
  <2> QED
    BY <1>5, <2>1, <2>4
<1>8. CASE AddBaseClass
  BY <1>4, <1>8 DEF AddBaseClass, AtMember
<1>9. CASE AddBitfield
  <2>1. PICK t : dwarfTypes' = Append(dwarfTypes,
                                      Rec("bitfield", pos, nextUserType, {t}))
    BY <1>9 DEF AddBitfield
  <2> DEFINE b == Rec("bitfield", pos, nextUserType, {t})
  <2>2. b.id = nextUserType
    BY DEF Rec
  <2>3. /\ Len(userTypes') = Len(userTypes)
        /\ \A i \in 1 .. Len(userTypes) : userTypes'[i].id = userTypes[i].id
        /\ nextUserType' = nextUserType + 1
    BY <1>1, <1>9, FieldRefersKeepsIds DEF AddBitfield
  <2> HIDE DEF b
  <2>4. dwarfTypes' = Append(dwarfTypes, b)
    BY <2>1 DEF b
  <2>5. /\ Len(dwarfTypes') = Len(dwarfTypes) + 1
        /\ dwarfTypes'[Len(dwarfTypes) + 1] = b
        /\ \A k \in 1 .. Len(dwarfTypes) : dwarfTypes'[k] = dwarfTypes[k]
    BY <1>1, <2>4
  <2>6. nextUserType = BASE_USER_TYPE + Len(userTypes) + Parked
    BY DEF UserNumbers
  <2>7. ASSUME NEW k \in 1 .. Parked'
        PROVE  dwarfTypes'[mark + k].id
                 = BASE_USER_TYPE + Len(userTypes) + k - 1
    <3>1. Parked \in Nat /\ Parked' = Parked + 1
      BY <1>1, <1>3, <2>5
    <3>2. CASE k = Parked + 1
      <4>1. mark + k = Len(dwarfTypes) + 1
        BY <1>1, <1>3, <3>2
      <4> QED
        BY <1>1, <1>2, <2>2, <2>5, <2>6, <3>1, <3>2, <4>1
    <3>3. CASE k # Parked + 1
      <4>1. k \in 1 .. Parked
        BY <2>7, <3>1, <3>3
      <4>2. mark + k \in 1 .. Len(dwarfTypes)
        BY <1>1, <1>3, <4>1
      <4> QED
        BY <2>5, <4>1, <4>2 DEF UserNumbers
    <3> QED
      BY <3>2, <3>3
  <2>8. nextUserType' = BASE_USER_TYPE + Len(userTypes') + Parked'
    BY <1>1, <1>2, <1>3, <2>3, <2>5, <2>6
  <2>9. \A i \in 1 .. Len(userTypes') :
          userTypes'[i].id = BASE_USER_TYPE + i - 1
    BY <2>3 DEF UserNumbers
  <2> QED
    BY <1>1, <2>3, <2>7, <2>8, <2>9 DEF UserNumbers
<1> QED
  BY <1>6, <1>7, <1>8, <1>9

(* A closed struct: what was parked moves to where its numbers said it     *)
(* would be, and the struct takes the next number.                         *)
LEMMA UserNumbersClose ==
  ASSUME TypeOK, UserNumbers, CloseStructure
  PROVE  UserNumbers'
<1>1. /\ pc = "fields" /\ nextUserType \in Nat
      /\ mark \in 0 .. Len(dwarfTypes)
      /\ userTypes \in Seq(Record) /\ dwarfTypes \in Seq(Record)
      /\ pos \in Nat /\ list \in 1 .. Len(userTypes) /\ nextDwarfType \in Nat
  BY DEF CloseStructure, TypeOK, StructVarsOK
<1>2. BASE_USER_TYPE \in Nat
  BY ConstAssumption
<1>3. Len(userTypes) \in Nat /\ Len(dwarfTypes) \in Nat
  BY <1>1, LenProperties
<1> DEFINE ref == userTypes[list].id
           parked == SubSeq(dwarfTypes, mark + 1, Len(dwarfTypes))
           moved == userTypes \o parked
           struct == IF backRef
                       THEN Rec("incomplete", pos, nextUserType, {})
                       ELSE Rec("struct", pos, nextUserType, {ref})
<1>4. userTypes' = Append(moved, struct) /\ nextUserType' = nextUserType + 1
  BY DEF CloseStructure, WithParked
<1>5. struct.id = nextUserType
  BY DEF Rec
<1>6. Parked = Len(dwarfTypes) - mark /\ Parked' = 0
  <2>1. pc' = "create"
    BY DEF CloseStructure, FinishDie
  <2> QED
    BY <1>1, <2>1 DEF Parked
<1>7. /\ parked \in Seq(Record) /\ Len(parked) = Parked
      /\ \A k \in 1 .. Parked : parked[k] = dwarfTypes[mark + k]
  <2>1. /\ parked \in Seq(Record) /\ Len(parked) = Len(dwarfTypes) - mark
    BY <1>1, <1>3, SubSeqProperties, ElementOfSeq
  <2>2. ASSUME NEW k \in 1 .. Len(parked)
        PROVE  parked[k] = dwarfTypes[mark + k]
    BY <1>1, <1>3, <2>1, SubSeqProperties
  <2> QED
    BY <1>6, <2>1, <2>2
<1> HIDE DEF parked, struct
<1>8. /\ moved \in Seq(Record) /\ Len(moved) = Len(userTypes) + Parked
      /\ \A i \in 1 .. Len(userTypes) : moved[i] = userTypes[i]
      /\ \A k \in 1 .. Parked : moved[Len(userTypes) + k] = parked[k]
  <2>1. Parked \in Nat
    BY <1>1, <1>3, <1>6
  <2>2. /\ moved \in Seq(Record) /\ Len(moved) = Len(userTypes) + Len(parked)
        /\ \A i \in 1 .. Len(userTypes) + Len(parked) :
             moved[i] = IF i <= Len(userTypes) THEN userTypes[i]
                        ELSE parked[i - Len(userTypes)]
    BY <1>1, <1>7, ConcatProperties
  <2> HIDE DEF moved
  <2>3. \A k \in 1 .. Parked : moved[Len(userTypes) + k] = parked[k]
    BY <1>3, <1>7, <2>1, <2>2
  <2>4. \A i \in 1 .. Len(userTypes) : moved[i] = userTypes[i]
    BY <1>3, <1>7, <2>1, <2>2
  <2> QED
    BY <1>7, <2>2, <2>3, <2>4
<1> HIDE DEF moved
<1>9. ASSUME NEW i \in 1 .. Len(moved)
      PROVE  moved[i].id = BASE_USER_TYPE + i - 1
  <2>1. CASE i \in 1 .. Len(userTypes)
    BY <1>8, <2>1 DEF UserNumbers
  <2>2. CASE i \notin 1 .. Len(userTypes)
    <3> DEFINE k == i - Len(userTypes)
    <3>1. k \in 1 .. Parked /\ i = Len(userTypes) + k
      BY <1>1, <1>3, <1>6, <1>8, <1>9, <2>2
    <3>2. moved[i] = dwarfTypes[mark + k]
      BY <1>7, <1>8, <3>1
    <3>3. dwarfTypes[mark + k].id = BASE_USER_TYPE + Len(userTypes) + k - 1
      BY <3>1 DEF UserNumbers
    <3> QED
      BY <1>2, <1>3, <1>9, <3>1, <3>2, <3>3
  <2> QED
    BY <2>1, <2>2
<1>10. /\ Len(userTypes') = Len(moved) + 1
       /\ userTypes'[Len(moved) + 1] = struct
       /\ \A i \in 1 .. Len(moved) : userTypes'[i] = moved[i]
  BY <1>4, <1>8
<1>11. nextUserType = BASE_USER_TYPE + Len(moved) /\ Len(moved) \in Nat
  BY <1>1, <1>2, <1>3, <1>6, <1>8 DEF UserNumbers
<1>12. ASSUME NEW i \in 1 .. Len(userTypes')
       PROVE  userTypes'[i].id = BASE_USER_TYPE + i - 1
  <2>1. CASE i = Len(moved) + 1
    BY <1>2, <1>5, <1>10, <1>11, <2>1
  <2>2. CASE i # Len(moved) + 1
    <3>1. i \in 1 .. Len(moved)
      BY <1>10, <1>11, <1>12, <2>2
    <3> QED
      BY <1>9, <1>10, <3>1
  <2> QED
    BY <2>1, <2>2
<1>13. nextUserType' = BASE_USER_TYPE + Len(userTypes') + 0
  BY <1>2, <1>4, <1>10, <1>11
<1> QED
  BY <1>6, <1>12, <1>13 DEF UserNumbers

LEMMA UserNumbersStep ==
  ASSUME TypeOK, NoBaseToRead, NoInheritance, UserNumbers, Next, pc' # "done"
  PROVE  UserNumbers'
<1>1. pc # "fields" => Parked = 0
  BY DEF Parked
<1>2. CASE MapDie \/ FinishMap \/ CreateVariable \/ SkipDie
  <2>1. /\ UNCHANGED <<userTypes, nextUserType>>
        /\ pc # "fields" /\ pc' # "fields"
    BY <1>2 DEF MapDie, FinishMap, CreateVariable, SkipDie, At
  <2>2. Parked = 0 /\ Parked' = 0
    BY <2>1 DEF Parked
  <2> QED
    BY <2>1, <2>2 DEF UserNumbers
<1>3. CASE \/ CreateBasic \/ CreateOpaque \/ CreateModifier \/ CreatePointer
           \/ CreateArray \/ CreateEnum
  <2>1. pc = "create" /\ pc' = "create"
    BY <1>3 DEF CreateBasic, CreateOpaque, CreateModifier, CreatePointer,
                CreateArray, CreateEnum, At, FinishDie
  <2>2. Parked = 0 /\ Parked' = 0
    BY <2>1 DEF Parked
  <2>3. PICK kind, refs : AppendUserType(kind, refs)
    BY <1>3 DEF CreateBasic, CreateOpaque, CreateModifier, CreatePointer,
                CreateArray, CreateEnum
  <2> QED
    BY <2>2, <2>3, AppendKeepsNumbers
<1>4. CASE OpenStructure
  <2>1. /\ pc = "create" /\ pc' = "fields" /\ mark' = Len(dwarfTypes)
        /\ dwarfTypes' = dwarfTypes
    BY <1>4 DEF OpenStructure, At
  <2>2. Parked = 0 /\ Parked' = 0
    <3>1. Len(dwarfTypes) \in Nat
      BY LenProperties DEF TypeOK
    <3> QED
      BY <2>1, <3>1 DEF Parked
  <2> QED
    BY <1>4, <2>2, AppendKeepsNumbers DEF OpenStructure
<1>5. CASE \/ AddField \/ AddBitfield \/ EmbedMember \/ AddBaseClass
           \/ SkipMember \/ ClipFields
  BY <1>5, UserNumbersFields
<1>6. CASE CloseStructure
  BY <1>6, UserNumbersClose
<1>7. CASE AddTypes
  BY <1>7 DEF AddTypes
<1> QED
  BY <1>2, <1>3, <1>4, <1>5, <1>6, <1>7 DEF Next, CreateDie, Structure

(* The ids taken from nextUserType are the positions in userTypes, however *)
(* many bitfields a struct has and whatever it embeds: the order that      *)
(* BITFIELD_CHANGES.md calls critical, for every input without base        *)
(* classes.                                                                *)
THEOREM UserNumbering == Spec => []UserIdsArePositions
<1> DEFINE IInv == TypeOK /\ NoBaseToRead /\ UserIdsArePositions
<1>1. UserIdsArePositions <=>
        ((NoInheritance /\ pc # "done") => UserNumbers)
  BY DEF UserIdsArePositions, UserNumbers
<1>2. Init => IInv
  <2> SUFFICES ASSUME Init PROVE IInv
    OBVIOUS
  <2>1. /\ userTypes = Prelude /\ nextUserType = FirstUserType
        /\ pc = "map" /\ todo = <<>>
    BY DEF Init
  <2>2. Parked = 0
    BY <2>1 DEF Parked
  <2>3. UserNumbers
    BY <2>1, <2>2, PreludeFacts, ConstAssumption
    DEF UserNumbers, FirstUserType
  <2> QED
    BY <1>1, <2>1, <2>3, InitTypeOK DEF NoBaseToRead
<1>3. IInv /\ [Next]_vars => IInv'
  <2> SUFFICES ASSUME IInv, [Next]_vars PROVE IInv'
    OBVIOUS
  <2>1. TypeOK'
    BY TypeOKStep
  <2>2. NoBaseToRead'
    BY NoBaseToReadStep
  <2>3. UserIdsArePositions'
    <3> SUFFICES ASSUME NoInheritance', pc' # "done" PROVE UserNumbers'
      BY DEF UserIdsArePositions, UserNumbers
    <3>1. CASE UNCHANGED vars
      BY <1>1, <3>1
      DEF vars, structVars, NoInheritance, UserNumbers, Parked
    <3>2. CASE Next
      <4>1. NoInheritance
        BY <3>2, DiesConstant DEF NoInheritance
      <4>2. pc # "done"
        BY <3>2 DEF Next, MapDie, FinishMap, CreateDie, CreateBasic,
                    CreateOpaque, CreateModifier, CreatePointer, CreateArray,
                    CreateEnum, CreateVariable, SkipDie, Structure,
                    OpenStructure, AddField, AddBitfield, EmbedMember,
                    AddBaseClass, SkipMember, ClipFields, CloseStructure,
                    AddTypes, At, AtMember
      <4> QED
        BY <1>1, <3>2, <4>1, <4>2, UserNumbersStep
    <3> QED
      BY <3>1, <3>2
  <2> QED
    BY <2>1, <2>2, <2>3
<1>4. IInv => UserIdsArePositions
  OBVIOUS
<1> QED
  BY <1>2, <1>3, <1>4, PTL DEF Spec

-----------------------------------------------------------------------------
(* The numbering of dwarfTypes.  Resting is how many of its records are    *)
(* there to stay.                                                          *)

Resting == Len(dwarfTypes) - Parked

LEMMA RestingOK ==
  ASSUME TypeOK
  PROVE  /\ Resting \in 0 .. Len(dwarfTypes)
         /\ pc # "fields" => Resting = Len(dwarfTypes)
         /\ pc = "fields" => Resting = mark
<1>1. Len(dwarfTypes) \in Nat /\ mark \in 0 .. Len(dwarfTypes)
  BY LenProperties DEF TypeOK, StructVarsOK
<1> QED
  BY <1>1 DEF Resting, Parked

(* Records that follow one another, with the numbers that are next.        *)
LEMMA AppendKeepsDwarfIds ==
  ASSUME TypeOK, DwarfIdsConsecutive, NEW new \in Seq(Record),
         \A k \in 1 .. Len(new) : new[k].id = nextDwarfType + k - 1,
         NEW kept \in Seq(Record), Len(kept) = Resting,
         \A k \in 1 .. Resting : kept[k] = dwarfTypes[k],
         dwarfTypes' = kept \o new,
         nextDwarfType' = nextDwarfType + Len(new), Parked' = 0
  PROVE  DwarfIdsConsecutive'
<1>1. /\ nextDwarfType \in Nat /\ Len(new) \in Nat
      /\ Resting \in Nat
  BY LenProperties DEF TypeOK
<1>2. /\ Len(dwarfTypes') = Resting + Len(new)
      /\ \A k \in 1 .. Resting + Len(new) :
           dwarfTypes'[k] = IF k <= Resting THEN kept[k] ELSE new[k - Resting]
  BY ConcatProperties
<1>3. ASSUME NEW k \in 1 .. Resting + Len(new)
      PROVE  dwarfTypes'[k].id = nextDwarfType - Resting + k - 1
  <2>1. CASE k <= Resting
    <3>1. k \in 1 .. Resting
      BY <1>1, <1>3, <2>1
    <3>2. dwarfTypes'[k] = dwarfTypes[k]
      BY <1>2, <1>3, <2>1, <3>1
    <3>3. dwarfTypes[k].id = nextDwarfType - Resting + k - 1
      BY <3>1 DEF DwarfIdsConsecutive, Resting
    <3> QED
      BY <3>2, <3>3
  <2>2. CASE ~(k <= Resting)
    <3>1. k - Resting \in 1 .. Len(new)
      BY <1>1, <1>3, <2>2
    <3>2. dwarfTypes'[k].id = nextDwarfType + (k - Resting) - 1
      BY <1>2, <1>3, <2>2, <3>1
    <3> QED
      BY <1>1, <1>3, <3>2
  <2> QED
    BY <2>1, <2>2
<1>4. Len(dwarfTypes') - Parked' = Resting + Len(new)
  BY <1>1, <1>2
<1>5. nextDwarfType' - (Resting + Len(new)) = nextDwarfType - Resting
  BY <1>1
<1> QED
  BY <1>3, <1>4, <1>5 DEF DwarfIdsConsecutive

(* What is parked behind the resting records does not count.               *)
LEMMA ParkingKeepsDwarfIds ==
  ASSUME DwarfIdsConsecutive, nextDwarfType' = nextDwarfType,
         Resting' = Resting,
         \A k \in 1 .. Resting : dwarfTypes'[k] = dwarfTypes[k]
  PROVE  DwarfIdsConsecutive'
BY DEF DwarfIdsConsecutive, Resting

(* mapTypes writes no record, so it may set the counter.                   *)
MapWritesNothing == pc = "map" => dwarfTypes = <<>>

LEMMA MapWritesNothingStep == MapWritesNothing /\ Next => MapWritesNothing'
BY DEF MapWritesNothing, Next, MapDie, FinishMap, CreateDie, CreateBasic,
       CreateOpaque, CreateModifier, CreatePointer, CreateArray, CreateEnum,
       CreateVariable, SkipDie, Structure, OpenStructure, AddField,
       AddBitfield, EmbedMember, AddBaseClass, SkipMember, ClipFields,
       CloseStructure, AddTypes, FinishDie, At, AtMember, fieldsUnchanged

LEMMA DwarfIdsStep ==
  ASSUME TypeOK, TypeOK', DwarfIdsConsecutive, MapWritesNothing, Next
  PROVE  DwarfIdsConsecutive'
<1>1. /\ dwarfTypes \in Seq(Record) /\ Len(dwarfTypes) \in Nat
      /\ nextDwarfType \in Nat /\ mark \in 0 .. Len(dwarfTypes)
      /\ pos \in Nat /\ userTypes \in Seq(Record)
  BY LenProperties DEF TypeOK, StructVarsOK
<1>2. ASSUME NEW r \in Record, r.id = nextDwarfType,
             pc # "fields", pc' # "fields",
             dwarfTypes' = Append(dwarfTypes, r),
             nextDwarfType' = nextDwarfType + 1
      PROVE  DwarfIdsConsecutive'
  <2>1. dwarfTypes' = dwarfTypes \o <<r>>
    BY <1>1, <1>2
  <2>2. Parked' = 0 /\ Resting = Len(dwarfTypes)
    BY <1>2, RestingOK DEF Parked
  <2>3. <<r>> \in Seq(Record) /\ Len(<<r>>) = 1 /\ <<r>>[1] = r
    BY <1>2
  <2>4. \A k \in 1 .. 1 : <<r>>[k].id = nextDwarfType + k - 1
    BY <1>1, <1>2, <2>3
  <2> QED
    BY <1>1, <1>2, <2>1, <2>2, <2>3, <2>4, AppendKeepsDwarfIds
<1>3. ASSUME UNCHANGED <<dwarfTypes, nextDwarfType>>,
             pc # "fields", pc' # "fields" \/ mark' = Len(dwarfTypes)
      PROVE  DwarfIdsConsecutive'
  <2>1. Resting' = Resting
    BY <1>1, <1>3 DEF Resting, Parked
  <2> QED
    BY <1>3, <2>1, ParkingKeepsDwarfIds
<1>4. ASSUME pc = "fields", pc' = "fields", mark' = mark,
             nextDwarfType' = nextDwarfType,
             \/ dwarfTypes' = dwarfTypes
             \/ \E r : dwarfTypes' = Append(dwarfTypes, r)
      PROVE  DwarfIdsConsecutive'
  <2>1. Resting = mark
    BY <1>4, RestingOK
  <2>2. Len(dwarfTypes') \in Nat
    BY LenProperties DEF TypeOK
  <2>3. Resting' = mark
    BY <1>1, <1>4, <2>2 DEF Resting, Parked
  <2>4. \A k \in 1 .. Len(dwarfTypes) : dwarfTypes'[k] = dwarfTypes[k]
    BY <1>1, <1>4
  <2>5. \A k \in 1 .. mark : dwarfTypes'[k] = dwarfTypes[k]
    BY <1>1, <2>4
  <2> QED
    BY <1>4, <2>1, <2>3, <2>5, ParkingKeepsDwarfIds
<1>5. CASE MapDie
  BY <1>3, <1>5 DEF MapDie
<1>6. CASE FinishMap
  <2>1. dwarfTypes' = <<>> /\ pc' = "create"
    BY <1>6 DEF FinishMap, MapWritesNothing
  <2>2. Len(dwarfTypes') - Parked' = 0
    BY <2>1 DEF Parked
  <2> QED
    BY <2>2 DEF DwarfIdsConsecutive
<1>7. CASE \/ CreateBasic \/ CreateOpaque \/ CreateModifier \/ CreatePointer
           \/ CreateArray \/ SkipDie
  <2>1. /\ UNCHANGED <<dwarfTypes, nextDwarfType>>
        /\ pc = "create" /\ pc' = "create"
    BY <1>7 DEF CreateBasic, CreateOpaque, CreateModifier, CreatePointer,
                CreateArray, SkipDie, At, FinishDie
  <2> QED
    BY <1>3, <2>1
<1>8. CASE CreateEnum
  <2> DEFINE n == dies[pos].lists
             L(k) == Rec("fieldlist", pos, nextDwarfType + k - 1,
                         IF k < n THEN {nextDwarfType + k} ELSE {})
             lists == [k \in 1 .. n |-> L(k)]
  <2>1. /\ pc = "create" /\ pos <= Len(dies) /\ pc' = "create"
        /\ dwarfTypes' = dwarfTypes \o lists
        /\ nextDwarfType' = nextDwarfType + n
    BY <1>8 DEF CreateEnum, At, FinishDie
  <2>2. n \in Nat \ {0}
    <3>1. dies[pos] \in Die
      BY <2>1, ElementOfSeq DEF TypeOK
    <3> QED
      BY <3>1 DEF Die
  <2>3. \A k \in 1 .. n : L(k) \in Record
    BY <1>1, <2>2 DEF Rec, Record, RecordKinds
  <2>4. \A k \in 1 .. n : L(k).id = nextDwarfType + k - 1
    BY DEF Rec
  <2> HIDE DEF n, L
  <2>5. lists \in Seq(Record) /\ Len(lists) = n
    <3>1. lists \in [1 .. n -> Record]
      BY <2>3
    <3> QED
      BY <2>2, <3>1, SeqDef
  <2>6. \A k \in 1 .. Len(lists) : lists[k].id = nextDwarfType + k - 1
    BY <2>4, <2>5
  <2>7. Parked' = 0 /\ Resting = Len(dwarfTypes)
    BY <2>1, RestingOK DEF Parked
  <2> HIDE DEF lists
  <2> QED
    BY <1>1, <2>1, <2>5, <2>6, <2>7, AppendKeepsDwarfIds
<1>9. CASE CreateVariable
  <2>1. pc = "create" /\ pc' = "create" /\ pos \in 1 .. Len(dies)
    BY <1>9 DEF CreateVariable, At, TypeOK
  <2>2. dies[pos].ref \in 0 .. Len(dies)
    <3>1. dies[pos] \in Die
      BY <2>1, ElementOfSeq DEF TypeOK
    <3>2. dies[pos].ref \in Nat
      BY <3>1 DEF Die
    <3>3. dies[pos].ref <= Len(dies) /\ Len(dies) \in Nat
      BY <2>1, LenProperties DEF TypeOK, RefsInside
    <3> QED
      BY <3>2, <3>3
  <2>3. PICK t \in TypesByPtr(dies[pos].ref) :
          \/ /\ dwarfTypes' = Append(dwarfTypes,
                               Rec("pointer", pos, nextDwarfType, {t}))
             /\ nextDwarfType' = nextDwarfType + 1
          \/ UNCHANGED <<dwarfTypes, nextDwarfType>>
    BY <1>9 DEF CreateVariable
  <2>4. Rec("pointer", pos, nextDwarfType, {t}) \in Record
    BY <1>1, <2>2, <2>3, TypesAreNats, RecIsRecord DEF RecordKinds
  <2>5. Rec("pointer", pos, nextDwarfType, {t}).id = nextDwarfType
    BY DEF Rec
  <2> QED
    BY <1>2, <1>3, <2>1, <2>3, <2>4, <2>5
<1>10. CASE OpenStructure
  <2>1. /\ UNCHANGED <<dwarfTypes, nextDwarfType>>
        /\ pc = "create" /\ mark' = Len(dwarfTypes)
    BY <1>10 DEF OpenStructure, At
  <2> QED
    BY <1>3, <2>1
<1>11. CASE \/ AddField \/ AddBitfield \/ EmbedMember \/ AddBaseClass
            \/ SkipMember \/ ClipFields
  <2>1. pc = "fields" /\ UNCHANGED fieldsUnchanged
    BY <1>11 DEF AddField, AddBitfield, EmbedMember, AddBaseClass,
                 SkipMember, ClipFields, AtMember
  <2>2. pc' = pc /\ mark' = mark /\ nextDwarfType' = nextDwarfType
    BY <2>1 DEF fieldsUnchanged
  <2>3. \/ dwarfTypes' = dwarfTypes
        \/ \E r : dwarfTypes' = Append(dwarfTypes, r)
    BY <1>11 DEF AddField, AddBitfield, EmbedMember, AddBaseClass,
                 SkipMember, ClipFields
  <2> QED
    BY <1>4, <2>1, <2>2, <2>3
<1>12. CASE CloseStructure
  <2>1. pc = "fields" /\ pc' = "create" /\ list \in 1 .. Len(userTypes)
    BY <1>12 DEF CloseStructure, FinishDie, TypeOK, StructVarsOK
  <2>2. Parked' = 0 /\ Resting = mark
    BY <2>1, RestingOK DEF Parked
  <2>3. /\ Kept \in Seq(Record) /\ Len(Kept) = mark
        /\ \A k \in 1 .. mark : Kept[k] = dwarfTypes[k]
    <3>1. Kept \in Seq(Record) /\ Len(Kept) = mark
      BY <1>1, SubSeqProperties, ElementOfSeq DEF Kept
    <3>2. ASSUME NEW k \in 1 .. mark PROVE Kept[k] = dwarfTypes[k]
      BY <1>1, <3>1, SubSeqProperties DEF Kept
    <3> QED
      BY <3>1, <3>2
  <2> DEFINE s == Rec("struct", pos, nextDwarfType, {userTypes[list].id})
  <2>4. CASE backRef
    <3>1. s \in Record /\ s.id = nextDwarfType
      <4>1. userTypes[list] \in Record
        BY <1>1, <2>1, ElementOfSeq
      <4>2. userTypes[list].id \in Nat
        BY <4>1 DEF Record
      <4>3. s.id = nextDwarfType
        BY DEF Rec
      <4> QED
        BY <1>1, <4>2, <4>3, RecIsRecord DEF RecordKinds
    <3>2. dwarfTypes' = Append(Kept, s) /\ nextDwarfType' = nextDwarfType + 1
      BY <1>12, <2>4 DEF CloseStructure
    <3> HIDE DEF s
    <3>3. <<s>> \in Seq(Record) /\ Len(<<s>>) = 1 /\ <<s>>[1] = s
      BY <3>1
    <3>4. \A k \in 1 .. 1 : <<s>>[k].id = nextDwarfType + k - 1
      BY <1>1, <3>1, <3>3
    <3>5. dwarfTypes' = Kept \o <<s>>
      BY <2>3, <3>1, <3>2
    <3> QED
      BY <2>2, <2>3, <3>2, <3>3, <3>4, <3>5, AppendKeepsDwarfIds
  <2>5. CASE ~backRef
    <3>1. dwarfTypes' = Kept /\ nextDwarfType' = nextDwarfType
      BY <1>12, <2>5 DEF CloseStructure
    <3>2. Resting' = mark
      BY <1>1, <2>2, <2>3, <3>1 DEF Resting
    <3> QED
      BY <2>2, <2>3, <3>1, <3>2, ParkingKeepsDwarfIds
  <2> QED
    BY <2>4, <2>5
<1>13. CASE AddTypes
  <2>1. dwarfTypes' = <<>> /\ pc' = "done"
    BY <1>13 DEF AddTypes
  <2>2. Len(dwarfTypes') - Parked' = 0
    BY <2>1 DEF Parked
  <2> QED
    BY <2>2 DEF DwarfIdsConsecutive
<1> QED
  BY <1>5, <1>6, <1>7, <1>8, <1>9, <1>10, <1>11, <1>12, <1>13
  DEF Next, CreateDie, Structure

(* The records that stay in dwarfTypes carry consecutive ids, ending at    *)
(* the next one to be given out: the field lists of enums, the references  *)
(* to imported variables and the structs that were defined late never      *)
(* share an id or leave a gap, whatever is parked among them and removed   *)
(* again.                                                                  *)
THEOREM DwarfNumbering == Spec => []DwarfIdsConsecutive
<1> DEFINE IInv == TypeOK /\ MapWritesNothing /\ DwarfIdsConsecutive
<1>1. Init => IInv
  <2> SUFFICES ASSUME Init PROVE IInv
    OBVIOUS
  <2>1. dwarfTypes = <<>> /\ pc = "map"
    BY DEF Init
  <2>2. Len(dwarfTypes) - Parked = 0
    BY <2>1 DEF Parked
  <2>3. DwarfIdsConsecutive
    BY <2>2 DEF DwarfIdsConsecutive
  <2> QED
    BY <2>1, <2>3, InitTypeOK DEF MapWritesNothing
<1>2. IInv /\ [Next]_vars => IInv'
  <2> SUFFICES ASSUME IInv, [Next]_vars PROVE IInv'
    OBVIOUS
  <2>1. TypeOK'
    BY TypeOKStep
  <2>2. CASE UNCHANGED vars
    BY <2>1, <2>2 DEF vars, structVars, MapWritesNothing,
                      DwarfIdsConsecutive, Parked
  <2>3. CASE Next
    BY <2>1, <2>3, MapWritesNothingStep, DwarfIdsStep
  <2> QED
    BY <2>2, <2>3
<1>3. IInv => DwarfIdsConsecutive
  OBVIOUS
<1> QED
  BY <1>1, <1>2, <1>3, PTL DEF Spec

-----------------------------------------------------------------------------
(* Units without structs.  createTypes makes one record for each DIE that  *)
(* mapTypes has reserved an id for, in the same order, so that an id that  *)
(* is reserved for a DIE is the number of such DIEs before it.             *)

MappedBefore(s, d) == Cardinality({c \in 1 .. d - 1 : IsMapped(s[c])})

Reserved(s, d) ==
  IF IsMapped(s[d]) THEN FirstUserType + MappedBefore(s, d) ELSE T_NOTYPE

(* The id of the first record of dwarfTypes.                               *)
DwarfBase(s) == FirstUserType + MappedBefore(s, Len(s) + 1)

(* Of records numbered from base on, the one with the id t is that of d.   *)
RecordAt(records, base, t, d) ==
  t - base + 1 \in 1 .. Len(records) /\ records[t - base + 1].die = d

RefersTo(s, d, refs) ==
  /\ d \in 1 .. Len(s)
  /\ \A t \in refs \ {T_NOTYPE} :
       s[d].ref \in 1 .. Len(s) /\ t = Reserved(s, s[d].ref)

ListOf(s, dwarf, t, d) ==
  \E k \in 1 .. Len(dwarf) :
    t = DwarfBase(s) + k - 1 /\ dwarf[k].kind = "fieldlist" /\ dwarf[k].die = d

UserFits(s, dwarf, i, r) ==
  /\ r.id = BASE_USER_TYPE + i - 1
  /\ r.kind \in {"modifier", "pointer", "array"} => RefersTo(s, r.die, r.refs)
  /\ r.kind = "enum" =>
       \A t \in r.refs : t = BASE_USER_TYPE \/ ListOf(s, dwarf, t, r.die)

DwarfFits(s, k, r) ==
  /\ r.id = DwarfBase(s) + k - 1
  /\ r.kind \in {"fieldlist", "pointer"}
  /\ r.kind = "pointer" => RefersTo(s, r.die, r.refs)

GlobalFits(s, dwarf, g) ==
  \/ g.type = T_NOTYPE
  \/ /\ s[g.die].symbol = "dllimport"
     /\ RecordAt(dwarf, DwarfBase(s), g.type, g.die)
  \/ /\ s[g.die].symbol # "dllimport"
     /\ s[g.die].ref \in 1 .. Len(s) /\ g.type = Reserved(s, s[g.die].ref)

(* What has been made of the DIEs before p.                                *)
Built(s, p, user, dwarf, symbols, variables) ==
  /\ Len(user) = Len(Prelude) + MappedBefore(s, p)
  /\ user[1].kind = "fieldlist" /\ user[1].die = 0
  /\ \A i \in 1 .. Len(user) : UserFits(s, dwarf, i, user[i])
  /\ \A d \in 1 .. p - 1 :
       IsMapped(s[d]) => RecordAt(user, BASE_USER_TYPE, Reserved(s, d), d)
  /\ \A k \in 1 .. Len(dwarf) : DwarfFits(s, k, dwarf[k])
  /\ \A i \in 1 .. Len(symbols) :
       RecordAt(user, BASE_USER_TYPE, symbols[i].type, symbols[i].die)
  /\ \A g \in variables : GlobalFits(s, dwarf, g)

LEMMA MappedBeforeFacts ==
  ASSUME NEW s, NEW p \in Nat \ {0}
  PROVE  /\ MappedBefore(s, p) \in Nat
         /\ MappedBefore(s, 1) = 0
         /\ IsMapped(s[p]) => MappedBefore(s, p + 1) = MappedBefore(s, p) + 1
         /\ ~IsMapped(s[p]) => MappedBefore(s, p + 1) = MappedBefore(s, p)
<1> DEFINE S(d) == {c \in 1 .. d - 1 : IsMapped(s[c])}
<1>1. IsFiniteSet(S(p))
  <2>1. IsFiniteSet(1 .. p - 1) /\ S(p) \subseteq 1 .. p - 1
    BY FS_Interval
  <2> QED
    BY <2>1, FS_Subset
<1>2. Cardinality(S(p)) \in Nat
  BY <1>1, FS_CardinalityType
<1>3. Cardinality(S(1)) = 0
  <2>1. S(1) = {}
    OBVIOUS
  <2> QED
    BY <2>1, FS_EmptySet
<1>4. ASSUME IsMapped(s[p]) PROVE Cardinality(S(p + 1)) = Cardinality(S(p)) + 1
  <2>1. S(p + 1) = S(p) \cup {p} /\ p \notin S(p)
    BY <1>4
  <2> HIDE DEF S
  <2> QED
    BY <1>1, <2>1, FS_AddElement
<1>5. ASSUME ~IsMapped(s[p]) PROVE S(p + 1) = S(p)
  BY <1>5
<1> QED
  BY <1>2, <1>3, <1>4, <1>5 DEF MappedBefore

LEMMA DwarfBaseFacts ==
  ASSUME NEW s \in Seq(Die)
  PROVE  /\ Len(Prelude) \in Nat /\ BASE_USER_TYPE \in Nat
         /\ MappedBefore(s, Len(s) + 1) \in Nat
         /\ DwarfBase(s) = BASE_USER_TYPE + Len(Prelude) + MappedBefore(s, Len(s) + 1)
         /\ DwarfBase(s) \in Nat
<1>1. Len(Prelude) \in Nat /\ BASE_USER_TYPE \in Nat /\ Len(s) + 1 \in Nat \ {0}
  BY PreludeFacts, ConstAssumption, LenProperties
<1>2. MappedBefore(s, Len(s) + 1) \in Nat
  BY <1>1, MappedBeforeFacts
<1>3. DwarfBase(s) = BASE_USER_TYPE + Len(Prelude) + MappedBefore(s, Len(s) + 1)
  BY Zenon DEF DwarfBase, FirstUserType
<1> QED
  BY <1>1, <1>2, <1>3

LEMMA ReservedFacts ==
  ASSUME NEW s, NEW d \in Nat \ {0}
  PROVE  /\ Reserved(s, d) \in Nat
         /\ IsMapped(s[d]) => Reserved(s, d) # T_NOTYPE
         /\ Reserved(s, d) # T_NOTYPE => IsMapped(s[d])
<1>1. FirstUserType \in Nat \ {0}
  BY PreludeFacts, ConstAssumption DEF FirstUserType
<1>2. MappedBefore(s, d) \in Nat
  BY MappedBeforeFacts
<1> QED
  BY <1>1, <1>2 DEF Reserved, T_NOTYPE

-----------------------------------------------------------------------------
(* What is built holds while more is built.                                *)

Grows(dwarf, more) ==
  Len(dwarf) <= Len(more) /\ \A k \in 1 .. Len(dwarf) : more[k] = dwarf[k]

LEMMA RecordStays ==
  ASSUME NEW records \in Seq(Record), NEW more \in Seq(Record), Grows(records, more),
         NEW base, NEW t, NEW d, RecordAt(records, base, t, d)
  PROVE  RecordAt(more, base, t, d)
<1>1. PICK i : i = t - base + 1
  BY Zenon
<1>2. i \in 1 .. Len(records) /\ records[i].die = d
  BY <1>1, Zenon DEF RecordAt
<1>3. i \in 1 .. Len(more) /\ more[i].die = d
  BY <1>2 DEF Grows
<1> QED
  BY <1>1, <1>3, Zenon DEF RecordAt

LEMMA FitsStill ==
  ASSUME NEW s, NEW dwarf \in Seq(Record), NEW more \in Seq(Record), Grows(dwarf, more)
  PROVE  /\ \A i, r : UserFits(s, dwarf, i, r) => UserFits(s, more, i, r)
         /\ \A g : GlobalFits(s, dwarf, g) => GlobalFits(s, more, g)
<1>1. ASSUME NEW t, NEW d, ListOf(s, dwarf, t, d) PROVE ListOf(s, more, t, d)
  <2>1. PICK k \in 1 .. Len(dwarf) :
          t = DwarfBase(s) + k - 1 /\ dwarf[k].kind = "fieldlist" /\ dwarf[k].die = d
    BY <1>1 DEF ListOf
  <2>2. k \in 1 .. Len(more) /\ more[k] = dwarf[k]
    BY DEF Grows
  <2> QED
    BY <2>1, <2>2, Zenon DEF ListOf
<1>2. ASSUME NEW i, NEW r, UserFits(s, dwarf, i, r) PROVE UserFits(s, more, i, r)
  BY <1>1, <1>2, Zenon DEF UserFits
<1>3. ASSUME NEW g, GlobalFits(s, dwarf, g) PROVE GlobalFits(s, more, g)
  <2>1. RecordAt(dwarf, DwarfBase(s), g.type, g.die) => RecordAt(more, DwarfBase(s), g.type, g.die)
    BY RecordStays, Zenon
  <2> QED
    BY <1>3, <2>1, Zenon DEF GlobalFits
<1> QED
  BY <1>2, <1>3

(* The record of the DIE at p, with what it adds to the other buffers.     *)
NextRecord(s, p, user, dwarf, symbols, r, more, symbols2) ==
  /\ p \in Nat \ {0} /\ IsMapped(s[p])
  /\ user \in Seq(Record) /\ dwarf \in Seq(Record) /\ symbols \in Seq(Symbol)
  /\ more \in Seq(Record) /\ Grows(dwarf, more)
  /\ \A k \in Len(dwarf) + 1 .. Len(more) : DwarfFits(s, k, more[k])
  /\ r \in Record /\ r.die = p /\ UserFits(s, more, Len(user) + 1, r)
  /\ \/ symbols2 = symbols
     \/ symbols2 = Append(symbols, [die |-> p, type |-> r.id])

LEMMA BuiltRecord ==
  ASSUME NEW s, NEW p, NEW user, NEW dwarf, NEW symbols, NEW variables,
         NEW r, NEW more, NEW symbols2,
         NextRecord(s, p, user, dwarf, symbols, r, more, symbols2),
         Built(s, p, user, dwarf, symbols, variables)
  PROVE  /\ Built(s, p + 1, Append(user, r), more, symbols2, variables)
         /\ r.id = Reserved(s, p)
<1> USE DEF NextRecord
<1> DEFINE user2 == Append(user, r)
<1>1. /\ Len(user) \in Nat /\ Len(user2) = Len(user) + 1 /\ user2 \in Seq(Record)
      /\ user2[Len(user) + 1] = r
      /\ \A i \in 1 .. Len(user) : user2[i] = user[i]
  OBVIOUS
<1> HIDE DEF user2
<1>2. /\ Len(user) = Len(Prelude) + MappedBefore(s, p)
      /\ user[1].kind = "fieldlist" /\ user[1].die = 0
      /\ \A i \in 1 .. Len(user) : UserFits(s, dwarf, i, user[i])
      /\ \A d \in 1 .. p - 1 :
           IsMapped(s[d]) => RecordAt(user, BASE_USER_TYPE, Reserved(s, d), d)
      /\ \A k \in 1 .. Len(dwarf) : DwarfFits(s, k, dwarf[k])
      /\ \A i \in 1 .. Len(symbols) :
           RecordAt(user, BASE_USER_TYPE, symbols[i].type, symbols[i].die)
      /\ \A g \in variables : GlobalFits(s, dwarf, g)
  BY Zenon DEF Built
<1>3. /\ MappedBefore(s, p) \in Nat /\ MappedBefore(s, p + 1) = MappedBefore(s, p) + 1
      /\ Len(Prelude) \in Nat \ {0} /\ BASE_USER_TYPE \in Nat \ {0}
  BY MappedBeforeFacts, PreludeFacts, ConstAssumption
<1>4. r.id = Reserved(s, p) /\ r.id = BASE_USER_TYPE + Len(user)
  <2>1. r.id = BASE_USER_TYPE + (Len(user) + 1) - 1
    BY Zenon DEF UserFits
  <2> QED
    BY <1>1, <1>2, <1>3, <2>1, SMTT(30) DEF Reserved, FirstUserType
<1>5. RecordAt(user2, BASE_USER_TYPE, r.id, p)
  BY <1>1, <1>3, <1>4 DEF RecordAt
<1>6. Grows(user, user2)
  BY <1>1 DEF Grows
<1>7. \A i \in 1 .. Len(user2) : UserFits(s, more, i, user2[i])
  <2> SUFFICES ASSUME NEW i \in 1 .. Len(user2) PROVE UserFits(s, more, i, user2[i])
    OBVIOUS
  <2>1. i \in 1 .. Len(user) \/ i = Len(user) + 1
    BY <1>1
  <2>2. CASE i \in 1 .. Len(user)
    BY <1>1, <1>2, <2>2, FitsStill, Zenon
  <2>3. CASE i = Len(user) + 1
    BY <1>1, <2>3, Zenon
  <2> QED
    BY <2>1, <2>2, <2>3
<1>8. \A d \in 1 .. p + 1 - 1 :
        IsMapped(s[d]) => RecordAt(user2, BASE_USER_TYPE, Reserved(s, d), d)
  <2> SUFFICES ASSUME NEW d \in 1 .. p + 1 - 1, IsMapped(s[d])
               PROVE  RecordAt(user2, BASE_USER_TYPE, Reserved(s, d), d)
    OBVIOUS
  <2>1. d \in 1 .. p - 1 \/ d = p
    OBVIOUS
  <2>2. CASE d \in 1 .. p - 1
    BY <1>1, <1>2, <1>6, <2>2, RecordStays, Zenon
  <2>3. CASE d = p
    BY <1>4, <1>5, <2>3, Zenon
  <2> QED
    BY <2>1, <2>2, <2>3
<1>9. \A k \in 1 .. Len(more) : DwarfFits(s, k, more[k])
  <2> SUFFICES ASSUME NEW k \in 1 .. Len(more) PROVE DwarfFits(s, k, more[k])
    OBVIOUS
  <2>1. k \in 1 .. Len(dwarf) \/ k \in Len(dwarf) + 1 .. Len(more)
    OBVIOUS
  <2>2. CASE k \in 1 .. Len(dwarf)
    BY <1>2, <2>2 DEF Grows
  <2>3. CASE k \in Len(dwarf) + 1 .. Len(more)
    BY <2>3
  <2> QED
    BY <2>1, <2>2, <2>3
<1>10. \A i \in 1 .. Len(symbols2) :
         RecordAt(user2, BASE_USER_TYPE, symbols2[i].type, symbols2[i].die)
  <2>1. \A i \in 1 .. Len(symbols) :
          RecordAt(user2, BASE_USER_TYPE, symbols[i].type, symbols[i].die)
    BY <1>1, <1>2, <1>6, RecordStays, Zenon
  <2>2. CASE symbols2 = symbols
    BY <2>1, <2>2, Zenon
  <2>3. CASE symbols2 = Append(symbols, [die |-> p, type |-> r.id])
    <3> DEFINE u == [die |-> p, type |-> r.id]
    <3>1. u.die = p /\ u.type = r.id /\ u \in Symbol
      BY DEF Record, Symbol
    <3>2. symbols2 = Append(symbols, u)
      BY <2>3
    <3> HIDE DEF u
    <3>3. \A i \in 1 .. Len(symbols2) :
            (i \in 1 .. Len(symbols) /\ symbols2[i] = symbols[i]) \/ symbols2[i] = u
      BY <3>1, <3>2
    <3> QED
      BY <1>5, <2>1, <3>1, <3>3, Zenon
  <2> QED
    BY <2>2, <2>3
<1>11. \A g \in variables : GlobalFits(s, more, g)
  BY <1>2, FitsStill, Zenon
<1>12. Len(user2) = Len(Prelude) + MappedBefore(s, p + 1)
       /\ user2[1].kind = "fieldlist" /\ user2[1].die = 0
  <2>1. 1 \in 1 .. Len(user)
    BY <1>1, <1>2, <1>3
  <2>2. user2[1] = user[1]
    BY <1>1, <2>1
  <2>3. Len(user2) = Len(Prelude) + MappedBefore(s, p + 1)
    BY <1>1, <1>2, <1>3
  <2> QED
    BY <1>2, <2>2, <2>3
<1>13. Built(s, p + 1, user2, more, symbols2, variables)
  BY <1>4, <1>7, <1>8, <1>9, <1>10, <1>11, <1>12 DEF Built
<1> QED
  BY <1>4, <1>13 DEF user2

(* A DIE that no id is reserved for.                                       *)
LEMMA BuiltNoRecord ==
  ASSUME NEW s, NEW p \in Nat \ {0}, ~IsMapped(s[p]),
         NEW user \in Seq(Record), NEW dwarf \in Seq(Record),
         NEW symbols, NEW variables,
         Built(s, p, user, dwarf, symbols, variables),
         NEW more \in Seq(Record), Grows(dwarf, more),
         \A k \in Len(dwarf) + 1 .. Len(more) : DwarfFits(s, k, more[k]),
         NEW variables2, \A g \in variables2 : g \in variables \/ GlobalFits(s, more, g)
  PROVE  Built(s, p + 1, user, more, symbols, variables2)
<1>1. /\ Len(user) = Len(Prelude) + MappedBefore(s, p)
      /\ user[1].kind = "fieldlist" /\ user[1].die = 0
      /\ \A i \in 1 .. Len(user) : UserFits(s, dwarf, i, user[i])
      /\ \A d \in 1 .. p - 1 :
           IsMapped(s[d]) => RecordAt(user, BASE_USER_TYPE, Reserved(s, d), d)
      /\ \A k \in 1 .. Len(dwarf) : DwarfFits(s, k, dwarf[k])
      /\ \A i \in 1 .. Len(symbols) :
           RecordAt(user, BASE_USER_TYPE, symbols[i].type, symbols[i].die)
      /\ \A g \in variables : GlobalFits(s, dwarf, g)
  BY Zenon DEF Built
<1>2. MappedBefore(s, p + 1) = MappedBefore(s, p)
  BY MappedBeforeFacts
<1>3. \A i \in 1 .. Len(user) : UserFits(s, more, i, user[i])
  BY <1>1, FitsStill, Zenon
<1>4. \A d \in 1 .. p + 1 - 1 :
        IsMapped(s[d]) => RecordAt(user, BASE_USER_TYPE, Reserved(s, d), d)
  <2>1. \A d \in 1 .. p + 1 - 1 : d \in 1 .. p - 1 \/ d = p
    OBVIOUS
  <2> QED
    BY <1>1, <2>1, Zenon
<1>5. \A k \in 1 .. Len(more) : DwarfFits(s, k, more[k])
  <2> SUFFICES ASSUME NEW k \in 1 .. Len(more) PROVE DwarfFits(s, k, more[k])
    OBVIOUS
  <2>1. k \in 1 .. Len(dwarf) \/ k \in Len(dwarf) + 1 .. Len(more)
    OBVIOUS
  <2>2. CASE k \in 1 .. Len(dwarf)
    BY <1>1, <2>2 DEF Grows
  <2>3. CASE k \in Len(dwarf) + 1 .. Len(more)
    BY <2>3
  <2> QED
    BY <2>1, <2>2, <2>3
<1>6. \A g \in variables2 : GlobalFits(s, more, g)
  BY <1>1, FitsStill, Zenon
<1> QED
  <2>1. Len(user) = Len(Prelude) + MappedBefore(s, p + 1)
    BY <1>1, <1>2
  <2> QED
    BY <1>1, <1>3, <1>4, <1>5, <1>6, <2>1 DEF Built

(* What initCV has built before the first DIE.                             *)
LEMMA BuiltFirst ==
  ASSUME NEW s
  PROVE  Built(s, 1, Prelude, <<>>, PreludeUdts, {})
<1> DEFINE n == IF Dversion > 0 THEN 7 ELSE 1
           m == IF Dversion > 0 THEN 3 ELSE 0
<1>1. n \in {1, 7} /\ m \in Nat /\ BASE_USER_TYPE \in Nat /\ (m = 0 \/ (m = 3 /\ n = 7))
  BY ConstAssumption
<1>2. \A i \in 1 .. n : /\ Prelude[i].die = 0 /\ Prelude[i].kind \in {"fieldlist", "struct"}
                        /\ i = 1 => Prelude[i].kind = "fieldlist"
  BY <1>1 DEF Prelude, Rec
<1>3. Len(Prelude) = n
  BY <1>1 DEF Prelude
<1>4. Len(PreludeUdts) = m
  BY <1>1 DEF PreludeUdts
<1>5. \A i \in 1 .. m : PreludeUdts[i].die = 0 /\ PreludeUdts[i].type = BASE_USER_TYPE + 2 * i
  BY <1>1 DEF PreludeUdts
<1> HIDE DEF n, m
<1>6. \A i \in 1 .. Len(Prelude) : UserFits(s, <<>>, i, Prelude[i])
  BY <1>2, <1>3, PreludeFacts DEF UserFits
<1>7. \A i \in 1 .. Len(PreludeUdts) :
        RecordAt(Prelude, BASE_USER_TYPE, PreludeUdts[i].type, PreludeUdts[i].die)
  <2> SUFFICES ASSUME NEW i \in 1 .. m
               PROVE  RecordAt(Prelude, BASE_USER_TYPE, PreludeUdts[i].type, PreludeUdts[i].die)
    BY <1>4
  <2> DEFINE u == PreludeUdts[i]
  <2>1. PICK j : j = u.type - BASE_USER_TYPE + 1
    BY Zenon
  <2>2. u.die = 0 /\ j \in 1 .. n
    BY <1>1, <1>5, <2>1
  <2>3. j \in 1 .. Len(Prelude) /\ Prelude[j].die = u.die
    BY <1>2, <1>3, <2>2
  <2> QED
    BY <2>1, <2>3, Zenon DEF RecordAt
<1>8. Len(Prelude) = Len(Prelude) + MappedBefore(s, 1)
  <2>1. MappedBefore(s, 1) = 0 /\ Len(Prelude) \in Nat
    BY MappedBeforeFacts, PreludeFacts
  <2> QED
    BY <2>1
<1>9. Prelude[1].kind = "fieldlist" /\ Prelude[1].die = 0
  <2>1. 1 \in 1 .. n
    BY <1>1
  <2> QED
    BY <1>2, <2>1
<1> QED
  BY <1>6, <1>7, <1>8, <1>9 DEF Built

-----------------------------------------------------------------------------
(* The invariant of the two passes.                                        *)

(* mapTypes has come to pos, or is done.                                   *)
MapsReserved ==
  /\ pc = "map" => typeID = FirstUserType + MappedBefore(dies, pos)
  /\ \A d \in 1 .. Len(dies) :
       typeMap[d] = IF pc = "map" /\ d >= pos THEN T_NOTYPE ELSE Reserved(dies, d)

BuiltSoFar ==
  /\ nextUserType = BASE_USER_TYPE + Len(userTypes)
  /\ pc = "create" => nextDwarfType = DwarfBase(dies) + Len(dwarfTypes)
  /\ Built(dies, IF pc = "map" THEN 1 ELSE pos, userTypes, dwarfTypes, udts, globals)

CreatedAsReserved ==
  \A d \in 1 .. Len(dies) :
    created[d] = T_NOTYPE \/ (pc # "map" /\ created[d] = Reserved(dies, d))

StructFree ==
  AggregateFree =>
    /\ MapsReserved /\ CreatedAsReserved
    /\ pc \in {"map", "create"} => BuiltSoFar

(* Without structs, the only type that a DIE can name has its id reserved: *)
(* the definition that stands in for a declaration is a struct.            *)
LEMMA TypesAreReserved ==
  ASSUME TypeOK, AggregateFree, MapsReserved, pc = "create",
         NEW r \in 0 .. Len(dies), NEW t \in TypesByPtr(r)
  PROVE  t = T_NOTYPE \/ (r \in 1 .. Len(dies) /\ t = Reserved(dies, r))
<1>0. Len(dies) \in Nat /\ dies \in Seq(Die)
  BY DEF TypeOK
<1>1. \A d \in 1 .. Len(dies) : typeMap[d] = Reserved(dies, d)
  BY DEF MapsReserved
<1>2. CASE r = 0
  BY <1>2 DEF TypesByPtr
<1>3. CASE r # 0 /\ typeMap[r] # T_NOTYPE
  BY <1>0, <1>1, <1>3 DEF TypesByPtr
<1>4. CASE r # 0 /\ typeMap[r] = T_NOTYPE
  <2>1. r \in 1 .. Len(dies) /\ r \in Nat \ {0}
    BY <1>0, <1>4
  <2>2. ~IsMapped(dies[r])
    BY <1>1, <1>4, <2>1, ReservedFacts
  <2>3. ASSUME NEW c \in Definitions(r) PROVE typeMap[c] = T_NOTYPE
    <3>1. /\ c \in 1 .. Len(dies) /\ c \in Nat \ {0}
          /\ ~dies[c].decl /\ dies[c].tag = dies[r].tag
      BY <1>0 DEF Definitions
    <3>2. dies[c].tag \notin StructTags
      BY <3>1 DEF AggregateFree, IsStruct
    <3>3. ~IsMapped(dies[c])
      BY <2>2, <3>1, <3>2 DEF IsMapped
    <3> QED
      BY <1>1, <3>1, <3>3, ReservedFacts
  <2>4. TypesByPtr(r) = {T_NOTYPE} \/ TypesByPtr(r) = {typeMap[c] : c \in Definitions(r)}
    BY <1>4, Zenon DEF TypesByPtr
  <2> QED
    BY <2>3, <2>4
<1> QED
  BY <1>2, <1>3, <1>4

LEMMA StructFreeInit == Init => StructFree
<1> SUFFICES ASSUME Init PROVE StructFree
  OBVIOUS
<1>1. /\ pc = "map" /\ pos = 1 /\ typeID = FirstUserType /\ nextUserType = FirstUserType
      /\ typeMap = [d \in 1 .. Len(dies) |-> T_NOTYPE]
      /\ created = [d \in 1 .. Len(dies) |-> T_NOTYPE]
      /\ userTypes = Prelude /\ dwarfTypes = <<>> /\ udts = PreludeUdts /\ globals = {}
  BY DEF Init
<1>2. FirstUserType \in Nat /\ FirstUserType = BASE_USER_TYPE + Len(Prelude)
      /\ MappedBefore(dies, 1) = 0
  BY PreludeFacts, MappedBeforeFacts DEF FirstUserType
<1>3. MapsReserved
  BY <1>1, <1>2 DEF MapsReserved
<1>4. CreatedAsReserved
  BY <1>1 DEF CreatedAsReserved
<1>5. BuiltSoFar
  <2>1. Built(dies, 1, userTypes, dwarfTypes, udts, globals)
    BY <1>1, BuiltFirst
  <2> QED
    BY <1>1, <1>2, <2>1 DEF BuiltSoFar
<1> QED
  BY <1>3, <1>4, <1>5 DEF StructFree

-----------------------------------------------------------------------------
(* One DIE.                                                                *)

(* The invariant, for values of the variables.                             *)
MapsAt(s, c, p, id, map) ==
  /\ c = "map" => id = FirstUserType + MappedBefore(s, p)
  /\ \A d \in 1 .. Len(s) :
       map[d] = IF c = "map" /\ d >= p THEN T_NOTYPE ELSE Reserved(s, d)

LEMMA MapsStep ==
  ASSUME TypeOK, MapsReserved, Next, AggregateFree
  PROVE  MapsReserved'
<1>1. dies' = dies
  BY DiesConstant
<1>2. Len(dies) \in Nat /\ pos \in Nat \ {0} /\ typeMap \in [1 .. Len(dies) -> Nat]
      /\ FirstUserType \in Nat
  BY PreludeFacts DEF TypeOK
<1>3. MapsAt(dies, pc, pos, typeID, typeMap)
  BY Zenon DEF MapsReserved, MapsAt
<1>4. MapsAt(dies, pc', pos', typeID', typeMap')
  <2>1. CASE MapDie
    <3>1. pc = "map" /\ pc' = "map" /\ pos' = pos + 1 /\ pos \in 1 .. Len(dies)
      BY <1>2, <2>1 DEF MapDie
    <3>2. MappedBefore(dies, pos) \in Nat
      BY <1>2, MappedBeforeFacts
    <3>3. CASE IsMapped(dies[pos])
      <4>1. typeMap' = [typeMap EXCEPT ![pos] = typeID] /\ typeID' = typeID + 1
        BY <2>1, <3>3 DEF MapDie
      <4>2. typeID = Reserved(dies, pos)
        BY <1>3, <3>1, <3>3 DEF MapsAt, Reserved
      <4>3. MappedBefore(dies, pos + 1) = MappedBefore(dies, pos) + 1
        BY <1>2, <3>3, MappedBeforeFacts
      <4>4. typeID' = FirstUserType + MappedBefore(dies, pos')
        BY <1>2, <1>3, <3>1, <3>2, <4>1, <4>3 DEF MapsAt
      <4> QED
        BY <1>2, <1>3, <3>1, <4>1, <4>2, <4>4 DEF MapsAt
    <3>4. CASE ~IsMapped(dies[pos])
      <4>1. typeMap' = typeMap /\ typeID' = typeID
        BY <2>1, <3>4 DEF MapDie
      <4>2. MappedBefore(dies, pos + 1) = MappedBefore(dies, pos) /\ Reserved(dies, pos) = T_NOTYPE
        BY <1>2, <3>4, MappedBeforeFacts DEF Reserved
      <4> QED
        BY <1>2, <1>3, <3>1, <4>1, <4>2 DEF MapsAt
    <3> QED
      BY <3>3, <3>4
  <2>2. CASE FinishMap
    <3>1. pc = "map" /\ pc' = "create" /\ pos > Len(dies) /\ typeMap' = typeMap
      BY <2>2 DEF FinishMap
    <3> QED
      BY <1>2, <1>3, <3>1 DEF MapsAt
  <2>3. CASE CreateDie \/ Structure \/ AddTypes
    <3>1. pc # "map" /\ pc' # "map" /\ typeMap' = typeMap
      BY <2>3 DEF CreateDie, CreateBasic, CreateOpaque, CreateModifier, CreatePointer,
                  CreateArray, CreateEnum, CreateVariable, SkipDie, Structure,
                  OpenStructure, AddField, AddBitfield, EmbedMember, AddBaseClass,
                  SkipMember, ClipFields, CloseStructure, AddTypes, At, AtMember,
                  FinishDie, fieldsUnchanged
    <3> QED
      BY <1>3, <3>1 DEF MapsAt
  <2> QED
    BY <2>1, <2>2, <2>3 DEF Next
<1> QED
  BY <1>1, <1>4, Zenon DEF MapsReserved, MapsAt
-----------------------------------------------------------------------------
(* createTypes, case by case.                                              *)

(* The DIE at pos is given a record in userTypes; dwarfTypes may grow.     *)
LEMMA RecordMade ==
  ASSUME TypeOK, TypeOK', BuiltSoFar, CreatedAsReserved,
         pc = "create", pos <= Len(dies), IsMapped(dies[pos]),
         NEW kind \in RecordKinds, NEW refs \in SUBSET Nat,
         AppendUserType(kind, refs), FinishDie(nextUserType),
         udts' = udts \/ AddUdtSymbol(nextUserType),
         Grows(dwarfTypes, dwarfTypes'),
         nextDwarfType' = nextDwarfType + (Len(dwarfTypes') - Len(dwarfTypes)),
         \A k \in Len(dwarfTypes) + 1 .. Len(dwarfTypes') :
           DwarfFits(dies, k, dwarfTypes'[k]),
         kind \in {"modifier", "pointer", "array"} => RefersTo(dies, pos, refs),
         kind = "enum" =>
           \A t \in refs : t = BASE_USER_TYPE \/ ListOf(dies, dwarfTypes', t, pos)
  PROVE  BuiltSoFar' /\ CreatedAsReserved'
<1> DEFINE r == Rec(kind, pos, nextUserType, refs)
<1>1. /\ Len(dies) \in Nat /\ pos \in Nat \ {0} /\ nextUserType \in Nat
      /\ nextDwarfType \in Nat /\ userTypes \in Seq(Record) /\ dies \in Seq(Die)
      /\ dwarfTypes \in Seq(Record) /\ udts \in Seq(Symbol)
      /\ created \in [1 .. Len(dies) -> Nat]
      /\ Len(userTypes) \in Nat /\ Len(dwarfTypes) \in Nat
      /\ BASE_USER_TYPE \in Nat
  <2>1. TypeOK /\ BASE_USER_TYPE \in Nat
    BY ConstAssumption
  <2> HIDE DEF r
  <2> QED
    BY ONLY <2>1, LenProperties DEF TypeOK
<1>2. dwarfTypes' \in Seq(Record) /\ Len(dwarfTypes') \in Nat
  BY LenProperties DEF TypeOK
<1>3. /\ r \in Record /\ r.kind = kind /\ r.die = pos /\ r.id = nextUserType
      /\ r.refs = refs
  BY <1>1 DEF Rec, Record
<1>4. /\ userTypes' = Append(userTypes, r) /\ nextUserType' = nextUserType + 1
      /\ Len(userTypes') = Len(userTypes) + 1
  BY <1>1, <1>3 DEF AppendUserType
<1>5. udts' = udts \/ udts' = Append(udts, [die |-> pos, type |-> r.id])
  BY <1>3, Zenon DEF AddUdtSymbol
<1> HIDE DEF r
<1>6. /\ nextUserType = BASE_USER_TYPE + Len(userTypes)
      /\ nextDwarfType = DwarfBase(dies) + Len(dwarfTypes)
      /\ Built(dies, pos, userTypes, dwarfTypes, udts, globals)
  BY DEF BuiltSoFar
<1>7. UserFits(dies, dwarfTypes', Len(userTypes) + 1, r)
  <2>1. r.id = BASE_USER_TYPE + (Len(userTypes) + 1) - 1
    BY <1>1, <1>3, <1>6
  <2> QED
    BY <1>3, <2>1 DEF UserFits
<1>8. /\ Built(dies, pos + 1, userTypes', dwarfTypes', udts', globals)
      /\ r.id = Reserved(dies, pos)
  <2>1. pos \in Nat \ {0} /\ IsMapped(dies[pos])
    BY <1>1
  <2>2. r \in Record /\ r.die = pos
    BY <1>3
  <2> QED
    <3>1. NextRecord(dies, pos, userTypes, dwarfTypes, udts, r, dwarfTypes', udts')
      BY <1>1, <1>2, <1>5, <1>7, <2>1, <2>2, Zenon DEF NextRecord
    <3>2. Built(dies, pos, userTypes, dwarfTypes, udts, globals)
      BY <1>6
    <3>3. Built(dies, pos + 1, Append(userTypes, r), dwarfTypes', udts', globals)
      BY ONLY <3>1, <3>2, BuiltRecord, Zenon
    <3>4. r.id = Reserved(dies, pos)
      BY ONLY <3>1, <3>2, BuiltRecord
    <3> QED
      BY <1>4, <3>3, <3>4
<1>9. /\ dies' = dies /\ pc' = "create" /\ pos' = pos + 1 /\ globals' = globals
      /\ created' = [created EXCEPT ![pos] = nextUserType]
  BY DEF FinishDie
<1>10. CreatedAsReserved'
  <2> SUFFICES ASSUME NEW d \in 1 .. Len(dies)
               PROVE  created'[d] = T_NOTYPE \/ created'[d] = Reserved(dies, d)
    BY <1>9 DEF CreatedAsReserved
  <2>1. created[d] = T_NOTYPE \/ created[d] = Reserved(dies, d)
    BY DEF CreatedAsReserved
  <2>2. created'[d] = created[d] \/ (d = pos /\ created'[d] = nextUserType)
    BY <1>1, <1>9
  <2> QED
    BY <1>3, <1>8, <2>1, <2>2
<1>11. BuiltSoFar'
  <2>1. nextUserType' = BASE_USER_TYPE + Len(userTypes')
    BY <1>1, <1>4, <1>6
  <2>2. nextDwarfType' = DwarfBase(dies) + Len(dwarfTypes')
    <3>1. DwarfBase(dies) \in Nat
      BY <1>1, DwarfBaseFacts
    <3> QED
      BY <1>1, <1>2, <1>6, <3>1
  <2> QED
    BY <1>8, <1>9, <2>1, <2>2 DEF BuiltSoFar
<1> QED
  BY <1>10, <1>11

(* No record in userTypes is made of the DIE at pos.                       *)
LEMMA NoRecordMade ==
  ASSUME TypeOK, TypeOK', BuiltSoFar, CreatedAsReserved,
         pc = "create", pos <= Len(dies), ~IsMapped(dies[pos]),
         UNCHANGED <<dies, pc, nextUserType, userTypes, udts, created>>,
         pos' = pos + 1,
         Grows(dwarfTypes, dwarfTypes'),
         nextDwarfType' = nextDwarfType + (Len(dwarfTypes') - Len(dwarfTypes)),
         \A k \in Len(dwarfTypes) + 1 .. Len(dwarfTypes') :
           DwarfFits(dies, k, dwarfTypes'[k]),
         \A g \in globals' : g \in globals \/ GlobalFits(dies, dwarfTypes', g)
  PROVE  BuiltSoFar' /\ CreatedAsReserved'
<1>1. /\ Len(dies) \in Nat /\ pos \in Nat \ {0} /\ nextUserType \in Nat
      /\ nextDwarfType \in Nat /\ userTypes \in Seq(Record)
      /\ dwarfTypes \in Seq(Record) /\ Len(dwarfTypes) \in Nat
  BY DEF TypeOK
<1>2. dwarfTypes' \in Seq(Record) /\ Len(dwarfTypes') \in Nat
  BY LenProperties DEF TypeOK
<1>3. /\ nextUserType = BASE_USER_TYPE + Len(userTypes)
      /\ nextDwarfType = DwarfBase(dies) + Len(dwarfTypes)
      /\ Built(dies, pos, userTypes, dwarfTypes, udts, globals)
  BY DEF BuiltSoFar
<1>4. Built(dies, pos + 1, userTypes, dwarfTypes', udts, globals')
  BY <1>1, <1>2, <1>3, BuiltNoRecord, Zenon
<1>5. DwarfBase(dies) \in Nat
  <2>1. dies \in Seq(Die)
    BY Zenon DEF TypeOK
  <2> QED
    BY <2>1, DwarfBaseFacts
<1>6. nextDwarfType' = DwarfBase(dies) + Len(dwarfTypes')
  BY <1>1, <1>2, <1>3, <1>5
<1>7. BuiltSoFar'
  BY <1>3, <1>4, <1>6 DEF BuiltSoFar
<1>8. CreatedAsReserved'
  BY DEF CreatedAsReserved
<1> QED
  BY <1>7, <1>8

(* The type a DIE names, in a record made of it.                           *)
LEMMA RefersToType ==
  ASSUME TypeOK, AggregateFree, MapsReserved, pc = "create", pos <= Len(dies),
         NEW t \in TypesByPtr(dies[pos].ref)
  PROVE  /\ {t} \in SUBSET Nat
         /\ RefersTo(dies, pos, {t})
         /\ t = T_NOTYPE \/ (dies[pos].ref \in 1 .. Len(dies) /\ t = Reserved(dies, dies[pos].ref))
<1>1. Len(dies) \in Nat /\ pos \in 1 .. Len(dies) /\ dies \in Seq(Die) /\ RefsInside(dies)
  BY DEF TypeOK
<1>2. dies[pos].ref \in 0 .. Len(dies)
  <2>1. dies[pos] \in Die
    BY <1>1, ElementOfSeq
  <2>2. dies[pos].ref <= Len(dies)
    BY <1>1 DEF RefsInside
  <2> QED
    BY <1>1, <2>1, <2>2 DEF Die
<1>3. t = T_NOTYPE \/ (dies[pos].ref \in 1 .. Len(dies) /\ t = Reserved(dies, dies[pos].ref))
  BY <1>2, TypesAreReserved
<1>4. t \in Nat
  BY <1>2, TypesAreNats
<1> QED
  BY <1>1, <1>3, <1>4 DEF RefersTo

LEMMA GrowsNot == ASSUME NEW s \in Seq(Record), NEW more, more = s PROVE Grows(s, more)
BY LenProperties DEF Grows

(* The cases that leave dwarfTypes alone.                                  *)
LEMMA PlainRecordMade ==
  ASSUME TypeOK, TypeOK', BuiltSoFar, CreatedAsReserved,
         pc = "create", pos <= Len(dies), IsMapped(dies[pos]),
         NEW kind \in RecordKinds, NEW refs \in SUBSET Nat,
         AppendUserType(kind, refs), FinishDie(nextUserType),
         udts' = udts \/ AddUdtSymbol(nextUserType),
         UNCHANGED <<dwarfTypes, nextDwarfType>>,
         kind \in {"modifier", "pointer", "array"} => RefersTo(dies, pos, refs),
         kind = "enum" => refs = {BASE_USER_TYPE}
  PROVE  BuiltSoFar' /\ CreatedAsReserved'
<1>1. dwarfTypes \in Seq(Record) /\ Len(dwarfTypes) \in Nat /\ nextDwarfType \in Nat
  BY DEF TypeOK
<1>2. Grows(dwarfTypes, dwarfTypes')
  BY <1>1, GrowsNot
<1>3. nextDwarfType' = nextDwarfType + (Len(dwarfTypes') - Len(dwarfTypes))
  BY <1>1
<1>4. \A k \in Len(dwarfTypes) + 1 .. Len(dwarfTypes') : DwarfFits(dies, k, dwarfTypes'[k])
  BY <1>1
<1>5. kind = "enum" =>
        \A t \in refs : t = BASE_USER_TYPE \/ ListOf(dies, dwarfTypes', t, pos)
  OBVIOUS
<1> QED
  BY <1>2, <1>3, <1>4, <1>5, RecordMade

LEMMA Joined ==
  ASSUME NEW s \in Seq(Record), NEW t \in Seq(Record)
  PROVE  /\ Len(s \o t) = Len(s) + Len(t)
         /\ \A k \in 1 .. Len(s) : (s \o t)[k] = s[k]
         /\ \A k \in 1 .. Len(t) : (s \o t)[Len(s) + k] = t[k]
BY ConcatProperties, LenProperties

LEMMA EnumMade ==
  ASSUME TypeOK, TypeOK', BuiltSoFar, CreatedAsReserved, CreateEnum
  PROVE  BuiltSoFar' /\ CreatedAsReserved'
<1> DEFINE n == dies[pos].lists
           FieldList(k) == Rec("fieldlist", pos, nextDwarfType + k - 1,
                               IF k < n THEN {nextDwarfType + k} ELSE {})
           lists == [k \in 1 .. n |-> FieldList(k)]
<1>1. /\ pc = "create" /\ pos <= Len(dies) /\ dies[pos].tag = "enumeration_type"
      /\ dwarfTypes' = dwarfTypes \o lists /\ nextDwarfType' = nextDwarfType + n
      /\ AppendUserType("enum", {nextDwarfType}) /\ AddUdtSymbol(nextUserType)
      /\ FinishDie(nextUserType)
  BY DEF CreateEnum, At
<1>2. /\ dwarfTypes \in Seq(Record) /\ nextDwarfType \in Nat /\ Len(dwarfTypes) \in Nat
      /\ pos \in 1 .. Len(dies) /\ pos \in Nat /\ dies \in Seq(Die)
  <2>1. pos <= Len(dies)
    BY <1>1
  <2> HIDE DEF n, FieldList, lists
  <2> QED
    BY <2>1, LenProperties DEF TypeOK
<1>3. n \in Nat \ {0}
  <2>1. dies[pos] \in Die
    BY <1>2, ElementOfSeq
  <2> QED
    BY <2>1 DEF Die
<1>4. nextDwarfType = DwarfBase(dies) + Len(dwarfTypes) /\ DwarfBase(dies) \in Nat
  <2> HIDE DEF n, FieldList, lists
  <2>1. dies \in Seq(Die)
    BY <1>2
  <2>2. DwarfBase(dies) \in Nat
    BY <2>1, DwarfBaseFacts
  <2>3. nextDwarfType = DwarfBase(dies) + Len(dwarfTypes)
    BY <1>1 DEF BuiltSoFar
  <2> QED
    BY <2>2, <2>3
<1>5. IsMapped(dies[pos])
  BY <1>1 DEF IsMapped, TypeTags, StructTags
<1>6. \A k \in 1 .. n : /\ lists[k].id = nextDwarfType + k - 1
                        /\ lists[k].kind = "fieldlist" /\ lists[k].die = pos
  BY <1>3 DEF Rec
<1>7. lists \in Seq(Record) /\ Len(lists) = n
  <2>1. \A k \in 1 .. n : FieldList(k) \in Record
    BY <1>2, <1>3 DEF Rec, Record, RecordKinds
  <2>2. lists \in [1 .. n -> Record]
    BY <2>1
  <2> HIDE DEF lists, n
  <2> QED
    BY <1>3, <2>2, FunctionIsSeq
<1> HIDE DEF lists, n, FieldList
<1>8. /\ Len(dwarfTypes') = Len(dwarfTypes) + n
      /\ \A k \in 1 .. Len(dwarfTypes) : dwarfTypes'[k] = dwarfTypes[k]
      /\ \A k \in 1 .. n : dwarfTypes'[Len(dwarfTypes) + k] = lists[k]
  <2>1. dwarfTypes' = dwarfTypes \o lists
    BY <1>1
  <2> QED
    BY <1>2, <1>7, <2>1, Joined
<1>9. Grows(dwarfTypes, dwarfTypes')
  BY <1>2, <1>3, <1>8 DEF Grows
<1>10. \A k \in Len(dwarfTypes) + 1 .. Len(dwarfTypes') : DwarfFits(dies, k, dwarfTypes'[k])
  <2> SUFFICES ASSUME NEW k \in Len(dwarfTypes) + 1 .. Len(dwarfTypes')
               PROVE  DwarfFits(dies, k, dwarfTypes'[k])
    OBVIOUS
  <2>1. PICK j : j = k - Len(dwarfTypes)
    BY Zenon
  <2>2. j \in 1 .. n /\ k = Len(dwarfTypes) + j
    BY <1>2, <1>3, <1>8, <2>1
  <2>3. dwarfTypes'[k] = lists[j]
    BY <1>8, <2>2
  <2>4. lists[j].id = DwarfBase(dies) + k - 1 /\ lists[j].kind = "fieldlist"
    BY <1>2, <1>4, <1>6, <2>2
  <2> QED
    BY <2>3, <2>4 DEF DwarfFits
<1>11. ListOf(dies, dwarfTypes', nextDwarfType, pos)
  <2>1. PICK j : j = Len(dwarfTypes) + 1
    BY Zenon
  <2>2. j \in 1 .. Len(dwarfTypes') /\ 1 \in 1 .. n
    BY <1>2, <1>3, <1>8, <2>1
  <2>3. dwarfTypes'[j] = lists[1]
    BY <1>8, <2>1, <2>2
  <2>4. nextDwarfType = DwarfBase(dies) + j - 1
    BY <1>2, <1>4, <2>1
  <2> QED
    BY <1>6, <2>2, <2>3, <2>4 DEF ListOf
<1>12. nextDwarfType' = nextDwarfType + (Len(dwarfTypes') - Len(dwarfTypes))
  BY <1>1, <1>2, <1>3, <1>8
<1>13. /\ {nextDwarfType} \in SUBSET Nat /\ "enum" \in RecordKinds
       /\ \A t \in {nextDwarfType} : t = BASE_USER_TYPE \/ ListOf(dies, dwarfTypes', t, pos)
  BY <1>2, <1>11 DEF RecordKinds
<1>14. "enum" \notin {"modifier", "pointer", "array"}
  OBVIOUS
<1> QED
  BY <1>1, <1>5, <1>9, <1>10, <1>12, <1>13, <1>14, RecordMade, Zenon

LEMMA VariableMade ==
  ASSUME TypeOK, TypeOK', AggregateFree, MapsReserved, BuiltSoFar, CreatedAsReserved,
         CreateVariable
  PROVE  BuiltSoFar' /\ CreatedAsReserved'
<1>1. /\ pc = "create" /\ pos <= Len(dies) /\ dies[pos].tag = "variable"
      /\ dies[pos].symbol # "none"
      /\ UNCHANGED <<dies, pc, nextUserType, userTypes, udts, created>> /\ pos' = pos + 1
  BY DEF CreateVariable, At
<1>2. /\ dwarfTypes \in Seq(Record) /\ nextDwarfType \in Nat /\ Len(dwarfTypes) \in Nat
      /\ pos \in Nat /\ Len(dies) \in Nat
  <2>1. /\ dwarfTypes \in Seq(Record) /\ nextDwarfType \in Nat /\ dies \in Seq(Die)
        /\ pos \in 1 .. Len(dies) + 1
    BY Zenon DEF TypeOK
  <2>2. Len(dwarfTypes) \in Nat /\ Len(dies) \in Nat
    BY <2>1, LenProperties, Zenon
  <2>3. pos \in Nat
    BY <2>1, <2>2
  <2> QED
    BY <2>1, <2>2, <2>3
<1>3. ~IsMapped(dies[pos])
  BY <1>1 DEF IsMapped, TypeTags, StructTags, ModifierTags, PointerTags, OpaqueTags
<1>4. PICK t \in TypesByPtr(dies[pos].ref) :
        IF dies[pos].symbol = "dllimport"
          THEN /\ dwarfTypes' = Append(dwarfTypes, Rec("pointer", pos, nextDwarfType, {t}))
               /\ globals' = globals \cup {[die |-> pos, type |-> nextDwarfType]}
               /\ nextDwarfType' = nextDwarfType + 1
          ELSE /\ globals' = globals \cup {[die |-> pos, type |-> t]}
               /\ UNCHANGED <<dwarfTypes, nextDwarfType>>
  BY DEF CreateVariable
<1>5. /\ {t} \in SUBSET Nat /\ RefersTo(dies, pos, {t})
      /\ t = T_NOTYPE \/ (dies[pos].ref \in 1 .. Len(dies) /\ t = Reserved(dies, dies[pos].ref))
  BY <1>1, RefersToType
<1>6. nextDwarfType = DwarfBase(dies) + Len(dwarfTypes) /\ DwarfBase(dies) \in Nat
  <2>1. dies \in Seq(Die)
    BY Zenon DEF TypeOK
  <2>2. DwarfBase(dies) \in Nat
    BY <2>1, DwarfBaseFacts
  <2>3. nextDwarfType = DwarfBase(dies) + Len(dwarfTypes)
    BY <1>1 DEF BuiltSoFar
  <2> QED
    BY <2>2, <2>3
<1>7. CASE dies[pos].symbol = "dllimport"
  <2> DEFINE r == Rec("pointer", pos, nextDwarfType, {t})
             g == [die |-> pos, type |-> nextDwarfType]
  <2>1. /\ dwarfTypes' = Append(dwarfTypes, r) /\ globals' = globals \cup {g}
        /\ nextDwarfType' = nextDwarfType + 1
    BY <1>4, <1>7
  <2>2. /\ r.kind = "pointer" /\ r.die = pos /\ r.refs = {t} /\ r.id = nextDwarfType
        /\ g.die = pos /\ g.type = nextDwarfType
    BY DEF Rec
  <2> HIDE DEF r, g
  <2>3. PICK j : j = Len(dwarfTypes) + 1
    BY Zenon
  <2>4. /\ Len(dwarfTypes') = j /\ j \in Nat /\ dwarfTypes'[j] = r
        /\ \A k \in 1 .. Len(dwarfTypes) : dwarfTypes'[k] = dwarfTypes[k]
        /\ \A k \in Len(dwarfTypes) + 1 .. Len(dwarfTypes') : k = j
    BY <1>2, <2>1, <2>3
  <2>5. Grows(dwarfTypes, dwarfTypes')
    BY <1>2, <2>3, <2>4 DEF Grows
  <2>6. DwarfFits(dies, j, r)
    <3>1. nextDwarfType = DwarfBase(dies) + j - 1
      BY <1>2, <1>6, <2>3
    <3> QED
      BY <1>5, <2>2, <3>1 DEF DwarfFits
  <2>7. \A k \in Len(dwarfTypes) + 1 .. Len(dwarfTypes') : DwarfFits(dies, k, dwarfTypes'[k])
    BY <2>4, <2>6
  <2>8. GlobalFits(dies, dwarfTypes', g)
    <3>1. PICK m : m = g.type - DwarfBase(dies) + 1
      BY Zenon
    <3>2. m = j /\ m \in 1 .. Len(dwarfTypes')
      BY <1>2, <1>6, <2>2, <2>3, <2>4, <3>1
    <3>3. RecordAt(dwarfTypes', DwarfBase(dies), g.type, g.die)
      BY <2>2, <2>4, <3>1, <3>2 DEF RecordAt
    <3> QED
      BY <1>7, <2>2, <3>3 DEF GlobalFits
  <2>9. nextDwarfType' = nextDwarfType + (Len(dwarfTypes') - Len(dwarfTypes))
    BY <1>2, <2>1, <2>3, <2>4
  <2>10. \A h \in globals' : h \in globals \/ GlobalFits(dies, dwarfTypes', h)
    BY <2>1, <2>8
  <2> QED
    BY <1>1, <1>3, <2>5, <2>7, <2>9, <2>10, NoRecordMade
<1>8. CASE dies[pos].symbol # "dllimport"
  <2> DEFINE g == [die |-> pos, type |-> t]
  <2>1. /\ globals' = globals \cup {g} /\ dwarfTypes' = dwarfTypes
        /\ nextDwarfType' = nextDwarfType
    BY <1>4, <1>8
  <2>2. g.die = pos /\ g.type = t
    OBVIOUS
  <2> HIDE DEF g
  <2>3. GlobalFits(dies, dwarfTypes', g)
    BY <1>5, <1>8, <2>2 DEF GlobalFits
  <2>4. Grows(dwarfTypes, dwarfTypes')
    BY <1>2, <2>1, GrowsNot
  <2>5. nextDwarfType' = nextDwarfType + (Len(dwarfTypes') - Len(dwarfTypes))
    BY <1>2, <2>1
  <2>6. \A k \in Len(dwarfTypes) + 1 .. Len(dwarfTypes') : DwarfFits(dies, k, dwarfTypes'[k])
    BY <1>2, <2>1
  <2>7. \A h \in globals' : h \in globals \/ GlobalFits(dies, dwarfTypes', h)
    BY <2>1, <2>3
  <2> QED
    BY <1>1, <1>3, <2>4, <2>5, <2>6, <2>7, NoRecordMade
<1> QED
  BY <1>7, <1>8

LEMMA DieMade ==
  ASSUME TypeOK, TypeOK', AggregateFree, MapsReserved, BuiltSoFar, CreatedAsReserved,
         CreateDie
  PROVE  BuiltSoFar' /\ CreatedAsReserved'
<1>1. /\ pc = "create" /\ pos <= Len(dies)
  BY DEF CreateDie, CreateBasic, CreateOpaque, CreateModifier, CreatePointer,
         CreateArray, CreateEnum, CreateVariable, SkipDie, At
<1>2. BASE_USER_TYPE \in Nat
  BY ConstAssumption
<1>3. \A tags \in {{"base_type"}, OpaqueTags, ModifierTags, PointerTags, {"array_type"}} :
        At(tags) => IsMapped(dies[pos])
  BY DEF At, IsMapped, TypeTags, StructTags, ModifierTags, PointerTags, OpaqueTags
<1>4. {"enum", "modifier", "pointer", "array"} \subseteq RecordKinds
  BY DEF RecordKinds
<1>5. RefersTo(dies, pos, {})
  <2>1. Len(dies) \in Nat /\ pos \in 1 .. Len(dies)
    BY <1>1 DEF TypeOK
  <2> QED
    BY <2>1 DEF RefersTo
<1>6. CASE CreateBasic
  <2>1. /\ IsMapped(dies[pos]) /\ FinishDie(nextUserType)
        /\ UNCHANGED <<dwarfTypes, nextDwarfType>>
    BY <1>3, <1>6 DEF CreateBasic
  <2>2. \/ AppendUserType("enum", {BASE_USER_TYPE}) /\ AddUdtSymbol(nextUserType)
        \/ AppendUserType("modifier", {}) /\ udts' = udts
    BY <1>6 DEF CreateBasic
  <2>3. {BASE_USER_TYPE} \in SUBSET Nat /\ {} \in SUBSET Nat
    BY <1>2
  <2> QED
    BY <1>1, <1>4, <1>5, <2>1, <2>2, <2>3, PlainRecordMade
<1>7. CASE CreateOpaque
  <2>1. /\ IsMapped(dies[pos]) /\ FinishDie(nextUserType)
        /\ UNCHANGED <<dwarfTypes, nextDwarfType>> /\ AppendUserType("pointer", {}) /\ udts' = udts
    BY <1>3, <1>7 DEF CreateOpaque
  <2> QED
    BY <1>1, <1>4, <1>5, <2>1, PlainRecordMade
<1>8. CASE CreateModifier
  <2>1. /\ IsMapped(dies[pos]) /\ FinishDie(nextUserType)
        /\ UNCHANGED <<dwarfTypes, nextDwarfType>>
        /\ udts' = udts \/ AddUdtSymbol(nextUserType)
    BY <1>3, <1>8 DEF CreateModifier
  <2>2. PICK t \in TypesByPtr(dies[pos].ref) : AppendUserType("modifier", {t})
    BY <1>8 DEF CreateModifier
  <2> QED
    BY <1>1, <1>4, <2>1, <2>2, RefersToType, PlainRecordMade
<1>9. CASE CreatePointer
  <2>1. /\ IsMapped(dies[pos]) /\ FinishDie(nextUserType)
        /\ UNCHANGED <<dwarfTypes, nextDwarfType>> /\ udts' = udts
    BY <1>3, <1>9 DEF CreatePointer
  <2>2. PICK t \in TypesByPtr(dies[pos].ref) : AppendUserType("pointer", {t})
    BY <1>9 DEF CreatePointer
  <2> QED
    BY <1>1, <1>4, <2>1, <2>2, RefersToType, PlainRecordMade
<1>10. CASE CreateArray
  <2>1. /\ IsMapped(dies[pos]) /\ FinishDie(nextUserType)
        /\ UNCHANGED <<dwarfTypes, nextDwarfType>> /\ udts' = udts
    BY <1>3, <1>10 DEF CreateArray
  <2>2. PICK t \in TypesByPtr(dies[pos].ref) : AppendUserType("array", {t})
    BY <1>10 DEF CreateArray
  <2> QED
    BY <1>1, <1>4, <2>1, <2>2, RefersToType, PlainRecordMade
<1>11. CASE CreateEnum
  BY <1>11, EnumMade
<1>12. CASE CreateVariable
  BY <1>12, VariableMade
<1>13. CASE SkipDie
  <2>1. /\ UNCHANGED <<dies, pc, nextUserType, userTypes, udts, created, dwarfTypes,
                      nextDwarfType, globals>>
        /\ pos' = pos + 1
    BY <1>13 DEF SkipDie
  <2>2. ~IsMapped(dies[pos])
    BY <1>13 DEF SkipDie, IsMapped, TypeTags, StructTags, ModifierTags, PointerTags, OpaqueTags
  <2>3. dwarfTypes \in Seq(Record) /\ Len(dwarfTypes) \in Nat /\ nextDwarfType \in Nat
    BY DEF TypeOK
  <2>4. Grows(dwarfTypes, dwarfTypes')
    BY <2>1, <2>3, GrowsNot
  <2>5. nextDwarfType' = nextDwarfType + (Len(dwarfTypes') - Len(dwarfTypes))
    BY <2>1, <2>3
  <2>6. \A k \in Len(dwarfTypes) + 1 .. Len(dwarfTypes') : DwarfFits(dies, k, dwarfTypes'[k])
    BY <2>1, <2>3
  <2> QED
    BY <1>1, <2>1, <2>2, <2>4, <2>5, <2>6, NoRecordMade
<1> QED
  BY <1>6, <1>7, <1>8, <1>9, <1>10, <1>11, <1>12, <1>13 DEF CreateDie

-----------------------------------------------------------------------------
(* The stream: userTypes and, behind it, dwarfTypes.                       *)

FoundIn(st, t) == {st[i] : i \in {t - BASE_USER_TYPE + 1} \cap DOMAIN st}

FoundDie(st, t, d) == \E x \in FoundIn(st, t) : x.die = d
FoundList(st, t, d) == \E x \in FoundIn(st, t) : x.kind = "fieldlist" /\ x.die \in {0, d}

LEMMA IsFound ==
  ASSUME NEW st \in Seq(Record), NEW t, NEW i \in 1 .. Len(st), i = t - BASE_USER_TYPE + 1
  PROVE  st[i] \in FoundIn(st, t)
<1>1. i \in DOMAIN st
  BY LenProperties
<1> QED
  BY <1>1, Zenon DEF FoundIn

LEMMA FoundInUser ==
  ASSUME NEW user \in Seq(Record), NEW dwarf \in Seq(Record), NEW t, NEW d,
         RecordAt(user, BASE_USER_TYPE, t, d)
  PROVE  FoundDie(user \o dwarf, t, d)
<1> DEFINE st == user \o dwarf
<1>1. PICK i : i = t - BASE_USER_TYPE + 1
  BY Zenon
<1>2. i \in 1 .. Len(user) /\ user[i].die = d
  BY <1>1, Zenon DEF RecordAt
<1>3. st \in Seq(Record) /\ Len(st) = Len(user) + Len(dwarf) /\ st[i] = user[i]
  BY <1>2, Joined, ConcatProperties
<1>4. i \in 1 .. Len(st)
  BY <1>2, <1>3, LenProperties
<1> HIDE DEF st
<1>5. st[i] \in FoundIn(st, t)
  BY <1>1, <1>3, <1>4, IsFound, Zenon
<1>6. FoundDie(st, t, d)
  BY <1>2, <1>3, <1>5 DEF FoundDie
<1> QED
  BY <1>6 DEF st

(* The first record of dwarfTypes lands at the id that mapTypes had        *)
(* reached: this is where the two numberings have to agree.                *)
LEMMA FoundInDwarf ==
  ASSUME NEW s \in Seq(Die), NEW user \in Seq(Record), NEW dwarf \in Seq(Record),
         Len(user) = Len(Prelude) + MappedBefore(s, Len(s) + 1),
         NEW t, NEW k \in 1 .. Len(dwarf), t = DwarfBase(s) + k - 1
  PROVE  dwarf[k] \in FoundIn(user \o dwarf, t)
<1> DEFINE st == user \o dwarf
<1>1. /\ Len(user) \in Nat /\ Len(dwarf) \in Nat /\ BASE_USER_TYPE \in Nat
      /\ Len(Prelude) \in Nat /\ MappedBefore(s, Len(s) + 1) \in Nat
      /\ DwarfBase(s) = BASE_USER_TYPE + Len(Prelude) + MappedBefore(s, Len(s) + 1)
  <2> HIDE DEF st
  <2> QED
    BY DwarfBaseFacts, LenProperties
<1>2. PICK i : i = Len(user) + k
  BY Zenon
<1>3. st \in Seq(Record) /\ Len(st) = Len(user) + Len(dwarf) /\ st[i] = dwarf[k]
  BY <1>2, Joined, ConcatProperties
<1> HIDE DEF st
<1>4. i \in 1 .. Len(st) /\ i = t - BASE_USER_TYPE + 1
  <2>0. k \in 1 .. Len(dwarf)
    OBVIOUS
  <2>1. i \in 1 .. Len(st)
    BY ONLY <1>1, <1>2, <1>3, <2>0
  <2>2. t = BASE_USER_TYPE + Len(user) + k - 1
    BY <1>1
  <2>3. k \in Nat
    BY <1>1
  <2>4. i = t - BASE_USER_TYPE + 1
    BY ONLY <1>1, <1>2, <2>2, <2>3
  <2> QED
    BY <2>1, <2>4
<1>5. st[i] \in FoundIn(st, t)
  BY <1>3, <1>4, IsFound, Zenon
<1> QED
  BY <1>3, <1>5 DEF st

(* RefsResolve and SymbolsResolve, for values of the variables.            *)
RecordResolves(s, st, i, r) ==
  /\ r.id = BASE_USER_TYPE + i - 1
  /\ (r.kind \in {"modifier", "pointer", "array"} /\ r.refs # {}) =>
       \A t \in r.refs \ {T_NOTYPE} : FoundDie(st, t, s[r.die].ref)
  /\ (r.kind = "enum" /\ r.die # 0) => \A t \in r.refs : FoundList(st, t, r.die)

GlobalResolves(s, st, g) ==
  g.type # T_NOTYPE =>
    FoundDie(st, g.type, IF s[g.die].symbol = "dllimport" THEN g.die ELSE s[g.die].ref)

LEMMA ReservedIsFound ==
  ASSUME NEW s \in Seq(Die), NEW user \in Seq(Record), NEW dwarf \in Seq(Record),
         NEW symbols, NEW variables,
         Built(s, Len(s) + 1, user, dwarf, symbols, variables),
         NEW d \in 1 .. Len(s), Reserved(s, d) # T_NOTYPE
  PROVE  FoundDie(user \o dwarf, Reserved(s, d), d)
<1>1. Len(s) \in Nat /\ d \in Nat \ {0} /\ d \in 1 .. (Len(s) + 1) - 1
  BY LenProperties
<1>2. IsMapped(s[d])
  BY <1>1, ReservedFacts
<1>3. \A c \in 1 .. (Len(s) + 1) - 1 :
        IsMapped(s[c]) => RecordAt(user, BASE_USER_TYPE, Reserved(s, c), c)
  BY Zenon DEF Built
<1>4. RecordAt(user, BASE_USER_TYPE, Reserved(s, d), d)
  BY <1>1, <1>2, <1>3, Zenon
<1> QED
  BY <1>4, FoundInUser

LEMMA StreamResolves ==
  ASSUME NEW s \in Seq(Die), NEW user \in Seq(Record), NEW dwarf \in Seq(Record),
         NEW symbols, NEW variables \in SUBSET Symbol,
         Built(s, Len(s) + 1, user, dwarf, symbols, variables)
  PROVE  LET st == user \o dwarf IN
         /\ \A i \in 1 .. Len(st) : RecordResolves(s, st, i, st[i])
         /\ \A i \in 1 .. Len(symbols) : FoundDie(st, symbols[i].type, symbols[i].die)
         /\ \A g \in variables : GlobalResolves(s, st, g)
<1> DEFINE st == user \o dwarf
<1>1. /\ Len(user) = Len(Prelude) + MappedBefore(s, Len(s) + 1)
      /\ user[1].kind = "fieldlist" /\ user[1].die = 0
      /\ \A i \in 1 .. Len(user) : UserFits(s, dwarf, i, user[i])
      /\ \A k \in 1 .. Len(dwarf) : DwarfFits(s, k, dwarf[k])
      /\ \A i \in 1 .. Len(symbols) :
           RecordAt(user, BASE_USER_TYPE, symbols[i].type, symbols[i].die)
      /\ \A g \in variables : GlobalFits(s, dwarf, g)
  BY Zenon DEF Built
<1>2. /\ Len(user) \in Nat \ {0} /\ Len(dwarf) \in Nat /\ BASE_USER_TYPE \in Nat
      /\ Len(Prelude) \in Nat /\ MappedBefore(s, Len(s) + 1) \in Nat /\ Len(s) \in Nat
  <2>1. /\ BASE_USER_TYPE \in Nat /\ Len(user) \in Nat /\ Len(dwarf) \in Nat
        /\ Len(Prelude) \in Nat \ {0} /\ Len(s) \in Nat
    BY PreludeFacts, ConstAssumption, LenProperties
  <2>2. MappedBefore(s, Len(s) + 1) \in Nat
    BY <2>1, MappedBeforeFacts
  <2> QED
    BY <1>1, <2>1, <2>2
<1>3. /\ st \in Seq(Record) /\ Len(st) = Len(user) + Len(dwarf)
      /\ \A i \in 1 .. Len(user) : st[i] = user[i]
      /\ \A k \in 1 .. Len(dwarf) : st[Len(user) + k] = dwarf[k]
  BY Joined, ConcatProperties
<1>4. \A t, d : RecordAt(user, BASE_USER_TYPE, t, d) => FoundDie(st, t, d)
  BY FoundInUser
<1>5. \A k \in 1 .. Len(dwarf) : \A t : t = DwarfBase(s) + k - 1 => dwarf[k] \in FoundIn(st, t)
  BY <1>1, FoundInDwarf
<1>6. \A d \in 1 .. Len(s) : Reserved(s, d) # T_NOTYPE => FoundDie(st, Reserved(s, d), d)
  BY ReservedIsFound
<1>7. FoundList(st, BASE_USER_TYPE, 0) /\ \A d : FoundList(st, BASE_USER_TYPE, d)
  <2>1. 1 \in 1 .. Len(st) /\ 1 \in 1 .. Len(user) /\ 1 = BASE_USER_TYPE - BASE_USER_TYPE + 1
    BY <1>2, <1>3
  <2>2. st[1] \in FoundIn(st, BASE_USER_TYPE) /\ st[1] = user[1]
    BY <1>3, <2>1, IsFound
  <2> HIDE DEF st
  <2> QED
    BY <1>1, <2>2 DEF FoundList
<1> HIDE DEF st
<1>8. ASSUME NEW d, NEW refs, RefersTo(s, d, refs), NEW t \in refs \ {T_NOTYPE}
      PROVE  FoundDie(st, t, s[d].ref)
  BY <1>6, <1>8, Zenon DEF RefersTo
<1>9. ASSUME NEW t, NEW d, ListOf(s, dwarf, t, d) PROVE FoundList(st, t, d)
  <2>1. PICK k \in 1 .. Len(dwarf) :
          t = DwarfBase(s) + k - 1 /\ dwarf[k].kind = "fieldlist" /\ dwarf[k].die = d
    BY <1>9 DEF ListOf
  <2>2. dwarf[k] \in FoundIn(st, t)
    BY <1>5, <2>1, Zenon
  <2> QED
    BY <2>1, <2>2 DEF FoundList
<1>10. ASSUME NEW i \in 1 .. Len(st) PROVE RecordResolves(s, st, i, st[i])
  <2>0. i \in 1 .. Len(user) + Len(dwarf) /\ i \in Nat
    BY <1>2, <1>3
  <2>1. CASE i \in 1 .. Len(user)
    <3>1. st[i] = user[i] /\ UserFits(s, dwarf, i, user[i])
      BY <1>1, <1>3, <2>1
    <3>2. ASSUME NEW r, UserFits(s, dwarf, i, r) PROVE RecordResolves(s, st, i, r)
      <4>1. /\ r.id = BASE_USER_TYPE + i - 1
            /\ r.kind \in {"modifier", "pointer", "array"} => RefersTo(s, r.die, r.refs)
            /\ r.kind = "enum" =>
                 \A t \in r.refs : t = BASE_USER_TYPE \/ ListOf(s, dwarf, t, r.die)
        BY <3>2, Zenon DEF UserFits
      <4>2. r.kind \in {"modifier", "pointer", "array"} =>
              \A t \in r.refs \ {T_NOTYPE} : FoundDie(st, t, s[r.die].ref)
        BY <1>8, <4>1, Zenon
      <4>3. r.kind = "enum" => \A t \in r.refs : FoundList(st, t, r.die)
        BY <1>7, <1>9, <4>1, Zenon
      <4> QED
        BY <4>1, <4>2, <4>3, Zenon DEF RecordResolves
    <3> QED
      BY <3>1, <3>2, Zenon
  <2>2. CASE i \notin 1 .. Len(user)
    <3>1. PICK k : k = i - Len(user)
      BY Zenon
    <3>2. k \in 1 .. Len(dwarf) /\ i = Len(user) + k
      BY <1>2, <2>0, <2>2, <3>1
    <3>3. st[i] = dwarf[k] /\ DwarfFits(s, k, dwarf[k])
      BY <1>1, <1>3, <3>2
    <3>4. ASSUME NEW r, DwarfFits(s, k, r) PROVE RecordResolves(s, st, i, r)
      <4>1. /\ r.id = DwarfBase(s) + k - 1 /\ r.kind \in {"fieldlist", "pointer"}
            /\ r.kind = "pointer" => RefersTo(s, r.die, r.refs)
        BY <3>4, Zenon DEF DwarfFits
      <4>2. r.id = BASE_USER_TYPE + i - 1
        <5>1. Len(user) = Len(Prelude) + MappedBefore(s, Len(s) + 1)
          BY <1>1
        <5>2. r.id = BASE_USER_TYPE + Len(user) + k - 1
          BY <1>2, <3>2, <4>1, <5>1, DwarfBaseFacts
        <5> QED
          BY <1>2, <2>0, <3>2, <5>2
      <4>3. r.kind \in {"modifier", "pointer", "array"} =>
              \A t \in r.refs \ {T_NOTYPE} : FoundDie(st, t, s[r.die].ref)
        <5>1. r.kind \in {"modifier", "pointer", "array"} => r.kind = "pointer"
          BY <4>1
        <5> QED
          BY <1>8, <4>1, <5>1, Zenon
      <4>4. r.kind # "enum"
        BY <4>1
      <4> QED
        BY <4>2, <4>3, <4>4, Zenon DEF RecordResolves
    <3> QED
      BY <3>3, <3>4, Zenon
  <2> QED
    BY <2>1, <2>2
<1>11. \A i \in 1 .. Len(symbols) : FoundDie(st, symbols[i].type, symbols[i].die)
  BY <1>1, <1>4, Zenon
<1>12. ASSUME NEW g \in variables, g.type # T_NOTYPE
       PROVE  FoundDie(st, g.type, IF s[g.die].symbol = "dllimport" THEN g.die ELSE s[g.die].ref)
  <2>1. CASE s[g.die].symbol = "dllimport"
    <3>1. RecordAt(dwarf, DwarfBase(s), g.type, g.die)
      BY <1>1, <1>12, <2>1, Zenon DEF GlobalFits
    <3>2. PICK k : k = g.type - DwarfBase(s) + 1
      BY Zenon
    <3>3. k \in 1 .. Len(dwarf) /\ dwarf[k].die = g.die
      BY <3>1, <3>2, Zenon DEF RecordAt
    <3>4. DwarfBase(s) \in Nat
      BY DwarfBaseFacts
    <3>5. g.type = DwarfBase(s) + k - 1
      <4>1. g.type \in Nat
        BY DEF Symbol
      <4> QED
        BY <3>2, <3>3, <3>4, <4>1
    <3>6. dwarf[k] \in FoundIn(st, g.type)
      BY <1>5, <3>3, <3>5, Zenon
    <3> QED
      BY <2>1, <3>3, <3>6 DEF FoundDie
  <2>2. CASE s[g.die].symbol # "dllimport"
    <3>1. s[g.die].ref \in 1 .. Len(s) /\ g.type = Reserved(s, s[g.die].ref)
      BY <1>1, <1>12, <2>2, Zenon DEF GlobalFits
    <3>2. FoundDie(st, g.type, s[g.die].ref)
      BY <1>6, <1>12, <3>1, Zenon
    <3> QED
      BY <2>2, <3>2
  <2> QED
    BY <2>1, <2>2
<1>13. \A g \in variables : GlobalResolves(s, st, g)
  BY <1>12, Zenon DEF GlobalResolves
<1> QED
  BY <1>10, <1>11, <1>13 DEF st

-----------------------------------------------------------------------------
(* The step of the whole invariant.                                        *)

References == RefsResolve /\ SymbolsResolve

LEMMA AddTypesResolves ==
  ASSUME TypeOK, StructFree, AddTypes
  PROVE  References'
<1> SUFFICES ASSUME AggregateFree' PROVE References'
  BY DEF References, RefsResolve, SymbolsResolve
<1>1. /\ pc = "create" /\ pos > Len(dies) /\ dies' = dies /\ stream' = userTypes \o dwarfTypes
      /\ udts' = udts /\ globals' = globals
  BY DEF AddTypes, Concatenated
<1>2. AggregateFree
  BY <1>1 DEF AggregateFree
<1>3. /\ dies \in Seq(Die) /\ userTypes \in Seq(Record) /\ dwarfTypes \in Seq(Record)
      /\ globals \in SUBSET Symbol /\ pos = Len(dies) + 1
  <2>1. /\ dies \in Seq(Die) /\ userTypes \in Seq(Record) /\ dwarfTypes \in Seq(Record)
        /\ globals \in SUBSET Symbol /\ pos \in 1 .. Len(dies) + 1
    BY Zenon DEF TypeOK
  <2>2. Len(dies) \in Nat
    BY <2>1, LenProperties
  <2> QED
    BY <1>1, <2>1, <2>2
<1>4. Built(dies, Len(dies) + 1, userTypes, dwarfTypes, udts, globals)
  BY <1>1, <1>2, <1>3 DEF StructFree, BuiltSoFar
<1> DEFINE st == userTypes \o dwarfTypes
<1>5. /\ \A i \in 1 .. Len(st) : RecordResolves(dies, st, i, st[i])
      /\ \A i \in 1 .. Len(udts) : FoundDie(st, udts[i].type, udts[i].die)
      /\ \A g \in globals : GlobalResolves(dies, st, g)
  BY <1>3, <1>4, StreamResolves, Zenon
<1>6. stream' = st
  BY <1>1
<1> HIDE DEF st
<1>7. ASSUME NEW t PROVE Found(t)' = FoundIn(st, t)
  BY <1>6 DEF Found, FoundIn
<1>8. RefsResolve'
  <2> SUFFICES ASSUME NEW i \in 1 .. Len(st), NEW r, r = st[i]
               PROVE
                 /\ r.id = BASE_USER_TYPE + i - 1
                 /\ (r.kind \in {"modifier", "pointer", "array"} /\ r.refs # {}) =>
                      \A t \in r.refs \ {T_NOTYPE} :
                        \E x \in FoundIn(st, t) : x.die = dies[r.die].ref
                 /\ (r.kind = "enum" /\ r.die # 0) =>
                      \A t \in r.refs :
                        \E x \in FoundIn(st, t) : x.kind = "fieldlist" /\ x.die \in {0, r.die}
    BY <1>1, <1>6, <1>7, Zenon DEF RefsResolve
  <2>1. RecordResolves(dies, st, i, r)
    BY <1>5
  <2> QED
    BY <2>1, Zenon DEF RecordResolves, FoundDie, FoundList
<1>9. SymbolsResolve'
  <2>1. \A i \in 1 .. Len(udts) :
          \E x \in FoundIn(st, udts[i].type) : x.die = udts[i].die
    BY <1>5, Zenon DEF FoundDie
  <2>2. \A g \in globals :
          g.type # T_NOTYPE =>
            \E x \in FoundIn(st, g.type) :
              x.die = IF dies[g.die].symbol = "dllimport" THEN g.die ELSE dies[g.die].ref
    BY <1>5, Zenon DEF GlobalResolves, FoundDie
  <2> QED
    BY <1>1, <1>7, <2>1, <2>2, Zenon DEF SymbolsResolve
<1> QED
  BY <1>8, <1>9 DEF References

(* Without structs, none is opened.                                        *)
LEMMA NoStructure ==
  ASSUME TypeOK, AggregateFree
  PROVE  pc # "fields" /\ ~Structure
<1>1. Len(dies) \in Nat /\ pos \in 1 .. Len(dies) + 1
  BY LenProperties DEF TypeOK
<1>2. pc # "fields"
  BY <1>1 DEF TypeOK, StructVarsOK, AggregateFree
<1>3. ~OpenStructure
  BY <1>1 DEF OpenStructure, At, AggregateFree, IsStruct
<1> QED
  BY <1>2, <1>3 DEF Structure, AddField, AddBitfield, EmbedMember, AddBaseClass, SkipMember,
                    ClipFields, CloseStructure, AtMember

LEMMA StructFreeStep ==
  ASSUME TypeOK, TypeOK', StructFree, MapWritesNothing, Next
  PROVE  StructFree'
<1>1. dies' = dies
  BY DiesConstant
<1> SUFFICES ASSUME AggregateFree' PROVE StructFree'
  BY DEF StructFree
<1>2. AggregateFree
  BY <1>1 DEF AggregateFree
<1>3. /\ MapsReserved /\ CreatedAsReserved
      /\ pc \in {"map", "create"} => BuiltSoFar
  BY <1>2 DEF StructFree
<1>4. MapsReserved'
  BY <1>2, <1>3, MapsStep
<1>5. CASE MapDie
  <2>1. /\ pc = "map" /\ pc' = "map"
        /\ UNCHANGED <<nextUserType, userTypes, dwarfTypes, udts, globals, created>>
    BY <1>5 DEF MapDie
  <2> QED
    BY <1>1, <1>3, <1>4, <2>1 DEF StructFree, BuiltSoFar, CreatedAsReserved
<1>6. CASE FinishMap
  <2>1. /\ pc = "map" /\ pc' = "create" /\ pos > Len(dies) /\ pos' = 1
        /\ nextDwarfType' = typeID
        /\ UNCHANGED <<nextUserType, userTypes, dwarfTypes, udts, globals, created>>
    BY <1>6 DEF FinishMap
  <2>2. pos = Len(dies) + 1 /\ Len(dies) \in Nat
    BY <2>1, LenProperties DEF TypeOK
  <2>3. typeID = DwarfBase(dies) /\ DwarfBase(dies) \in Nat
    <3>1. typeID = DwarfBase(dies)
      BY <1>3, <2>1, <2>2 DEF MapsReserved, DwarfBase
    <3> QED
      BY <3>1 DEF TypeOK
  <2>4. Len(dwarfTypes) = 0
    BY <2>1 DEF MapWritesNothing
  <2>5. nextDwarfType' = DwarfBase(dies) + Len(dwarfTypes)
    BY <2>1, <2>3, <2>4
  <2> QED
    BY <1>1, <1>3, <1>4, <2>1, <2>5 DEF StructFree, BuiltSoFar, CreatedAsReserved
<1>7. CASE CreateDie
  <2>1. pc = "create" /\ pc' = "create"
    BY <1>7 DEF CreateDie, CreateBasic, CreateOpaque, CreateModifier, CreatePointer,
                CreateArray, CreateEnum, CreateVariable, SkipDie, At, FinishDie
  <2>2. BuiltSoFar' /\ CreatedAsReserved'
    BY <1>2, <1>3, <1>7, <2>1, DieMade
  <2> QED
    BY <1>4, <2>2 DEF StructFree
<1>8. ~Structure
  BY <1>2, NoStructure
<1>9. CASE AddTypes
  <2>1. pc = "create" /\ pc' = "done" /\ created' = created
    BY <1>9 DEF AddTypes
  <2> QED
    BY <1>1, <1>3, <1>4, <2>1 DEF StructFree, CreatedAsReserved
<1> QED
  BY <1>5, <1>6, <1>7, <1>8, <1>9 DEF Next

LEMMA OnlyAddTypesEnds == Next /\ pc' = "done" => AddTypes
BY DEF Next, MapDie, FinishMap, CreateDie, CreateBasic, CreateOpaque, CreateModifier,
       CreatePointer, CreateArray, CreateEnum, CreateVariable, SkipDie, Structure,
       OpenStructure, AddField, AddBitfield, EmbedMember, AddBaseClass, SkipMember,
       ClipFields, CloseStructure, FinishDie, At, AtMember, fieldsUnchanged

RefInv == TypeOK /\ MapWritesNothing /\ StructFree /\ References

LEMMA RefInvHolds == Spec => []RefInv
<1>1. Init => RefInv
  <2> SUFFICES ASSUME Init PROVE RefInv
    OBVIOUS
  <2>1. pc = "map" /\ dwarfTypes = <<>>
    BY DEF Init
  <2>2. MapWritesNothing /\ References
    BY <2>1 DEF MapWritesNothing, References, RefsResolve, SymbolsResolve
  <2> QED
    BY <2>2, InitTypeOK, StructFreeInit DEF RefInv
<1>2. RefInv /\ [Next]_vars => RefInv'
  <2> SUFFICES ASSUME RefInv, [Next]_vars PROVE RefInv'
    OBVIOUS
  <2> USE DEF RefInv
  <2>1. TypeOK'
    BY TypeOKStep
  <2>2. CASE Next
    <3>1. MapWritesNothing'
      BY <2>2, MapWritesNothingStep
    <3>2. StructFree'
      BY <2>1, <2>2, StructFreeStep
    <3>3. References'
      <4>1. CASE pc' = "done"
        BY <2>2, <4>1, OnlyAddTypesEnds, AddTypesResolves
      <4>2. CASE pc' # "done"
        BY <4>2 DEF References, RefsResolve, SymbolsResolve
      <4> QED
        BY <4>1, <4>2
    <3> QED
      BY <2>1, <3>1, <3>2, <3>3
  <2>3. CASE UNCHANGED vars
    <3>1. UNCHANGED <<dies, pc, pos, typeID, nextUserType, nextDwarfType, typeMap, userTypes,
                      dwarfTypes, udts, globals, created, stream>>
      BY <2>3, Zenon DEF vars
    <3>2. MapWritesNothing'
      BY <3>1 DEF MapWritesNothing
    <3>3. StructFree'
      BY <3>1 DEF StructFree, AggregateFree, MapsReserved, CreatedAsReserved, BuiltSoFar
    <3>4. AggregateFree' = AggregateFree /\ \A t : Found(t)' = Found(t)
      BY <3>1 DEF AggregateFree, Found
    <3>5. RefsResolve'
      <4>1. RefsResolve
        BY DEF References
      <4> QED
        BY ONLY <3>1, <3>4, <4>1 DEF RefsResolve
    <3>6. SymbolsResolve'
      <4>1. SymbolsResolve
        BY DEF References
      <4> QED
        BY ONLY <3>1, <3>4, <4>1 DEF SymbolsResolve
    <3> QED
      BY <2>1, <3>2, <3>3, <3>5, <3>6 DEF References
  <2> QED
    BY <2>2, <2>3
<1> QED
  BY <1>1, <1>2, PTL DEF Spec

(* The assertion that createTypes has commented out, for units without     *)
(* structs: the two passes number the types alike.                         *)
THEOREM PassesAgree == Spec => []TypeMapHonoured
<1>1. RefInv => TypeMapHonoured
  <2> SUFFICES ASSUME RefInv, AggregateFree, NEW d \in 1 .. Len(dies), created[d] # T_NOTYPE
               PROVE  created[d] = typeMap[d]
    BY DEF TypeMapHonoured
  <2>1. pc # "map" /\ created[d] = Reserved(dies, d)
    BY DEF RefInv, StructFree, CreatedAsReserved
  <2>2. typeMap[d] = Reserved(dies, d)
    BY <2>1 DEF RefInv, StructFree, MapsReserved
  <2> QED
    BY <2>1, <2>2
<1> QED
  BY <1>1, RefInvHolds, PTL

(* What AddTypes is given resolves: every record is where its id says, and *)
(* the ids in it are those of the records meant.                           *)
THEOREM RecordsResolve == Spec => []RefsResolve
<1>1. RefInv => RefsResolve
  BY DEF RefInv, References
<1> QED
  BY <1>1, RefInvHolds, PTL

(* So do the ids in the symbols.                                           *)
THEOREM SymbolsFindTypes == Spec => []SymbolsResolve
<1>1. RefInv => SymbolsResolve
  BY DEF RefInv, References
<1> QED
  BY <1>1, RefInvHolds, PTL

-----------------------------------------------------------------------------
(* Structs find their own field lists, and bitfields the field list of     *)
(* their struct.                                                           *)

Owned(user, j, d) ==
  j \in 1 .. Len(user) /\ user[j].kind = "fieldlist" /\ user[j].die = d

StructOwns(user, r) ==
  r.kind = "struct" => \A t \in r.refs : Owned(user, t - BASE_USER_TYPE + 1, r.die)

BitOwned(user, n, r) ==
  r.kind = "bitfield" => \E j \in 1 .. n : Owned(user, j, r.die) /\ r.id \in user[j].refs

(* A bitfield that is parked behind the mark m until the struct p, whose   *)
(* field list is at l, is complete; l is 0 when no struct is open.         *)
Waits(user, k, r, m, l, p) ==
  r.kind = "bitfield" => l # 0 /\ k > m /\ r.die = p /\ r.id \in user[l].refs

Owning(user, dwarf, m, l, p) ==
  /\ \A i \in 1 .. Len(user) : StructOwns(user, user[i]) /\ BitOwned(user, i - 1, user[i])
  /\ \A k \in 1 .. Len(dwarf) :
       StructOwns(user, dwarf[k]) /\ Waits(user, k, dwarf[k], m, l, p)
  /\ l # 0 => Owned(user, l, p)

Extends(user, more) ==
  /\ Len(user) <= Len(more)
  /\ \A j \in 1 .. Len(user) : /\ more[j].kind = user[j].kind /\ more[j].die = user[j].die
                              /\ user[j].refs \subseteq more[j].refs

(* What may happen to userTypes, ...                                       *)
UserGrown(user, more) ==
  /\ Extends(user, more)
  /\ \A i \in 1 .. Len(more) :
       \/ i \in 1 .. Len(user) /\ more[i] = user[i]
       \/ StructOwns(more, more[i]) /\ BitOwned(more, i - 1, more[i])

LEMMA ExtendsKeeps ==
  ASSUME NEW user \in Seq(Record), NEW more \in Seq(Record), Extends(user, more)
  PROVE  /\ \A j, d : Owned(user, j, d) => Owned(more, j, d)
         /\ \A r : StructOwns(user, r) => StructOwns(more, r)
         /\ \A n, r : BitOwned(user, n, r) => BitOwned(more, n, r)
<1>1. ASSUME NEW j, NEW d, Owned(user, j, d) PROVE Owned(more, j, d)
  <2>1. j \in 1 .. Len(user) /\ user[j].kind = "fieldlist" /\ user[j].die = d
    BY <1>1, Zenon DEF Owned
  <2>2. j \in 1 .. Len(more)
    BY <2>1, LenProperties DEF Extends
  <2>3. more[j].kind = user[j].kind /\ more[j].die = user[j].die
    BY <2>1, Zenon DEF Extends
  <2> QED
    BY <2>1, <2>2, <2>3, Zenon DEF Owned
<1>2. ASSUME NEW r, StructOwns(user, r) PROVE StructOwns(more, r)
  BY <1>1, <1>2, Zenon DEF StructOwns
<1>3. ASSUME NEW n, NEW r, BitOwned(user, n, r) PROVE BitOwned(more, n, r)
  <2> SUFFICES ASSUME r.kind = "bitfield"
               PROVE  \E j \in 1 .. n : Owned(more, j, r.die) /\ r.id \in more[j].refs
    BY Zenon DEF BitOwned
  <2>1. PICK j \in 1 .. n : Owned(user, j, r.die) /\ r.id \in user[j].refs
    BY <1>3, Zenon DEF BitOwned
  <2>2. Owned(more, j, r.die)
    BY <1>1, <2>1
  <2>3. user[j].refs \subseteq more[j].refs
    BY <2>1, Zenon DEF Owned, Extends
  <2> QED
    BY <2>1, <2>2, <2>3, Zenon
<1> QED
  BY <1>1, <1>2, <1>3

(* ... and to dwarfTypes.  What was there stays in force as long as the    *)
(* struct stays open, or if it does not wait for one.                      *)
LEMMA OwningStays ==
  ASSUME NEW user \in Seq(Record), NEW more \in Seq(Record), UserGrown(user, more),
         NEW dwarf \in Seq(Record), NEW dwarf2 \in Seq(Record),
         NEW m \in Nat, NEW l, NEW p, NEW m2 \in Nat, NEW l2, NEW p2,
         Owning(user, dwarf, m, l, p),
         \A k \in 1 .. Len(dwarf2) :
           \/ /\ k \in 1 .. Len(dwarf) /\ dwarf2[k] = dwarf[k]
              /\ k <= m \/ l = 0 \/ (m2 = m /\ l2 = l /\ p2 = p)
           \/ StructOwns(more, dwarf2[k]) /\ Waits(more, k, dwarf2[k], m2, l2, p2),
         l2 # 0 => Owned(more, l2, p2)
  PROVE  Owning(more, dwarf2, m2, l2, p2)
<1>1. Extends(user, more)
  BY Zenon DEF UserGrown
<1>2. /\ \A j, d : Owned(user, j, d) => Owned(more, j, d)
      /\ \A r : StructOwns(user, r) => StructOwns(more, r)
      /\ \A n, r : BitOwned(user, n, r) => BitOwned(more, n, r)
  BY <1>1, ExtendsKeeps, Zenon
<1>3. /\ \A i \in 1 .. Len(user) : StructOwns(user, user[i]) /\ BitOwned(user, i - 1, user[i])
      /\ \A k \in 1 .. Len(dwarf) :
           StructOwns(user, dwarf[k]) /\ Waits(user, k, dwarf[k], m, l, p)
      /\ l # 0 => Owned(user, l, p)
  BY Zenon DEF Owning
<1>4. ASSUME NEW i \in 1 .. Len(more)
      PROVE  StructOwns(more, more[i]) /\ BitOwned(more, i - 1, more[i])
  <2>1. CASE i \in 1 .. Len(user) /\ more[i] = user[i]
    BY <1>2, <1>3, <2>1, Zenon
  <2> QED
    BY <2>1, Zenon DEF UserGrown
<1>5. ASSUME NEW k \in 1 .. Len(dwarf2)
      PROVE  StructOwns(more, dwarf2[k]) /\ Waits(more, k, dwarf2[k], m2, l2, p2)
  <2>1. CASE /\ k \in 1 .. Len(dwarf) /\ dwarf2[k] = dwarf[k]
             /\ k <= m \/ l = 0 \/ (m2 = m /\ l2 = l /\ p2 = p)
    <3>1. StructOwns(user, dwarf[k]) /\ Waits(user, k, dwarf[k], m, l, p)
      BY <1>3, <2>1, Zenon
    <3>2. StructOwns(more, dwarf2[k])
      BY <1>2, <2>1, <3>1, Zenon
    <3>3. Waits(more, k, dwarf2[k], m2, l2, p2)
      <4>1. PICK r : r = dwarf[k]
        BY Zenon
      <4> SUFFICES ASSUME r.kind = "bitfield"
                   PROVE  l2 # 0 /\ k > m2 /\ r.die = p2 /\ r.id \in more[l2].refs
        BY <2>1, <4>1, Zenon DEF Waits
      <4>2. l # 0 /\ k > m /\ r.die = p /\ r.id \in user[l].refs
        BY <3>1, <4>1, Zenon DEF Waits
      <4>3. m2 = m /\ l2 = l /\ p2 = p
        BY <2>1, <4>2
      <4>4. user[l].refs \subseteq more[l].refs
        BY <1>1, <1>3, <4>2, Zenon DEF Owned, Extends
      <4> QED
        BY <4>2, <4>3, <4>4
    <3> QED
      BY <3>2, <3>3
  <2> QED
    BY <2>1, Zenon
<1> QED
  BY <1>4, <1>5, Zenon DEF Owning

LEMMA UserSame ==
  ASSUME NEW user \in Seq(Record) PROVE UserGrown(user, user)
BY LenProperties DEF UserGrown, Extends

LEMMA UserAppended ==
  ASSUME NEW user \in Seq(Record), NEW r \in Record, r.kind \notin {"struct", "bitfield"}
  PROVE  UserGrown(user, Append(user, r))
<1> DEFINE more == Append(user, r)
<1>1. /\ Len(user) \in Nat /\ Len(more) = Len(user) + 1 /\ more[Len(user) + 1] = r
      /\ \A i \in 1 .. Len(user) : more[i] = user[i]
  BY LenProperties
<1> HIDE DEF more
<1>2. Extends(user, more)
  BY <1>1 DEF Extends
<1>3. \A n : StructOwns(more, r) /\ BitOwned(more, n, r)
  BY DEF StructOwns, BitOwned
<1>4. \A i \in 1 .. Len(more) :
        \/ i \in 1 .. Len(user) /\ more[i] = user[i]
        \/ more[i] = r
  BY <1>1
<1>5. UserGrown(user, more)
  BY <1>2, <1>3, <1>4, Zenon DEF UserGrown
<1> QED
  BY <1>5 DEF more

OwnedRecords ==
  (NoInheritance /\ pc # "done") => Owning(userTypes, dwarfTypes, mark, list, pos)

LEMMA OwningFirst == Owning(Prelude, <<>>, 0, 0, 1)
<1> DEFINE n == IF Dversion > 0 THEN 7 ELSE 1
<1>1. n \in {1, 7} /\ BASE_USER_TYPE \in Nat
  BY ConstAssumption
<1>2. Len(Prelude) = n
  BY <1>1 DEF Prelude
<1>3. ASSUME NEW i \in 1 .. n
      PROVE  /\ Prelude[i].die = 0
             /\ Prelude[i].kind \in {"fieldlist", "struct"}
             /\ Prelude[i].kind = "struct" =>
                  /\ Prelude[i].refs = {BASE_USER_TYPE + i - 2} /\ i - 1 \in 1 .. n
                  /\ Prelude[i - 1].kind = "fieldlist" /\ Prelude[i - 1].die = 0
  <2>1. /\ Prelude[i].die = 0 /\ Prelude[i].kind \in {"fieldlist", "struct"}
        /\ Prelude[i].kind = "struct" =>
             Prelude[i].refs = {BASE_USER_TYPE + i - 2} /\ i # 1 /\ i % 2 # 0
    BY <1>1 DEF Prelude, Rec
  <2>2. ASSUME i # 1, i % 2 # 0
        PROVE  /\ i - 1 \in 1 .. n
               /\ Prelude[i - 1].kind = "fieldlist" /\ Prelude[i - 1].die = 0
    <3>1. i \in {3, 5, 7}
      BY <1>1, <2>2
    <3>2. ASSUME NEW j \in 1 .. n, j % 2 = 0
          PROVE  Prelude[j].kind = "fieldlist" /\ Prelude[j].die = 0
      BY <1>1, <3>2 DEF Prelude, Rec
    <3>3. i - 1 \in 1 .. n /\ (i - 1) % 2 = 0
      BY <1>1, <3>1
    <3> QED
      BY <3>2, <3>3
  <2> QED
    BY <2>1, <2>2
<1> HIDE DEF n
<1>4. ASSUME NEW i \in 1 .. Len(Prelude)
      PROVE  StructOwns(Prelude, Prelude[i]) /\ BitOwned(Prelude, i - 1, Prelude[i])
  <2>1. BitOwned(Prelude, i - 1, Prelude[i])
    BY <1>2, <1>3 DEF BitOwned
  <2>2. ASSUME Prelude[i].kind = "struct", NEW t \in Prelude[i].refs
        PROVE  Owned(Prelude, t - BASE_USER_TYPE + 1, Prelude[i].die)
    <3>1. PICK j : j = t - BASE_USER_TYPE + 1
      BY Zenon
    <3>2. j = i - 1 /\ i - 1 \in 1 .. n /\ Prelude[i - 1].kind = "fieldlist"
          /\ Prelude[i - 1].die = 0 /\ Prelude[i].die = 0
      BY <1>1, <1>2, <1>3, <2>2, <3>1
    <3> QED
      BY <1>2, <3>1, <3>2, Zenon DEF Owned
  <2> QED
    BY <2>1, <2>2, Zenon DEF StructOwns
<1> QED
  BY <1>4 DEF Owning

(* The invariant, and what a step that neither opens, reads nor closes a   *)
(* struct does to it.                                                      *)
OwningNow == Owning(userTypes, dwarfTypes, mark, list, pos)

LEMMA OwningAtRest ==
  ASSUME TypeOK, TypeOK', OwningNow, list = 0, UNCHANGED <<list, mark>>,
         UserGrown(userTypes, userTypes'),
         \A k \in 1 .. Len(dwarfTypes') :
           \/ k \in 1 .. Len(dwarfTypes) /\ dwarfTypes'[k] = dwarfTypes[k]
           \/ dwarfTypes'[k].kind \notin {"struct", "bitfield"}
  PROVE  OwningNow'
<1>1. /\ userTypes \in Seq(Record) /\ userTypes' \in Seq(Record)
      /\ dwarfTypes \in Seq(Record) /\ dwarfTypes' \in Seq(Record)
      /\ mark \in Nat /\ mark' \in Nat
  <2>1. /\ userTypes \in Seq(Record) /\ dwarfTypes \in Seq(Record)
        /\ mark \in 0 .. Len(dwarfTypes)
    BY Zenon DEF TypeOK, StructVarsOK
  <2>2. userTypes' \in Seq(Record) /\ dwarfTypes' \in Seq(Record)
    BY Zenon DEF TypeOK
  <2> QED
    BY <2>1, <2>2
<1>2. ASSUME NEW k \in 1 .. Len(dwarfTypes')
      PROVE  \/ /\ k \in 1 .. Len(dwarfTypes) /\ dwarfTypes'[k] = dwarfTypes[k]
                /\ k <= mark \/ list = 0 \/ (mark' = mark /\ list' = list /\ pos' = pos)
             \/ /\ StructOwns(userTypes', dwarfTypes'[k])
                /\ Waits(userTypes', k, dwarfTypes'[k], mark', list', pos')
  <2>1. CASE k \in 1 .. Len(dwarfTypes) /\ dwarfTypes'[k] = dwarfTypes[k]
    BY <2>1
  <2>2. CASE dwarfTypes'[k].kind \notin {"struct", "bitfield"}
    BY <2>2 DEF StructOwns, Waits
  <2> QED
    BY <2>1, <2>2
<1>3. Owning(userTypes, dwarfTypes, mark, list, pos)
  BY DEF OwningNow
<1>4. list' # 0 => Owned(userTypes', list', pos')
  OBVIOUS
<1>5. Owning(userTypes', dwarfTypes', mark', list', pos')
  BY <1>1, <1>2, <1>3, <1>4, OwningStays
<1> QED
  BY <1>5 DEF OwningNow

LEMMA OwningCreate ==
  ASSUME TypeOK, TypeOK', OwningNow, MapDie \/ FinishMap \/ CreateDie
  PROVE  OwningNow'
<1>1. /\ userTypes \in Seq(Record) /\ dwarfTypes \in Seq(Record)
      /\ nextUserType \in Nat /\ nextDwarfType \in Nat /\ pos \in Nat
      /\ Len(userTypes) \in Nat /\ Len(dwarfTypes) \in Nat
  <2>1. /\ userTypes \in Seq(Record) /\ dwarfTypes \in Seq(Record)
        /\ nextUserType \in Nat /\ nextDwarfType \in Nat /\ pos \in 1 .. Len(dies) + 1
    BY Zenon DEF TypeOK
  <2> QED
    BY <2>1, LenProperties
<1>2. pc # "fields" /\ UNCHANGED <<list, mark>>
  BY DEF MapDie, FinishMap, CreateDie, CreateBasic, CreateOpaque, CreateModifier,
         CreatePointer, CreateArray, CreateEnum, CreateVariable, SkipDie, At, structVars
<1>3. list = 0
  BY <1>2 DEF TypeOK, StructVarsOK
<1>4. UserGrown(userTypes, userTypes')
  <2>1. CASE userTypes' = userTypes
    BY <1>1, <2>1, UserSame
  <2>2. ASSUME NEW kind \in RecordKinds, NEW refs \in SUBSET Nat, kind \notin {"struct", "bitfield"},
               AppendUserType(kind, refs)
        PROVE  UserGrown(userTypes, userTypes')
    <3> DEFINE r == Rec(kind, pos, nextUserType, refs)
    <3>1. r \in Record /\ r.kind = kind /\ userTypes' = Append(userTypes, r)
      BY <1>1, <2>2 DEF AppendUserType, Rec, Record
    <3> HIDE DEF r
    <3> QED
      BY <1>1, <2>2, <3>1, UserAppended
  <2>3. \/ userTypes' = userTypes
        \/ \E kind \in {"enum", "modifier", "pointer", "array"}, refs \in SUBSET Nat :
             AppendUserType(kind, refs)
    <3>1. dies[pos].ref \in 0 .. Len(dies) \/ ~(pos <= Len(dies))
      <4> SUFFICES ASSUME pos <= Len(dies) PROVE dies[pos].ref \in 0 .. Len(dies)
        OBVIOUS
      <4>1. dies \in Seq(Die) /\ RefsInside(dies) /\ pos \in 1 .. Len(dies)
        BY DEF TypeOK
      <4>2. dies[pos] \in Die
        BY <4>1, ElementOfSeq
      <4> QED
        BY <4>1, <4>2 DEF Die, RefsInside
    <3>2. ASSUME pos <= Len(dies), NEW t \in TypesByPtr(dies[pos].ref) PROVE {t} \in SUBSET Nat
      BY <3>1, <3>2, TypesAreNats
    <3>3. CASE MapDie \/ FinishMap \/ CreateVariable \/ SkipDie
      BY <3>3 DEF MapDie, FinishMap, CreateVariable, SkipDie
    <3>4. CASE CreateBasic
      <4>1. {BASE_USER_TYPE} \in SUBSET Nat /\ {} \in SUBSET Nat
        BY ConstAssumption
      <4> QED
        BY <3>4, <4>1 DEF CreateBasic
    <3>5. CASE CreateOpaque
      BY <3>5 DEF CreateOpaque
    <3>6. CASE CreateModifier
      BY <3>2, <3>6 DEF CreateModifier, At
    <3>7. CASE CreatePointer
      BY <3>2, <3>7 DEF CreatePointer, At
    <3>8. CASE CreateArray
      BY <3>2, <3>8 DEF CreateArray, At
    <3>9. CASE CreateEnum
      <4>1. {nextDwarfType} \in SUBSET Nat
        BY <1>1
      <4> QED
        BY <3>9, <4>1 DEF CreateEnum
    <3> QED
      BY <3>3, <3>4, <3>5, <3>6, <3>7, <3>8, <3>9 DEF CreateDie
  <2> QED
    BY <2>1, <2>2, <2>3 DEF RecordKinds
<1>5. ASSUME NEW k \in 1 .. Len(dwarfTypes')
      PROVE  \/ k \in 1 .. Len(dwarfTypes) /\ dwarfTypes'[k] = dwarfTypes[k]
             \/ dwarfTypes'[k].kind \notin {"struct", "bitfield"}
  <2>1. CASE dwarfTypes' = dwarfTypes
    BY <1>5, <2>1
  <2>2. CASE CreateEnum
    <3> DEFINE n == dies[pos].lists
               lists == [j \in 1 .. n |->
                           Rec("fieldlist", pos, nextDwarfType + j - 1,
                               IF j < n THEN {nextDwarfType + j} ELSE {})]
    <3>1. dwarfTypes' = dwarfTypes \o lists
      BY <2>2 DEF CreateEnum
    <3>2. n \in Nat
      <4>1. pos \in 1 .. Len(dies) /\ dies \in Seq(Die)
        BY <2>2 DEF TypeOK, CreateEnum, At
      <4>2. dies[pos] \in Die
        BY <4>1, ElementOfSeq
      <4> QED
        BY <4>2 DEF Die
    <3>3. \A j \in 1 .. n : lists[j] \in Record /\ lists[j].kind = "fieldlist"
      BY <1>1, <3>2 DEF Rec, Record, RecordKinds
    <3>4. lists \in Seq(Record) /\ Len(lists) = n
      <4>1. lists \in [1 .. n -> Record]
        BY <3>3
      <4>2. Len(lists) = n
        BY <3>2
      <4> HIDE DEF lists, n
      <4>3. lists \in Seq(Record)
        BY <3>2, <4>1, SeqDef
      <4> QED
        BY <4>2, <4>3
    <3> HIDE DEF lists, n
    <3>5. /\ Len(dwarfTypes') = Len(dwarfTypes) + n
          /\ \A j \in 1 .. Len(dwarfTypes) : dwarfTypes'[j] = dwarfTypes[j]
          /\ \A j \in 1 .. n : dwarfTypes'[Len(dwarfTypes) + j] = lists[j]
      BY <1>1, <3>1, <3>4, Joined
    <3>6. CASE k \in 1 .. Len(dwarfTypes)
      BY <3>5, <3>6
    <3>7. CASE k \notin 1 .. Len(dwarfTypes)
      <4>1. PICK j : j = k - Len(dwarfTypes)
        BY Zenon
      <4>2. j \in 1 .. n /\ k = Len(dwarfTypes) + j
        BY <1>1, <1>5, <3>2, <3>5, <3>7, <4>1
      <4> QED
        BY <3>3, <3>5, <4>2
    <3> QED
      BY <3>6, <3>7
  <2>3. ASSUME NEW t, dwarfTypes' = Append(dwarfTypes, Rec("pointer", pos, nextDwarfType, {t}))
        PROVE  \/ k \in 1 .. Len(dwarfTypes) /\ dwarfTypes'[k] = dwarfTypes[k]
               \/ dwarfTypes'[k].kind \notin {"struct", "bitfield"}
    <3> DEFINE r == Rec("pointer", pos, nextDwarfType, {t})
    <3>1. r.kind = "pointer" /\ dwarfTypes' = Append(dwarfTypes, r)
      BY <2>3 DEF Rec
    <3> HIDE DEF r
    <3> QED
      BY <1>1, <1>5, <3>1
  <2>4. \/ dwarfTypes' = dwarfTypes \/ CreateEnum
        \/ \E t : dwarfTypes' = Append(dwarfTypes, Rec("pointer", pos, nextDwarfType, {t}))
    BY DEF MapDie, FinishMap, CreateDie, CreateBasic, CreateOpaque, CreateModifier,
           CreatePointer, CreateArray, CreateVariable, SkipDie
  <2> QED
    BY <2>1, <2>2, <2>3, <2>4
<1> QED
  BY <1>2, <1>3, <1>4, <1>5, OwningAtRest

LEMMA OwningTypes ==
  ASSUME TypeOK
  PROVE  /\ userTypes \in Seq(Record) /\ dwarfTypes \in Seq(Record) /\ mark \in Nat
         /\ mark \in 0 .. Len(dwarfTypes) /\ list \in 0 .. Len(userTypes)
         /\ Len(userTypes) \in Nat /\ Len(dwarfTypes) \in Nat
         /\ nextUserType \in Nat /\ nextDwarfType \in Nat /\ pos \in Nat
<1>1. /\ userTypes \in Seq(Record) /\ dwarfTypes \in Seq(Record)
      /\ mark \in 0 .. Len(dwarfTypes) /\ list \in 0 .. Len(userTypes)
      /\ nextUserType \in Nat /\ nextDwarfType \in Nat /\ pos \in 1 .. Len(dies) + 1
  BY Zenon DEF TypeOK, StructVarsOK
<1> QED
  BY <1>1, LenProperties

LEMMA OwningOpen ==
  ASSUME TypeOK, TypeOK', OwningNow, OpenStructure
  PROVE  OwningNow'
<1>1. /\ userTypes \in Seq(Record) /\ dwarfTypes \in Seq(Record) /\ mark \in Nat
      /\ Len(userTypes) \in Nat /\ Len(dwarfTypes) \in Nat
      /\ nextUserType \in Nat /\ pos \in Nat
  BY OwningTypes
<1>2. /\ pc = "create" /\ pos' = pos /\ list' = Len(userTypes) + 1 /\ mark' = Len(dwarfTypes)
      /\ dwarfTypes' = dwarfTypes /\ AppendUserType("fieldlist", {})
  BY DEF OpenStructure, At
<1>3. list = 0
  BY <1>2 DEF TypeOK, StructVarsOK
<1> DEFINE r == Rec("fieldlist", pos, nextUserType, {})
<1>4. /\ r \in Record /\ r.kind = "fieldlist" /\ r.die = pos
      /\ userTypes' = Append(userTypes, r)
  BY <1>1, <1>2 DEF AppendUserType, Rec, Record, RecordKinds
<1> HIDE DEF r
<1>5. UserGrown(userTypes, userTypes') /\ userTypes' \in Seq(Record)
  BY <1>1, <1>4, UserAppended
<1>6. Owned(userTypes', list', pos')
  <2>1. /\ Len(userTypes') = Len(userTypes) + 1 /\ userTypes'[Len(userTypes) + 1] = r
    BY <1>1, <1>4
  <2> QED
    BY <1>1, <1>2, <1>4, <2>1 DEF Owned
<1>7. \A k \in 1 .. Len(dwarfTypes') :
        /\ k \in 1 .. Len(dwarfTypes) /\ dwarfTypes'[k] = dwarfTypes[k]
        /\ k <= mark \/ list = 0 \/ (mark' = mark /\ list' = list /\ pos' = pos)
  BY <1>2, <1>3
<1>8. mark' \in Nat /\ dwarfTypes' \in Seq(Record)
  BY <1>1, <1>2
<1>9. Owning(userTypes, dwarfTypes, mark, list, pos)
  BY DEF OwningNow
<1>10. Owning(userTypes', dwarfTypes', mark', list', pos')
  BY <1>1, <1>5, <1>6, <1>7, <1>8, <1>9, OwningStays
<1> QED
  BY <1>10 DEF OwningNow

(* A member may add an id to the open field list.                          *)
LEMMA UserRefers ==
  ASSUME TypeOK, pc = "fields", OwningNow, NEW t \in Nat, FieldRefers(t)
  PROVE  /\ UserGrown(userTypes, userTypes') /\ userTypes' \in Seq(Record)
         /\ t \in userTypes'[list].refs
<1>1. userTypes \in Seq(Record) /\ list \in 1 .. Len(userTypes) /\ Len(userTypes) \in Nat
  BY LenProperties DEF TypeOK, StructVarsOK
<1>2. userTypes[list].kind = "fieldlist"
  BY <1>1 DEF OwningNow, Owning, Owned
<1> DEFINE r == [userTypes[list] EXCEPT !.refs = @ \cup {t}]
<1>3. userTypes' = [userTypes EXCEPT ![list] = r]
  BY DEF FieldRefers
<1>4. /\ r \in Record /\ r.kind = userTypes[list].kind /\ r.die = userTypes[list].die
      /\ userTypes[list].refs \subseteq r.refs /\ t \in r.refs
  <2>1. userTypes[list] \in Record
    BY <1>1, ElementOfSeq
  <2> QED
    BY <2>1 DEF Record
<1> HIDE DEF r
<1>5. /\ Len(userTypes') = Len(userTypes) /\ userTypes' \in Seq(Record)
      /\ \A i \in 1 .. Len(userTypes) :
           userTypes'[i] = IF i = list THEN r ELSE userTypes[i]
  BY <1>1, <1>3, <1>4, ExceptSeq
<1>6. Extends(userTypes, userTypes')
  BY <1>1, <1>4, <1>5 DEF Extends
<1>7. \A n : StructOwns(userTypes', r) /\ BitOwned(userTypes', n, r)
  BY <1>2, <1>4 DEF StructOwns, BitOwned
<1>8. \A i \in 1 .. Len(userTypes') :
        \/ i \in 1 .. Len(userTypes) /\ userTypes'[i] = userTypes[i]
        \/ userTypes'[i] = r
  BY <1>5
<1>9. UserGrown(userTypes, userTypes')
  BY <1>6, <1>7, <1>8, Zenon DEF UserGrown
<1> QED
  BY <1>1, <1>4, <1>5, <1>9

LEMMA OwningFields ==
  ASSUME TypeOK, TypeOK', OwningNow,
         AddField \/ AddBitfield \/ EmbedMember \/ AddBaseClass \/ SkipMember \/ ClipFields
  PROVE  OwningNow'
<1>1. /\ userTypes \in Seq(Record) /\ dwarfTypes \in Seq(Record) /\ mark \in Nat
      /\ mark \in 0 .. Len(dwarfTypes) /\ list \in 0 .. Len(userTypes)
      /\ Len(userTypes) \in Nat /\ Len(dwarfTypes) \in Nat
      /\ nextUserType \in Nat /\ pos \in Nat
  BY OwningTypes
<1>2. pc = "fields" /\ UNCHANGED fieldsUnchanged
  BY DEF AddField, AddBitfield, EmbedMember, AddBaseClass, SkipMember, ClipFields, AtMember
<1>3. pos' = pos /\ list' = list /\ mark' = mark
  BY <1>2 DEF fieldsUnchanged
<1>4. Owning(userTypes, dwarfTypes, mark, list, pos)
  BY DEF OwningNow
<1>5. list # 0 /\ Owned(userTypes, list, pos)
  <2>1. list # 0
    BY <1>1, <1>2 DEF TypeOK, StructVarsOK
  <2> QED
    BY <1>4, <2>1 DEF Owning
<1>6. ASSUME UserGrown(userTypes, userTypes'), userTypes' \in Seq(Record),
             \A k \in 1 .. Len(dwarfTypes') :
               \/ k \in 1 .. Len(dwarfTypes) /\ dwarfTypes'[k] = dwarfTypes[k]
               \/ /\ StructOwns(userTypes', dwarfTypes'[k])
                  /\ Waits(userTypes', k, dwarfTypes'[k], mark, list, pos)
      PROVE  OwningNow'
  <2>1. Extends(userTypes, userTypes')
    BY <1>6, Zenon DEF UserGrown
  <2>2. Owned(userTypes', list, pos)
    BY <1>1, <1>5, <1>6, <2>1, ExtendsKeeps
  <2>3. dwarfTypes' \in Seq(Record)
    BY Zenon DEF TypeOK
  <2>4. Owning(userTypes', dwarfTypes', mark, list, pos)
    BY <1>1, <1>4, <1>6, <2>2, <2>3, OwningStays
  <2> QED
    BY <1>3, <2>4 DEF OwningNow
<1>7. ASSUME todo # <<>> PROVE Head(todo).member.ref \in 0 .. Len(dies)
  <2>1. todo \in Seq(Item)
    BY Zenon DEF TypeOK, StructVarsOK
  <2>2. Head(todo) \in Item
    BY <1>7, <2>1
  <2> QED
    BY <2>2 DEF Item
<1>8. CASE EmbedMember \/ SkipMember \/ ClipFields
  <2>1. userTypes' = userTypes /\ dwarfTypes' = dwarfTypes
    BY <1>8 DEF EmbedMember, SkipMember, ClipFields
  <2>2. UserGrown(userTypes, userTypes')
    BY <1>1, <2>1, UserSame
  <2> QED
    BY <1>1, <1>6, <2>1, <2>2
<1>9. CASE AddField
  <2>1. todo # <<>> /\ dwarfTypes' = dwarfTypes
    BY <1>9 DEF AddField, AtMember
  <2>2. PICK t \in TypesByPtr(Head(todo).member.ref) : FieldRefers(t)
    BY <1>9 DEF AddField
  <2>3. t \in Nat
    BY <1>7, <2>1, <2>2, TypesAreNats
  <2>4. UserGrown(userTypes, userTypes') /\ userTypes' \in Seq(Record)
    BY <1>2, <2>2, <2>3, UserRefers
  <2> QED
    BY <1>6, <2>1, <2>4
<1>10. CASE AddBaseClass
  <2>1. PICK t : dwarfTypes' = Append(dwarfTypes, Rec("leaf", pos, T_NOTYPE, {t}))
    BY <1>10 DEF AddBaseClass
  <2>2. userTypes' = userTypes
    BY <1>10 DEF AddBaseClass
  <2> DEFINE r == Rec("leaf", pos, T_NOTYPE, {t})
  <2>3. r.kind = "leaf" /\ dwarfTypes' = Append(dwarfTypes, r)
    BY <2>1 DEF Rec
  <2> HIDE DEF r
  <2>4. \A k \in 1 .. Len(dwarfTypes') :
          \/ k \in 1 .. Len(dwarfTypes) /\ dwarfTypes'[k] = dwarfTypes[k]
          \/ dwarfTypes'[k] = r
    BY <1>1, <2>3
  <2>5. \A k : StructOwns(userTypes', r) /\ Waits(userTypes', k, r, mark, list, pos)
    BY <2>3 DEF StructOwns, Waits
  <2>6. UserGrown(userTypes, userTypes') /\ userTypes' \in Seq(Record)
    BY <1>1, <2>2, UserSame
  <2>7. \A k \in 1 .. Len(dwarfTypes') :
          \/ k \in 1 .. Len(dwarfTypes) /\ dwarfTypes'[k] = dwarfTypes[k]
          \/ /\ StructOwns(userTypes', dwarfTypes'[k])
             /\ Waits(userTypes', k, dwarfTypes'[k], mark, list, pos)
    BY <2>4, <2>5, Zenon
  <2> QED
    BY <1>6, <2>6, <2>7
<1>11. CASE AddBitfield
  <2>1. PICK t : dwarfTypes' = Append(dwarfTypes, Rec("bitfield", pos, nextUserType, {t}))
    BY <1>11 DEF AddBitfield
  <2>2. FieldRefers(nextUserType)
    BY <1>11 DEF AddBitfield
  <2>3. /\ UserGrown(userTypes, userTypes') /\ userTypes' \in Seq(Record)
        /\ nextUserType \in userTypes'[list].refs
    BY <1>1, <1>2, <2>2, UserRefers
  <2> DEFINE r == Rec("bitfield", pos, nextUserType, {t})
  <2>4. /\ r.kind = "bitfield" /\ r.die = pos /\ r.id = nextUserType
        /\ dwarfTypes' = Append(dwarfTypes, r)
    BY <2>1 DEF Rec
  <2> HIDE DEF r
  <2>5. \A k \in 1 .. Len(dwarfTypes') :
          \/ k \in 1 .. Len(dwarfTypes) /\ dwarfTypes'[k] = dwarfTypes[k]
          \/ k = Len(dwarfTypes) + 1 /\ dwarfTypes'[k] = r
    BY <1>1, <2>4
  <2>6. \A k : k = Len(dwarfTypes) + 1 =>
               StructOwns(userTypes', r) /\ Waits(userTypes', k, r, mark, list, pos)
    BY <1>1, <1>5, <2>3, <2>4 DEF StructOwns, Waits
  <2>7. \A k \in 1 .. Len(dwarfTypes') :
          \/ k \in 1 .. Len(dwarfTypes) /\ dwarfTypes'[k] = dwarfTypes[k]
          \/ /\ StructOwns(userTypes', dwarfTypes'[k])
             /\ Waits(userTypes', k, dwarfTypes'[k], mark, list, pos)
    BY <2>5, <2>6, Zenon
  <2> QED
    BY <1>6, <2>3, <2>7
<1> QED
  BY <1>8, <1>9, <1>10, <1>11

(* The parked records land behind the field list that names them, and the  *)
(* struct, wherever it goes, was given that list's id.                     *)
LEMMA OwningClose ==
  ASSUME TypeOK, TypeOK', OwningNow, UserNumbers, CloseStructure
  PROVE  OwningNow'
<1>1. /\ userTypes \in Seq(Record) /\ dwarfTypes \in Seq(Record) /\ mark \in Nat
      /\ mark \in 0 .. Len(dwarfTypes)
      /\ Len(userTypes) \in Nat /\ Len(dwarfTypes) \in Nat
      /\ nextUserType \in Nat /\ nextDwarfType \in Nat /\ pos \in Nat
  BY OwningTypes
<1>2. pc = "fields" /\ list' = 0 /\ mark' = 0
  BY DEF CloseStructure, LeaveStructure
<1>3. list \in 1 .. Len(userTypes) /\ list \in Nat /\ BASE_USER_TYPE \in Nat
  <2>1. list \in 1 .. Len(userTypes)
    BY <1>2 DEF TypeOK, StructVarsOK
  <2> QED
    BY <2>1, ConstAssumption
<1>4. Owning(userTypes, dwarfTypes, mark, list, pos)
  BY DEF OwningNow
<1>5. Owned(userTypes, list, pos)
  BY <1>3, <1>4 DEF Owning
<1> DEFINE ref == userTypes[list].id
           parked == SubSeq(dwarfTypes, mark + 1, Len(dwarfTypes))
           kept == SubSeq(dwarfTypes, 1, mark)
           moved == userTypes \o parked
           struct == IF backRef THEN Rec("incomplete", pos, nextUserType, {})
                                ELSE Rec("struct", pos, nextUserType, {ref})
           behind == Rec("struct", pos, nextDwarfType, {ref})
<1>6. /\ userTypes' = Append(moved, struct)
      /\ dwarfTypes' = kept \/ dwarfTypes' = Append(kept, behind)
  BY DEF CloseStructure, WithParked, Kept
<1>7. ref = BASE_USER_TYPE + list - 1 /\ ref \in Nat
  <2>1. ref = BASE_USER_TYPE + list - 1
    BY <1>3 DEF UserNumbers
  <2> QED
    BY <1>3, <2>1
<1>8. /\ struct.die = pos /\ struct.kind \in {"incomplete", "struct"}
      /\ struct.kind = "struct" => struct.refs = {ref}
      /\ behind.die = pos /\ behind.kind = "struct" /\ behind.refs = {ref}
      /\ struct \in Record /\ behind \in Record
  BY <1>1, <1>7 DEF Rec, Record, RecordKinds
<1> DEFINE n == Len(dwarfTypes) - mark
<1>9. n \in Nat /\ n = Len(dwarfTypes) - mark
  BY <1>1
<1>10. /\ parked \in Seq(Record) /\ Len(parked) = n
       /\ \A k \in 1 .. n : parked[k] = dwarfTypes[mark + k]
  <2>1. parked \in Seq(Record) /\ Len(parked) = Len(dwarfTypes) - mark
    BY <1>1, SubSeqProperties, ElementOfSeq
  <2>2. ASSUME NEW k \in 1 .. Len(parked) PROVE parked[k] = dwarfTypes[mark + k]
    BY <1>1, <2>1, SubSeqProperties
  <2> QED
    BY <2>1, <2>2
<1>11. /\ kept \in Seq(Record) /\ Len(kept) = mark
       /\ \A k \in 1 .. mark : kept[k] = dwarfTypes[k]
  <2>1. kept \in Seq(Record) /\ Len(kept) = mark
    BY <1>1, SubSeqProperties, ElementOfSeq
  <2>2. ASSUME NEW k \in 1 .. Len(kept) PROVE kept[k] = dwarfTypes[k]
    BY <1>1, <2>1, SubSeqProperties
  <2> QED
    BY <2>1, <2>2
<1> HIDE DEF parked, kept, struct, behind, ref, n
<1>12. /\ moved \in Seq(Record) /\ Len(moved) = Len(userTypes) + n
       /\ \A i \in 1 .. Len(userTypes) : moved[i] = userTypes[i]
       /\ \A k \in 1 .. n : moved[Len(userTypes) + k] = parked[k]
  BY <1>1, <1>10, Joined, ConcatProperties
<1> HIDE DEF moved
<1>13. /\ userTypes' \in Seq(Record) /\ Len(userTypes') = Len(userTypes) + n + 1
       /\ \A i \in 1 .. Len(userTypes) : userTypes'[i] = userTypes[i]
       /\ \A k \in 1 .. n : userTypes'[Len(userTypes) + k] = dwarfTypes[mark + k]
       /\ userTypes'[Len(userTypes) + n + 1] = struct
  <2>1. /\ userTypes' \in Seq(Record) /\ Len(userTypes') = Len(moved) + 1
        /\ \A i \in 1 .. Len(moved) : userTypes'[i] = moved[i]
        /\ userTypes'[Len(moved) + 1] = struct
    BY <1>6, <1>8, <1>12
  <2>2. \A i \in 1 .. Len(userTypes) : userTypes'[i] = userTypes[i]
    BY <1>1, <1>9, <1>12, <2>1
  <2>3. ASSUME NEW k \in 1 .. n
        PROVE  userTypes'[Len(userTypes) + k] = dwarfTypes[mark + k]
    <3>1. PICK j : j = Len(userTypes) + k
      BY Zenon
    <3>2. j \in 1 .. Len(moved)
      BY <1>1, <1>9, <1>12, <3>1
    <3>3. userTypes'[j] = moved[j] /\ moved[j] = parked[k]
      BY <1>12, <2>1, <3>1, <3>2
    <3> QED
      BY <1>10, <3>1, <3>3
  <2> QED
    BY <1>12, <2>1, <2>2, <2>3
<1>14. Extends(userTypes, userTypes')
  BY <1>1, <1>9, <1>13 DEF Extends
<1>15. Owned(userTypes', list, pos) /\ userTypes[list].refs \subseteq userTypes'[list].refs
  BY <1>1, <1>3, <1>5, <1>13, <1>14, ExtendsKeeps
<1>16. \A r : r.die = pos /\ r.refs = {ref} => StructOwns(userTypes', r)
  <2> SUFFICES ASSUME NEW r, r.die = pos, r.refs = {ref}, NEW t \in r.refs
               PROVE  Owned(userTypes', t - BASE_USER_TYPE + 1, r.die)
    BY Zenon DEF StructOwns
  <2>1. t - BASE_USER_TYPE + 1 = list
    BY <1>3, <1>7
  <2> QED
    BY <1>15, <2>1
<1>17. UserGrown(userTypes, userTypes')
  <2> SUFFICES ASSUME NEW i \in 1 .. Len(userTypes'), i \notin 1 .. Len(userTypes)
               PROVE  StructOwns(userTypes', userTypes'[i]) /\ BitOwned(userTypes', i - 1, userTypes'[i])
    BY <1>13, <1>14, Zenon DEF UserGrown
  <2>0. i \in 1 .. Len(userTypes) + n + 1
    BY <1>13
  <2>1. CASE i = Len(userTypes) + n + 1
    <3>1. userTypes'[i] = struct
      BY <1>13, <2>1
    <3>2. StructOwns(userTypes', struct)
      BY <1>8, <1>16 DEF StructOwns
    <3>3. BitOwned(userTypes', i - 1, struct)
      BY <1>8 DEF BitOwned
    <3> QED
      BY <3>1, <3>2, <3>3
  <2>2. CASE i # Len(userTypes) + n + 1
    <3>1. PICK k : k = i - Len(userTypes)
      BY Zenon
    <3>2. k \in 1 .. n /\ i = Len(userTypes) + k
      BY <1>1, <1>9, <2>0, <2>2, <3>1
    <3>3. PICK j : j = mark + k
      BY Zenon
    <3>4. j \in 1 .. Len(dwarfTypes) /\ userTypes'[i] = dwarfTypes[j]
      BY <1>1, <1>9, <1>13, <3>2, <3>3
    <3>5. StructOwns(userTypes, dwarfTypes[j]) /\ Waits(userTypes, j, dwarfTypes[j], mark, list, pos)
      BY <1>4, <3>4, Zenon DEF Owning
    <3>6. StructOwns(userTypes', dwarfTypes[j])
      BY <1>1, <1>13, <1>14, <3>5, ExtendsKeeps
    <3>7. BitOwned(userTypes', i - 1, dwarfTypes[j])
      <4>1. list \in 1 .. i - 1
        BY <1>1, <1>3, <3>2
      <4> QED
        BY <1>15, <3>5, <4>1 DEF BitOwned, Waits
    <3> QED
      BY <3>4, <3>6, <3>7
  <2> QED
    BY <2>1, <2>2
<1>18. ASSUME NEW k \in 1 .. Len(dwarfTypes')
       PROVE  \/ /\ k \in 1 .. Len(dwarfTypes) /\ dwarfTypes'[k] = dwarfTypes[k]
                 /\ k <= mark \/ list = 0 \/ (mark' = mark /\ list' = list /\ pos' = pos)
              \/ /\ StructOwns(userTypes', dwarfTypes'[k])
                 /\ Waits(userTypes', k, dwarfTypes'[k], mark', list', pos')
  <2>1. \/ k \in 1 .. mark /\ dwarfTypes'[k] = kept[k]
        \/ dwarfTypes'[k] = behind
    <3>1. CASE dwarfTypes' = kept
      BY <1>11, <1>18, <3>1
    <3>2. CASE dwarfTypes' = Append(kept, behind)
      BY <1>1, <1>11, <1>18, <3>2
    <3> QED
      BY <1>6, <3>1, <3>2
  <2>2. StructOwns(userTypes', behind)
    BY <1>8, <1>16
  <2>3. Waits(userTypes', k, behind, mark', list', pos')
    BY <1>8 DEF Waits
  <2> QED
    BY <1>1, <1>11, <2>1, <2>2, <2>3
<1>19. dwarfTypes' \in Seq(Record) /\ mark' \in Nat
  <2>1. dwarfTypes' \in Seq(Record)
    BY Zenon DEF TypeOK
  <2> QED
    BY <1>2, <2>1
<1>20. list' # 0 => Owned(userTypes', list', pos')
  BY <1>2
<1>21. Owning(userTypes', dwarfTypes', mark', list', pos')
  BY <1>1, <1>4, <1>13, <1>17, <1>18, <1>19, <1>20, OwningStays
<1> QED
  BY <1>21 DEF OwningNow

(* The struct of a list in userTypes is found in the stream, whichever     *)
(* buffer it is in itself.                                                 *)
LEMMA OwnedIsFound ==
  ASSUME NEW user \in Seq(Record), NEW dwarf \in Seq(Record), NEW t \in Nat, NEW d,
         Owned(user, t - BASE_USER_TYPE + 1, d)
  PROVE  \E x \in FoundIn(user \o dwarf, t) : x.kind = "fieldlist" /\ x.die = d
<1> DEFINE st == user \o dwarf
<1>1. PICK i : i = t - BASE_USER_TYPE + 1
  BY Zenon
<1>2. i \in 1 .. Len(user) /\ user[i].kind = "fieldlist" /\ user[i].die = d
  BY <1>1, Zenon DEF Owned
<1>3. st \in Seq(Record) /\ Len(st) = Len(user) + Len(dwarf) /\ st[i] = user[i]
  BY <1>2, Joined, ConcatProperties
<1>4. i \in 1 .. Len(st)
  BY <1>2, <1>3, LenProperties
<1> HIDE DEF st
<1>5. st[i] \in FoundIn(st, t)
  BY <1>1, <1>3, <1>4, IsFound, Zenon
<1>6. \E x \in FoundIn(st, t) : x.kind = "fieldlist" /\ x.die = d
  BY <1>2, <1>3, <1>5
<1> QED
  BY <1>6 DEF st

(* OwnRecordsResolve, for a value of stream.                               *)
OwnIn(st) ==
  \A i \in 1 .. Len(st) :
    /\ st[i].kind = "struct" =>
         \A t \in st[i].refs :
           \E x \in FoundIn(st, t) : x.kind = "fieldlist" /\ x.die = st[i].die
    /\ st[i].kind = "bitfield" =>
         \E j \in 1 .. i - 1 : /\ st[j].kind = "fieldlist" /\ st[j].die = st[i].die
                               /\ BASE_USER_TYPE + i - 1 \in st[j].refs

LEMMA OwnResolved ==
  ASSUME TypeOK, OwningNow, NoInheritance, UserNumbers, AddTypes
  PROVE  OwnRecordsResolve'
<1>1. /\ userTypes \in Seq(Record) /\ dwarfTypes \in Seq(Record)
      /\ Len(userTypes) \in Nat /\ Len(dwarfTypes) \in Nat
  BY OwningTypes
<1>2. pc = "create" /\ stream' = userTypes \o dwarfTypes
  BY DEF AddTypes, Concatenated
<1>3. list = 0
  BY <1>2 DEF TypeOK, StructVarsOK
<1>4. Owning(userTypes, dwarfTypes, mark, list, pos)
  BY DEF OwningNow
<1> DEFINE st == userTypes \o dwarfTypes
<1>5. /\ st \in Seq(Record) /\ Len(st) = Len(userTypes) + Len(dwarfTypes)
      /\ \A i \in 1 .. Len(userTypes) : st[i] = userTypes[i]
      /\ \A k \in 1 .. Len(dwarfTypes) : st[Len(userTypes) + k] = dwarfTypes[k]
  BY <1>1, Joined, ConcatProperties
<1>6. \A t \in Nat : \A d : Owned(userTypes, t - BASE_USER_TYPE + 1, d) =>
        \E x \in FoundIn(st, t) : x.kind = "fieldlist" /\ x.die = d
  BY <1>1, OwnedIsFound
<1>7. stream' = st
  BY <1>2
<1> HIDE DEF st
<1>8. ASSUME NEW i \in 1 .. Len(st)
      PROVE  /\ StructOwns(userTypes, st[i])
             /\ st[i].kind = "bitfield" =>
                  i \in 1 .. Len(userTypes) /\ BitOwned(userTypes, i - 1, st[i])
  <2>1. CASE i \in 1 .. Len(userTypes)
    BY <1>4, <1>5, <2>1, Zenon DEF Owning
  <2>2. CASE i \notin 1 .. Len(userTypes)
    <3>0. i \in 1 .. Len(userTypes) + Len(dwarfTypes)
      BY <1>5
    <3>1. PICK k : k = i - Len(userTypes)
      BY Zenon
    <3>2. k \in 1 .. Len(dwarfTypes) /\ i = Len(userTypes) + k
      BY <1>1, <2>2, <3>0, <3>1
    <3>3. st[i] = dwarfTypes[k]
      BY <1>5, <3>2
    <3>4. StructOwns(userTypes, dwarfTypes[k]) /\ Waits(userTypes, k, dwarfTypes[k], mark, list, pos)
      BY <1>4, <3>2, Zenon DEF Owning
    <3>5. dwarfTypes[k].kind # "bitfield"
      BY <1>3, <3>4, Zenon DEF Waits
    <3> QED
      BY <3>3, <3>4, <3>5
  <2> QED
    BY <2>1, <2>2
<1>9. ASSUME NEW i \in 1 .. Len(st), NEW r, r = st[i]
       PROVE  /\ r.kind = "struct" =>
                   \A t \in r.refs :
                     \E x \in FoundIn(st, t) : x.kind = "fieldlist" /\ x.die = r.die
              /\ r.kind = "bitfield" =>
                   \E j \in 1 .. i - 1 : /\ st[j].kind = "fieldlist" /\ st[j].die = r.die
                                         /\ BASE_USER_TYPE + i - 1 \in st[j].refs
  <2>1. r \in Record
    BY <1>5, <1>9, ElementOfSeq
  <2>2. \A t \in r.refs : t \in Nat
    BY <2>1 DEF Record
  <2>3. StructOwns(userTypes, r)
    BY <1>8, <1>9
  <2>4. r.kind = "struct" =>
          \A t \in r.refs :
            \E x \in FoundIn(st, t) : x.kind = "fieldlist" /\ x.die = r.die
    BY <1>6, <2>2, <2>3, Zenon DEF StructOwns
  <2>5. ASSUME r.kind = "bitfield"
        PROVE  \E j \in 1 .. i - 1 : /\ st[j].kind = "fieldlist" /\ st[j].die = r.die
                                     /\ BASE_USER_TYPE + i - 1 \in st[j].refs
    <3>1. i \in 1 .. Len(userTypes) /\ BitOwned(userTypes, i - 1, r)
      BY <1>8, <1>9, <2>5
    <3>2. PICK j \in 1 .. i - 1 : Owned(userTypes, j, r.die) /\ r.id \in userTypes[j].refs
      BY <2>5, <3>1, Zenon DEF BitOwned
    <3>3. st[j] = userTypes[j] /\ st[j].kind = "fieldlist" /\ st[j].die = r.die
      BY <1>5, <3>2, Zenon DEF Owned
    <3>4. r.id = BASE_USER_TYPE + i - 1
      BY <1>5, <1>9, <3>1 DEF UserNumbers
    <3> QED
      BY <3>2, <3>3, <3>4
  <2> QED
    BY <2>4, <2>5
<1>10. OwnIn(st)
  BY <1>9, Zenon DEF OwnIn
<1>11. OwnIn(stream')
  BY <1>7, <1>10
<1> QED
  BY <1>11, Zenon DEF OwnIn, FoundIn, OwnRecordsResolve, Found

(* A struct finds its own field list under the id written into it, and the *)
(* field list the records made for its bitfields, whatever else the unit   *)
(* holds: for every input without base classes.                            *)
THEOREM OwnRecordsFound == Spec => []OwnRecordsResolve
<1> DEFINE IInv == TypeOK /\ OwnedRecords /\ OwnRecordsResolve
<1>1. Init => IInv
  <2> SUFFICES ASSUME Init PROVE IInv
    OBVIOUS
  <2>1. /\ pc = "map" /\ userTypes = Prelude /\ dwarfTypes = <<>> /\ mark = 0 /\ list = 0
        /\ pos = 1
    BY DEF Init
  <2>2. OwnedRecords
    BY <2>1, OwningFirst DEF OwnedRecords
  <2>3. OwnRecordsResolve
    BY <2>1 DEF OwnRecordsResolve
  <2> QED
    BY <2>2, <2>3, InitTypeOK
<1>2. IInv /\ UserIdsArePositions /\ [Next]_vars => IInv'
  <2> SUFFICES ASSUME IInv, UserIdsArePositions, [Next]_vars PROVE IInv'
    OBVIOUS
  <2>1. TypeOK'
    BY TypeOKStep
  <2>2. CASE Next
    <3>1. dies' = dies
      BY <2>2, DiesConstant
    <3>2. NoInheritance' = NoInheritance
      BY <3>1 DEF NoInheritance
    <3>3. pc # "done"
      BY <2>2 DEF Next, MapDie, FinishMap, CreateDie, CreateBasic, CreateOpaque, CreateModifier,
                  CreatePointer, CreateArray, CreateEnum, CreateVariable, SkipDie, Structure,
                  OpenStructure, AddField, AddBitfield, EmbedMember, AddBaseClass, SkipMember,
                  ClipFields, CloseStructure, AddTypes, At, AtMember
    <3>4. NoInheritance => OwningNow /\ UserNumbers
      BY <3>3 DEF OwnedRecords, OwningNow, UserIdsArePositions, UserNumbers
    <3>5. OwnedRecords'
      <4> SUFFICES ASSUME NoInheritance, pc' # "done" PROVE OwningNow'
        BY <3>2 DEF OwnedRecords, OwningNow
      <4>1. CASE MapDie \/ FinishMap \/ CreateDie
        BY <2>1, <3>4, <4>1, OwningCreate
      <4>2. CASE OpenStructure
        BY <2>1, <3>4, <4>2, OwningOpen
      <4>3. CASE AddField \/ AddBitfield \/ EmbedMember \/ AddBaseClass \/ SkipMember \/ ClipFields
        BY <2>1, <3>4, <4>3, OwningFields
      <4>4. CASE CloseStructure
        BY <2>1, <3>4, <4>4, OwningClose
      <4>5. CASE AddTypes
        BY <4>5 DEF AddTypes
      <4> QED
        BY <2>2, <4>1, <4>2, <4>3, <4>4, <4>5 DEF Next, Structure
    <3>6. OwnRecordsResolve'
      <4>1. CASE pc' = "done" /\ NoInheritance
        BY <2>2, <3>4, <4>1, OnlyAddTypesEnds, OwnResolved
      <4>2. CASE ~(pc' = "done" /\ NoInheritance)
        BY <3>2, <4>2 DEF OwnRecordsResolve
      <4> QED
        BY <4>1, <4>2
    <3> QED
      BY <2>1, <3>5, <3>6
  <2>3. CASE UNCHANGED vars
    <3>1. UNCHANGED <<dies, pc, pos, userTypes, dwarfTypes, list, mark, stream>>
      BY <2>3, Zenon DEF vars, structVars
    <3>2. NoInheritance' = NoInheritance
      BY <3>1 DEF NoInheritance
    <3>3. OwnedRecords'
      BY <3>1, <3>2 DEF OwnedRecords
    <3>4. OwnRecordsResolve <=> ((NoInheritance /\ pc = "done") => OwnIn(stream))
      BY Zenon DEF OwnRecordsResolve, OwnIn, Found, FoundIn
    <3>5. OwnRecordsResolve' <=> ((NoInheritance' /\ pc' = "done") => OwnIn(stream'))
      BY Zenon DEF OwnRecordsResolve, OwnIn, Found, FoundIn
    <3> QED
      BY <2>1, <3>1, <3>2, <3>3, <3>4, <3>5
  <2> QED
    BY <2>2, <2>3
<1>3. IInv => OwnRecordsResolve
  OBVIOUS
<1> QED
  BY <1>1, <1>2, <1>3, UserNumbering, PTL DEF Spec
=============================================================================
