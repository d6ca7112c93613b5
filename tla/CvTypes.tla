------------------------------- MODULE CvTypes -------------------------------
(***************************************************************************)
(* The types of the CodeView half: initGlobalTypes with everything it      *)
(* appends, insertClassTypeEnums and addTypes (cv2pdb.cpp).                *)
(*                                                                         *)
(* The types of the file keep their numbers; the types made up for D (of   *)
(* arrays, delegates, typedefs, ...) are collected in userTypes, numbered  *)
(* behind them, and glued on at the end.  Then a nested enumeration that   *)
(* tells what kind of class it is, and a base class for interfaces, are    *)
(* inserted into the field lists, in the buffer that is being walked.      *)
(* Positions in that buffer are counted in records and leaves.             *)
(*                                                                         *)
(* Left out: what flags that never change rule out (removeMethodLists,     *)
(* useGlobalMod, v3 and thisIsNotRef are true).                            *)
(***************************************************************************)
EXTENDS CvInput

VARIABLES
  t,            \* the next type of the file
  globalTypes,  \* the converted types
  user,         \* userTypes and what grows with it, see NoUserTypes
  own,          \* the ids of the enums and of the base classes
  pos,          \* of insertClassTypeEnums in globalTypes
  pointerTypes, \* for a pointer of the file, the pointer for "this"
  added         \* what AddTypes was given

typeVars == <<t, globalTypes, user, own, pos, pointerTypes, added>>

types == input.types

(* next is nextUserType; typedefs pairs typedefs with translatedTypedefs;  *)
(* udts is udtSymbols; error is hadError(); emptyList is emptyFieldListType. *)
NoUserTypes == [types |-> <<>>, next |-> BASE_USER_TYPE + Len(types), emptyList |-> 0,
                typedefs |-> <<>>, udts |-> <<>>, error |-> FALSE]

(* addClassTypeEnum, addStringViewHelper and addObjectViewHelper.          *)
Helpers == input.vs < 12

-----------------------------------------------------------------------------
(* Looking up types.                                                       *)
NoType == Blank

UserTypeData(u, id) ==
  LET k == id - BASE_USER_TYPE - Len(types) + 1
  IN  IF k \in DOMAIN u.types THEN u.types[k] ELSE NoType

getTypeData(u, id) ==
  IF id - BASE_USER_TYPE + 1 \in DOMAIN types THEN types[id - BASE_USER_TYPE + 1]
  ELSE UserTypeData(u, id)

getConvertedTypeData(id) ==
  IF id - BASE_USER_TYPE + 1 \in DOMAIN globalTypes
    THEN globalTypes[id - BASE_USER_TYPE + 1] ELSE NoType

IsStruct(ty)   == ty.kind \in {"struct", "class"}
Incomplete(ty) == "incomplete" \in ty.props
IsCompleteStruct(ty, name) == IsStruct(ty) /\ ~Incomplete(ty) /\ ty.name = name

(* The ids at which findCompleteClassType may stop.                        *)
CompleteIds(u, name) ==
  {BASE_USER_TYPE + i - 1 : i \in
    {j \in DOMAIN types : IsCompleteStruct(types[j], name)}
    \cup {Len(types) + j : j \in
           {k \in DOMAIN u.types : IsCompleteStruct(u.types[k], name)}}}
FirstOf(ids) == CHOOSE i \in ids : \A j \in ids : i <= j

findCompleteClassType(u, ty) ==
  IF CompleteIds(u, ty.name) = {} THEN ty
  ELSE getTypeData(u, FirstOf(CompleteIds(u, ty.name)))

Typedef(u, type) == SelectSeq(u.typedefs, LAMBDA d : d.type = type)
translateBasic(u, type) ==
  IF Typedef(u, type) = <<>> THEN type ELSE Typedef(u, type)[1].to

(* A delegate (0x403, 0x74) stands for a 64-bit integer; in C, so does a   *)
(* dynamic array (0x12, 0x74).                                             *)
translateType(u, type) ==
  LET ty == getTypeData(u, type)
  IN  IF type < BASE_USER_TYPE THEN translateBasic(u, type)
      ELSE IF ty.kind = "delegate" /\ ty.refs = <<1027, 116>>
        THEN translateBasic(u, 19)
      ELSE IF ty.kind = "dynarray" /\ ty.refs = <<18, 116>> /\ input.version = 0
        THEN translateBasic(u, 35)
      ELSE type

-----------------------------------------------------------------------------
(* Sizes of types, for the layout of associative arrays.                   *)
sizeofBasicType(type) ==
  LET size == type % 8
      typ  == (type \div 16) % 16
      mode == (type \div 256) % 8
  IN  IF mode # 0 THEN IF mode = 6 THEN 8 ELSE 4
      ELSE IF typ \in {1, 2} THEN IF size < 4 THEN <<1, 2, 4, 8>>[size + 1] ELSE 4
      ELSE IF typ \in {3, 6} THEN 1
      ELSE IF typ \in {4, 5} THEN IF size < 5 THEN <<4, 8, 10, 16, 6>>[size + 1] ELSE 4
      ELSE IF typ = 7 THEN <<1, 4, 2, 2, 4, 4, 8, 8>>[size + 1]
      ELSE 4

(* The structs of the file are of version 1 and those that were appended   *)
(* of version 3, where the upper half of "derived", a 0, is read as size.  *)
OfFile(id) == id < BASE_USER_TYPE + Len(types)

sizeofClassType(u, ty) ==
  LET ids == CompleteIds(u, ty.name)
  IN  IF ~Incomplete(ty) \/ ids = {} THEN ty.size
      ELSE IF OfFile(FirstOf(ids)) THEN getTypeData(u, FirstOf(ids)).size
      ELSE 0

OemKinds == {"dynarray", "assoc", "delegate"}
sizeofType(u, type) ==
  LET ty == getTypeData(u, type)
  IN  IF type < BASE_USER_TYPE THEN sizeofBasicType(type)
      ELSE IF IsStruct(ty) /\ OfFile(type) THEN sizeofClassType(u, ty)
      ELSE IF ty.kind \in OemKinds THEN 8
      ELSE 4

-----------------------------------------------------------------------------
(* Names of types; <<>> is an error.                                       *)
BasicNames ==
  [k \in 0 .. 7 |->
    CASE k = 0 -> [s \in {3} |-> "void"]
      [] k = 1 -> [s \in 0 .. 3 |-> <<"byte", "short", "int", "long">>[s + 1]]
      [] k = 2 -> [s \in 0 .. 3 |-> <<"ubyte", "ushort", "uint", "ulong">>[s + 1]]
      [] k = 3 -> [s \in 0 .. 15 |-> "bool"]
      [] k = 4 -> [s \in 0 .. 2 |-> <<"ifloat", "idouble", "ireal">>[s + 1]]
      [] k = 5 -> [s \in 0 .. 2 |-> <<"float", "double", "real">>[s + 1]]
      [] k = 6 -> [s \in {} |-> ""]
      [] k = 7 -> [s \in 0 .. 11 |->
                    <<"char", "wchar", "short", "ushort", "int", "uint", "long",
                      "ulong", "cent", "ucent", "wchar", "dchar">>[s + 1]]]

nameOfBasicType(type) ==
  LET names == BasicNames[(type \div 16) % 8]
      mode  == (type \div 256) % 8
  IN  IF type % 16 \notin DOMAIN names THEN <<>>
      ELSE <<names[type % 16]>> \o IF mode \in {0, 7} THEN <<>> ELSE <<"*">>

(* A suffix or a prefix around a name, which is an error if the name is.   *)
Around(pre, name, suf) == IF name = <<>> THEN <<>> ELSE pre \o name \o suf

DynamicArrayName(elem) ==
  LET const == IF input.version >= 2000 THEN <<"const">> ELSE <<>>
  IN  IF elem = Append(const, "char") THEN <<"string">>
      ELSE IF elem = Append(const, "wchar") THEN <<"wstring">>
      ELSE IF elem = Append(const, "dchar") THEN <<"dstring">>
      ELSE Around(<<>>, elem, <<"[]">>)

AssocArrayName(key, elem) ==
  IF key = <<>> \/ elem = <<>> THEN <<>>
  ELSE <<IF input.version >= 2068 THEN "aa3<"
         ELSE IF input.version >= 2043 THEN "aa2<" ELSE "aa<">>
       \o elem \o <<"[">> \o key \o <<"]>">>

(* The length of an array does not get into its name: the size of its leaf *)
(* is printed, which is 2 for any that is less than 0x8000.                *)
RECURSIVE nameOfType(_, _)
nameOfType(u, type) ==
  LET ty == getTypeData(u, type)
      Ref(i) == nameOfType(u, ty.refs[i])
  IN  CASE type < BASE_USER_TYPE -> nameOfBasicType(type)
        [] ty.kind \in {"struct", "class", "union", "enum"} -> ty.name
        [] ty.kind = "pointer"  -> Around(<<>>, Ref(1), <<"*">>)
        [] ty.kind = "array"    -> Around(<<>>, Ref(1), <<"[2]">>)
        [] ty.kind = "modifier" ->
             Around(IF ty.attr = 1 THEN <<"const">> ELSE <<>>, Ref(1), <<>>)
        [] ty.kind \in {"procedure", "mfunction"} -> Around(<<>>, Ref(1), <<"()">>)
        [] ty.kind = "dynarray" -> DynamicArrayName(Ref(2))
        [] ty.kind = "assoc"    -> AssocArrayName(Ref(1), Ref(2))
        [] ty.kind = "delegate" -> Around(<<"delegate">>, Ref(2), <<>>)
        [] OTHER -> <<>>

-----------------------------------------------------------------------------
(* Symbols of the file that name a type (findUdtSymbol): of those it       *)
(* appended itself it reads the lower half of the number.                  *)
UdtsOf(u) ==
  SelectSeq(input.global \o input.static, LAMBDA s : s.kind \in {"udt", "udt3"})
  \o u.udts
HasUdt(u, type) ==
  \E i \in DOMAIN UdtsOf(u) : UdtsOf(u)[i].type % 65536 = translateType(u, type)
UdtsNamed(u, name) == SelectSeq(UdtsOf(u), LAMBDA s : s.name = name)

addUdtSymbol(u, type, name) ==
  [u EXCEPT !.udts = Append(@, [kind |-> "udt3", type |-> translateType(u, type),
                                offset |-> 0, length |-> 0, name |-> name])]

-----------------------------------------------------------------------------
(* Records that are appended to userTypes; n is the id of the first.       *)
(* Mutant: the last record gets no number of its own.                      *)
MutAppendAll(u, tys) == [u EXCEPT !.types = @ \o tys, !.next = @ + Len(tys) - 1]
AppendAll(u, tys) == [u EXCEPT !.types = @ \o tys, !.next = @ + Len(tys)]
LastId(u) == u.next - 1

Pointer(type) == [Blank EXCEPT !.kind = "pointer", !.refs = <<type>>]
FieldList(fields) == [Blank EXCEPT !.kind = "fieldlist", !.fields = fields]
StructType(n, list, props, size, name) ==
  [Blank EXCEPT !.kind = "struct", !.count = n, !.list = list, !.props = props,
                !.size = size, !.name = name]
Declared(name) == StructType(0, 0, {"incomplete"}, 0, name)
StructOf(fields, list, size, name) ==
  <<FieldList(fields), StructType(Len(fields), list, {}, size, name)>>

Leaf(kind, type, offset, name) ==
  [leaf |-> kind, version |-> 3, type |-> type, offset |-> offset, name |-> <<name>>]
Member(type, offset, name) == Leaf("member", type, offset, name)
NestedType(type, name) == Leaf("nesttype", type, 0, name)

WithUdt(u, name) == addUdtSymbol(u, LastId(u), name)

createEmptyFieldListType(u) ==
  IF u.emptyList > 0 THEN u
  ELSE [AppendAll(u, <<FieldList(<<>>)>>) EXCEPT !.emptyList = u.next]

(* A typedef is a modifier that changes nothing or, by the option, an      *)
(* enumeration without values; dchar (0x78) is shown as uint (0x75).       *)
appendTypedef(u, d) ==
  LET e == IF input.typedefEnum THEN createEmptyFieldListType(u) ELSE u
      made == IF input.typedefEnum
        THEN [Blank EXCEPT !.kind = "enum", !.list = e.emptyList, !.name = <<d.name>>,
                           !.refs = <<IF d.type = 120 THEN 117 ELSE d.type>>]
        ELSE [Blank EXCEPT !.kind = "modifier", !.refs = <<translateType(u, d.type)>>]
  IN  [AppendAll(e, <<made>>) EXCEPT !.typedefs = Append(@, [type |-> d.type, to |-> e.next])]

appendComplex(u, c) ==
  LET base == translateType(u, c.base)
      made == AppendAll(u, StructOf(<<Member(base, 0, "re"), Member(base, c.size, "im")>>,
                                    u.next, 2 * c.size, <<c.name>>))
  IN  [WithUdt(made, <<c.name>>)
         EXCEPT !.typedefs = Append(@, [type |-> c.type, to |-> u.next + 1])]

TypedefTypes ==
  <<[type |-> 16, name |-> "byte"], [type |-> 32, name |-> "ubyte"],
    [type |-> 33, name |-> "ushort"], [type |-> 117, name |-> "uint"],
    [type |-> 19, name |-> "dlong"], [type |-> 35, name |-> "ulong"],
    [type |-> 66, name |-> "real"], [type |-> 113, name |-> "wchar"],
    [type |-> 120, name |-> "dchar"]>>
ComplexTypes == <<[type |-> 80, base |-> 64, size |-> 4, name |-> "cfloat"],
                  [type |-> 81, base |-> 65, size |-> 8, name |-> "cdouble"],
                  [type |-> 82, base |-> 66, size |-> 10, name |-> "creal"]>>

appendTypedefs(u) ==
  IF input.version = 0 THEN u
  ELSE FoldLeft(appendComplex, FoldLeft(appendTypedef, u, TypedefTypes), ComplexTypes)

(* An enumeration with one value (appendEnumerator).                       *)
appendEnumerator(u, name) ==
  WithUdt(AppendAll(u, <<FieldList(<<Leaf("enumerate", 0, 0, "value")>>),
            [Blank EXCEPT !.kind = "enum", !.count = 1, !.list = u.next, !.refs = <<116>>,
                          !.props = {"isNested"}, !.name = <<name>>]>>), <<name>>)

ClassTypeEnum == "__ClassType"
ObjectName == <<"object.Object">>

(* The class at the root of a kind of classes, with its table; the helper  *)
(* of an object comes before it.                                           *)
appendObjectType(u, isObject, enumType, name) ==
  LET helps  == isObject /\ Helpers
      helper == <<"object_viewhelper">>
      h == IF helps THEN WithUdt(AppendAll(u, StructOf(<<>>, u.next, 0, helper)), helper) ELSE u
      n == u.next + IF helps THEN 2 ELSE 0
      fields == <<Leaf("vfunctab", n + 1, 0, "")>>
                \o (IF helps THEN <<Member(n - 1, 0, "__viewhelper")>> ELSE <<>>)
                \o (IF Helpers THEN <<NestedType(enumType, ClassTypeEnum)>> ELSE <<>>)
      class  == [StructType(Len(fields), n + 2, IF Helpers THEN {"hasNested"} ELSE {}, 4, name)
                   EXCEPT !.kind = "class"]
  IN  WithUdt(AppendAll(h, <<[Blank EXCEPT !.kind = "vtshape"], Pointer(n),
                             FieldList(fields), class>>), name)

appendDynamicArray(u, index, elem) ==
  LET e == translateType(u, elem)
      name == DynamicArrayName(nameOfType(u, e))
      helps == Helpers /\ name \in {<<"string">>, <<"wstring">>, <<"dstring">>}
      helper == Append(name, "_viewhelper")
      n == u.next
      p == AppendAll(u, <<Pointer(e)>>)
      fields == <<Member(translateType(u, index), 0, "length"), Member(n, 4, "ptr")>>
      made == IF helps
        THEN AppendAll(WithUdt(AppendAll(p, StructOf(<<>>, n + 1, 4, helper)), helper),
               StructOf(Append(fields, Member(n + 2, 0, "__viewhelper")), n + 3, 8, name))
        ELSE AppendAll(p, StructOf(fields, n + 1, 8, name))
  IN  [WithUdt(made, name) EXCEPT !.error = @ \/ name = <<>>]

(* The ids of a delegate's records are worked out from nextUserType, which *)
(* is moved once they are all written.                                     *)
(* Mutant: the list of a delegate with a void context is counted as if it  *)
(* had the pointer to the context.                                         *)
MutDelegateList(void) == 2
DelegateList(void) == IF void THEN 1 ELSE 2
appendDelegate(u, this, func) ==
  LET th == translateType(u, this)
      fn == translateType(u, func)
      void == th = 1027
      name == Around(<<"delegate">>, nameOfType(u, fn), <<>>)
      fields == <<Member(IF void THEN th ELSE u.next + 1, 0, "thisptr"),
                  Member(u.next, 4, "funcptr")>>
      made == [u EXCEPT
        !.types = @ \o <<Pointer(fn)>> \o (IF void THEN <<>> ELSE <<Pointer(th)>>)
                    \o StructOf(fields, u.next + DelegateList(void), 8, name),
        !.next = @ + IF void THEN 3 ELSE 4,
        !.error = @ \/ name = <<>>]
  IN  WithUdt(made, name)

Aligned4(n) == ((n + 3) \div 4) * 4

AssocArray2068(u, key, elem) ==
  AppendAll(u, <<FieldList(<<Member(IF input.x64 THEN 1539 ELSE 1027, 0, "ptr"),
                             NestedType(key, "__key_t"), NestedType(elem, "__val_t")>>)>>)

(* struct aaA, the nodes; struct BB, an array of pointers to them; and the *)
(* list of the struct that takes the place of the associative array.       *)
AssocArrayOld(u, key, elem, keyelem) ==
  LET n == u.next
      node   == <<"internal@aaA<">> \o keyelem
      table  == <<"internal@BB<">> \o keyelem
      array  == node \o <<"*", "[]">>
      links  == IF input.version >= 2043 THEN <<"next">> ELSE <<"left", "right">>
      hashAt == 4 * Len(links)
      valAt  == hashAt + 4 + Aligned4(sizeofType(u, key))
      fields == [j \in DOMAIN links |-> Member(n + 1, 4 * (j - 1), links[j])]
                \o <<Member(116, hashAt, "hash"), Member(key, hashAt + 4, "key"),
                     Member(elem, valAt, "value")>>
      made == AppendAll(u, <<Declared(node), Pointer(n)>>
        \o StructOf(fields, n + 2, valAt + Aligned4(sizeofType(u, elem)), node)
        \o <<Pointer(n + 1)>>
        \o StructOf(<<Member(translateType(u, 116), 0, "length"), Member(n + 4, 4, "ptr")>>,
                    n + 5, 8, array)
        \o StructOf(<<Member(n + 6, 0, "b"), Member(116, 8, "nodes")>>, n + 7, 12, table)
        \o <<Pointer(n + 8), FieldList(<<Member(n + 9, 0, "a")>>)>>)
  IN  FoldLeft(LAMBDA v, d : addUdtSymbol(v, d[1], d[2]), made,
               <<<<n + 3, node>>, <<n + 6, array>>, <<n + 8, table>>>>)

appendAssocArray(u, key, elem) ==
  LET k == translateType(u, key)
      e == translateType(u, elem)
      name == AssocArrayName(nameOfType(u, k), nameOfType(u, e))
  IN  IF name = <<>> THEN [u EXCEPT !.error = TRUE]
      ELSE IF input.version >= 2068 THEN AssocArray2068(u, k, e)
      ELSE AssocArrayOld(u, k, e, Tail(name))

(* A struct that is only declared gets an empty one of its name.           *)
ensureUDT(u, id, ty) ==
  LET ids    == CompleteIds(u, ty.name)
      found  == IF Incomplete(ty) /\ ids # {} THEN FirstOf(ids) ELSE id
      empty  == [StructType(0, u.next, {}, 4, ty.name) EXCEPT !.kind = ty.kind]
  IN  IF HasUdt(u, found) THEN u
      ELSE IF Incomplete(ty) /\ ids = {}
        THEN WithUdt(AppendAll(u, <<FieldList(<<>>), empty>>), ty.name)
      ELSE addUdtSymbol(u, found, ty.name)

-----------------------------------------------------------------------------
(* _doFields.  A list is read up to a leaf that is not known, which is an  *)
(* error, or to a friend function of version 2, from which the loop never  *)
(* moves on.                                                               *)
Stops(f) == f.leaf = "unsupported" \/ (f.leaf = "friendfcn" /\ f.version = 2)
Outcome(fields) ==
  LET stops == SelectSeq(fields, Stops)
  IN  IF stops = <<>> THEN "read"
      ELSE IF stops[1].leaf = "unsupported" THEN "failed" ELSE "looping"

(* Methods (removeMethodLists) and friend functions are thrown away.       *)
(* Mutant: methods are thrown away when copied, but counted.               *)
MutIsKept(f) == f.leaf # "friendfcn"
IsKept(f) == f.leaf # "friendfcn" /\ ~(f.leaf = "method" /\ f.version = 1)

Translated(u, f) ==
  IF f.version = 1 /\ f.leaf \in {"member", "bclass", "stmember", "nesttype"}
    THEN [f EXCEPT !.type = translateType(u, @)] ELSE f
NewVersion(f) ==
  IF f.version > 1 THEN f.version
  ELSE IF f.leaf \in {"enumerate", "member", "stmember", "nesttype"} THEN 3 ELSE 2

addFields(u, fields) ==
  LET kept == SelectSeq(fields, LAMBDA f : f.leaf # "friendfcn"
                                  /\ ~(f.leaf = "method" /\ f.version = 1))
  IN  [i \in DOMAIN kept |-> [Translated(u, kept[i]) EXCEPT !.version = NewVersion(kept[i])]]
countFields(fields) == Len(SelectSeq(fields, IsKept))

IsNesting(f, type) == f.leaf = "nesttype" /\ (type = 0 \/ f.type = type)
countNestedTypes(fields, type) ==
  Len(SelectSeq(fields, LAMBDA f : IsNesting(f, type)))

hasClassTypeEnum(fields) ==
  \E i \in DOMAIN fields :
    fields[i].leaf = "nesttype" /\ fields[i].name = <<ClassTypeEnum>>

(* vbaseoff of the first method that introduces a virtual one; -1 if none. *)
OffsetFirstVirtual(u, fields) ==
  LET lists == [i \in DOMAIN fields |-> getTypeData(u, fields[i].type)]
      at == {i \in DOMAIN fields : fields[i].leaf = "method" /\ fields[i].version = 1
                                    /\ lists[i].kind = "methodlist" /\ lists[i].attr = 1}
  IN  IF at = {} THEN -1 ELSE lists[FirstOf(at)].size

-----------------------------------------------------------------------------
(* Classes.                                                                *)
CompleteOf(u, ty) == IF Incomplete(ty) THEN findCompleteClassType(u, ty) ELSE ty
StructList(ty) == IF IsStruct(ty) THEN ty.list ELSE 0
FirstBase(list) ==
  IF list.fields # <<>> /\ list.fields[1].leaf = "bclass" THEN list.fields[1].type ELSE 0

(* The base class is read from the list as it is now.                      *)
getBaseClass(u, ty) == FirstBase(getConvertedTypeData(StructList(CompleteOf(u, ty))))

RECURSIVE derivesFromObject(_, _)
derivesFromObject(u, ty) ==
  \/ IsStruct(ty) /\ ty.name = ObjectName
  \/ LET base == getTypeData(u, getBaseClass(u, ty))
     IN  base # NoType /\ derivesFromObject(u, base)

RECURSIVE isCppInterface(_, _)
isCppInterface(u, ty) ==
  LET list == getTypeData(u, StructList(CompleteOf(u, ty)))
      base == getTypeData(u, FirstBase(list))
  IN  IF list.kind # "fieldlist" THEN FALSE
      ELSE IF base # NoType THEN isCppInterface(u, base)
      ELSE OffsetFirstVirtual(u, list.fields) = 0

-----------------------------------------------------------------------------
TypesInit ==
  /\ t = 1 /\ globalTypes = <<>> /\ user = NoUserTypes /\ pos = 0
  /\ own = [classEnum |-> 0, ifaceEnum |-> 0, cppIfaceEnum |-> 0, structEnum |-> 0,
            classBase |-> 0, ifaceBase |-> 0, cppIfaceBase |-> 0]
  /\ pointerTypes = [i \in DOMAIN types |-> 0]
  /\ added = <<>>

(* Without an sstGlobalTypes entry there is nothing to convert.            *)
NoTypes ==
  /\ pc = "types" /\ input.tables = 0
  /\ Goto("modules")
  /\ UNCHANGED typeVars

WithClassEnums(u) ==
  FoldLeft(appendEnumerator, u,
           <<"__ClassType", "__IfaceType", "__CppIfaceType", "__StructType">>)

(* appendTypedefs, the enums and base classes of D.                        *)
BeginTypes ==
  LET u == appendTypedefs(user)
      e == IF Helpers THEN WithClassEnums(u) ELSE u
      i == IF Helpers THEN appendObjectType(e, FALSE, u.next + 3, <<"DInterface">>) ELSE e
      c == IF Helpers THEN appendObjectType(i, FALSE, u.next + 5, <<"CppInterface">>) ELSE i
      known == UdtsNamed(c, ObjectName)
      o == IF known = <<>> THEN appendObjectType(c, TRUE, IF Helpers THEN u.next + 1 ELSE 0, ObjectName)
           ELSE c
  IN  /\ pc = "types" /\ input.tables > 0
      /\ Goto("convert")
      /\ user' = IF input.version > 0 THEN o ELSE u
      /\ own' = IF input.version = 0 THEN own
                ELSE [own EXCEPT !.classBase = IF known = <<>> THEN LastId(o) ELSE known[1].type,
                        !.classEnum = IF Helpers THEN u.next + 1 ELSE 0,
                        !.ifaceEnum = IF Helpers THEN u.next + 3 ELSE 0,
                        !.cppIfaceEnum = IF Helpers THEN u.next + 5 ELSE 0,
                        !.structEnum = IF Helpers THEN u.next + 7 ELSE 0,
                        !.ifaceBase = IF Helpers THEN LastId(i) ELSE 0,
                        !.cppIfaceBase = IF Helpers THEN LastId(c) ELSE 0]
      /\ UNCHANGED <<t, globalTypes, pos, pointerTypes, added>>

Converting(kinds) == pc = "convert" /\ t \in DOMAIN types /\ types[t].kind \in kinds

(* One record is done; the loop ends at an error.                          *)
Converted(u, ty) ==
  /\ globalTypes' = Append(globalTypes, ty)
  /\ user' = u /\ t' = t + 1
  /\ IF u.error THEN Fails ELSE UNCHANGED pc
  /\ UNCHANGED <<own, pos, added>>

(* What has to be read first may end it all, or never end.                 *)
Reading(fields) ==
  /\ Outcome(fields) # "read" /\ Goto(Outcome(fields))
  /\ UNCHANGED typeVars

ConvertDynamicArray ==
  /\ Converting({"dynarray"})
  /\ LET u == appendDynamicArray(user, types[t].refs[1], types[t].refs[2])
     IN  IF input.version = 0
           THEN Converted(user, [Blank EXCEPT !.kind = "modifier", !.refs = <<19>>])
           ELSE Converted(u, Declared(u.types[Len(u.types)].name))
  /\ UNCHANGED pointerTypes

ConvertDelegate ==
  /\ Converting({"delegate"})
  /\ LET u == appendDelegate(user, types[t].refs[1], types[t].refs[2])
     IN  Converted(u, Declared(u.types[Len(u.types)].name))
  /\ UNCHANGED pointerTypes

ConvertAssocArray ==
  /\ Converting({"assoc"})
  /\ LET key == translateType(user, types[t].refs[1])
         elem == translateType(user, types[t].refs[2])
         u == appendAssocArray(user, key, elem)
     IN  Converted(u,
           IF input.version >= 2068
             THEN StructType(3, LastId(u), {}, 4,
                    nameOfType(user, elem) \o <<"[">> \o nameOfType(user, key) \o <<"]">>)
             ELSE StructType(1, LastId(u), {}, 4,
                    AssocArrayName(nameOfType(user, key), nameOfType(user, elem))))
  /\ UNCHANGED pointerTypes

FieldLists == SelectSeq(types, LAMBDA ty : ty.kind = "fieldlist")
OwnFields(ty) == getTypeData(user, ty.list).fields

(* fixProperty looks into the type's own list and, up to the first one     *)
(* that nests the type, into every other.                                  *)
NestingLists == {i \in DOMAIN FieldLists :
                   countNestedTypes(FieldLists[i].fields, BASE_USER_TYPE + t - 1) > 0}
ReadByFixProperty(ty) ==
  OwnFields(ty) \o
  FlattenSeq([i \in 1 .. (IF NestingLists = {} THEN Len(FieldLists)
                          ELSE FirstOf(NestingLists)) |-> FieldLists[i].fields])
fixProperty(ty) ==
  ty.props
  \cup (IF countNestedTypes(OwnFields(ty), 0) > 0 THEN {"hasNested"} ELSE {})
  \cup (IF NestingLists # {} THEN {"isNested"} ELSE {})

ConvertStruct ==
  /\ Converting({"struct", "class"})
  /\ LET ty == types[t]
     IN  IF Outcome(ReadByFixProperty(ty)) # "read"
           THEN Reading(ReadByFixProperty(ty))
           ELSE /\ Converted(ensureUDT(user, BASE_USER_TYPE + t - 1, ty),
                     [ty EXCEPT !.props = fixProperty(ty),
                                !.count = IF getTypeData(user, ty.list).kind = "fieldlist"
                                            THEN countFields(OwnFields(ty)) ELSE @])
                /\ UNCHANGED pointerTypes

ConvertUnion ==
  /\ Converting({"union"})
  /\ LET ty == types[t]
     IN  IF Outcome(ReadByFixProperty(ty)) # "read"
           THEN Reading(ReadByFixProperty(ty))
           ELSE /\ Converted(user, [ty EXCEPT !.props = fixProperty(ty)])
                /\ UNCHANGED pointerTypes

ConvertEnum ==
  /\ Converting({"enum"})
  /\ LET ty == types[t]
         id == BASE_USER_TYPE + t - 1
     IN  IF Outcome(ReadByFixProperty(ty)) # "read"
           THEN Reading(ReadByFixProperty(ty))
           ELSE /\ Converted(IF ty.list # 0 /\ ~HasUdt(user, id)
                               THEN addUdtSymbol(user, id, ty.name) ELSE user,
                     [ty EXCEPT !.props = fixProperty(ty),
                                !.refs = <<translateType(user, ty.refs[1])>>])
                /\ UNCHANGED pointerTypes

ConvertFieldList ==
  /\ Converting({"fieldlist"})
  /\ IF Outcome(types[t].fields) # "read"
       THEN Reading(types[t].fields)
       ELSE /\ Converted(user, FieldList(addFields(user, types[t].fields)))
            /\ UNCHANGED pointerTypes

(* A plain pointer to a class is a reference (attr 1) in D; "this" gets a  *)
(* pointer of its own.                                                     *)
ConvertPointer ==
  /\ Converting({"pointer"})
  /\ LET ty == types[t]
         isRef == /\ input.version > 0 /\ ty.attr = 0
                  /\ getTypeData(user, ty.refs[1]).kind = "class"
         pointed == AppendAll(user, <<Pointer(translateType(user, ty.refs[1]))>>)
     IN  /\ Converted(IF isRef THEN pointed ELSE user,
               [ty EXCEPT !.refs = <<translateType(user, @[1])>>,
                          !.attr = IF isRef THEN 1 ELSE @])
         /\ pointerTypes' = IF isRef THEN [pointerTypes EXCEPT ![t] = LastId(pointed)]
                            ELSE pointerTypes

(* refs: return type, class, this, argument list.  The class is given as a *)
(* pointer to it.                                                          *)
ConvertMemberFunction ==
  /\ Converting({"mfunction"})
  /\ LET ty == types[t]
         i == ty.refs[2] - BASE_USER_TYPE + 1
     IN  Converted(user, [ty EXCEPT
           !.refs = <<translateType(user, @[1]),
                      translateType(user, IF i \in DOMAIN types /\ types[i].kind = "pointer"
                                            THEN types[i].refs[1] ELSE @[2]),
                      translateType(user, @[3]), @[4]>>])
  /\ UNCHANGED pointerTypes

(* refs: return type, argument list.                                       *)
ConvertProcedure ==
  /\ Converting({"procedure"})
  /\ Converted(user, [types[t] EXCEPT !.refs = <<translateType(user, @[1]), @[2]>>])
  /\ UNCHANGED pointerTypes

(* Lists of derived classes and of methods are emptied.                    *)
ConvertToNull ==
  /\ Converting({"derived", "methodlist"})
  /\ Converted(user, Blank)
  /\ UNCHANGED pointerTypes

(* Other OEM records become pointers.                                      *)
ConvertOem ==
  /\ Converting({"oem"})
  /\ Converted(user, [Blank EXCEPT !.kind = "pointer", !.refs = <<types[t].refs[2]>>])
  /\ UNCHANGED pointerTypes

RefsTranslated(kinds) ==
  /\ Converting(kinds)
  /\ LET ty == types[t]
     IN  Converted(user, [ty EXCEPT
           !.refs = [i \in DOMAIN ty.refs |-> translateType(user, ty.refs[i])]])
  /\ UNCHANGED pointerTypes

ConvertArglist == RefsTranslated({"arglist"})
ConvertArray   == RefsTranslated({"array"})
ConvertRefs    == RefsTranslated({"modifier", "bitfield"})

(* Copied as they are.                                                     *)
ConvertVtshape ==
  /\ Converting({"vtshape", "null"})
  /\ Converted(user, types[t])
  /\ UNCHANGED pointerTypes

FinishTypes ==
  /\ pc = "convert" /\ t > Len(types)
  /\ globalTypes' = globalTypes \o user.types
  /\ IF Helpers THEN Goto("insert")
     ELSE IF input.tables > 1 THEN Fails ELSE Goto("modules")
  /\ t' = 1 /\ pos' = 0
  /\ UNCHANGED <<user, own, pointerTypes, added>>

-----------------------------------------------------------------------------
(* insertClassTypeEnums.  A record is as long as its leaves and itself.    *)
LengthOf(ty) == 1 + Len(ty.fields)

(* The record that pos points at; 0 in the middle of one.                  *)
RECURSIVE RecordAfter(_, _)
RecordAfter(k, n) ==
  IF n = 0 THEN k
  ELSE IF n < 0 \/ k > Len(globalTypes) THEN 0
  ELSE RecordAfter(k + 1, n - LengthOf(globalTypes[k]))
AtPos == RecordAfter(1, pos)

ClassKind(ty) ==
  IF ty.kind = "struct" THEN [enum |-> own.structEnum, base |-> 0, name |-> "__StructType"]
  ELSE IF derivesFromObject(user, ty)
    THEN [enum |-> own.classEnum, base |-> own.classBase, name |-> "__ClassType"]
  ELSE IF isCppInterface(user, ty)
    THEN [enum |-> own.cppIfaceEnum, base |-> own.cppIfaceBase, name |-> "__CppIfaceType"]
  ELSE [enum |-> own.ifaceEnum, base |-> own.ifaceBase, name |-> "__IfaceType"]

BaseLeaf(type) ==
  [leaf |-> "bclass", version |-> 2, type |-> type, offset |-> 0, name |-> <<>>]

(* How far pos moves when n leaves are inserted in the list at index l.    *)
(* Mutant: it always moves.                                                *)
MutMoved(l, k, n) == n
Moved(l, k, n) == IF l < k THEN n ELSE 0

InsertClassTypeEnum ==
  LET k    == AtPos
      ty   == globalTypes[k]
      l    == ty.list - BASE_USER_TYPE + 1
      kind == ClassKind(ty)
      base == kind.base # 0 /\ getBaseClass(user, ty) = 0
      pre  == IF base THEN <<BaseLeaf(kind.base)>> ELSE <<>>
      post == IF kind.enum # 0 THEN <<NestedType(kind.enum, kind.name)>> ELSE <<>>
      n    == Len(pre) + Len(post)
  IN  /\ pc = "insert" /\ t \in DOMAIN types /\ k # 0
      /\ t' = t + 1
      /\ IF IsStruct(ty) /\ l \in DOMAIN globalTypes
               /\ ~hasClassTypeEnum(globalTypes[l].fields)
           THEN /\ globalTypes' = [globalTypes EXCEPT
                      ![k].count = @ + n,
                      ![l].fields = pre \o @ \o post]
                /\ pos' = pos + Moved(l, k, n) + LengthOf(ty)
           ELSE /\ pos' = pos + LengthOf(ty)
                /\ UNCHANGED globalTypes
      /\ UNCHANGED <<pc, user, own, pointerTypes, added>>

FinishInsert ==
  /\ pc = "insert" /\ t > Len(types)
  /\ IF input.tables > 1 THEN Fails ELSE Goto("modules")
  /\ UNCHANGED typeVars

AddTypes ==
  /\ pc = "addTypes"
  /\ added' = globalTypes
  /\ Goto("symbols")
  /\ UNCHANGED <<t, globalTypes, user, own, pos, pointerTypes>>

TypesNext ==
  \/ NoTypes \/ BeginTypes
  \/ ConvertDynamicArray \/ ConvertDelegate \/ ConvertAssocArray
  \/ ConvertStruct \/ ConvertUnion \/ ConvertEnum \/ ConvertFieldList
  \/ ConvertPointer \/ ConvertMemberFunction \/ ConvertProcedure
  \/ ConvertToNull \/ ConvertOem \/ ConvertVtshape
  \/ ConvertArglist \/ ConvertArray \/ ConvertRefs
  \/ FinishTypes \/ InsertClassTypeEnum \/ FinishInsert \/ AddTypes
=============================================================================
