------------------------------- MODULE CodeView -------------------------------
(***************************************************************************)
(* The CodeView half of cv2pdb as T_main runs it: segments, types,         *)
(* contributions, symbols, lines, publics (CvTypes, CvSymbols, CvLines),   *)
(* and what a reader of the result relies on.                              *)
(***************************************************************************)
EXTENDS CvSymbols, CvLines

vars == <<input, pc, typeVars, symbolVars, lineVars>>

Init ==
  /\ input \in Inputs /\ pc = "segMap"
  /\ TypesInit /\ SymbolsInit /\ LinesInit

TypeStep   == TypesNext   /\ UNCHANGED <<input, symbolVars, lineVars>>
SymbolStep == SymbolsNext /\ UNCHANGED <<input, typeVars, lineVars>>
LineStep   == LinesNext   /\ UNCHANGED <<input, typeVars, symbolVars>>

(* A list of which the reading never ends.                                 *)
Loop == pc = "looping" /\ UNCHANGED vars
End  == pc \in {"done", "failed"} /\ UNCHANGED vars

Next == TypeStep \/ SymbolStep \/ LineStep \/ Loop \/ End

Spec == Init /\ [][Next]_vars

-----------------------------------------------------------------------------
TypeOK ==
  /\ pc \in {"segMap", "types", "convert", "insert", "modules", "addTypes",
             "symbols", "lines", "publics", "done", "failed", "looping"}
  /\ t \in 1 .. (Len(types) + 1)
  /\ \A j \in DOMAIN globalTypes : globalTypes[j].kind \in Kinds
  /\ user.next = BASE_USER_TYPE + Len(types) + Len(user.types)
  /\ DOMAIN pointerTypes = DOMAIN types
  /\ lastGProcSym # 0 => copied[lastGProcSym].kind = "proc"
  /\ pub <= Len(input.publics) + 1

-----------------------------------------------------------------------------
(* When the types and the symbols are complete.                            *)
Typed == pc = "addTypes"
Copied == pc = "lines" /\ blk = 1

IsOf(id, kinds) == id < BASE_USER_TYPE \/ getConvertedTypeData(id).kind \in kinds

(* What a leaf of a name the converter makes up is of.                     *)
KindsOf(f) ==
  CASE f.name \in {<<"ptr">>, <<"funcptr">>, <<"thisptr">>, <<"next">>, <<"left">>,
                   <<"right">>, <<"a">>} -> {"pointer"}
    [] f.leaf = "vfunctab" -> {"pointer"}
    [] f.name \in {<<"__ClassType">>, <<"__IfaceType">>, <<"__CppIfaceType">>,
                   <<"__StructType">>} -> {"enum"}
    [] f.leaf = "bclass" -> {"struct", "class"}
    [] OTHER -> Kinds \ {"null", "fieldlist"}

NamedInFile(id) ==
  \E k \in DOMAIN (input.global \o input.static) :
    LET sym == (input.global \o input.static)[k] IN sym.kind = "udt" /\ sym.type = id

(* Every type that a record or an S_UDT names is in the table, and is what *)
(* it is named as: a field list, a pointer, the class of a base; an S_UDT  *)
(* leads to the type of its name, and what is only declared, and has no    *)
(* symbol in the file, is completed.                                       *)
(* The converter works out these ids before the records are written        *)
(* (appendDelegate and its like), in a table that is glued on at the end.  *)
ReferencesResolve ==
  Typed =>
    /\ \A j \in DOMAIN globalTypes :
         LET ty == globalTypes[j]
         IN  /\ ty.list # 0 => IsOf(ty.list, {"fieldlist"})
             /\ \A r \in DOMAIN ty.refs : IsOf(ty.refs[r], Kinds \ {"fieldlist"})
             /\ \A f \in DOMAIN ty.fields :
                  ty.fields[f].leaf # "enumerate" =>
                    IsOf(ty.fields[f].type, KindsOf(ty.fields[f]))
             /\ IsStruct(ty) /\ Incomplete(ty) /\ ~NamedInFile(BASE_USER_TYPE + j - 1) =>
                  \E k \in DOMAIN globalTypes : IsCompleteStruct(globalTypes[k], ty.name)
    /\ \A j \in DOMAIN user.udts :
         IsOf(user.udts[j].type, Kinds \ {"null"})
         /\ (getConvertedTypeData(user.udts[j].type).name # <<>> =>
               getConvertedTypeData(user.udts[j].type).name = user.udts[j].name)

-----------------------------------------------------------------------------
(* The first base class of a class as the file has it.                     *)
SourceBase(ty) == FirstBase(getTypeData(user, ty.list))

RECURSIVE Root(_)
Root(ty) ==
  LET base == getTypeData(user, SourceBase(ty))
  IN  IF base = NoType \/ ty.name = ObjectName THEN ty ELSE Root(base)

IntroducesFirst(ty) == OffsetFirstVirtual(user, getTypeData(user, ty.list).fields) = 0

ExpectedEnum(ty) ==
  CASE ty.kind = "struct"           -> own.structEnum
    [] Root(ty).name = ObjectName   -> own.classEnum
    [] IntroducesFirst(Root(ty))    -> own.cppIfaceEnum
    [] OTHER                        -> own.ifaceEnum

Owners(list) == {j \in DOMAIN types : IsStruct(types[j]) /\ types[j].list = list}

(* Every class says by its nested enumeration what it is by the file's     *)
(* base classes, once; it keeps the base it had; and it counts the members *)
(* that its list has after what was thrown away and what was inserted      *)
(* (addFields, countFields, insertClassTypeEnums), if the list is its own. *)
ClassesCompleted ==
  Typed /\ Helpers /\ input.version > 0 =>
    \A j \in DOMAIN types :
      LET ty   == types[j]
          now  == globalTypes[j]
          list == getConvertedTypeData(now.list).fields
          enums == SelectSeq(list, LAMBDA f : f.leaf = "nesttype" /\
                     f.type \in {own.structEnum, own.classEnum, own.ifaceEnum,
                                 own.cppIfaceEnum})
      IN  IsStruct(ty) /\ ty.list # 0 /\ Cardinality(Owners(ty.list)) = 1 =>
            /\ Len(enums) = 1 /\ enums[1].type = ExpectedEnum(ty)
            /\ SourceBase(ty) # 0 => FirstBase([Blank EXCEPT !.fields = list]) = SourceBase(ty)
            /\ now.count = Len(list)

(* While leaves are inserted in the buffer that is walked, the walk is     *)
(* always at the record whose turn it is (insertClassTypeEnums).           *)
WalkOnRecords == pc = "insert" /\ t <= Len(types) => AtPos = t

-----------------------------------------------------------------------------
Before(k, kinds) == {j \in 1 .. (k - 1) : copied[j].kind \in kinds}
Highest(S) == CHOOSE x \in S : \A y \in S : y <= x

(* The procedures of the streams and those that were copied, in order.     *)
Positions(syms, kinds) ==
  SelectSeq([j \in DOMAIN syms |-> j], LAMBDA j : syms[j].kind \in kinds)
BeforeZero(syms) ==
  LET zeros == Positions(syms, {"zero"})
  IN  IF zeros = <<>> THEN syms ELSE SubSeq(syms, 1, zeros[1] - 1)
ProcsOf(syms) ==
  [n \in DOMAIN Positions(syms, {"proc"}) |->
     LET from == Positions(syms, {"proc"})[n]
     IN  [sym |-> syms[from], params |-> RunAfter(syms, from),
          rest |-> SubSeq(syms, from + 1, Len(syms))]]
SourceProcs == FlattenSeq([s \in DOMAIN streams |-> ProcsOf(BeforeZero(streams[s]))])

(* The parameters the type counts are the last ones.                       *)
Surplus(proc) ==
  LET ty == FileType(proc.sym.type)
      n  == Len(proc.params)
  IN  IF ty.kind = "procedure" /\ ty.params < n THEN n - ty.params ELSE 0
KeptParams(proc) == SubSeq(proc.params, Surplus(proc) + 1, Len(proc.params))

(* What is left of the symbols from the procedure to its end.              *)
Scope(proc) ==
  LET ends == Positions(proc.rest, {"end", "proc"})
  IN  SubSeq(proc.rest, Surplus(proc) + 1, IF ends = <<>> THEN Len(proc.rest) ELSE ends[1] - 1)

(* The return type, the arguments and the calling convention.              *)
Signature(ty) == <<ty.refs[1], Last(ty.refs), ty.attr>>
Methods(proc) ==
  {BASE_USER_TYPE + j - 1 : j \in
     {i \in DOMAIN types :
        /\ types[i].kind = "mfunction" /\ FileType(proc.sym.type).kind = "procedure"
        /\ Signature(types[i]) = Signature(FileType(proc.sym.type))
        /\ \E m \in DOMAIN Scope(proc) :
             Scope(proc)[m].kind = "this" /\ Scope(proc)[m].type = types[i].refs[3]}}

(* The symbols of a procedure agree with its type (the count in            *)
(* copySymbols, findMemberFunctionType): of its parameters it keeps        *)
(* exactly the last ones, as many as the type has and no closure "this" in *)
(* front of them; it has the type it had, unless a "this" that is kept and *)
(* its signature make it a method, whose type it has then; and a block     *)
(* lies in its procedure.                                                  *)
(* Precondition: procedures in the file have LF_PROCEDURE types, their     *)
(* parameters are followed by another symbol (S_ENDARG) in the stream.     *)
ProceduresMatchTypes ==
  Copied =>
    LET source == SourceProcs
        places == Positions(copied, {"proc"})
    IN  /\ Len(places) = Len(source)
        /\ \A n \in DOMAIN source :
             LET proc == source[n]
                 run  == RunAfter(copied, places[n])
             IN  Len(proc.params) < Len(proc.rest) =>
                   /\ [m \in DOMAIN run |-> run[m].offset]
                        = [m \in DOMAIN KeptParams(proc) |-> KeptParams(proc)[m].offset]
                   /\ copied[places[n]].type \in
                        IF Methods(proc) = {} THEN {proc.sym.type} ELSE Methods(proc)
        /\ \A k \in DOMAIN copied :
           copied[k].kind = "block" /\ Before(k, {"proc"}) # {} =>
           LET proc == copied[Highest(Before(k, {"proc"}))]
           IN  /\ proc.offset <= copied[k].offset
               /\ copied[k].offset + copied[k].length <= proc.offset + proc.length

-----------------------------------------------------------------------------
From(block) == block.start
To(block) == block.start + block.length

(* Nothing up to the start of a block stopped createSrcLineBitmap.         *)
MarkedUpTo(n) ==
  /\ \A c \in Range(FlattenSeq(input.modules)) : IsMarkable(<<ContribIndex(c), c.offset>>)
  /\ \A j \in 1 .. n :
       LET block == input.blocks[j]
       IN  \A x \in {block.start} \cup IF j < n THEN Range(block.offsets) ELSE {} :
             IsMarkable(<<SegIndex(block.seg), x>>)

(* The last line of a block lies in its segment, or nobody asks.           *)
EndsInSegment(block) ==
  LET k == SegIndex(block.seg)
  IN  k = 0 \/ starts = NoBitmap \/ IsMarkable(<<k, block.start + Last(block.offsets)>>)

(* The range written with a block of lines reaches over its lines, if the  *)
(* last one lies in its segment, and, also when the marking of lines was   *)
(* given up half-way (createSrcLineBitmap), never into a later block whose *)
(* start was marked before that; and a reader finds the lines and the file *)
(* name as they are in the file.                                           *)
(* Precondition: the blocks of a segment follow one another.               *)
RangesMeetLines ==
  /\ \A k \in DOMAIN lineInfo :
       LET block == lineInfo[k]
       IN  /\ EndsInSegment(block) =>
                \A n \in DOMAIN block.offsets :
                  block.offsets[n] >= 0 /\ From(block) + block.offsets[n] <= To(block)
           /\ \E j \in 1 .. (blk - 1) :
                /\ input.blocks[j].seg = block.seg /\ input.blocks[j].start = block.start
                /\ \A n \in DOMAIN block.lines :
                     input.blocks[j].lines[n] > 0 =>
                       block.min + block.lines[n] = input.blocks[j].lines[n]
                /\ input.blocks[j].file = IF input.vs < 14 THEN block.file
                                          ELSE IF block.id < 0 THEN ""
                                          ELSE files[block.id + 1]
  /\ \A k \in DOMAIN lineInfo, n \in DOMAIN input.blocks :
       LET next == input.blocks[n]
       IN  /\ next.seg = lineInfo[k].seg /\ From(lineInfo[k]) < next.start
           /\ MarkedUpTo(n)
           => To(lineInfo[k]) < next.start
=============================================================================
