------------------------------ MODULE CvSymbols ------------------------------
(***************************************************************************)
(* The symbols of the CodeView half: addSymbols copies those of every      *)
(* module, then the static and the global ones and the S_UDTs made on the  *)
(* way, into one buffer (copySymbols, cv2pdb.cpp), one record at a time.   *)
(***************************************************************************)
EXTENDS CvTypes

CONSTANT Overrun   \* how many stack symbols may seem to lie behind a stream

ASSUME OverrunAssumption == Overrun \in Nat

VARIABLES
  stream, at,          \* the next record: number of the stream, position in it
  copied,        \* the buffer
  lastGProcSym   \* position of the open procedure in copied, 0 if none

symbolVars == <<stream, at, copied, lastGProcSym>>

(* udtSymbols is complete when the copying begins.                         *)
streams == Append(input.align \o <<input.static, input.global>>, user.udts)

SymbolsInit == stream = 1 /\ at = 1 /\ copied = <<>> /\ lastGProcSym = 0

-----------------------------------------------------------------------------
Stack == {"bprel", "sblk", "send", "this"}

(* The S_BPREL that follow position j.                                     *)
RunAfter(syms, j) ==
  LET others == {k \in (j + 1) .. Len(syms) : syms[k].kind \notin Stack}
  IN  SubSeq(syms, j + 1, IF others = {} THEN Len(syms) ELSE FirstOf(others) - 1)

(* How many are counted: the loop does not end with the stream, but takes  *)
(* what is behind it for symbols as well.                                  *)
ParamsAfter(syms, j) ==
  LET run == Len(RunAfter(syms, j))
  IN  IF j + run = Len(syms) THEN run .. (run + Overrun) ELSE {run}

(* The parameters of the type of a procedure.  A member function is read   *)
(* as if it were an LF_PROCEDURE_V2, which has its count of parameters     *)
(* where the member function has its calling convention.                   *)
typeparams(ty) == IF ty.kind = "procedure" THEN ty.params ELSE ty.attr

(* The first parameters are skipped if the type has fewer.                 *)
Skipped(params, ty) ==
  IF ty = NoType \/ params <= typeparams(ty) THEN 0 ELSE params - typeparams(ty)

FileType(id) ==
  IF id - BASE_USER_TYPE + 1 \in DOMAIN types THEN types[id - BASE_USER_TYPE + 1] ELSE NoType

(* refs of a member function: return type, class, this, argument list.     *)
IsMethodOf(ty, proctype, this) ==
  /\ ty.kind = "mfunction" /\ ty.refs[3] = this
  /\ ty.refs[4] = proctype.refs[2] /\ ty.attr = proctype.attr
  /\ ty.refs[1] = proctype.refs[1]

findMemberFunctionType(type, this) ==
  LET methods == {j \in DOMAIN types : IsMethodOf(types[j], FileType(type), this)}
  IN  IF FileType(type).kind # "procedure" \/ FileType(this).kind # "pointer"
           \/ methods = {}
        THEN type
        ELSE BASE_USER_TYPE + FirstOf(methods) - 1

(* "this" is shown as a pointer, not as a reference.                       *)
ThisType(type) ==
  LET j == type - BASE_USER_TYPE + 1
  IN  IF j \in DOMAIN pointerTypes /\ pointerTypes[j] # 0 THEN pointerTypes[j] ELSE type

(* The function's name in front of a variable's, up to the first colon.    *)
WithoutScope(name) ==
  IF input.version = 0 /\ Contains(name, ":")
    THEN SubSeq(name, 1 + CHOOSE j \in DOMAIN name :
                  name[j] = ":" /\ \A k \in 1 .. (j - 1) : name[k] # ":", Len(name))
    ELSE name

-----------------------------------------------------------------------------
At(kinds) == /\ pc = "symbols" /\ stream \in DOMAIN streams
             /\ at \in DOMAIN streams[stream] /\ streams[stream][at].kind \in kinds
Sym == streams[stream][at]

Copy(sym) == copied' = Append(copied, sym)
Advance(n) == at' = at + n /\ UNCHANGED <<stream, pc>>

CopyProc ==
  /\ At({"proc"})
  /\ LET type == translateType(user, Sym.type)
     IN  /\ Copy([Sym EXCEPT !.type = type])
         /\ \E params \in ParamsAfter(streams[stream], at) :
              Advance(1 + Skipped(params, getTypeData(user, type)))
  /\ lastGProcSym' = Len(copied) + 1

CopyVariable ==
  /\ At({"bprel"})
  /\ Copy([Sym EXCEPT !.type = translateType(user, @), !.name = WithoutScope(@)])
  /\ Advance(1) /\ UNCHANGED lastGProcSym

(* "this" tells which method the open procedure is.                        *)
CopyThis ==
  /\ At({"this"})
  /\ LET this == [Sym EXCEPT !.type = translateType(user, ThisType(Sym.type))]
     IN  copied' = Append(IF lastGProcSym = 0 THEN copied
                          ELSE [copied EXCEPT ![lastGProcSym].type =
                                  findMemberFunctionType(@, Sym.type)], this)
  /\ Advance(1) /\ UNCHANGED lastGProcSym

(* Blocks are written as variables by dmd; their ranges start with the     *)
(* procedure, S_BLOCK has the offset in the segment.                       *)
OpenBlock ==
  /\ At({"sblk"})
  /\ Copy([Sym EXCEPT !.kind = "block",
             !.offset = @ + IF lastGProcSym = 0 THEN 0 ELSE copied[lastGProcSym].offset])
  /\ Advance(1) /\ UNCHANGED lastGProcSym

CloseBlock ==
  /\ At({"send"})
  /\ Copy([Sym EXCEPT !.kind = "end"])
  /\ Advance(1) /\ UNCHANGED lastGProcSym

(* Mutant: the end of the arguments is taken for the end.                  *)
MutEnds == {"end", "endarg"}
Ends == {"end"}
CopyEnd ==
  /\ At({"end", "endarg"})
  /\ Copy(Sym) /\ Advance(1)
  /\ lastGProcSym' = IF Sym.kind \in Ends THEN 0 ELSE lastGProcSym

CopyTyped ==
  /\ At({"udt", "data", "constant"})
  /\ Copy([Sym EXCEPT !.type = translateType(user, @),
                      !.kind = IF @ = "udt" THEN "udt3" ELSE @])
  /\ Advance(1) /\ UNCHANGED lastGProcSym

CopyOther ==
  /\ At({"udt3", "block", "other"})
  /\ Copy(Sym) /\ Advance(1) /\ UNCHANGED lastGProcSym

Drop ==
  /\ At({"return", "align", "procref"})
  /\ Advance(1) /\ UNCHANGED <<copied, lastGProcSym>>

(* A stream ends at a symbol without an id.                                *)
NextStream ==
  /\ pc = "symbols" /\ stream \in DOMAIN streams
  /\ at \in DOMAIN streams[stream] => Sym.kind = "zero"
  /\ stream' = stream + 1 /\ at' = 1 /\ lastGProcSym' = 0
  /\ UNCHANGED <<pc, copied>>

WriteSymbols ==
  /\ pc = "symbols" /\ stream > Len(streams)
  /\ Goto("lines") /\ UNCHANGED symbolVars

SymbolsNext ==
  \/ CopyProc \/ CopyVariable \/ CopyThis \/ OpenBlock \/ CloseBlock
  \/ CopyEnd \/ CopyTyped \/ CopyOther \/ Drop \/ NextStream \/ WriteSymbols
=============================================================================
