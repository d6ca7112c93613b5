---------------------------- MODULE ProcSymbols ----------------------------
(***************************************************************************)
(* The symbols of procedures and variables that createTypes makes of the   *)
(* DIEs of a unit (dwarf2pdb.cpp).  For a subprogram that has code,        *)
(* addDWARFProc goes over the DIEs below it twice: for the parameters, and *)
(* for the variables and lexical blocks, with a stack of cursors to go on  *)
(* from behind each block.                                                 *)
(*                                                                         *)
(* A DIE is a record [tag, hasChild, sibling, name ("": none), isDecl,     *)
(* external, is_artificial, pclo, pchi, pcentry, ranges (0: none),         *)
(* location, frame_base]; the last two are attributes [form, expr, n].     *)
(* What it takes over from an abstract origin or a specification is there  *)
(* already.  Addresses are those of the image, and those of symbols are    *)
(* relative to codeSegOff.  Types are not modelled here.                   *)
(***************************************************************************)
EXTENDS DieCursor, DebugLists, CallFrames

CONSTANTS
  Units,      \* what the units may hold (see Unit)
  codeSegOff, \* image base and address of .text
  Sections    \* the addresses of the image's sections

Attribute ==
  [form : {"none", "const", "expr", "sec_offset"}, expr : Seq(Operation), n : Int]
Die == [tag : STRING, hasChild : BOOLEAN, sibling : Nat, name : STRING,
        isDecl : BOOLEAN, external : BOOLEAN, is_artificial : BOOLEAN,
        pclo : Nat, pchi : Nat, pcentry : Nat, ranges : Nat,
        location : Attribute, frame_base : Attribute]
Symbol == [name : STRING, prefix : STRING, seg : Nat, off : Nat]
Unit == [x64 : BOOLEAN, version : 2 .. 5, dies : Seq(Die), lists : Seq(Seq(ListEntry)),
         frames : SUBSET Frame, symtable : Seq(Symbol), body : SUBSET Nat]

(* The list that an offset names.                                          *)
ListIn(u, n) == IF n = 0 THEN <<>> ELSE u.lists[n]

(* The addresses that a DIE's code may have, and those it has.             *)
Addresses == 0 .. Max({0} \cup {Sections[s].hi : s \in DOMAIN Sections})
BaseOf(u) == u.dies[1].pclo
EntriesFor(u, list, a) == EntriesAt(u.version, BaseOf(u), list, a)

CodeIn(u, die) ==
  IF die.pclo # 0 THEN die.pclo .. die.pchi - 1
  ELSE {a \in Addresses : EntriesFor(u, ListIn(u, die.ranges), a) # {}}

(* A list of ranges: in the sections, from .text on, no address twice, and *)
(* no change of the base before version 5, which RangeCursor passes over.  *)
SpanOf(u, list, i) == EntrySpan(list[i], BasesAt(u.version, BaseOf(u), list)[i])
RangesFit(u, list) ==
  LET spans == {i \in DOMAIN Listed(list) : list[i].kind # "base"}
  IN  /\ \A i \in DOMAIN Listed(list) :
           list[i].kind \in IF u.version < 5 THEN {"pair"}
                            ELSE {"base", "offset_pair", "start_end", "start_length"}
      /\ \A i \in spans :
           LET s == SpanOf(u, list, i)
           IN  codeSegOff <= s.lo /\ s.lo <= s.hi /\ s.lo .. s.hi - 1 \subseteq Addresses
      /\ \A i, j \in spans :
           i < j => \/ SpanOf(u, list, i).hi <= SpanOf(u, list, j).lo
                    \/ SpanOf(u, list, j).hi <= SpanOf(u, list, i).lo

(* A DIE has its code from one address to another, or in ranges.           *)
CodeFits(u, die) ==
  /\ IF die.pclo # 0
       THEN /\ codeSegOff <= die.pclo /\ die.ranges = 0
            /\ die.pchi = 0 \/ die.pclo <= die.pchi
       ELSE die.pchi = 0
  /\ die.ranges \in {0} \cup DOMAIN u.lists /\ RangesFit(u, ListIn(u, die.ranges))
  /\ die.pcentry # 0 => die.pcentry \in CodeIn(u, die)

(* Two processes are enough to tell two places apart, if no two registers  *)
(* hold the same in them.                                                  *)
Processes == {[r \in 0 .. 63 |-> 1000 + 17 * r], [r \in 0 .. 63 |-> 3000 + 41 * r]}
Anywhere == {[reg |-> p, frameBase |-> 500, cfa |-> 700, memory |-> 7] : p \in Processes}

(* An expression names a register, or computes a value that decodeLocation *)
(* can find without a process.                                             *)
IsRegister(expr) == Len(expr) = 1 /\ expr[1].op = "reg"
HasValue(expr) == IsRegister(expr) \/ \A env \in Anywhere : Decodable(expr, env)
HasAddress(expr) ==
  IsRegister(expr) \/ \A env \in Anywhere :
                       Decodable(expr, env) /\ Leaves(expr, env).addr
LocationsFit(u, n) ==
  /\ n \in {0} \cup DOMAIN u.lists
  /\ \A i \in LocationsRead(ListIn(u, n)) : HasValue(ListIn(u, n)[i].expr)

ExpressionsFit(u, die) ==
  /\ die.location.form = "expr" => HasValue(die.location.expr)
  /\ die.location.form = "sec_offset" => LocationsFit(u, die.location.n)
  /\ die.frame_base.form = "expr" => HasAddress(die.frame_base.expr)
  /\ die.frame_base.form \in {"const", "sec_offset"} => LocationsFit(u, die.frame_base.n)

FrameFits(f) ==
  /\ f.lo <= f.hi
  /\ \A program \in {f.initial, f.program} : \A i \in DOMAIN program :
       program[i].op \in {"def_cfa_expression", "expression"} => HasValue(program[i].expr)

(* What compilers write: the root is the unit, and the only one.           *)
ASSUME UnitsAssumption ==
  /\ codeSegOff \in Nat \ {0}
  /\ Sections \in Seq([lo : Nat, hi : Nat])
  /\ \A u \in Units :
       /\ u \in Unit /\ WellNested(u.dies)
       /\ \A i \in DOMAIN u.dies :
            /\ u.dies[i].tag = "compile_unit" <=> i = 1
            /\ u.dies[i].tag \in {"subprogram", "lexical_block"} => CodeFits(u, u.dies[i])
            /\ ExpressionsFit(u, u.dies[i])
       /\ \A f \in u.frames : FrameFits(f)

VARIABLES
  unit,          \* the unit: x64, version, dies, lists, frames, symtable
  pc,            \* "scan", "params", "blocks", "sepcode" or "done"
  cursor,        \* of createTypes
  base_address,  \* of the unit
  proc,          \* the procedure that addDWARFProc is at
  scan,          \* addDWARFProc's cursor
  lexicalBlocks, \* where to go on when the DIEs before scan end
  symbols,       \* udtSymbols
  publics        \* what AddPublic2 was called for

vars == <<unit, pc, cursor, base_address, proc, scan, lexicalBlocks, symbols, publics>>

dies == unit.dies
Null == 0
NoProc == [die |-> 0, ranges |-> <<>>, frameBase |-> Unusable, cfa |-> Unusable]
Start == [ptr |-> 1, level |-> 0, prevHasChild |-> FALSE, sibling |-> 0]

ListOf(n) == ListIn(unit, n)

-----------------------------------------------------------------------------
(* Registers, by their CodeView numbers: 0 is CV_REG_NONE.                 *)
dwarf_to_x86_reg(r) ==
  CASE r \in 0 .. 7   -> 17 + r
    [] r \in 8 .. 9   -> 25 + r
    [] r \in 10 .. 15 -> <<26, 27, 28, 25, 29, 30>>[r - 9]
    [] r \in 16 .. 23 -> 112 + r
    [] r \in 32 .. 39 -> 122 + r
    [] OTHER -> 0

dwarf_to_amd64_reg(r) ==
  CASE r \in 0 .. 7   -> <<328, 331, 330, 329, 332, 333, 334, 335>>[r + 1]
    [] r \in 8 .. 15  -> 328 + r
    [] r = 16 -> 31
    [] r = 49 -> 34
    [] r \in 50 .. 55 -> <<25, 26, 27, 28, 29, 30>>[r - 49]
    [] r \in 17 .. 24 -> 137 + r
    [] r \in 25 .. 32 -> 227 + r
    [] r \in 33 .. 40 -> 95 + r
    [] OTHER -> 0

CvReg(r) == IF unit.x64 THEN dwarf_to_amd64_reg(r) ELSE dwarf_to_x86_reg(r)

-----------------------------------------------------------------------------
(* The symbols.  A symbol keeps the DIE it was made for.                   *)

Proc(d, r)  == [kind |-> "S_GPROC", die |-> d, lo |-> r.lo - codeSegOff,
                hi |-> r.hi - codeSegOff]
Block(d, r) == [kind |-> "S_BLOCK", die |-> d, lo |-> r.lo - codeSegOff,
                hi |-> r.hi - codeSegOff]
SepCode(d, r) == [kind |-> "S_SEPCODE", die |-> d, lo |-> r.lo - codeSegOff,
                  hi |-> r.hi - codeSegOff]
EndArg == [kind |-> "S_ENDARG"]
End    == [kind |-> "S_END"]

(* appendStackVar: S_BPREL is the one for ebp.                             *)
OnFrame(loc, cfa) ==
  IF loc.reg = DW_REG_CFA THEN mkRegRel(cfa.reg, loc.off + cfa.off) ELSE loc

StackVar(d, loc, cfa) ==
  LET at == OnFrame(loc, cfa)
  IN  IF CvReg(at.reg) = 0 THEN <<>>
      ELSE <<[kind |-> IF CvReg(at.reg) = 22 THEN "S_BPREL" ELSE "S_REGREL",
              die |-> d, reg |-> CvReg(at.reg), off |-> at.off]>>

(* Where the DIE's variable is in the frame of a procedure.                *)
PlaceOf(die, frameBase) ==
  IF die.location.form = "sec_offset"
    THEN findBestFBLoc(unit.x64, ListOf(die.location.n))
    ELSE decodeLocation(die.location, frameBase)

VarOf(d, p) ==
  LET loc == PlaceOf(dies[d], p.frameBase)
  IN  IF IsRegRel(loc) THEN StackVar(d, loc, p.cfa) ELSE <<>>

(* img.findSection, and the offset in there.                               *)
SectionAt(a) == {s \in DOMAIN Sections : Sections[s].lo <= a /\ a < Sections[s].hi}

(* findSymbol: the last symbol of the first spelling there is.             *)
Spellings == <<"", "_", "__imp_", "__imp__">>
Spelled(name, k) ==
  {i \in DOMAIN unit.symtable :
     unit.symtable[i].prefix = Spellings[k] /\ unit.symtable[i].name = name}
FindSymbol(name) ==
  LET ks == {k \in DOMAIN Spellings : Spelled(name, k) # {}}
  IN  IF ks = {} THEN <<>> ELSE <<unit.symtable[Max(Spelled(name, Min(ks)))]>>

(* Mutant: every offset is relative to the code.                           *)
MutOffsetIn(s, a) == a - codeSegOff
OffsetIn(s, a) == a - Sections[s].lo

(* The section and offset of a global variable, if it has one.             *)
GlobalAt(die) ==
  LET loc == decodeLocation(die.location, Unusable)
      in  == SectionAt(loc.off)
  IN  IF die.location.form = "none" /\ die.external
      THEN [i \in DOMAIN FindSymbol(die.name) |->
              [seg |-> FindSymbol(die.name)[i].seg, off |-> FindSymbol(die.name)[i].off]]
      ELSE IF IsAbs(loc) /\ in # {}
      THEN <<[seg |-> Min(in), off |-> OffsetIn(Min(in), loc.off)]>>
      ELSE <<>>

-----------------------------------------------------------------------------
(* createTypes: the cursor reads every DIE of the unit.                    *)

Read == readNext(dies, cursor, FALSE)

(* decodeLocation(procid.frame_base): a number is the offset of a list.    *)
FrameBaseOf(die) ==
  LET loc == decodeLocation(die.frame_base, Unusable)
  IN  IF IsAbs(loc) THEN findBestFBLoc(unit.x64, ListOf(loc.off)) ELSE loc

Code(d) == getRanges(base_address, dies[d], ListOf(dies[d].ranges))

Init ==
  /\ unit \in Units
  /\ pc = "scan"
  /\ cursor = Start
  /\ base_address = 0
  /\ proc = NoProc
  /\ scan = Start
  /\ lexicalBlocks = <<>>
  /\ symbols = <<>>
  /\ publics = <<>>

ReadCompileUnit ==
  /\ pc = "scan" /\ Read.die # Null /\ dies[Read.die].tag = "compile_unit"
  /\ cursor' = Read.cursor
  /\ base_address' = dies[Read.die].pclo
  /\ UNCHANGED <<unit, pc, proc, scan, lexicalBlocks, symbols, publics>>

(* The public symbol, and the start of addDWARFProc.                       *)
ReadSubprogram ==
  /\ pc = "scan" /\ Read.die # Null /\ dies[Read.die].tag = "subprogram"
  /\ cursor' = Read.cursor
  /\ LET d    == Read.die
         has  == dies[d].name # "" /\ Code(d) # <<>>
         made == has /\ ~dies[d].isDecl
     IN  /\ publics' = IF has /\ ~dies[d].is_artificial
                         THEN Append(publics, [die |-> d, off |-> Code(d)[1].lo - codeSegOff])
                         ELSE publics
         /\ IF made
              THEN /\ pc' = "params"
                   /\ proc' = [die |-> d, ranges |-> Code(d),
                               frameBase |-> FrameBaseOf(dies[d]),
                               cfa |-> findBestCFA(unit.x64, unit.frames,
                                                   dies[d].pclo, dies[d].pchi)]
                   /\ scan' = Read.cursor
                   /\ symbols' = Append(symbols, Proc(d, Code(d)[1]))
              ELSE UNCHANGED <<pc, proc, scan, symbols>>
  /\ UNCHANGED <<unit, base_address, lexicalBlocks>>

ReadVariable ==
  /\ pc = "scan" /\ Read.die # Null /\ dies[Read.die].tag = "variable"
  /\ cursor' = Read.cursor
  /\ LET d  == Read.die
         at == IF dies[d].name = "" THEN <<>> ELSE GlobalAt(dies[d])
     IN  /\ symbols' = symbols \o [i \in DOMAIN at |->
                         [kind |-> "S_GDATA", die |-> d, seg |-> at[i].seg, off |-> at[i].off]]
         /\ publics' = publics \o [i \in DOMAIN at |-> [die |-> d, off |-> at[i].off]]
  /\ UNCHANGED <<unit, pc, base_address, proc, scan, lexicalBlocks>>

ReadOther ==
  /\ pc = "scan" /\ Read.die # Null
  /\ dies[Read.die].tag \notin {"compile_unit", "subprogram", "variable"}
  /\ cursor' = Read.cursor
  /\ UNCHANGED <<unit, pc, base_address, proc, scan, lexicalBlocks, symbols, publics>>

EndUnit ==
  /\ pc = "scan" /\ Read.die = Null
  /\ pc' = "done"
  /\ UNCHANGED <<unit, cursor, base_address, proc, scan, lexicalBlocks, symbols, publics>>

-----------------------------------------------------------------------------
(* addDWARFProc.                                                           *)

IsParameter(die) ==
  /\ die.tag = "formal_parameter" /\ die.name # ""
  /\ die.location.form \in {"expr", "sec_offset"}

ReadParameter ==
  /\ pc = "params"
  /\ LET r == readNext(dies, scan, TRUE)
     IN  /\ r.die # Null
         /\ scan' = r.cursor
         /\ symbols' = IF IsParameter(dies[r.die]) THEN symbols \o VarOf(r.die, proc)
                       ELSE symbols
  /\ UNCHANGED <<unit, pc, cursor, base_address, proc, lexicalBlocks, publics>>

(* The cursor goes back to the start of the procedure.                     *)
EndParameters ==
  /\ pc = "params" /\ readNext(dies, scan, TRUE).die = Null
  /\ pc' = "blocks"
  /\ scan' = cursor
  /\ lexicalBlocks' = <<>>
  /\ symbols' = Append(symbols, EndArg)
  /\ UNCHANGED <<unit, cursor, base_address, proc, publics>>

(* The code of a block: all its ranges are in it, and what is between.     *)
BlockRange(die) ==
  LET read == RangesRead(base_address, ListOf(die.ranges))
  IN  IF die.ranges = 0 THEN [lo |-> die.pclo, hi |-> die.pchi]
      ELSE IF read = <<>> THEN [lo |-> 0, hi |-> 0]
      ELSE [lo |-> Min({read[i].lo : i \in DOMAIN read}),
            hi |-> Max({read[i].hi : i \in DOMAIN read})]

IsScope(die) ==
  die.tag = "lexical_block" /\ die.hasChild /\ BlockRange(die).hi > BlockRange(die).lo

IsLocal(die) ==
  die.tag = "variable" /\ die.name # "" /\ die.location.form = "expr"

Subtree(c) == [c EXCEPT !.level = IF c.prevHasChild THEN 0 ELSE -1, !.prevHasChild = FALSE]

(* Mutant: reading goes on where the block began.                          *)
MutAfterBlock(c) == c
AfterBlock(c) == gotoSibling(dies, c)

InBlocks == readNext(dies, scan, FALSE)

EnterBlock ==
  /\ pc = "blocks" /\ InBlocks.die # Null /\ IsScope(dies[InBlocks.die])
  /\ symbols' = Append(symbols, Block(InBlocks.die, BlockRange(dies[InBlocks.die])))
  /\ lexicalBlocks' = <<AfterBlock(InBlocks.cursor)>> \o lexicalBlocks
  /\ scan' = Subtree(InBlocks.cursor)
  /\ UNCHANGED <<unit, pc, cursor, base_address, proc, publics>>

ReadLocal ==
  /\ pc = "blocks" /\ InBlocks.die # Null /\ ~IsScope(dies[InBlocks.die])
  /\ symbols' = IF IsLocal(dies[InBlocks.die]) THEN symbols \o VarOf(InBlocks.die, proc)
                ELSE symbols
  /\ scan' = gotoSibling(dies, InBlocks.cursor)
  /\ UNCHANGED <<unit, pc, cursor, base_address, proc, lexicalBlocks, publics>>

EndScope ==
  /\ pc = "blocks" /\ InBlocks.die = Null
  /\ symbols' = Append(symbols, End)
  /\ IF lexicalBlocks = <<>> THEN pc' = "sepcode" /\ UNCHANGED <<scan, lexicalBlocks>>
     ELSE scan' = lexicalBlocks[1] /\ lexicalBlocks' = Tail(lexicalBlocks) /\ UNCHANGED pc
  /\ UNCHANGED <<unit, cursor, base_address, proc, publics>>

(* The code of the procedure that is not behind its entry point.           *)
(* Mutant: the first of these ranges is left out.                          *)
MutOthers(ranges) == SubSeq(ranges, 3, Len(ranges))
Others(ranges) == Tail(ranges)

SepCodes(d, ranges) ==
  [k \in 1 .. 2 * Len(ranges) |->
     IF k % 2 = 1 THEN SepCode(d, ranges[(k + 1) \div 2]) ELSE End]

EndProc ==
  /\ pc = "sepcode"
  /\ pc' = "scan"
  /\ symbols' = symbols \o SepCodes(proc.die, Others(proc.ranges))
  /\ UNCHANGED <<unit, cursor, base_address, proc, scan, lexicalBlocks, publics>>

Next ==
  \/ ReadCompileUnit \/ ReadSubprogram \/ ReadVariable \/ ReadOther \/ EndUnit
  \/ ReadParameter \/ EndParameters
  \/ EnterBlock \/ ReadLocal \/ EndScope \/ EndProc

Spec == Init /\ [][Next]_vars
-----------------------------------------------------------------------------
(* What a unit says, by the DWARF standard and the nesting of its DIEs.    *)

CodeOf(die) == CodeIn(unit, die)

EntryOf(die) ==
  IF die.pcentry # 0 THEN die.pcentry
  ELSE IF die.pclo # 0 THEN die.pclo
  ELSE LET read == RangesRead(BaseOf(unit), ListOf(die.ranges))
       IN  read[Min({i \in DOMAIN read : read[i].lo < read[i].hi})].lo

DefinedIn(u, d) ==
  /\ u.dies[d].tag = "subprogram" /\ u.dies[d].name # "" /\ ~u.dies[d].isDecl
  /\ CodeIn(u, u.dies[d]) # {}

ProcOf(u, d) == Max({0} \cup {p \in Around(u.dies, d) : u.dies[p].tag = "subprogram"})

FramesAt(u, pcx) == {f \in u.frames : f.lo <= pcx /\ pcx < f.hi}
CfaAt(u, pcx, process) ==
  LET at   == FramesAt(u, pcx)
      rule == IF at = {} THEN DefaultCFA(u.x64) ELSE RuleAt(CHOOSE f \in at : TRUE, pcx)
  IN  process[rule.reg] + rule.off

(* The expression of an attribute that is for an address, or none.         *)
ExprsAt(u, attr, pcx) ==
  CASE attr.form = "expr" -> {attr.expr}
    [] attr.form = "none" -> {}
    [] OTHER -> {ListIn(u, attr.n)[i].expr : i \in EntriesFor(u, ListIn(u, attr.n), pcx)}

BareEnvAt(u, pcx, process) ==
  [reg |-> process, frameBase |-> 0, cfa |-> CfaAt(u, pcx, process), memory |-> 7]

FrameBaseAt(u, p, pcx, process) ==
  LET exprs == ExprsAt(u, u.dies[p].frame_base, pcx)
      expr  == CHOOSE e \in exprs : TRUE
  IN  IF exprs = {} THEN 0
      ELSE IF expr[1].op = "reg" THEN process[expr[1].reg]
      ELSE Meaning(expr, BareEnvAt(u, pcx, process))

EnvAt(u, p, pcx, process) ==
  [BareEnvAt(u, pcx, process) EXCEPT !.frameBase = FrameBaseAt(u, p, pcx, process)]

(* The DIEs of a procedure, where addDWARFProc reads only those: there are *)
(* some, the parameters in front of the first null entry are its own, and  *)
(* behind a nested procedure there are no blocks, and no variables but     *)
(* those at a fixed address.                                               *)
OwnDies(u, p) ==
  /\ u.dies[p].hasChild
  /\ \A i \in p + 1 .. Len(u.dies) :
       LET die == u.dies[i]
       IN  /\ IsParameter(die) /\ (\A j \in p + 1 .. i : ~IsNull(u.dies[j]))
                => ParentOf(u.dies, i) = p
           /\ ParentOf(u.dies, i) \in Around(u.dies, p) =>
                /\ ~(die.tag = "lexical_block" /\ die.hasChild)
                /\ IsLocal(die) => Len(die.location.expr) = 1 /\ die.location.expr[1].op = "addr"

(* Where one expression of an attribute is taken for all of a procedure,   *)
(* it is the one that is for this address.                                 *)
AttributeStands(u, attr, pcx, env) ==
  LET list  == ListIn(u, attr.n)
      best  == BestEntry(u.x64, list)
      stands(expr) == IsRegister(expr) \/ Decodable(expr, env)
  IN  CASE attr.form = "none" -> TRUE
        [] attr.form = "expr" -> stands(attr.expr)
        [] OTHER -> /\ best # 0 /\ ExprsAt(u, attr, pcx) = {list[best].expr}
                    /\ stands(list[best].expr)

(* The frame of a procedure is set up at an address in it.                 *)
Variables(u, p) ==
  {d \in DOMAIN u.dies : (IsLocal(u.dies[d]) \/ IsParameter(u.dies[d])) /\ ProcOf(u, d) = p}

SetUp(u, p, variables, pcx) ==
  /\ u.dies[p].pclo # 0
  /\ \A f \in FramesAt(u, pcx) :
       f.lo = u.dies[p].pclo /\ u.dies[p].pchi <= f.hi /\ FrameStands(f, pcx)
  /\ \A process \in Processes :
       LET env == EnvAt(u, p, pcx, process)
       IN  /\ AttributeStands(u, u.dies[p].frame_base, pcx, BareEnvAt(u, pcx, process))
           /\ \A d \in variables : AttributeStands(u, u.dies[d].location, pcx, env)

Framed(u) ==
  /\ \A f \in u.frames : f.lo < f.hi
  /\ \A f, g \in u.frames : f # g => f.hi <= g.lo \/ g.hi <= f.lo
  /\ \A p \in DOMAIN u.dies : DefinedIn(u, p) =>
       LET variables == Variables(u, p)
       IN  /\ OwnDies(u, p)
           /\ \A pcx \in u.body \cap CodeIn(u, u.dies[p]) : SetUp(u, p, variables, pcx)

-----------------------------------------------------------------------------
Stacked == {"S_BPREL", "S_REGREL"}
Scoped  == {"S_GPROC", "S_BLOCK"}
OfKind(kinds) == {k \in DOMAIN symbols : symbols[k].kind \in kinds}
For(d, kinds) == {k \in OfKind(kinds) : symbols[k].die = d}

(* The number of scopes that are open after each symbol.                   *)
Depths ==
  LET change(s) == IF s.kind \in Scoped \cup {"S_SEPCODE"} THEN 1
                   ELSE IF s.kind = "S_END" THEN -1 ELSE 0
      depth[k \in 0 .. Len(symbols)] ==
        IF k = 0 THEN 0 ELSE depth[k - 1] + change(symbols[k])
  IN  depth

(* The symbol of the scope that a symbol is in.                            *)
ScopeOf(depth, k) ==
  Max({0} \cup {j \in OfKind(Scoped) : j < k /\ depth[j] = depth[k - 1]
                                      /\ \A i \in j .. k - 1 : depth[i] >= depth[j]})

TypeOK ==
  /\ pc \in {"scan", "params", "blocks", "sepcode", "done"}
  /\ cursor \in Cursor /\ scan \in Cursor
  /\ base_address \in Nat
  /\ proc.die \in 0 .. Len(dies)
  /\ pc \in {"params", "blocks", "sepcode"} =>
       proc.ranges # <<>> /\ {proc.frameBase, proc.cfa} \subseteq Location
  /\ \A k \in DOMAIN lexicalBlocks : lexicalBlocks[k] \in Cursor
  /\ \A k \in OfKind({"S_GPROC", "S_BLOCK", "S_SEPCODE"}) :
       symbols[k].lo \in Nat /\ symbols[k].hi \in Nat /\ symbols[k].lo < symbols[k].hi
  /\ \A k \in DOMAIN publics : publics[k].off \in Nat

(* A procedure in the PDB is what the DIEs below its own say: a scope for  *)
(* every block with code and DIEs, and the variables of the stack where    *)
(* they are declared, in that order and behind the parameters; every scope *)
(* is closed, and nothing is in two places (addDWARFProc, lexicalBlocks).  *)
Expected(d) ==
  \/ IsScope(dies[d])
  \/ /\ IsLocal(dies[d]) \/ (IsParameter(dies[d]) /\ dies[ParentOf(dies, d)].tag = "subprogram")
     /\ LET p == ProcOf(unit, d)
        IN  VarOf(d, [frameBase |-> FrameBaseOf(dies[p]),
                      cfa |-> findBestCFA(unit.x64, unit.frames, dies[p].pclo, dies[p].pchi)])
              # <<>>

ScopesMirrorBlocks ==
  pc = "done" =>
    LET depth == Depths
        below == OfKind(Stacked \cup {"S_BLOCK"})
        scope == [k \in below |-> ScopeOf(depth, k)]
    IN  /\ depth[Len(symbols)] = 0 /\ \A k \in DOMAIN symbols : depth[k] >= 0
        /\ \A k \in below : /\ scope[k] # 0
                             /\ symbols[scope[k]].die = ParentOf(dies, symbols[k].die)
        /\ \A d \in DOMAIN dies :
             Cardinality(For(d, Stacked \cup {"S_BLOCK"})) =
               Truth(ParentOf(dies, d) # 0 /\ For(ParentOf(dies, d), Scoped) # {} /\ Expected(d))
        /\ \A j, k \in below :
             j < k /\ scope[j] = scope[k] =>
               \/ IsParameter(dies[symbols[j].die]) /\ ~IsParameter(dies[symbols[k].die])
               \/ /\ symbols[j].die < symbols[k].die
                  /\ IsParameter(dies[symbols[k].die]) => IsParameter(dies[symbols[j].die])

(* Every procedure with code has one symbol, that starts at its entry      *)
(* point and has, with the parts that follow it, all its code and each     *)
(* address once; the public symbol is at the entry, and a block has all    *)
(* its code (getRanges, RangeCursor, the sepcodes of addDWARFProc).        *)
CodeCovered ==
  pc = "done" =>
    /\ \A d \in DOMAIN dies :
         Cardinality(For(d, {"S_GPROC"})) = Truth(DefinedIn(unit, d))
    /\ \A k \in OfKind({"S_GPROC"}) :
         LET d == symbols[k].die
         IN  /\ symbols[k].lo = EntryOf(dies[d]) - codeSegOff
             /\ \A a \in Addresses :
                  Cardinality({j \in For(d, {"S_GPROC", "S_SEPCODE"}) :
                                 symbols[j].lo + codeSegOff <= a /\ a < symbols[j].hi + codeSegOff})
                    = Truth(a \in CodeOf(dies[d]))
    /\ \A k \in DOMAIN publics :
         dies[publics[k].die].tag = "subprogram" =>
           publics[k].off = EntryOf(dies[publics[k].die]) - codeSegOff
    /\ \A k \in OfKind({"S_BLOCK"}) :
         CodeOf(dies[symbols[k].die]) \subseteq
           symbols[k].lo + codeSegOff .. symbols[k].hi + codeSegOff - 1

(* While a procedure's frame is set up, the register and the offset of a   *)
(* variable's symbol are its address in every process: the expression, the *)
(* frame base and the rule of the canonical frame address, each chosen     *)
(* once for all of the procedure, are put together right (decodeLocation,  *)
(* findBestFBLoc, findBestCFA, appendStackVar).                            *)
VariablesWhereDwarfSays ==
  pc = "done" =>
    \A k \in OfKind(Stacked) :
      LET s == symbols[k]
          p == ProcOf(unit, s.die)
          reg == CHOOSE r \in 0 .. 63 : CvReg(r) = s.reg
      IN  \A pcx \in unit.body \cap CodeOf(dies[p]), process \in Processes :
            LET env == EnvAt(unit, p, pcx, process)
            IN  \E expr \in ExprsAt(unit, dies[s.die].location, pcx) :
                  HasMeaning(expr, env) /\ process[reg] + s.off = Meaning(expr, env)

(* "First, collect all the formal parameters of the proc": the parameters  *)
(* of a procedure's symbol are its own (addDWARFProc).                     *)
ParametersOfTheProc ==
  pc = "params" =>
    \A k \in OfKind(Stacked) :
      k > Max(OfKind({"S_GPROC"})) => ParentOf(dies, symbols[k].die) = proc.die
=============================================================================
