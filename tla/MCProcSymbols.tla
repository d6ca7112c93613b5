--------------------------- MODULE MCProcSymbols ---------------------------
(***************************************************************************)
(* Units for ProcSymbols: frames as compilers set them up with every short *)
(* expression for a variable in them, procedures of many shapes, and code  *)
(* in one or several ranges.                                               *)
(***************************************************************************)
EXTENDS ProcSymbols

NoAttr == [form |-> "none", expr |-> <<>>, n |-> 0]
Expr(e) == [form |-> "expr", expr |-> e, n |-> 0]
Offset(n) == [form |-> "sec_offset", expr |-> <<>>, n |-> n]
Data(n) == [form |-> "const", expr |-> <<>>, n |-> n]

Op(op, reg, n) == [op |-> op, reg |-> reg, n |-> n]
Cfi(op, reg, n) == [op |-> op, reg |-> reg, n |-> n, expr |-> <<>>]
Entry(kind, a, b, expr) == [kind |-> kind, a |-> a, b |-> b, expr |-> expr]

New(tag) ==
  [tag |-> tag, hasChild |-> FALSE, sibling |-> 0, name |-> "", isDecl |-> FALSE,
   external |-> FALSE, is_artificial |-> FALSE, pclo |-> 0, pchi |-> 0, pcentry |-> 0,
   ranges |-> 0, location |-> NoAttr, frame_base |-> NoAttr]
Node(die, kids) ==
  IF kids = <<>> THEN <<die>> ELSE <<[die EXCEPT !.hasChild = TRUE]>> \o kids \o <<New("null")>>
WithSiblings(ds) ==
  [i \in DOMAIN ds |-> IF i > 1 /\ ds[i].hasChild
                         THEN [ds[i] EXCEPT !.sibling = EndOfLevel(ds, i + 1) + 1] ELSE ds[i]]

(* .text is from 16 to 32, the data behind it from 32 to 40.               *)
MCSections == <<[lo |-> 8, hi |-> 12], [lo |-> 16, hi |-> 32], [lo |-> 32, hi |-> 40]>>
Root(kids) ==
  Node([New("compile_unit") EXCEPT !.pclo = 16, !.pchi = 32], kids)
Sub(name, lo, hi, frame_base, kids) ==
  Node([New("subprogram") EXCEPT !.name = name, !.pclo = lo, !.pchi = hi,
                                 !.frame_base = frame_base], kids)
Var(tag, location) == <<[New(tag) EXCEPT !.name = "v", !.location = location]>>

-----------------------------------------------------------------------------
(* Frames of a procedure from 18 to 26 whose body is from 21 to 25.        *)
Cfa == Op("call_frame_cfa", 0, 0)

(* push ebp; mov ebp, esp; ...; leave; ret, with a rule for each step.     *)
EbpRules ==
  [lo |-> 18, hi |-> 26, initial |-> <<Cfi("def_cfa", 4, 4), Cfi("other", 8, 0)>>,
   program |-> <<Cfi("advance", 0, 1), Cfi("def_cfa_offset", 0, 8), Cfi("other", 5, 0),
                 Cfi("advance", 0, 2), Cfi("def_cfa_register", 5, 0),
                 Cfi("advance", 0, 4), Cfi("restore", 5, 0), Cfi("def_cfa", 4, 4)>>]
(* sub rsp, 24, and no return.                                             *)
RspRules ==
  [lo |-> 18, hi |-> 26, initial |-> <<Cfi("def_cfa", 7, 8)>>,
   program |-> <<Cfi("advance", 0, 1), Cfi("def_cfa_offset", 0, 32)>>]
OtherRules ==
  [lo |-> 16, hi |-> 18, initial |-> <<Cfi("def_cfa", 4, 4)>>, program |-> <<>>]

Breg(r, n) == <<Op("breg", r, n)>>
EbpList == <<Entry("pair", 2, 3, Breg(4, 4)), Entry("pair", 3, 5, Breg(4, 8)),
             Entry("pair", 5, 10, Breg(5, 8)), Entry("pair", 0, 0, <<>>)>>
EspList == <<Entry("base", 18, 0, <<>>), Entry("offset_pair", 0, 1, Breg(4, 4)),
             Entry("start_length", 19, 7, Breg(4, 20)), Entry("end", 0, 0, <<>>)>>

FrameOf(x64, version, frame_base, frames, lists) ==
  [x64 |-> x64, version |-> version, frame_base |-> frame_base, frames |-> frames,
   lists |-> lists]

(* A parameter may have its list: first in a register, then on the stack.  *)
ParamList(version, reg) ==
  IF version = 5
    THEN <<Entry("start_end", 18, 20, <<Op("reg", 0, 0)>>),
           Entry("start_end", 20, 26, Breg(reg, -8)), Entry("end", 0, 0, <<>>)>>
    ELSE <<Entry("pair", 2, 4, <<Op("reg", 0, 0)>>), Entry("pair", 4, 10, Breg(reg, -8))>>

Frames ==
  {FrameOf(FALSE, 4, Expr(<<Cfa>>), {EbpRules, OtherRules}, <<ParamList(4, 5)>>),
   FrameOf(FALSE, 4, Data(2), {}, <<ParamList(4, 5), EbpList>>),
   FrameOf(FALSE, 5, Expr(<<Op("reg", 5, 0)>>), {EbpRules}, <<ParamList(5, 4)>>),
   FrameOf(TRUE, 5, Expr(<<Cfa>>), {RspRules}, <<ParamList(5, 7)>>),
   FrameOf(FALSE, 5, Data(2), {OtherRules}, <<ParamList(5, 4), EspList>>)}

Ops == {Op("fbreg", 0, -12), Op("breg", 5, 8), Op("breg", 4, 4), Cfa, Op("reg", 0, 0),
        Op("lit", 0, 3), Op("lit", 0, 30), Op("const", 0, -2), Op("addr", 0, 36),
        Op("plus_uconst", 0, 4), Op("skip", 0, 1), Op("bra", 0, 1)}
       \cup {Op(op, 0, 0) : op \in {"plus", "minus", "mul", "div", "shr", "and", "neg", "dup",
                                    "drop", "swap", "over", "rot", "deref", "nop"}}

(* The expressions of at most three operations that have a meaning; it     *)
(* takes a beginning that has one.                                         *)
Begun(exprs) == {e \in exprs : \A env \in Anywhere : Run(e, env).ok}

Exprs ==
  LET one   == Begun({<<o>> : o \in Ops})
      two   == Begun({Append(e, o) : e \in one, o \in Ops})
      three == Begun({Append(e, o) : e \in two, o \in Ops})
  IN  {<<Op("reg", 0, 0)>>} \cup
      {e \in one \cup two \cup three : \A env \in Anywhere : Decodable(e, env)}

(* The first and the last address of the body.                             *)
Body == {21, 24}

InFrameOf(f, kids) ==
  [x64 |-> f.x64, version |-> f.version, frames |-> f.frames, lists |-> f.lists,
   body |-> Body, symtable |-> <<>>,
   dies |-> Root(Sub("p", 18, 26, f.frame_base, kids))]

(* In an image of 64 bits no addr, whose operand there has eight bytes.    *)
LocationUnits ==
  {InFrameOf(at[1], Var("formal_parameter", Offset(1)) \o Var("variable", Expr(at[2]))) :
     at \in {p \in Frames \X Exprs : p[1].x64 => \A i \in DOMAIN p[2] : p[2][i].op # "addr"}}

-----------------------------------------------------------------------------
(* Procedures of many shapes, in the first of the frames.                  *)
Fb == Expr(<<Op("fbreg", 0, -12)>>)
Coded == [New("lexical_block") EXCEPT !.pclo = 21, !.pchi = 23]

Items0 == {Var("variable", Fb), Var("variable", Expr(<<Op("reg", 0, 0)>>)),
           <<Coded>>, <<New("lexical_block")>>}
Items1 == Items0 \cup {Node(Coded, x) : x \in Items0}
                 \cup {Node(New("lexical_block"), Var("variable", Fb)),
                       Node(New("inlined_subroutine"), Var("variable", Fb))}
Items2 == Items1 \cup {Node(Coded, x \o y) : x \in Items1, y \in Items1}

Leading == {<<New("structure_type")>>, Var("formal_parameter", Fb),
            Var("formal_parameter", Fb) \o Var("formal_parameter", Expr(<<Op("addr", 0, 36)>>))}

(* Behind the procedure is another one, with a parameter of its own.       *)
Behind == Sub("q", 28, 30, Expr(<<Cfa>>), Var("formal_parameter", Fb) \o Var("variable", Fb))

Shaped(kids) ==
  [x64 |-> FALSE, version |-> 4, frames |-> {EbpRules}, lists |-> <<>>, body |-> Body,
   symtable |-> <<>>, dies |-> Root(Sub("p", 18, 26, Expr(<<Cfa>>), kids) \o Behind)]

Shapes == {Shaped(p \o x \o y) : p \in Leading, x \in Items2, y \in Items1}
ShapeUnits ==
  {[u EXCEPT !.dies = IF named THEN WithSiblings(@) ELSE @] : u \in Shapes, named \in BOOLEAN}

(* A procedure without DIEs below it.                                      *)
LeafUnits == {Shaped(<<>>)}

-----------------------------------------------------------------------------
(* Code in one or two ranges, the entry point at either's start, inside,   *)
(* or not given; subprograms that are declarations, artificial or without  *)
(* a name; global variables, here or in another unit.                      *)
RangeLists(version) ==
  IF version = 5
    THEN {<<Entry("offset_pair", 4, 8, <<>>), Entry("start_end", 26, 28, <<>>)>>,
          <<Entry("base", 18, 0, <<>>), Entry("start_length", 24, 4, <<>>),
            Entry("offset_pair", 0, 4, <<>>), Entry("end", 0, 0, <<>>), Entry("base", 0, 0, <<>>)>>}
    ELSE {<<Entry("pair", 4, 8, <<>>), Entry("pair", 9, 9, <<>>), Entry("pair", 10, 12, <<>>),
            Entry("pair", 0, 0, <<>>)>>,
          <<Entry("pair", 10, 12, <<>>), Entry("pair", 2, 6, <<>>)>>}

Globals ==
  Var("variable", Expr(<<Op("addr", 0, 36)>>)) \o Var("variable", Expr(<<Op("addr", 0, 9)>>))
    \o <<[New("variable") EXCEPT !.name = "e", !.external = TRUE],
         [New("variable") EXCEPT !.name = "none", !.external = TRUE]>>

Table == <<[name |-> "e", prefix |-> "__imp_", seg |-> 3, off |-> 2],
           [name |-> "e", prefix |-> "_", seg |-> 3, off |-> 4]>>

Scattered(ranges, entry) ==
  [New("subprogram") EXCEPT !.name = "p", !.ranges = ranges, !.pcentry = entry]
BlockOver == [New("lexical_block") EXCEPT !.ranges = 1]

Ranged(version, list, sub) ==
  [x64 |-> FALSE, version |-> version, frames |-> {}, lists |-> <<list>>, body |-> {},
   symtable |-> Table, dies |-> Root(sub \o Globals)]

RangeUnits ==
  UNION {LET scattered == {Scattered(1, e) : e \in {0, 20, 21, 26}}
             whole     == {[Scattered(0, e) EXCEPT !.pclo = 20, !.pchi = 28] : e \in {0, 20, 22}}
             flagged   == UNION {{[d EXCEPT !.isDecl = TRUE], [d EXCEPT !.is_artificial = TRUE],
                                  [d EXCEPT !.name = ""]} : d \in scattered}
         IN  {Ranged(v, list, Node(d, Node(BlockOver, Var("variable", Fb)))) :
                d \in scattered \cup whole \cup flagged, list \in RangeLists(v)} : v \in {4, 5}}

MCUnits == LocationUnits \cup ShapeUnits \cup RangeUnits

(* In the bodies of their procedures the frames stand, whether or not a    *)
(* DIE names its sibling.                                                  *)
ASSUME FramesAssumption ==
  \A u \in LocationUnits \cup Shapes \cup RangeUnits : Framed(u)
=============================================================================
