------------------------------ MODULE MCCodeView ------------------------------
(***************************************************************************)
(* Images for CodeView: classes and their lists in any order, the types    *)
(* only D has, symbols of two procedures, and lines.                       *)
(***************************************************************************)
EXTENDS CodeView

F(leaf, version, type, name) ==
  [leaf |-> leaf, version |-> version, type |-> type, offset |-> 0, name |-> name]
T(kind, refs) == [Blank EXCEPT !.kind = kind, !.refs = refs]
Class(kind, name, list, props) ==
  [Blank EXCEPT !.kind = kind, !.name = name, !.list = list, !.size = 8, !.props = props]
List(fields) == [Blank EXCEPT !.kind = "fieldlist", !.fields = fields]
Id(j) == BASE_USER_TYPE + j - 1
Sy(kind, type, offset, length, name) ==
  [kind |-> kind, type |-> type, offset |-> offset, length |-> length, name |-> name]
Udt(type, name) == Sy("udt", type, 0, 0, name)

EmptyImage ==
  [tables |-> 1, types |-> <<>>, version |-> 2068, vs |-> 10, x64 |-> FALSE,
   typedefEnum |-> FALSE,
   align |-> <<>>, static |-> <<>>, global |-> <<>>, segs |-> <<>>, modules |-> <<>>,
   blocks |-> <<>>, publics |-> <<>>]

-----------------------------------------------------------------------------
(* A class A and one that may derive from it, with their lists before or   *)
(* behind them, after a list of methods.                                   *)
OwnMembers ==
  {<<>>, <<F("method", 1, Id(1), <<"m">>), F("member", 1, 116, <<"x">>)>>,
   <<F("friendfcn", 1, 0, <<"g">>), F("nesttype", 1, Id(4), <<"B">>)>>}

Hierarchy(order, kindA, kindB, nameA, membersA, derived, intro) ==
  LET listA == List(membersA)
      listB == List((IF derived THEN <<F("bclass", 1, Id(2), <<>>)>> ELSE <<>>)
                    \o <<F("member", 1, 116, <<"y">>)>>)
      methods == [T("methodlist", <<>>) EXCEPT !.attr = intro]
      A(list) == Class(kindA, nameA, Id(list), {})
      B(list) == Class(kindB, <<"B">>, Id(list), {})
  IN  CASE order = "last"   -> <<methods, A(5), T("pointer", <<Id(2)>>), B(6), listA, listB>>
        [] order = "behind" -> <<methods, A(3), listA, B(5), listB>>
        [] order = "before" -> <<methods, A(5), listB, B(3), listA>>

Classes ==
  {[EmptyImage EXCEPT !.types = types_, !.version = v, !.vs = vs] :
     types_ \in {Hierarchy(o, ka, kb, n, m, d, x) :
                   o \in {"last", "behind", "before"},
                   ka \in {"struct", "class"}, kb \in {"struct", "class"},
                   n \in {<<"A">>, ObjectName}, m \in OwnMembers, d \in BOOLEAN,
                   x \in {0, 1}},
     v \in {0, 2068}, vs \in {10, 14}}

(* The types only D has, over a class that may just be declared, an array  *)
(* and a typedef'd basic type; a symbol of the file may name some already. *)
DElements == {16, 117, 19, Id(1), Id(2)}
DTypes ==
  {<<Class("class", <<"C">>, IF inc THEN 0 ELSE Id(3), IF inc THEN {"incomplete"} ELSE {}),
     T("array", <<116, 34>>), List(<<>>), T("procedure", <<116, 0>>),
     T(k, IF k = "delegate" THEN <<IF e = 16 THEN 1027 ELSE 1040, Id(4)>> ELSE <<e, f>>),
     T("pointer", <<Id(5)>>), T("enum", <<116>>), T("oem", <<1, 116>>)>> :
     inc \in BOOLEAN, k \in {"dynarray", "assoc", "delegate", "modifier"},
     e \in DElements, f \in DElements}

OemImages ==
  {[EmptyImage EXCEPT !.types = types_, !.version = v, !.vs = vs, !.typedefEnum = vs = 14,
      !.static = udts] :
     types_ \in DTypes, v \in {0, 2000, 2043, 2068}, vs \in {10, 14},
     udts \in {<<>>, <<Udt(Id(1), <<"C">>)>>}}

-----------------------------------------------------------------------------
(* Two procedures with stack symbols and blocks, the first with a "this"   *)
(* in front of its arguments, behind them, or both; methods whose return   *)
(* type, class, convention or arguments fit it or do not.  The second may  *)
(* end early, and have symbols behind the end of the stream.               *)
MethodTypes ==
  {<<[T("procedure", <<116, Id(5)>>) EXCEPT !.params = n],
     T("pointer", <<Id(3)>>), Class("class", <<"C">>, Id(4), {}), List(<<>>),
     T("arglist", <<116>>), [T("mfunction", first[1]) EXCEPT !.attr = first[2]],
     T("mfunction", <<116, Id(3), Id(2), args>>), T("pointer", <<116>>), T("arglist", <<>>)>> :
     n \in 0 .. 2, args \in {Id(5), Id(9)},
     first \in {<<<<116, Id(3), Id(2), Id(5)>>, 0>>, <<<<116, Id(3), Id(2), Id(5)>>, 1>>,
                <<<<34, Id(3), Id(2), Id(5)>>, 0>>, <<<<116, Id(8), Id(8), Id(5)>>, 0>>}}

Local(offset, name) == Sy("bprel", 116, offset, 0, name)
This(offset) == Sy("this", Id(2), offset, 0, <<"this">>)
Block == <<Sy("sblk", 0, 2, 3, <<"@sblk">>), Local(90, <<"x">>), Sy("send", 0, 0, 0, <<"@send">>)>>
Params(n) == [j \in 1 .. n |-> Local(4 * j, <<"f", ":", "p">>)]
Proc(start, type) == Sy("proc", type, start, 10, <<"f">>)
Rest(locals) ==
  <<Sy("endarg", 0, 0, 0, <<>>)>> \o locals \o Block
  \o <<Sy("return", 0, 0, 0, <<>>), Sy("end", 0, 0, 0, <<>>)>>

Closures == {<<>>, <<This(80)>>}
FirstProcs ==
  {<<Proc(20, Id(1))>> \o closure \o Params(n) \o Rest(this) :
     closure \in Closures, n \in 0 .. 3, this \in {<<>>, <<This(84)>>}}
SecondProcs ==
  {<<Proc(40, 0)>> \o Params(1) \o Rest(<<>>),
   <<Proc(40, Id(1))>> \o Params(1) \o Rest(<<>>)
     \o <<Sy("zero", 0, 0, 0, <<>>), Sy("other", 0, 0, 0, <<>>)>>,
   <<Proc(40, Id(1))>> \o Params(1)}

SymbolImages ==
  {[EmptyImage EXCEPT !.types = types_, !.version = IF split THEN 0 ELSE 2068,
      !.align = IF split THEN <<one, two>> ELSE <<one \o two>>,
      !.static = <<Sy("data", Id(2), 0, 0, <<"d">>), Sy("align", 0, 0, 0, <<>>)>>,
      !.global = <<Sy("procref", 0, 0, 0, <<>>), Udt(Id(3), <<"C">>),
                   Sy("constant", 19, 0, 0, <<"k">>)>>] :
     types_ \in MethodTypes, split \in BOOLEAN, one \in FirstProcs, two \in SecondProcs}

-----------------------------------------------------------------------------
Line(file, seg, start, end, offsets, lines) ==
  [file |-> file, seg |-> seg, start |-> start, end |-> end, offsets |-> offsets,
   lines |-> lines]

(* Three blocks in one segment, one more in another; the segments are      *)
(* numbered so that contributions of the last can be marked, or not, and   *)
(* the last line may lie behind its segment.                               *)
LineImages ==
  {[EmptyImage EXCEPT !.tables = 0, !.vs = vs, !.segs = segs, !.modules = modules,
      !.blocks = <<Line(f, 1, 0, 1, <<o, 1>>, <<l1, l2>>), Line("a.d", 1, 2, 4, <<3, 4>>, <<7, 5>>),
                   Line(f, 1, 5, 6, IF o = 0 THEN <<>> ELSE <<6>>, IF o = 0 THEN <<>> ELSE <<l1>>),
                   Line("b.d", seg, 8, last, <<last>>, <<l2>>)>>,
      !.publics = <<[name |-> <<"f">>, isPublic |-> TRUE],
                    [name |-> <<"g">>, isPublic |-> FALSE]>>] :
     vs \in {10, 14}, f \in {"", "a.d", "c.d"}, o \in {0, 1}, l1 \in 0 .. 2, l2 \in {1, 9},
     seg \in {1, 2}, last \in {9, 12},
     segs \in {<<>>, <<[frame |-> 1, offset |-> 0, size |-> 10],
                [frame |-> 2, offset |-> 8, size |-> 4]>>,
               <<[frame |-> 1, offset |-> 0, size |-> 12], [frame |-> 2, offset |-> 8, size |-> 2],
                 [frame |-> 0, offset |-> 0, size |-> 9]>>},
     modules \in {<<>>, <<<<[seg |-> 1, offset |-> 0]>>, <<[seg |-> 2, offset |-> 9]>>>>}}

(* Lists with a friend function as later compilers write it, or a leaf     *)
(* that is not known; and unions, of which only the property is fixed.     *)
ListImages ==
  {[EmptyImage EXCEPT !.tables = n, !.types =
      <<List(<<F(leaf, v, 116, <<"g">>), F("nesttype", 1, Id(3), <<"U">>)>>),
        Class("class", <<"A">>, Id(1), {}), Class("union", <<"U">>, Id(1), {})>>] :
     n \in {1, 2}, leaf \in {"member", "friendfcn", "unsupported"}, v \in {1, 2}}

MCInputs == Classes \cup OemImages \cup SymbolImages \cup LineImages \cup ListImages
=============================================================================
