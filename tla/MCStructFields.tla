--------------------------- MODULE MCStructFields ---------------------------
(* Two structs beside each other or one in the other, with members of each *)
(* kind before, in and behind the inner one.                               *)
EXTENDS StructFields

MCLeads == {-24, 0}

Entry(tag, hasChild) ==
  [tag |-> tag, hasChild |-> hasChild, sibling |-> 0, named |-> FALSE,
   type |-> 0, loc |-> -1, bitSize |-> 0, dataBitOffset |-> -1,
   bitOffset |-> 0, storage |-> 0, access |-> 0]

Field(named, loc, type) ==
  [Entry("member", FALSE) EXCEPT !.named = named, !.loc = loc, !.type = type]

Bitfield(offset, access) ==
  [Field(TRUE, -1, 0) EXCEPT !.bitSize = 3, !.dataBitOffset = offset,
                             !.access = access]

(* A member; bitfields of DWARF 4, one of them private, and one of DWARF 2 *)
(* in 64 bits; an unnamed member; a base class; a member without a place; a     *)
(* struct without children.                                                *)
Inner == {Field(TRUE, 4, 0), Bitfield(2, 0), Entry("structure_type", FALSE)}
Outer == Inner
           \cup {Field(FALSE, 8, t) : t \in 2 .. 5}
           \cup {Bitfield(13, 3),
                 [Field(TRUE, 4, 0) EXCEPT !.bitSize = 3, !.bitOffset = 61],
                 [Entry("inheritance", FALSE) EXCEPT !.loc = 8],
                 Field(TRUE, -1, 0)}

OneOrTwo(S) == {<<a>> : a \in S} \cup {<<a, b>> : a \in S, b \in S}

Null == <<Entry("null", FALSE)>>
Parent(tag, children) == <<Entry(tag, TRUE)>> \o children \o Null

Beside == {Parent("other", Parent(tag, a) \o Parent("structure_type", b)) :
             tag \in {"structure_type", "union_type"},
             a \in OneOrTwo(Inner), b \in OneOrTwo(Outer)}
Within == {Parent("other", Parent("class_type", <<b[1]>> \o Parent(tag, a) \o Tail(b))) :
             tag \in {"structure_type", "union_type"},
             a \in OneOrTwo(Inner), b \in OneOrTwo(Outer)}

(* Types are structs, and no struct is embedded in itself.                 *)
TypesFit(u) ==
  \A i \in 1 .. Len(u) :
    u[i].type # 0 => /\ u[i].type <= Len(u) /\ u[u[i].type].tag \in StructTags
                     /\ u[i].type \notin Around(u, i)

(* In half of them, DIEs that have children name their siblings.           *)
WithSiblings(u, names) ==
  [i \in 1 .. Len(u) |->
     IF names /\ u[i].hasChild
     THEN [u[i] EXCEPT !.sibling = EndOfLevel(u, i + 1) + 1] ELSE u[i]]

MCUnits == {WithSiblings(u, names) :
              u \in {u \in Beside \cup Within : TypesFit(u)}, names \in BOOLEAN}
=============================================================================
