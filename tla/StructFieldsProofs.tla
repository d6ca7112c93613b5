------------------------- MODULE StructFieldsProofs -------------------------
(***************************************************************************)
(* Theorems about the members of structs, for every unit that is well      *)
(* nested, every room and every depth of calls.                            *)
(***************************************************************************)
EXTENDS StructFields, DataLemmas, TLAPS

-----------------------------------------------------------------------------
(* The inductive invariant: a call is at one of the members of its struct  *)
(* or at their end, and the access it holds is that of a member before.    *)

SaidBefore(u, s, access, i) ==
  \E j \in ChildrenOf(u, s) : j < i /\ u[j].access = access

CallFits(u, c) ==
  /\ c \in Call /\ c.cursor.ptr >= 1 /\ c.struct \in 1 .. Len(u)
  /\ u[c.struct].hasChild =>
       /\ c.cursor.ptr \in ChildrenOf(u, c.struct)
                             \cup {EndOfLevel(u, c.struct + 1)}
       /\ c.access = 0 \/ SaidBefore(u, c.struct, c.access, c.cursor.ptr)

LeafFits(u, l) ==
  /\ l \in Leaf /\ l.struct \in 1 .. Len(u)
  /\ l.bits > 0 /\ l.attribute # 3 /\ u[l.struct].hasChild =>
       SaidBefore(u, l.struct, 4 - l.attribute, l.die + 1)

CallsFit(u, cs) ==
  cs \in Seq(Call) /\ Len(cs) <= MaxDepth /\ \A k \in 1 .. Len(cs) : CallFits(u, cs[k])

LeavesFit(u, ls) ==
  ls \in Seq(Leaf) /\ \A k \in 1 .. Len(ls) : LeafFits(u, ls[k])

IInv ==
  /\ dies \in Units /\ root \in 1 .. Len(dies)
  /\ CallsFit(dies, calls) /\ LeavesFit(dies, leaves) /\ bases \in Seq(Leaf)
  /\ ahead \in Int /\ clipped \in BOOLEAN
  /\ nfields = Len(leaves) + Len(bases)

LEMMA UnitsAreUnits ==
  ASSUME NEW u \in Units
  PROVE  u \in Seq(Die) /\ IsUnit(u)
<1>1. u \in Seq(Die) /\ WellNested(u)
  BY UnitsAssumption
<1>2. \A i \in 1 .. Len(u) : u[i] \in Die
  BY <1>1
<1>3. \A i \in 1 .. Len(u) : u[i].hasChild \in BOOLEAN /\ u[i].sibling \in Nat
  BY <1>2 DEF Die
<1>4. Len(u) \in Nat \ {0}
  BY <1>1 DEF WellNested
<1> QED
  BY <1>1, <1>3, <1>4 DEF IsUnit

(* The call for a struct begins at its first member.                       *)
LEMMA FirstFits ==
  ASSUME NEW u, IsUnit(u), NEW p \in 1 .. Len(u), NEW level \in Int, NEW base \in Nat,
         NEW c, c = [cursor |-> Having(u, p, level), struct |-> p,
                     base |-> base, access |-> 0]
  PROVE  CallFits(u, c)
<1> DEFINE h == Having(u, p, level)
<1>1. h \in Cursor /\ h.ptr = p + 1
  BY HavingType DEF Having
<1>2. u[p].hasChild => p + 1 \in ChildrenOf(u, p)
  BY FirstChild
<1>3. c.cursor = h /\ c.struct = p /\ c.access = 0
  OBVIOUS
<1>4. c \in Call
  BY <1>1 DEF Call
<1> HIDE DEF h
<1> QED
  BY <1>1, <1>2, <1>3, <1>4 DEF CallFits

LEMMA FrontFits ==
  ASSUME NEW u, NEW cs, CallsFit(u, cs), cs # <<>>
  PROVE  CallsFit(u, Front(cs))
<1>1. cs \in Seq(Call) /\ Len(cs) <= MaxDepth /\ Len(cs) \in Nat \ {0}
  BY DEF CallsFit
<1>2. Front(cs) \in Seq(Call) /\ Len(Front(cs)) = Len(cs) - 1
      /\ \A k \in 1 .. Len(cs) - 1 : Front(cs)[k] = cs[k]
  <2>1. Len(cs) - 1 \in Int /\ \A k \in 1 .. Len(cs) - 1 : cs[k] \in Call
    BY <1>1
  <2>2. /\ Front(cs) \in Seq(Call)
        /\ Len(Front(cs)) = IF 1 <= Len(cs) - 1 THEN Len(cs) - 1 - 1 + 1 ELSE 0
        /\ \A k \in 1 .. Len(cs) - 1 - 1 + 1 : Front(cs)[k] = cs[1 + k - 1]
    BY <2>1, SubSeqProperties DEF Front
  <2> HIDE DEF Front
  <2>3. \A k \in 1 .. Len(cs) - 1 : k \in 1 .. Len(cs) - 1 - 1 + 1 /\ 1 + k - 1 = k
    BY <1>1
  <2>4. Len(Front(cs)) = Len(cs) - 1
    <3>1. PICK n, m : n = Len(cs) /\ m = Len(Front(cs))
      BY Zenon
    <3>2. n \in Nat \ {0} /\ m = IF 1 <= n - 1 THEN n - 1 - 1 + 1 ELSE 0
      BY <1>1, <2>2, <3>1, Zenon
    <3>3. m = n - 1
      BY <3>2
    <3> QED
      BY <3>1, <3>3
  <2>5. \A k \in 1 .. Len(cs) - 1 : Front(cs)[k] = cs[k]
    BY <2>2, <2>3, Zenon
  <2> QED
    BY <2>2, <2>4, <2>5
<1>3. MaxDepth \in Nat
  BY UnitsAssumption
<1> HIDE DEF Front
<1> QED
  BY <1>1, <1>2, <1>3 DEF CallsFit

LEMMA LongerFits ==
  ASSUME NEW u, NEW cs, CallsFit(u, cs), NEW c, CallFits(u, c), Len(cs) < MaxDepth
  PROVE  CallsFit(u, Append(cs, c))
<1>1. cs \in Seq(Call) /\ c \in Call /\ Len(cs) \in Nat
  BY DEF CallsFit, CallFits
<1>2. Append(cs, c) \in Seq(Call) /\ Len(Append(cs, c)) = Len(cs) + 1
      /\ \A k \in 1 .. Len(cs) + 1 :
           Append(cs, c)[k] = IF k = Len(cs) + 1 THEN c ELSE cs[k]
  BY <1>1
<1>3. MaxDepth \in Nat
  BY UnitsAssumption
<1>4. \A k \in 1 .. Len(cs) + 1 : k = Len(cs) + 1 \/ k \in 1 .. Len(cs)
  BY <1>1
<1> QED
  BY <1>1, <1>2, <1>3, <1>4 DEF CallsFit

LEMMA MoreLeavesFit ==
  ASSUME NEW u, NEW ls, LeavesFit(u, ls), NEW l, LeafFits(u, l)
  PROVE  LeavesFit(u, Append(ls, l)) /\ Len(Append(ls, l)) = Len(ls) + 1
<1>1. ls \in Seq(Leaf) /\ l \in Leaf /\ Len(ls) \in Nat
  BY DEF LeavesFit, LeafFits
<1>2. Append(ls, l) \in Seq(Leaf) /\ Len(Append(ls, l)) = Len(ls) + 1
      /\ \A k \in 1 .. Len(ls) + 1 :
           Append(ls, l)[k] = IF k = Len(ls) + 1 THEN l ELSE ls[k]
  BY <1>1
<1>3. \A k \in 1 .. Len(ls) + 1 : k = Len(ls) + 1 \/ k \in 1 .. Len(ls)
  BY <1>1
<1> QED
  BY <1>1, <1>2, <1>3 DEF LeavesFit

LEMMA InitFits == Init => IInv
<1> SUFFICES ASSUME Init PROVE IInv
  OBVIOUS
<1>1. dies \in Units /\ IsUnit(dies) /\ root \in 1 .. Len(dies)
  BY UnitsAreUnits DEF Init
<1>2. LevelOfDie(dies, root) \in Int
  <2>1. Around(dies, root) \subseteq 1 .. root - 1
    BY DEF Around
  <2>2. IsFiniteSet(1 .. root - 1)
    BY <1>1, FS_Interval
  <2>3. IsFiniteSet(Around(dies, root))
    BY <2>1, <2>2, FS_Subset
  <2>4. Cardinality(Around(dies, root)) \in Nat
    BY <2>3, FS_CardinalityType
  <2> QED
    BY <2>4 DEF LevelOfDie
<1> DEFINE c == [cursor |-> Having(dies, root, LevelOfDie(dies, root)),
                 struct |-> root, base |-> 0, access |-> 0]
<1>3. CallFits(dies, c)
  BY <1>1, <1>2, FirstFits
<1>4. calls = <<c>>
  BY DEF Init, Having
<1>5. CallsFit(dies, calls)
  <2> HIDE DEF c
  <2>1. c \in Call
    BY <1>3 DEF CallFits
  <2>2. MaxDepth \in Nat \ {0}
    BY UnitsAssumption
  <2> QED
    BY <1>3, <1>4, <2>1, <2>2 DEF CallsFit
<1>6. leaves = <<>> /\ bases = <<>> /\ nfields = 0 /\ clipped = FALSE
      /\ ahead \in Int
  BY UnitsAssumption DEF Init
<1>7. LeavesFit(dies, leaves)
  BY <1>6 DEF LeavesFit
<1>8. bases \in Seq(Leaf) /\ clipped \in BOOLEAN /\ nfields = Len(leaves) + Len(bases)
  <2>1. <<>> \in Seq(Leaf) /\ Len(<<>>) = 0
    OBVIOUS
  <2>2. clipped \in BOOLEAN
    BY <1>6, Zenon
  <2>3. bases \in Seq(Leaf)
    BY <1>6, <2>1, Zenon
  <2>4. nfields = Len(leaves) + Len(bases)
    BY <1>6, <2>1
  <2> QED
    BY <2>2, <2>3, <2>4
<1> QED
  BY <1>1, <1>5, <1>6, <1>7, <1>8, Zenon DEF IInv

-----------------------------------------------------------------------------
(* What is true when a call reads a DIE.                                   *)

Advance == [Top EXCEPT !.cursor = gotoSibling(dies, Read.cursor), !.access = Access]

LEMMA Reads ==
  ASSUME IInv, Reading
  PROVE  /\ IsUnit(dies) /\ Top \in Call /\ CallFits(dies, Top) /\ Len(calls) >= 1
         /\ Read.die = Top.cursor.ptr /\ Read.die \in 1 .. Len(dies) /\ Id \in Die
         /\ \E l \in Int : Read.cursor = Having(dies, Read.die, l)
         /\ dies[Top.struct].hasChild => Read.die \in ChildrenOf(dies, Top.struct)
<1>1. IsUnit(dies)
  BY UnitsAreUnits DEF IInv
<1>2. Len(calls) >= 1 /\ CallFits(dies, Top)
  <2>1. calls \in Seq(Call) /\ calls # <<>> /\ \A k \in 1 .. Len(calls) : CallFits(dies, calls[k])
    BY DEF IInv, CallsFit, Reading
  <2>2. Len(calls) \in 1 .. Len(calls)
    BY <2>1
  <2> QED
    BY <2>1, <2>2 DEF Top, Last
<1>3. Top \in Call /\ Top.cursor \in Cursor /\ Top.cursor.ptr >= 1
      /\ Top.struct \in 1 .. Len(dies)
  BY <1>2 DEF CallFits, Call
<1>4. /\ Read.die = Top.cursor.ptr /\ Read.die \in 1 .. Len(dies) /\ ~IsNull(Id)
      /\ \E l \in Int : Read.cursor = Having(dies, Read.die, l)
  <2>1. Read = readNext(dies, Top.cursor, TRUE) /\ Read.die # 0
    BY DEF Read, Reading
  <2> HIDE DEF Read
  <2> QED
    BY <1>1, <1>3, <2>1, ReadHere DEF Id
<1>5. Id \in Die
  BY <1>4, UnitsAreUnits DEF Id, IInv
<1>6. ASSUME dies[Top.struct].hasChild PROVE Read.die \in ChildrenOf(dies, Top.struct)
  <2>1. Top.cursor.ptr \in ChildrenOf(dies, Top.struct)
                             \cup {EndOfLevel(dies, Top.struct + 1)}
    BY <1>2, <1>6 DEF CallFits
  <2>2. IsNull(dies[EndOfLevel(dies, Top.struct + 1)])
    BY <1>1, <1>3, <1>6, LevelsEnd
  <2> QED
    BY <1>4, <2>1, <2>2 DEF Id
<1> QED
  BY <1>1, <1>2, <1>3, <1>4, <1>5, <1>6

(* The access of the DIE is its own or that of a DIE before it.            *)
LEMMA AccessSaid ==
  ASSUME IInv, Reading
  PROVE  /\ Access \in 0 .. 3
         /\ dies[Top.struct].hasChild =>
              Access = 0 \/ SaidBefore(dies, Top.struct, Access, Read.die + 1)
<1>1. /\ Top \in Call /\ CallFits(dies, Top)
      /\ Read.die = Top.cursor.ptr /\ Read.die \in 1 .. Len(dies) /\ Id \in Die
      /\ dies[Top.struct].hasChild => Read.die \in ChildrenOf(dies, Top.struct)
  BY Reads
<1>2. Id.access \in 0 .. 3 /\ Top.access \in 0 .. 3
  BY <1>1 DEF Die, Call
<1>3. Access \in 0 .. 3
  BY <1>2 DEF Access
<1>4. ASSUME dies[Top.struct].hasChild, Access # 0
      PROVE  SaidBefore(dies, Top.struct, Access, Read.die + 1)
  <2>1. CASE Id.access # 0
    <3>1. Access = dies[Read.die].access /\ Read.die < Read.die + 1
      BY <1>1, <2>1 DEF Access, Id
    <3> QED
      BY <1>1, <1>4, <3>1 DEF SaidBefore
  <2>2. CASE Id.access = 0
    <3>1. Access = Top.access
      BY <2>2 DEF Access
    <3>2. SaidBefore(dies, Top.struct, Access, Read.die)
      BY <1>1, <1>4, <3>1 DEF CallFits
    <3>3. PICK j \in ChildrenOf(dies, Top.struct) :
            j < Read.die /\ dies[j].access = Access
      BY <3>2 DEF SaidBefore
    <3>4. j < Read.die + 1
      <4>1. j \in Int
        BY DEF ChildrenOf
      <4> QED
        BY <1>1, <3>3, <4>1
    <3> QED
      BY <3>3, <3>4 DEF SaidBefore
  <2> QED
    BY <2>1, <2>2
<1> QED
  BY <1>3, <1>4

(* The call that read a DIE goes on at a place that fits.                  *)
LEMMA AdvanceFits ==
  ASSUME IInv, Reading
  PROVE  CallFits(dies, Advance)
<1>1. /\ IsUnit(dies) /\ Top \in Call /\ CallFits(dies, Top)
      /\ Read.die \in 1 .. Len(dies)
      /\ \E l \in Int : Read.cursor = Having(dies, Read.die, l)
      /\ dies[Top.struct].hasChild => Read.die \in ChildrenOf(dies, Top.struct)
  BY Reads
<1>2. PICK c : c = gotoSibling(dies, Read.cursor)
  BY Zenon
<1>3. c \in Cursor /\ c.ptr = NextSibling(dies, Read.die)
  BY <1>1, <1>2, GoesToSibling
<1>4. Access \in 0 .. 3
  BY AccessSaid
<1>5. /\ Advance \in Call /\ Advance.cursor = c /\ Advance.access = Access
      /\ Advance.struct = Top.struct
  <2>1. PICK t, a : t = Top /\ a = Access
    BY Zenon
  <2>2. Advance = [t EXCEPT !.cursor = c, !.access = a]
    BY <1>2, <2>1, Zenon DEF Advance
  <2>3. t \in Call /\ a \in 0 .. 3
    BY <1>1, <1>4, <2>1
  <2> QED
    BY <1>3, <2>1, <2>2, <2>3 DEF Call
<1>6. c.ptr >= 1
  <2>1. dies[Read.die].hasChild => EndOfLevel(dies, Read.die + 1) \in Read.die + 2 .. Len(dies)
    BY <1>1, LevelsEnd
  <2> QED
    BY <1>1, <1>3, <2>1 DEF NextSibling
<1>7. Top.struct \in 1 .. Len(dies)
  BY <1>1 DEF CallFits
<1>8. ASSUME dies[Top.struct].hasChild
      PROVE  /\ c.ptr \in ChildrenOf(dies, Top.struct)
                            \cup {EndOfLevel(dies, Top.struct + 1)}
             /\ Access = 0 \/ SaidBefore(dies, Top.struct, Access, c.ptr)
  <2>1. /\ NextSibling(dies, Read.die) > Read.die
        /\ NextSibling(dies, Read.die) \in ChildrenOf(dies, Top.struct)
                                             \cup {EndOfLevel(dies, Top.struct + 1)}
    BY <1>1, <1>7, <1>8, SiblingIs
  <2>2. ASSUME Access # 0 PROVE SaidBefore(dies, Top.struct, Access, c.ptr)
    <3>1. PICK j \in ChildrenOf(dies, Top.struct) :
            j < Read.die + 1 /\ dies[j].access = Access
      BY <1>8, <2>2, AccessSaid DEF SaidBefore
    <3>2. j \in Int /\ c.ptr \in Nat
      BY <1>3 DEF ChildrenOf, Cursor
    <3>3. j < c.ptr
      BY <1>1, <1>3, <2>1, <3>1, <3>2
    <3> QED
      BY <3>1, <3>3 DEF SaidBefore
  <2> QED
    BY <1>3, <2>1, <2>2
<1> QED
  BY <1>5, <1>6, <1>7, <1>8, Zenon DEF CallFits

LEMMA AdvancedFits ==
  ASSUME IInv, Reading
  PROVE  CallsFit(dies, Advanced) /\ Len(Advanced) = Len(calls)
<1>1. calls \in Seq(Call) /\ Len(calls) <= MaxDepth /\ Len(calls) \in Nat
      /\ \A k \in 1 .. Len(calls) : CallFits(dies, calls[k])
  BY DEF IInv, CallsFit
<1>2. Len(calls) >= 1 /\ Top \in Call
  BY Reads
<1>3. PICK c, a, n : c = gotoSibling(dies, Read.cursor) /\ a = Access /\ n = Len(calls)
  BY Zenon
<1>4. Advanced = [calls EXCEPT ![n].cursor = c, ![n].access = a]
  BY <1>3, Zenon DEF Advanced
<1>5. Top = calls[n]
  BY <1>3 DEF Top, Last
<1>6. Advance = [calls[n] EXCEPT !.cursor = c, !.access = a]
  BY <1>3, <1>5, Zenon DEF Advance
<1>7. n \in 1 .. Len(calls)
  BY <1>1, <1>2, <1>3
<1>8. Advanced = [calls EXCEPT ![n] = Advance]
  BY <1>1, <1>4, <1>6, <1>7
<1>9. CallFits(dies, Advance) /\ Advance \in Call
  BY AdvanceFits DEF CallFits
<1>10. /\ Advanced \in Seq(Call) /\ Len(Advanced) = Len(calls)
       /\ \A k \in 1 .. Len(calls) : Advanced[k] = IF k = n THEN Advance ELSE calls[k]
  <2> HIDE DEF Advanced, Advance
  <2> QED
    BY <1>1, <1>7, <1>8, <1>9
<1> QED
  BY <1>1, <1>9, <1>10 DEF CallsFit

LEMMA NewLeafFits ==
  ASSUME IInv, Reading, NEW offset \in Nat, NEW bits \in Nat, NEW bitoff \in Nat,
         NEW attribute \in 0 .. 3, bits > 0 => attribute = Attribute
  PROVE  /\ NewLeaf(offset, bits, bitoff, attribute) \in Leaf
         /\ LeafFits(dies, NewLeaf(offset, bits, bitoff, attribute))
<1> DEFINE l == NewLeaf(offset, bits, bitoff, attribute)
<1>1. /\ Top \in Call /\ CallFits(dies, Top) /\ Len(dies) \in Nat
      /\ Read.die \in 1 .. Len(dies)
  BY Reads, UnitIsTree
<1>2. Top.struct \in 1 .. Len(dies)
  BY <1>1 DEF CallFits
<1>3. l \in Leaf
  BY <1>1, <1>2 DEF NewLeaf, Leaf
<1>4. l.struct = Top.struct /\ l.die = Read.die /\ l.bits = bits /\ l.attribute = attribute
  BY DEF NewLeaf
<1>5. ASSUME bits > 0, attribute # 3, dies[Top.struct].hasChild
      PROVE  SaidBefore(dies, Top.struct, 4 - attribute, Read.die + 1)
  <2>1. (Access = 2 /\ attribute = 2) \/ (Access = 3 /\ attribute = 1)
    BY <1>5 DEF Attribute
  <2>2. Access # 0 /\ 4 - attribute = Access
    BY <2>1
  <2> QED
    BY <1>5, <2>2, AccessSaid
<1> HIDE DEF l
<1>6. LeafFits(dies, l)
  BY <1>2, <1>3, <1>4, <1>5 DEF LeafFits
<1> QED
  BY <1>3, <1>6 DEF l

LEMMA NextFits == IInv /\ [Next]_vars => IInv'
<1> SUFFICES ASSUME IInv, [Next]_vars PROVE IInv'
  OBVIOUS
<1>1. /\ dies \in Units /\ root \in 1 .. Len(dies)
      /\ CallsFit(dies, calls) /\ LeavesFit(dies, leaves) /\ bases \in Seq(Leaf)
      /\ ahead \in Int /\ clipped \in BOOLEAN
      /\ nfields = Len(leaves) + Len(bases)
      /\ Len(leaves) \in Nat /\ Len(bases) \in Nat
  BY DEF IInv, LeavesFit
<1>2. ASSUME Reading
      PROVE  /\ CallsFit(dies, Advanced) /\ Len(Advanced) = Len(calls)
             /\ Top.base \in Nat /\ Offset \in Nat /\ Top.base + Offset \in Nat
             /\ Id \in Die
  <2>1. Top \in Call /\ Id \in Die
    BY <1>2, Reads
  <2>2. Offset \in Nat
    BY <2>1 DEF Offset, Die
  <2>3. Top.base \in Nat
    BY <2>1 DEF Call
  <2> QED
    BY <1>2, <2>1, <2>2, <2>3, AdvancedFits
<1>3. CASE EndCall
  <2>1. CallsFit(dies, calls')
    BY <1>1, <1>3, FrontFits DEF EndCall
  <2> QED
    BY <1>1, <1>3, <2>1 DEF EndCall, IInv
<1>4. CASE Clip
  <2>1. CallsFit(dies, calls')
    BY <1>1, <1>4, FrontFits DEF Clip
  <2> QED
    BY <1>1, <1>4, <2>1 DEF Clip, IInv
<1>5. CASE AddField
  <2>1. PICK l : l = NewLeaf(Top.base + Offset, 0, 0, 0)
    BY Zenon
  <2>2. LeafFits(dies, l)
    BY <1>2, <1>5, <2>1, NewLeafFits DEF AddField
  <2>3. leaves' = Append(leaves, l) /\ nfields' = nfields + 1
    BY <1>5, <2>1 DEF AddField
  <2>4. LeavesFit(dies, leaves') /\ nfields' = Len(leaves') + Len(bases)
    <3>1. LeavesFit(dies, leaves') /\ Len(leaves') = Len(leaves) + 1
      BY <1>1, <2>2, <2>3, MoreLeavesFit
    <3> QED
      BY <1>1, <2>3, <3>1
  <2>5. CallsFit(dies, calls')
    BY <1>2, <1>5 DEF AddField
  <2> QED
    BY <1>1, <1>5, <2>4, <2>5 DEF AddField, IInv
<1>6. CASE AddBitfield
  <2>1. PICK l : l = NewLeaf(0, Id.bitSize, BitOffset, Attribute)
    BY Zenon
  <2>2. LeafFits(dies, l)
    <3>1. Id.bitSize \in Nat /\ Id.dataBitOffset \in Int /\ Id.storage \in Nat
          /\ Id.bitOffset \in Nat
      BY <1>2, <1>6 DEF AddBitfield, Die
    <3>2. BitOffset \in Nat
      <4>1. PICK n : n = IF Id.dataBitOffset # -1 THEN Id.dataBitOffset % 8
                         ELSE (IF Id.storage > 0 THEN 8 * Id.storage ELSE 32)
                                - Id.bitOffset - Id.bitSize
        BY Zenon
      <4>2. Id.dataBitOffset % 8 \in Int
        BY <3>1, Remainders, SMTT(30)
      <4>3. n \in Int
        BY <3>1, <4>1, <4>2
      <4>4. n % 256 \in 0 .. 255
        BY <4>3, Remainders
      <4>5. BitOffset = n % 256
        BY <4>1, Zenon DEF BitOffset
      <4> QED
        BY <4>4, <4>5
    <3>3. Attribute \in 0 .. 3
      BY DEF Attribute
    <3> QED
      BY <1>6, <2>1, <3>1, <3>2, <3>3, NewLeafFits DEF AddBitfield
  <2>3. leaves' = Append(leaves, l) /\ nfields' = nfields + 1
    BY <1>6, <2>1 DEF AddBitfield
  <2>4. LeavesFit(dies, leaves') /\ nfields' = Len(leaves') + Len(bases)
    <3>1. LeavesFit(dies, leaves') /\ Len(leaves') = Len(leaves) + 1
      BY <1>1, <2>2, <2>3, MoreLeavesFit
    <3> QED
      BY <1>1, <2>3, <3>1
  <2>5. CallsFit(dies, calls')
    BY <1>2, <1>6 DEF AddBitfield
  <2>6. ahead' \in Int
    BY <1>1, <1>6 DEF AddBitfield, BitfieldSize
  <2> QED
    BY <1>1, <1>6, <2>4, <2>5, <2>6 DEF AddBitfield, IInv
<1>7. CASE EmbedMember
  <2>1. Reading /\ Len(calls) < MaxDepth /\ Id.type # 0 /\ TypeRead.die # 0
    BY <1>7 DEF EmbedMember, IsEmbedded
  <2>2. IsUnit(dies) /\ Id \in Die /\ Read.die \in 1 .. Len(dies) /\ Len(dies) \in Nat
        /\ Read.cursor \in Cursor
    <3>1. /\ IsUnit(dies) /\ Id \in Die /\ Read.die \in 1 .. Len(dies)
          /\ \E l \in Int : Read.cursor = Having(dies, Read.die, l)
      BY <2>1, Reads
    <3> QED
      BY <3>1, HavingType, UnitIsTree
  <2>3. PICK t : t = Id.type
    BY Zenon
  <2>4. t \in 1 .. Len(dies) /\ ~IsNull(dies[t])
    <3>1. Id.type \in Nat /\ Id.type <= Len(dies) /\ (Id.type # 0 => ~IsNull(dies[Id.type]))
      BY <1>1, <2>2, UnitsAssumption DEF Id, Die
    <3> QED
      BY <2>1, <2>2, <2>3, <3>1
  <2>5. TypeRead.die = t /\ \E l \in Int : TypeRead.cursor = Having(dies, t, l)
    <3>1. PICK r, c : r = TypeRead /\ c = Read.cursor
      BY Zenon
    <3>2. r = ReadAt(dies, c, t) /\ r.die # 0
      BY <2>1, <2>3, <3>1, Zenon DEF TypeRead, ReadAt
    <3>3. r.die = t /\ \E l \in Int : r.cursor = Having(dies, t, l)
      <4>1. c \in Cursor
        BY <2>2, <3>1
      <4> QED
        BY <2>2, <2>4, <3>2, <4>1, ReadThere
    <3> QED
      BY <3>1, <3>3, Zenon
  <2>6. PICK c : c = [cursor |-> TypeRead.cursor, struct |-> TypeRead.die,
                      base |-> InnerBase, access |-> FirstAccess]
    BY Zenon
  <2>7. CallFits(dies, c)
    <3>1. PICK l \in Int : TypeRead.cursor = Having(dies, t, l)
      BY <2>5
    <3>2. InnerBase \in Nat
      BY <1>2, <2>1 DEF InnerBase
    <3>3. c = [cursor |-> Having(dies, t, l), struct |-> t, base |-> InnerBase,
               access |-> 0]
      BY <2>5, <2>6, <3>1, Zenon DEF FirstAccess
    <3> QED
      BY <2>2, <2>4, <3>2, <3>3, FirstFits
  <2>8. calls' = Append(Advanced, c)
    BY <1>7, <2>6, Zenon DEF EmbedMember
  <2>9. CallsFit(dies, calls')
    <3>1. CallsFit(dies, Advanced) /\ Len(Advanced) < MaxDepth
      BY <1>2, <2>1
    <3> QED
      BY <2>7, <2>8, <3>1, LongerFits, Zenon
  <2> QED
    BY <1>1, <1>7, <2>9 DEF EmbedMember, IInv
<1>8. CASE AddBaseClass
  <2>1. PICK l : l = NewLeaf(Top.base + Id.loc, 0, 0, 3)
    BY Zenon
  <2>2. l \in Leaf
    <3>1. Id.loc \in Nat /\ Top.base + Id.loc \in Nat
      BY <1>2, <1>8, SMTT(30) DEF AddBaseClass, Die
    <3> QED
      BY <1>8, <2>1, <3>1, NewLeafFits DEF AddBaseClass
  <2>3. bases' = Append(bases, l) /\ nfields' = nfields + 1 /\ ahead' \in Int
    BY <1>1, <1>8, <2>1 DEF AddBaseClass, BaseClassSize
  <2>4. bases' \in Seq(Leaf) /\ nfields' = Len(leaves) + Len(bases')
    BY <1>1, <2>2, <2>3
  <2>5. CallsFit(dies, calls')
    BY <1>2, <1>8 DEF AddBaseClass
  <2> QED
    BY <1>1, <1>8, <2>3, <2>4, <2>5 DEF AddBaseClass, IInv
<1>9. CASE SkipDie
  <2>1. CallsFit(dies, calls')
    BY <1>2, <1>9 DEF SkipDie
  <2> QED
    BY <1>1, <1>9, <2>1 DEF SkipDie, IInv
<1>10. CASE UNCHANGED vars
  BY <1>1, <1>10 DEF vars, IInv
<1> QED
  BY <1>3, <1>4, <1>5, <1>6, <1>7, <1>8, <1>9, <1>10 DEF Next

LEMMA Fits == Spec => []IInv
BY InitFits, NextFits, PTL DEF Spec

-----------------------------------------------------------------------------
(* Theorems *)

(* Every variable has its type, the calls are no deeper than their bound,  *)
(* and nfields is the number of the leaves that addDWARFFields has written.*)
THEOREM TypeCorrect == Spec => []TypeOK
<1>1. IInv => TypeOK
  <2> SUFFICES ASSUME IInv PROVE TypeOK
    OBVIOUS
  <2>1. dies \in Seq(Die)
    BY UnitsAreUnits DEF IInv, IsUnit
  <2> QED
    BY <2>1 DEF IInv, CallsFit, LeavesFit, TypeOK
<1> QED
  BY <1>1, Fits, PTL

(* addDWARFFields reads the members of the struct it was called for, and   *)
(* nothing but them: in a unit that is well nested, readNext and           *)
(* gotoSibling take its cursor from one member of the struct to the next,  *)
(* whatever is below them, and from the last to the end of the list.       *)
THEOREM CursorStays == Spec => []CursorAmongMembers
<1>1. IInv => CursorAmongMembers
  BY Zenon DEF IInv, CallsFit, CallFits, CursorAmongMembers
<1> QED
  BY <1>1, Fits, PTL

(* The access that addDWARFFields keeps in id from one member to the next  *)
(* is that of a member of the same struct, though the structs embedded in  *)
(* it are read in between.                                                 *)
THEOREM AccessOwn == Spec => []AccessFromOwnList
<1>1. IInv => AccessFromOwnList
  <2> SUFFICES ASSUME IInv, NEW i \in 1 .. Len(leaves),
                      leaves[i].bits > 0, leaves[i].attribute # 3,
                      dies[leaves[i].struct].hasChild
               PROVE  \E j \in ChildrenOf(dies, leaves[i].struct) :
                        j <= leaves[i].die /\ dies[j].access = 4 - leaves[i].attribute
    BY Zenon DEF AccessFromOwnList
  <2>1. LeafFits(dies, leaves[i])
    BY DEF IInv, LeavesFit
  <2>2. PICK j \in ChildrenOf(dies, leaves[i].struct) :
          j < leaves[i].die + 1 /\ dies[j].access = 4 - leaves[i].attribute
    BY <2>1 DEF LeafFits, SaidBefore
  <2>3. j \in Int /\ leaves[i].die \in Nat
    BY <2>1 DEF LeafFits, Leaf, ChildrenOf
  <2> QED
    BY <2>2, <2>3
<1> QED
  BY <1>1, Fits, PTL
=============================================================================
