-------------------------- MODULE EnumFieldsProofs --------------------------
(***************************************************************************)
(* Theorems about the field lists of enums, for every enum, every size of  *)
(* a record in which an enumerator fits, and every state of the buffer.    *)
(***************************************************************************)
EXTENDS EnumFields, DataLemmas, SequenceTheorems, TLAPS

(* A number is read back as it was written, whatever its width.            *)
THEOREM NumericRoundTrip ==
  ASSUME NEW v \in Int
  PROVE  numeric_leaf(write_numeric_leaf(v)) = v
<1>1. CASE 0 <= v /\ v <= 32767
  BY <1>1 DEF numeric_leaf, write_numeric_leaf, Numeric
<1>2. CASE -128 <= v /\ v <= -1
  <2>1. write_numeric_leaf(v) = Numeric("LF_CHAR", v + 256)
    BY <1>2 DEF write_numeric_leaf
  <2> QED
    BY <1>2, <2>1 DEF numeric_leaf, SignExtended, Numeric
<1>3. CASE -32768 <= v /\ v <= -129
  <2>1. write_numeric_leaf(v) = Numeric("LF_SHORT", v + 65536)
    BY <1>3 DEF write_numeric_leaf
  <2> QED
    BY <1>3, <2>1 DEF numeric_leaf, SignExtended, Numeric
<1>4. CASE ~(-32768 <= v /\ v <= 32767)
  BY <1>4 DEF numeric_leaf, write_numeric_leaf, Numeric
<1> QED
  BY <1>1, <1>2, <1>3, <1>4

(* The size of a number and of a leaf.                                     *)
LEMMA NumericFacts ==
  ASSUME NEW v \in Int
  PROVE  /\ write_numeric_leaf(v) \in NumericLeaf
         /\ NumericSize(write_numeric_leaf(v)) \in 2 .. 6
BY DEF write_numeric_leaf, Numeric, NumericLeaf, Forms, NumericSize

LEMMA AlignedFacts ==
  ASSUME NEW m \in Nat, NEW n \in Nat, m <= n
  PROVE  Aligned(m) \in Nat /\ Aligned(n) \in Nat /\ Aligned(m) <= Aligned(n)
         /\ Aligned(m) <= m + 3
BY DEF Aligned

LEMMA EnumerateFacts ==
  ASSUME NEW v \in Int, NEW n \in Nat
  PROVE  /\ EnumerateSize(v, n) \in Nat
         /\ HeaderSize + EnumerateSize(v, n) + IndexSize <= MaxRecord
         /\ EnumerateSize(v, n) <= MaxNameLen + 13
<1>1. NameSize(n) \in Nat /\ NameSize(n) <= MaxNameLen
  BY MaxNameLenAssumption DEF NameSize
<1>2. NumericSize(write_numeric_leaf(v)) \in 2 .. 6
  BY NumericFacts
<1> DEFINE size == 4 + NumericSize(write_numeric_leaf(v)) + NameSize(n)
           largest == 4 + 6 + MaxNameLen
<1>3. size \in Nat /\ largest \in Nat /\ size <= largest
  BY <1>1, <1>2, MaxNameLenAssumption
<1>4. Aligned(size) \in Nat /\ Aligned(size) <= Aligned(largest)
      /\ Aligned(largest) \in Nat /\ Aligned(largest) <= largest + 3
  BY <1>3, AlignedFacts
<1>5. EnumerateSize(v, n) = Aligned(size)
  BY DEF EnumerateSize
<1> HIDE DEF size
<1> QED
  BY <1>4, <1>5, RoomAssumption, EnumAssumption, MaxNameLenAssumption
  DEF HeaderSize, IndexSize

-----------------------------------------------------------------------------
(* Field lists *)

(* The leaves of a record adjoin and its size is within bounds.            *)
Shaped(list) ==
  /\ list \in FieldList
  /\ LeavesAdjoin(list)
  /\ EndOf(list) \in Nat
  /\ HeaderSize <= EndOf(list) - list.pos /\ EndOf(list) - list.pos <= MaxRecord

(* The record that is being filled, and the k-th one, which is continued.  *)
OpenList(list) ==
  /\ Shaped(list)
  /\ \A i \in 1 .. Len(list.leaves) : list.leaves[i].kind = "enumerate"
ContinuedList(k, list) ==
  /\ Shaped(list)
  /\ list.len + 2 = EndOf(list) - list.pos
  /\ Len(list.leaves) # 0
  /\ \A i \in 1 .. Len(list.leaves) :
       IF i = Len(list.leaves)
         THEN list.leaves[i].kind = "index"
              /\ list.leaves[i].ref = FirstFieldList + k
         ELSE list.leaves[i].kind = "enumerate"

LEMMA EnumerateLeaf ==
  ASSUME NEW pos \in Nat, NEW c \in Child
  PROVE  /\ addFieldEnumerate(pos, c) \in Leaf
         /\ addFieldEnumerate(pos, c).pos = pos
         /\ addFieldEnumerate(pos, c).kind = "enumerate"
         /\ addFieldEnumerate(pos, c).size = EnumerateSize(c.value, c.nameLen)
<1>1. c.value \in Int /\ c.nameLen \in Nat /\ c.name \in Nat
  BY Zenon DEF Child
<1>2. EnumerateSize(c.value, c.nameLen) \in Nat
  BY <1>1, EnumerateFacts
<1>3. write_numeric_leaf(c.value) \in NumericLeaf
  BY <1>1, NumericFacts
<1> QED
  BY <1>1, <1>2, <1>3, Zenon DEF addFieldEnumerate, Leaf

LEMMA IndexLeafFacts ==
  ASSUME NEW pos \in Nat, NEW ref \in Nat
  PROVE  /\ IndexLeaf(pos, ref) \in Leaf
         /\ IndexLeaf(pos, ref).pos = pos
         /\ IndexLeaf(pos, ref).kind = "index"
         /\ IndexLeaf(pos, ref).ref = ref
         /\ IndexLeaf(pos, ref).size = IndexSize
<1>1. write_numeric_leaf(0) \in NumericLeaf
  BY NumericFacts
<1>2. IndexSize \in Nat
  BY DEF IndexSize
<1>3. 0 \in Nat
  OBVIOUS
<1> QED
  BY <1>1, <1>2, <1>3, Zenon DEF IndexLeaf, Leaf

LEMMA NewListFacts ==
  ASSUME NEW pos \in Nat
  PROVE  /\ OpenList(NewList(pos))
         /\ NewList(pos).pos = pos /\ NewList(pos).len = 0
         /\ NewList(pos).leaves = <<>>
         /\ EndOf(NewList(pos)) = pos + HeaderSize
<1>1. NewList(pos) \in FieldList
  BY EmptySeq DEF NewList, FieldList
<1>2. HeaderSize <= MaxRecord
  BY MaxNameLenAssumption, EnumAssumption, RoomAssumption
  DEF HeaderSize, IndexSize, Aligned
<1>3. /\ NewList(pos).pos = pos /\ NewList(pos).len = 0
      /\ NewList(pos).leaves = <<>>
  BY DEF NewList
<1>4. EndOf(NewList(pos)) = pos + HeaderSize
  BY <1>3 DEF EndOf
<1>5. Len(NewList(pos).leaves) = 0
  BY <1>3
<1>6. LeavesAdjoin(NewList(pos))
  BY <1>5 DEF LeavesAdjoin
<1> QED
  BY <1>1, <1>2, <1>3, <1>4, <1>5, <1>6 DEF OpenList, ContinuedList, Shaped, HeaderSize

LEMMA WithLeafFacts ==
  ASSUME NEW list \in FieldList, NEW leaf \in Leaf
  PROVE  /\ WithLeaf(list, leaf) \in FieldList
         /\ WithLeaf(list, leaf).pos = list.pos
         /\ WithLeaf(list, leaf).len = list.len
         /\ WithLeaf(list, leaf).leaves = Append(list.leaves, leaf)
         /\ EndOf(WithLeaf(list, leaf)) = leaf.pos + leaf.size
<1> DEFINE new == WithLeaf(list, leaf)
<1>1. list.pos \in Nat /\ list.len \in Nat /\ list.leaves \in Seq(Leaf)
  BY DEF FieldList
<1>2. Append(list.leaves, leaf) \in Seq(Leaf)
  BY <1>1, AppendProperties
<1>3. /\ new \in FieldList /\ new.pos = list.pos /\ new.len = list.len
      /\ new.leaves = Append(list.leaves, leaf)
  BY <1>1, <1>2 DEF WithLeaf, FieldList
<1>4. /\ Len(new.leaves) = Len(list.leaves) + 1 /\ new.leaves # <<>>
      /\ new.leaves[Len(new.leaves)] = leaf
  BY <1>1, <1>3, AppendProperties
<1> QED
  BY <1>3, <1>4 DEF EndOf

(* A leaf is added where the record ends.                                  *)
LEMMA WithLeafOK ==
  ASSUME NEW list, OpenList(list),
         NEW leaf \in Leaf, leaf.pos = EndOf(list),
         EndOf(list) - list.pos + leaf.size <= MaxRecord
  PROVE  /\ leaf.kind = "enumerate" => OpenList(WithLeaf(list, leaf))
         /\ \A i \in 1 .. Len(list.leaves) :
              WithLeaf(list, leaf).leaves[i].kind = "enumerate"
         /\ LeavesAdjoin(WithLeaf(list, leaf))
         /\ Len(WithLeaf(list, leaf).leaves) = Len(list.leaves) + 1
         /\ WithLeaf(list, leaf).leaves[Len(list.leaves) + 1] = leaf
<1> DEFINE new == WithLeaf(list, leaf)
<1>1. list \in FieldList /\ list.pos \in Nat /\ list.leaves \in Seq(Leaf)
  BY DEF OpenList, ContinuedList, Shaped, FieldList
<1>2. leaf.pos \in Nat /\ leaf.size \in Nat
  BY DEF Leaf
<1>3. /\ new \in FieldList /\ new.pos = list.pos
      /\ new.leaves = Append(list.leaves, leaf)
      /\ EndOf(new) = leaf.pos + leaf.size
  BY <1>1, WithLeafFacts
<1> HIDE DEF new
<1>4. /\ Len(new.leaves) = Len(list.leaves) + 1
      /\ new.leaves[Len(list.leaves) + 1] = leaf
      /\ \A i \in 1 .. Len(list.leaves) : new.leaves[i] = list.leaves[i]
      /\ Len(list.leaves) \in Nat
  BY <1>1, <1>3, AppendProperties, LenProperties
<1>5. leaf.pos = IF Len(list.leaves) = 0 THEN list.pos + HeaderSize
                 ELSE list.leaves[Len(list.leaves)].pos
                        + list.leaves[Len(list.leaves)].size
  BY <1>1, EmptySeq DEF EndOf
<1>6. LeavesAdjoin(new)
  BY <1>3, <1>4, <1>5 DEF OpenList, ContinuedList, Shaped, LeavesAdjoin
<1>7. \A i \in 1 .. Len(list.leaves) : list.leaves[i].kind = "enumerate"
  BY DEF OpenList, ContinuedList, Shaped
<1>8. EndOf(new) \in Nat /\ HeaderSize <= EndOf(new) - new.pos
      /\ EndOf(new) - new.pos <= MaxRecord
  BY <1>1, <1>2, <1>3, EnumAssumption DEF OpenList, ContinuedList, Shaped, HeaderSize
<1>9. ASSUME leaf.kind = "enumerate" PROVE OpenList(new)
  BY <1>3, <1>4, <1>6, <1>7, <1>8, <1>9 DEF OpenList, ContinuedList, Shaped
<1> QED
  BY <1>4, <1>6, <1>7, <1>9 DEF new

(* A record that is continued: an LF_INDEX leaf and its length.            *)
LEMMA ContinuedOK ==
  ASSUME NEW k \in Nat, NEW list, OpenList(list), list.len = 0,
         fieldlistLength = EndOf(list) - list.pos, ListEnd = EndOf(list),
         fieldlistLength + IndexSize <= MaxRecord
  PROVE  /\ ContinuedList(k, Continued(list, FirstFieldList + k))
         /\ Continued(list, FirstFieldList + k).pos = list.pos
         /\ EndOf(Continued(list, FirstFieldList + k)) = ListEnd + IndexSize
<1> DEFINE leaf == IndexLeaf(ListEnd, FirstFieldList + k)
           with == WithLeaf(list, leaf)
           new  == Continued(list, FirstFieldList + k)
<1>1. /\ list \in FieldList /\ list.pos \in Nat /\ EndOf(list) \in Nat
      /\ HeaderSize <= EndOf(list) - list.pos
  BY DEF OpenList, ContinuedList, Shaped, FieldList
<1>2. /\ leaf \in Leaf /\ leaf.pos = EndOf(list) /\ leaf.size = IndexSize
      /\ leaf.kind = "index" /\ leaf.ref = FirstFieldList + k
  BY <1>1, IndexLeafFacts, EnumAssumption
<1> HIDE DEF leaf
<1>3. /\ with \in FieldList /\ with.pos = list.pos /\ with.len = 0
      /\ EndOf(with) = ListEnd + IndexSize
  BY <1>1, <1>2, WithLeafFacts
<1>4. /\ \A i \in 1 .. Len(list.leaves) : with.leaves[i].kind = "enumerate"
      /\ LeavesAdjoin(with)
      /\ Len(with.leaves) = Len(list.leaves) + 1
      /\ with.leaves[Len(list.leaves) + 1] = leaf
  <2>1. EndOf(list) - list.pos + leaf.size <= MaxRecord
    BY <1>2
  <2> QED
    BY <1>2, <2>1, WithLeafOK DEF OpenList, ContinuedList, Shaped
<1>5. new = Closed(with, fieldlistLength + IndexSize)
  BY DEF Continued, leaf
<1> HIDE DEF with, new
<1>6. fieldlistLength \in Nat /\ fieldlistLength >= HeaderSize
  BY <1>1 DEF HeaderSize
<1>7. /\ new \in FieldList /\ new.pos = list.pos /\ new.leaves = with.leaves
      /\ new.len = fieldlistLength + IndexSize - 2
  BY <1>3, <1>5, <1>6, SMTT(30) DEF Closed, FieldList, HeaderSize, IndexSize
<1>8. EndOf(new) = ListEnd + IndexSize /\ LeavesAdjoin(new)
  BY <1>3, <1>4, <1>7 DEF EndOf, LeavesAdjoin
<1>9. Len(list.leaves) \in Nat
  BY <1>1, LenProperties DEF FieldList
<1>10. \A i \in 1 .. Len(new.leaves) :
         IF i = Len(new.leaves)
           THEN new.leaves[i].kind = "index"
                /\ new.leaves[i].ref = FirstFieldList + k
           ELSE new.leaves[i].kind = "enumerate"
  BY <1>2, <1>4, <1>7, <1>9
<1>11. EndOf(new) - new.pos = fieldlistLength + IndexSize
  BY <1>1, <1>7, <1>8 DEF IndexSize
<1>12. /\ EndOf(new) \in Nat /\ HeaderSize <= EndOf(new) - new.pos
       /\ EndOf(new) - new.pos <= MaxRecord
       /\ new.len + 2 = EndOf(new) - new.pos
  BY <1>1, <1>6, <1>7, <1>8, <1>11 DEF HeaderSize, IndexSize
<1>13. Len(new.leaves) # 0
  BY <1>4, <1>7, <1>9
<1>14. ContinuedList(k, new)
  BY <1>7, <1>8, <1>10, <1>12, <1>13 DEF OpenList, ContinuedList, Shaped
<1> QED
  BY <1>7, <1>8, <1>14 DEF new

LEMMA CheckedFacts ==
  ASSUME NEW cb \in Nat, NEW alloc \in Nat, NEW size \in Nat
  PROVE  /\ Checked(cb, alloc, size) \in Nat
         /\ alloc <= Checked(cb, alloc, size)
         /\ cb <= alloc => cb + size <= Checked(cb, alloc, size)
<1>1. alloc \div 2 \in Nat
  OBVIOUS
<1> QED
  BY <1>1, EnumAssumption DEF Checked

-----------------------------------------------------------------------------
(* The invariant *)

Lists ==
  /\ lists \in Seq(FieldList) /\ Filling \in Nat \ {0}
  /\ OpenList(lists[Filling]) /\ EndOf(lists[Filling]) <= allocDwarfTypes
  /\ \A k \in 1 .. Filling - 1 : /\ ContinuedList(k, lists[k])
                                /\ EndOf(lists[k]) <= allocDwarfTypes
                                /\ lists[k + 1].pos = EndOf(lists[k])

Place ==
  /\ fieldlistLength = EndOf(lists[Filling]) - lists[Filling].pos
  /\ fieldlistLength + IndexSize <= MaxRecord
  /\ allocDwarfTypes \in Nat /\ cbDwarfTypes \in Nat
  /\ nextDwarfType = FirstFieldList + Filling
  /\ IF enums = <<>> THEN lists[Filling].len = 0
     ELSE /\ cbDwarfTypes = EndOf(lists[Filling])
          /\ lists[Filling].len + 2 = EndOf(lists[Filling]) - lists[Filling].pos

Walk ==
  /\ children \in Seq(Child)
  /\ next \in 1 .. Len(children) + 1
  /\ count \in 0 .. next - 1
  /\ enums \in {<<>>, <<EnumRecord>>}

IInv == Lists /\ Place /\ Walk

(* IInv says all that is claimed of the records.                           *)
LEMMA IInvSuffices ==
  IInv => /\ TypeOK /\ RecordsFit /\ RecordsAdjoin /\ ChainUnbroken
          /\ LeavesInsideBuffer
<1> SUFFICES ASSUME IInv
             PROVE  /\ TypeOK /\ RecordsFit /\ RecordsAdjoin
                    /\ ChainUnbroken /\ LeavesInsideBuffer
  OBVIOUS
<1>1. Filling \in Nat \ {0} /\ Len(lists) = Filling
  BY DEF IInv, Lists, Filling
<1>2. /\ OpenList(lists[Filling]) /\ Shaped(lists[Filling])
      /\ \A k \in 1 .. Filling - 1 : ContinuedList(k, lists[k])
  BY DEF IInv, Lists, OpenList
<1>3. \A k \in 1 .. Filling : Shaped(lists[k])
  <2> TAKE k \in 1 .. Filling
  <2>1. k = Filling \/ k \in 1 .. Filling - 1
    BY <1>1
  <2> QED
    BY <1>2, <2>1 DEF ContinuedList
<1>4. TypeOK
  <2>1. fieldlistLength \in Nat /\ nextDwarfType \in Nat
    BY <1>1, <1>2, EnumAssumption, SMTT(30)
    DEF IInv, Place, Shaped, FieldList, HeaderSize
  <2>2. lists # <<>>
    BY <1>1
  <2> QED
    BY <2>1, <2>2 DEF IInv, Lists, Place, Walk, TypeOK
<1>5. RecordsFit
  BY <1>1, <1>3 DEF IInv, Place, RecordsFit, Shaped
<1>6. RecordsAdjoin
  <2>1. \A k \in 1 .. Filling : LeavesAdjoin(lists[k])
    BY <1>3 DEF Shaped
  <2>2. \A k \in 1 .. Filling - 1 :
          /\ lists[k + 1].pos = EndOf(lists[k])
          /\ lists[k].len + 2 = EndOf(lists[k]) - lists[k].pos
    BY DEF IInv, Lists, ContinuedList
  <2>3. enums # <<>> =>
          /\ cbDwarfTypes = EndOf(lists[Filling])
          /\ lists[Filling].len + 2 = EndOf(lists[Filling]) - lists[Filling].pos
    BY DEF IInv, Place
  <2> QED
    BY <1>1, <2>1, <2>2, <2>3 DEF RecordsAdjoin
<1>7. ChainUnbroken
  <2> SUFFICES ASSUME NEW k \in 1 .. Filling, NEW i \in 1 .. Len(lists[k].leaves)
               PROVE  LET leaf == lists[k].leaves[i]
                      IN  /\ leaf.kind = "index" <=>
                               (k < Filling /\ i = Len(lists[k].leaves))
                          /\ leaf.kind = "index" => leaf.ref = FirstFieldList + k
    BY <1>1 DEF ChainUnbroken
  <2>1. CASE k = Filling
    BY <1>1, <1>2, <2>1 DEF OpenList
  <2>2. CASE k \in 1 .. Filling - 1
    BY <1>1, <1>2, <2>2 DEF ContinuedList
  <2> QED
    BY <1>1, <2>1, <2>2
<1>8. LeavesInsideBuffer
  <2> SUFFICES ASSUME NEW k \in 1 .. Filling
               PROVE  EndOf(lists[k]) <= allocDwarfTypes
    BY <1>1 DEF LeavesInsideBuffer
  <2>1. k = Filling \/ k \in 1 .. Filling - 1
    BY <1>1
  <2> QED
    BY <2>1 DEF IInv, Lists
<1> QED
  BY <1>4, <1>5, <1>6, <1>7, <1>8

LEMMA InitIInv == Init => IInv
<1> SUFFICES ASSUME Init PROVE IInv
  OBVIOUS
<1>1. /\ OpenList(NewList(BufferUsed))
      /\ NewList(BufferUsed).pos = BufferUsed /\ NewList(BufferUsed).len = 0
      /\ EndOf(NewList(BufferUsed)) = BufferUsed + HeaderSize
  BY NewListFacts, EnumAssumption
<1>2. NewList(BufferUsed) \in FieldList
  BY <1>1 DEF OpenList, ContinuedList, Shaped
<1>3. /\ Filling = 1 /\ lists[1] = NewList(BufferUsed)
      /\ lists \in Seq(FieldList)
  BY <1>2 DEF Init, Filling
<1>4. /\ allocDwarfTypes \in Nat
      /\ BufferUsed + HeaderSize <= allocDwarfTypes
  <2>1. allocDwarfTypes = Checked(BufferUsed, BufferSize, 100)
    BY DEF Init
  <2>2. /\ Checked(BufferUsed, BufferSize, 100) \in Nat
        /\ BufferUsed + 100 <= Checked(BufferUsed, BufferSize, 100)
    BY CheckedFacts, EnumAssumption
  <2> QED
    BY <2>1, <2>2, EnumAssumption DEF HeaderSize
<1>5. Lists
  BY <1>1, <1>3, <1>4 DEF Lists
<1>6. HeaderSize + IndexSize <= MaxRecord
  BY MaxNameLenAssumption, EnumAssumption, RoomAssumption
  DEF HeaderSize, IndexSize, Aligned
<1>7. Place
  BY <1>1, <1>3, <1>4, <1>6, EnumAssumption DEF Init, Place, HeaderSize
<1>8. Walk
  BY EnumAssumption DEF Init, Walk
<1> QED
  BY <1>5, <1>7, <1>8 DEF IInv

(* The facts about the open record every action starts from.               *)
LEMMA OpenRecord ==
  ASSUME IInv, enums = <<>>
  PROVE  /\ Filling \in Nat \ {0} /\ Len(lists) = Filling
         /\ lists[Filling] \in FieldList
         /\ OpenList(lists[Filling])
         /\ lists[Filling].len = 0
         /\ fieldlistLength = EndOf(lists[Filling]) - lists[Filling].pos
         /\ ListEnd = EndOf(lists[Filling])
         /\ ListEnd \in Nat /\ ListEnd <= allocDwarfTypes
         /\ allocDwarfTypes \in Nat
<1>1. Filling \in Nat \ {0} /\ Len(lists) = Filling
  BY DEF IInv, Lists, Filling
<1>2. /\ OpenList(lists[Filling])
      /\ EndOf(lists[Filling]) <= allocDwarfTypes
  BY <1>1 DEF IInv, Lists
<1>3. lists[Filling] \in FieldList /\ EndOf(lists[Filling]) \in Nat
  BY <1>2 DEF OpenList, ContinuedList, Shaped
<1>4. lists[Filling].pos \in Nat
  BY <1>3 DEF FieldList
<1>5. /\ lists[Filling].len = 0 /\ allocDwarfTypes \in Nat
      /\ fieldlistLength = EndOf(lists[Filling]) - lists[Filling].pos
  BY DEF IInv, Place
<1>6. ListEnd = EndOf(lists[Filling])
  BY <1>3, <1>4, <1>5 DEF ListEnd
<1> QED
  BY <1>1, <1>2, <1>3, <1>5, <1>6

(* The open record is replaced by one that begins at the same place.       *)
LEMMA Replaced ==
  ASSUME Lists, NEW new \in FieldList, new.pos = lists[Filling].pos
  PROVE  LET s == [lists EXCEPT ![Filling] = new]
         IN  /\ s \in Seq(FieldList) /\ Len(s) = Filling
             /\ s[Filling] = new
             /\ \A k \in 1 .. Filling - 1 : s[k] = lists[k]
             /\ \A k \in 1 .. Filling - 1 : s[k + 1].pos = EndOf(s[k])
<1> DEFINE s == [lists EXCEPT ![Filling] = new]
<1>1. /\ lists \in Seq(FieldList) /\ Filling \in 1 .. Len(lists)
      /\ Filling \in Nat \ {0} /\ Len(lists) = Filling
  BY DEF Lists, Filling
<1>2. /\ s \in Seq(FieldList) /\ Len(s) = Filling
      /\ \A k \in 1 .. Filling : s[k] = IF k = Filling THEN new ELSE lists[k]
  BY <1>1, ExceptSeq
<1> HIDE DEF s
<1>3. \A k \in 1 .. Filling : s[k].pos = lists[k].pos
  BY <1>2
<1>4. \A k \in 1 .. Filling - 1 : s[k + 1].pos = EndOf(s[k])
  <2> TAKE k \in 1 .. Filling - 1
  <2>1. k \in 1 .. Filling /\ k + 1 \in 1 .. Filling /\ k # Filling
    BY <1>1
  <2>2. s[k] = lists[k]
    BY <1>2, <2>1
  <2>3. lists[k + 1].pos = EndOf(lists[k])
    BY DEF Lists
  <2> QED
    BY <1>3, <2>1, <2>2, <2>3
<1> QED
  BY <1>1, <1>2, <1>4 DEF s

(* With the open record replaced in place, what is left to show is that    *)
(* the new one is a good open record and lies within the buffer.           *)
LEMMA ReplacedLists ==
  ASSUME IInv, enums = <<>>, NEW new, OpenList(new),
         new.pos = lists[Filling].pos,
         lists' = [lists EXCEPT ![Filling] = new],
         allocDwarfTypes <= allocDwarfTypes', allocDwarfTypes' \in Nat,
         EndOf(new) <= allocDwarfTypes'
  PROVE  Lists' /\ Filling' = Filling /\ lists'[Filling] = new
<1>1. /\ Filling \in Nat \ {0} /\ allocDwarfTypes \in Nat
  BY OpenRecord
<1>2. new \in FieldList
  BY DEF OpenList, Shaped
<1>3. /\ lists' \in Seq(FieldList) /\ Len(lists') = Filling
      /\ lists'[Filling] = new
      /\ \A k \in 1 .. Filling - 1 : lists'[k] = lists[k]
      /\ \A k \in 1 .. Filling - 1 : lists'[k + 1].pos = EndOf(lists'[k])
  BY <1>2, Replaced DEF IInv
<1>4. \A k \in 1 .. Filling - 1 : /\ ContinuedList(k, lists'[k])
                                  /\ EndOf(lists'[k]) <= allocDwarfTypes'
  <2> TAKE k \in 1 .. Filling - 1
  <2>1. ContinuedList(k, lists[k]) /\ EndOf(lists[k]) <= allocDwarfTypes
    BY DEF IInv, Lists
  <2>2. EndOf(lists[k]) \in Nat
    BY <2>1 DEF ContinuedList, Shaped
  <2> QED
    BY <1>1, <1>3, <2>1, <2>2
<1>5. Filling' = Filling
  BY <1>3 DEF Filling
<1> QED
  BY <1>1, <1>3, <1>4, <1>5 DEF Lists

LEMMA AddStep == IInv /\ AddEnumerator => IInv'
<1> SUFFICES ASSUME IInv, AddEnumerator PROVE IInv'
  OBVIOUS
<1> DEFINE c    == children[next]
           leaf == addFieldEnumerate(ListEnd, c)
           old  == lists[Filling]
           new  == WithLeaf(old, leaf)
<1>1. enums = <<>>
  BY DEF AddEnumerator
<1>2. /\ Filling \in Nat \ {0} /\ old \in FieldList /\ OpenList(old)
      /\ old.len = 0 /\ fieldlistLength = EndOf(old) - old.pos
      /\ ListEnd = EndOf(old) /\ ListEnd \in Nat
      /\ ListEnd <= allocDwarfTypes /\ allocDwarfTypes \in Nat
  BY <1>1, OpenRecord
<1>3. c \in Child /\ next \in 1 .. Len(children)
  BY ElementOfSeq, LenProperties DEF IInv, Walk, AddEnumerator, AtChild
<1>4. c.value \in Int /\ c.nameLen \in Nat
  BY <1>3 DEF Child
<1>5. /\ leaf \in Leaf /\ leaf.pos = ListEnd /\ leaf.kind = "enumerate"
      /\ leaf.size = EnumerateSize(c.value, c.nameLen)
  BY <1>2, <1>3, EnumerateLeaf
<1>6. leaf.size \in Nat /\ leaf.size <= NameRoom
  BY <1>4, <1>5, EnumerateFacts, MaxNameLenAssumption DEF NameRoom
<1>7. fieldlistLength + leaf.size + IndexSize <= MaxRecord
  BY <1>5 DEF AddEnumerator, Fits
<1>8. /\ lists' = [lists EXCEPT ![Filling] = new]
      /\ fieldlistLength' = fieldlistLength + leaf.size
      /\ cbDwarfTypes' = ListEnd /\ next' = next + 1 /\ count' = count + 1
      /\ allocDwarfTypes' = Checked(ListEnd, allocDwarfTypes, NameRoom)
      /\ UNCHANGED <<children, nextDwarfType, enums>>
  BY DEF AddEnumerator
<1> HIDE DEF c, leaf, old
<1>9. /\ new \in FieldList /\ new.pos = old.pos /\ new.len = 0
      /\ EndOf(new) = ListEnd + leaf.size
  BY <1>2, <1>5, WithLeafFacts
<1>10. OpenList(new)
  <2>1. EndOf(old) - old.pos + leaf.size <= MaxRecord
    BY <1>2, <1>6, <1>7, EnumAssumption DEF IndexSize, FieldList
  <2> QED
    BY <1>2, <1>5, <2>1, WithLeafOK
<1> HIDE DEF new
<1>11. /\ allocDwarfTypes' \in Nat /\ allocDwarfTypes <= allocDwarfTypes'
       /\ EndOf(new) <= allocDwarfTypes'
  <2>1. NameRoom \in Nat
    BY MaxNameLenAssumption DEF NameRoom
  <2> QED
    <3>1. /\ Checked(ListEnd, allocDwarfTypes, NameRoom) \in Nat
          /\ allocDwarfTypes <= Checked(ListEnd, allocDwarfTypes, NameRoom)
          /\ ListEnd + NameRoom <= Checked(ListEnd, allocDwarfTypes, NameRoom)
      BY <1>2, <2>1, CheckedFacts
    <3> QED
      BY <1>2, <1>6, <1>8, <1>9, <2>1, <3>1
<1>12. Lists' /\ Filling' = Filling /\ lists'[Filling] = new
  BY <1>1, <1>8, <1>9, <1>10, <1>11, ReplacedLists DEF old
<1>13. Place'
  <2>1. fieldlistLength' = EndOf(new) - new.pos
    BY <1>2, <1>6, <1>8, <1>9 DEF FieldList
  <2> QED
    BY <1>1, <1>2, <1>7, <1>8, <1>9, <1>11, <1>12, <2>1 DEF IInv, Place
<1>14. Walk'
  BY <1>1, <1>3, <1>8 DEF IInv, Walk, EnumRecord
<1> QED
  BY <1>12, <1>13, <1>14 DEF IInv

LEMMA SplitStep == IInv /\ SplitList => IInv'
<1> SUFFICES ASSUME IInv, SplitList PROVE IInv'
  OBVIOUS
<1> DEFINE c     == children[next]
           start == ListEnd + IndexSize
           leaf  == addFieldEnumerate(start + HeaderSize, c)
           old   == lists[Filling]
           cont  == Continued(old, FirstFieldList + Filling)
           fresh == NewList(start)
           new   == WithLeaf(fresh, leaf)
           alloc == Checked(ListEnd, allocDwarfTypes, NameRoom)
<1>1. enums = <<>>
  BY DEF SplitList
<1>2. /\ Filling \in Nat \ {0} /\ old \in FieldList /\ OpenList(old)
      /\ old.len = 0 /\ fieldlistLength = EndOf(old) - old.pos
      /\ ListEnd = EndOf(old) /\ ListEnd \in Nat
      /\ ListEnd <= allocDwarfTypes /\ allocDwarfTypes \in Nat
  BY <1>1, OpenRecord
<1>3. c \in Child /\ next \in 1 .. Len(children)
  BY ElementOfSeq, LenProperties DEF IInv, Walk, SplitList, AtChild
<1>4. c.value \in Int /\ c.nameLen \in Nat
  BY <1>3 DEF Child
<1>5. start \in Nat /\ start + HeaderSize \in Nat
  BY <1>2 DEF IndexSize, HeaderSize
<1>6. /\ leaf \in Leaf /\ leaf.pos = start + HeaderSize
      /\ leaf.kind = "enumerate"
      /\ leaf.size = EnumerateSize(c.value, c.nameLen)
  BY <1>3, <1>5, EnumerateLeaf
<1>7. /\ leaf.size \in Nat /\ leaf.size + HeaderSize + IndexSize <= NameRoom
      /\ HeaderSize + leaf.size + IndexSize <= MaxRecord
  <2>1. /\ leaf.size \in Nat /\ leaf.size <= MaxNameLen + 13
        /\ HeaderSize + leaf.size + IndexSize <= MaxRecord
    BY <1>4, <1>6, EnumerateFacts
  <2> HIDE DEF leaf
  <2> QED
    BY <2>1, MaxNameLenAssumption DEF NameRoom, HeaderSize, IndexSize
<1>8. nextDwarfType = FirstFieldList + Filling
  BY DEF IInv, Place
<1>9. /\ lists' = Append([lists EXCEPT ![Filling] = cont], new)
      /\ fieldlistLength' = HeaderSize + leaf.size
      /\ cbDwarfTypes' = start + HeaderSize
      /\ allocDwarfTypes' = Checked(start + HeaderSize, alloc, NameRoom)
      /\ nextDwarfType' = nextDwarfType + 1
      /\ next' = next + 1 /\ count' = count + 1
      /\ UNCHANGED <<children, enums>>
  BY <1>8 DEF SplitList, NewStart, CountedOnce
<1>10. /\ ContinuedList(Filling, cont) /\ cont.pos = old.pos
       /\ EndOf(cont) = start
  BY <1>2, ContinuedOK DEF IInv, Place
<1>11. /\ OpenList(fresh) /\ fresh \in FieldList /\ fresh.pos = start
       /\ fresh.len = 0 /\ EndOf(fresh) = start + HeaderSize
  BY <1>5, NewListFacts DEF OpenList, Shaped
<1> HIDE DEF c, leaf, old, fresh, cont, start, alloc
<1>12. /\ new \in FieldList /\ new.pos = start /\ new.len = 0
       /\ EndOf(new) = start + HeaderSize + leaf.size
  BY <1>6, <1>11, WithLeafFacts
<1>13. OpenList(new)
  <2>1. EndOf(fresh) - fresh.pos + leaf.size <= MaxRecord
    BY <1>5, <1>7, <1>11, EnumAssumption DEF IndexSize, HeaderSize
  <2> QED
    BY <1>6, <1>11, <2>1, WithLeafOK
<1> HIDE DEF new
<1>14. /\ allocDwarfTypes' \in Nat /\ allocDwarfTypes <= allocDwarfTypes'
       /\ EndOf(cont) <= allocDwarfTypes' /\ EndOf(new) <= allocDwarfTypes'
  <2>1. NameRoom \in Nat
    BY MaxNameLenAssumption DEF NameRoom
  <2>2. /\ alloc \in Nat /\ allocDwarfTypes <= alloc
        /\ ListEnd + NameRoom <= alloc
    BY <1>2, <2>1, CheckedFacts DEF alloc
  <2>3. start + HeaderSize <= alloc
    BY <1>2, <1>7, <2>1, <2>2 DEF start, IndexSize, HeaderSize
  <2>4. /\ Checked(start + HeaderSize, alloc, NameRoom) \in Nat
        /\ alloc <= Checked(start + HeaderSize, alloc, NameRoom)
        /\ start + HeaderSize + NameRoom
             <= Checked(start + HeaderSize, alloc, NameRoom)
    BY <1>5, <2>1, <2>2, <2>3, CheckedFacts
  <2>5. allocDwarfTypes' \in Nat /\ allocDwarfTypes <= allocDwarfTypes'
    BY <1>2, <1>9, <2>2, <2>4
  <2>6. EndOf(cont) <= allocDwarfTypes'
    BY <1>5, <1>9, <1>10, <2>2, <2>3, <2>4 DEF HeaderSize
  <2>7. start + HeaderSize + leaf.size <= start + HeaderSize + NameRoom
    BY <1>5, <1>7, <2>1 DEF HeaderSize, IndexSize
  <2>8. EndOf(new) <= allocDwarfTypes'
    BY <1>5, <1>7, <1>9, <1>12, <2>1, <2>4, <2>7 DEF HeaderSize
  <2> QED
    BY <2>5, <2>6, <2>8
<1> DEFINE s == [lists EXCEPT ![Filling] = cont]
<1>15. /\ s \in Seq(FieldList) /\ Len(s) = Filling /\ s[Filling] = cont
       /\ \A k \in 1 .. Filling - 1 : s[k] = lists[k]
       /\ \A k \in 1 .. Filling - 1 : s[k + 1].pos = EndOf(s[k])
  <2>1. cont \in FieldList
    BY <1>10 DEF ContinuedList, Shaped
  <2> QED
    BY <1>10, <2>1, Replaced DEF IInv, old
<1>16. lists' = Append(s, new)
  BY <1>9
<1> HIDE DEF s
<1>17. /\ lists' \in Seq(FieldList) /\ Len(lists') = Filling + 1
       /\ lists'[Filling + 1] = new
       /\ \A k \in 1 .. Filling : lists'[k] = s[k]
  BY <1>12, <1>15, <1>16, AppendProperties
<1>18. Filling' = Filling + 1
  BY <1>17 DEF Filling
<1>19. \A k \in 1 .. Filling : /\ ContinuedList(k, lists'[k])
                               /\ EndOf(lists'[k]) <= allocDwarfTypes'
                               /\ lists'[k + 1].pos = EndOf(lists'[k])
  <2> TAKE k \in 1 .. Filling
  <2>1. CASE k = Filling
    BY <1>2, <1>10, <1>12, <1>14, <1>15, <1>17, <2>1
  <2>2. CASE k \in 1 .. Filling - 1
    <3>1. /\ ContinuedList(k, lists[k]) /\ EndOf(lists[k]) <= allocDwarfTypes
          /\ EndOf(lists[k]) \in Nat
      BY <2>2 DEF IInv, Lists, ContinuedList, Shaped
    <3>2. k \in 1 .. Filling /\ k + 1 \in 1 .. Filling
      BY <1>2, <2>2
    <3>3. lists'[k] = lists[k] /\ lists'[k + 1] = s[k + 1] /\ s[k] = lists[k]
      BY <1>15, <1>17, <2>2, <3>2
    <3> QED
      BY <1>2, <1>14, <1>15, <2>2, <3>1, <3>3
  <2> QED
    BY <1>2, <2>1, <2>2
<1>20. Lists'
  BY <1>2, <1>13, <1>14, <1>17, <1>18, <1>19 DEF Lists
<1>21. Place'
  <2>1. fieldlistLength' = EndOf(new) - new.pos
    BY <1>5, <1>7, <1>9, <1>12 DEF HeaderSize
  <2>2. nextDwarfType' = FirstFieldList + (Filling + 1)
    BY <1>2, <1>8, <1>9, EnumAssumption
  <2> QED
    BY <1>1, <1>5, <1>7, <1>9, <1>12, <1>14, <1>17, <1>18, <2>1, <2>2
    DEF Place
<1>22. Walk'
  BY <1>1, <1>3, <1>9 DEF IInv, Walk, EnumRecord
<1> QED
  BY <1>20, <1>21, <1>22 DEF IInv

LEMMA FinishStep == IInv /\ FinishEnum => IInv'
<1> SUFFICES ASSUME IInv, FinishEnum PROVE IInv'
  OBVIOUS
<1> DEFINE old == lists[Filling]
           new == Closed(old, fieldlistLength)
<1>1. enums = <<>>
  BY DEF FinishEnum
<1>2. /\ Filling \in Nat \ {0} /\ old \in FieldList /\ OpenList(old)
      /\ old.len = 0 /\ fieldlistLength = EndOf(old) - old.pos
      /\ ListEnd = EndOf(old) /\ ListEnd \in Nat
      /\ ListEnd <= allocDwarfTypes /\ allocDwarfTypes \in Nat
  BY <1>1, OpenRecord
<1>3. /\ lists' = [lists EXCEPT ![Filling] = new]
      /\ cbDwarfTypes' = ListEnd /\ enums' = <<EnumRecord>>
      /\ UNCHANGED <<children, next, fieldlistLength, nextDwarfType,
                     allocDwarfTypes, count>>
  BY DEF FinishEnum
<1> HIDE DEF old
<1>4. fieldlistLength \in Nat /\ fieldlistLength >= HeaderSize
  BY <1>2 DEF OpenList, Shaped, FieldList, HeaderSize
<1>5. /\ new \in FieldList /\ new.pos = old.pos /\ new.leaves = old.leaves
      /\ new.len = fieldlistLength - 2
  BY <1>2, <1>4 DEF Closed, FieldList, HeaderSize
<1> HIDE DEF new
<1>6. EndOf(new) = EndOf(old) /\ LeavesAdjoin(new) /\ OpenList(new)
  BY <1>2, <1>5 DEF EndOf, LeavesAdjoin, OpenList, Shaped
<1>7. Lists' /\ Filling' = Filling /\ lists'[Filling] = new
  <2>1. /\ allocDwarfTypes <= allocDwarfTypes' /\ allocDwarfTypes' \in Nat
        /\ EndOf(new) <= allocDwarfTypes'
    BY <1>2, <1>3, <1>6
  <2> QED
    BY <1>1, <1>3, <1>5, <1>6, <2>1, ReplacedLists DEF old
<1>8. Place'
  BY <1>2, <1>3, <1>4, <1>5, <1>6, <1>7 DEF IInv, Place, HeaderSize
<1>9. Walk'
  BY <1>3 DEF IInv, Walk, EnumRecord
<1> QED
  BY <1>7, <1>8, <1>9 DEF IInv

LEMMA IInvStep == IInv /\ [Next]_vars => IInv'
<1> SUFFICES ASSUME IInv, [Next]_vars PROVE IInv'
  OBVIOUS
<1>1. CASE SkipChild
  <2>1. Lists' /\ Place'
    BY <1>1 DEF SkipChild, IInv, Lists, Place, Filling
  <2>2. Walk'
    BY <1>1, LenProperties DEF SkipChild, AtChild, IInv, Walk, EnumRecord
  <2> QED
    BY <2>1, <2>2 DEF IInv
<1>2. CASE UNCHANGED vars
  BY <1>2 DEF vars, IInv, Lists, Place, Walk, Filling, EnumRecord
<1> QED
  BY <1>1, <1>2, AddStep, SplitStep, FinishStep DEF Next

LEMMA Invariance == Spec => []IInv
BY InitIInv, IInvStep, PTL DEF Spec

-----------------------------------------------------------------------------
(* The theorems *)

(* Every variable keeps its type.                                          *)
THEOREM TypeCorrect == Spec => []TypeOK
BY Invariance, IInvSuffices, PTL

(* No record outgrows MaxRecord, and the open one can be continued.        *)
THEOREM FitEverywhere == Spec => []RecordsFit
BY Invariance, IInvSuffices, PTL

(* The lengths lead from leaf to leaf and from record to record.           *)
THEOREM NoGaps == Spec => []RecordsAdjoin
BY Invariance, IInvSuffices, PTL

(* Every record but the last ends in a reference to the next.              *)
THEOREM Chained == Spec => []ChainUnbroken
BY Invariance, IInvSuffices, PTL

(* Nothing is written behind the end of the buffer.                        *)
THEOREM InsideBuffer == Spec => []LeavesInsideBuffer
BY Invariance, IInvSuffices, PTL

-----------------------------------------------------------------------------
(***************************************************************************)
(* What a reader finds is what was declared.                               *)
(***************************************************************************)

Pairs == Nat \X Int

(* What is shown by the first leaves, records and children.                *)
LEMMA ShownFacts ==
  ASSUME NEW leaf \in Leaf
  PROVE  Shown(leaf) \in Seq(Pairs)
<1>1. leaf.name \in Nat /\ leaf.value.bits \in Int
  BY DEF Leaf, NumericLeaf
<1>2. numeric_leaf(leaf.value) \in Int
  BY <1>1 DEF numeric_leaf, SignExtended
<1>3. PICK p : p = <<leaf.name, numeric_leaf(leaf.value)>>
  BY Zenon
<1>4. p \in Pairs
  BY <1>1, <1>2, <1>3, Zenon DEF Pairs
<1>5. <<p>> \in Seq(Pairs) /\ <<>> \in Seq(Pairs)
  BY <1>4, SingleSeq, EmptySeq, Zenon
<1> QED
  BY <1>3, <1>5, Zenon DEF Shown

LEMMA DeclaredFacts ==
  ASSUME NEW c \in Child, NEW pos \in Nat
  PROVE  /\ Declared(c) \in Seq(Pairs)
         /\ IsEnumerator(c) => /\ Declared(c) = Shown(addFieldEnumerate(pos, c))
                               /\ Len(Declared(c)) = 1
         /\ ~IsEnumerator(c) => Declared(c) = <<>>
<1>1. c.name \in Nat /\ c.value \in Int
  BY DEF Child
<1>2. numeric_leaf(write_numeric_leaf(c.value)) = c.value
  BY <1>1, NumericRoundTrip
<1>3. Shown(addFieldEnumerate(pos, c)) = <<<<c.name, c.value>>>>
  BY <1>2, Zenon DEF Shown, addFieldEnumerate
<1>4. <<<<c.name, c.value>>>> \in Seq(Pairs) /\ Len(<<<<c.name, c.value>>>>) = 1
  BY <1>1 DEF Pairs
<1>5. <<>> \in Seq(Pairs)
  BY EmptySeq
<1> QED
  BY <1>3, <1>4, <1>5, Zenon DEF Declared

LEMMA FlattenType ==
  ASSUME NEW T, NEW ss \in Seq(Seq(T))
  PROVE  FlattenSeq(ss) \in Seq(T)
<1>1. <<>> \in Seq(T)
  BY EmptySeq
<1> QED
  BY <1>1, FlattenAppend

ShownOf(leaves) == FlattenSeq([k \in 1 .. Len(leaves) |-> Shown(leaves[k])])

LEMMA ShownAppend ==
  ASSUME NEW leaves \in Seq(Leaf), NEW leaf \in Leaf
  PROVE  /\ ShownOf(leaves) \in Seq(Pairs)
         /\ ShownOf(Append(leaves, leaf)) = ShownOf(leaves) \o Shown(leaf)
<1> DEFINE f == [k \in 1 .. Len(leaves) |-> Shown(leaves[k])]
           all == Append(leaves, leaf)
           g == [k \in 1 .. Len(all) |-> Shown(all[k])]
           n == Len(leaves)
<1>1. /\ n \in Nat /\ Len(all) = n + 1 /\ all[n + 1] = leaf
      /\ \A k \in 1 .. n : all[k] = leaves[k]
  BY AppendProperties, LenProperties
<1>2. \A k \in 1 .. n : Shown(leaves[k]) \in Seq(Pairs)
  <2>1. \A k \in 1 .. n : leaves[k] \in Leaf
    BY ElementOfSeq
  <2> QED
    BY <2>1, ShownFacts
<1>3. f \in Seq(Seq(Pairs)) /\ Len(f) = n
  <2>1. f \in [1 .. n -> Seq(Pairs)]
    BY <1>2
  <2> HIDE DEF f, n
  <2> QED
    BY <1>1, <2>1, SeqOfFunction
<1>4. Shown(leaf) \in Seq(Pairs)
  BY ShownFacts
<1> HIDE DEF all
<1>5. /\ g = [k \in 1 .. n + 1 |-> Shown(all[k])]
      /\ \A k \in 1 .. n : g[k] = f[k]
      /\ g[n + 1] = Shown(leaf)
  BY <1>1
<1>6. g \in [1 .. n + 1 -> Seq(Pairs)]
  <2>1. \A k \in 1 .. n + 1 : Shown(all[k]) \in Seq(Pairs)
    BY <1>1, <1>2, <1>4
  <2> HIDE DEF n
  <2> QED
    BY <1>5, <2>1, Zenon
<1> HIDE DEF f, g, n
<1>7. g = Append(f, Shown(leaf))
  <2>1. BeginsAlike(g, f, n)
    BY <1>5, Zenon DEF BeginsAlike
  <2>2. g = Append(f, g[n + 1])
    BY <1>1, <1>3, <1>6, <2>1, LongerSeq, Zenon
  <2> QED
    BY <1>5, <2>2, Zenon
<1>8. /\ FlattenSeq(f) \in Seq(Pairs)
      /\ FlattenSeq(Append(f, Shown(leaf))) = FlattenSeq(f) \o Shown(leaf)
  BY <1>3, <1>4, FlattenAppend
<1>9. ShownOf(leaves) = FlattenSeq(f) /\ ShownOf(Append(leaves, leaf)) = FlattenSeq(g)
  BY Zenon DEF ShownOf, f, g, all
<1> QED
  BY <1>7, <1>8, <1>9, Zenon

LEMMA EnumeratorsFacts ==
  ASSUME NEW list \in FieldList
  PROVE  /\ Enumerators(list) = ShownOf(list.leaves)
         /\ Enumerators(list) \in Seq(Pairs)
<1>1. list.leaves \in Seq(Leaf) /\ DOMAIN list.leaves = 1 .. Len(list.leaves)
  BY LenProperties DEF FieldList
<1>2. Enumerators(list) = ShownOf(list.leaves)
  BY <1>1, Zenon DEF Enumerators, ShownOf
<1>3. ASSUME NEW leaf \in Leaf PROVE ShownOf(list.leaves) \in Seq(Pairs)
  BY <1>1, ShownAppend, Zenon
<1>4. IndexLeaf(0, 0) \in Leaf
  BY IndexLeafFacts
<1> QED
  BY <1>2, <1>3, <1>4

ReadOf(ls) == FlattenSeq([k \in 1 .. Len(ls) |-> Enumerators(ls[k])])

LEMMA ReadAppend ==
  ASSUME NEW ls \in Seq(FieldList), NEW list \in FieldList
  PROVE  /\ ReadOf(ls) \in Seq(Pairs)
         /\ ReadOf(Append(ls, list)) = ReadOf(ls) \o Enumerators(list)
<1> DEFINE f == [k \in 1 .. Len(ls) |-> Enumerators(ls[k])]
           ll == Append(ls, list)
           g == [k \in 1 .. Len(ll) |-> Enumerators(ll[k])]
           n == Len(ls)
<1>1. /\ n \in Nat /\ Len(ll) = n + 1 /\ ll[n + 1] = list
      /\ \A k \in 1 .. n : ll[k] = ls[k]
  BY AppendProperties, LenProperties
<1>2. \A k \in 1 .. n : Enumerators(ls[k]) \in Seq(Pairs)
  <2>1. \A k \in 1 .. n : ls[k] \in FieldList
    BY ElementOfSeq
  <2> QED
    BY <2>1, EnumeratorsFacts
<1>3. f \in Seq(Seq(Pairs)) /\ Len(f) = n
  <2>1. f \in [1 .. n -> Seq(Pairs)]
    BY <1>2
  <2> HIDE DEF f, n
  <2> QED
    BY <1>1, <2>1, SeqOfFunction
<1>4. Enumerators(list) \in Seq(Pairs)
  BY EnumeratorsFacts
<1> HIDE DEF ll
<1>5. /\ g = [k \in 1 .. n + 1 |-> Enumerators(ll[k])]
      /\ \A k \in 1 .. n : g[k] = f[k]
      /\ g[n + 1] = Enumerators(list)
  BY <1>1
<1>6. g \in [1 .. n + 1 -> Seq(Pairs)]
  <2>1. \A k \in 1 .. n + 1 : Enumerators(ll[k]) \in Seq(Pairs)
    BY <1>1, <1>2, <1>4
  <2> HIDE DEF n
  <2> QED
    BY <1>5, <2>1, Zenon
<1> HIDE DEF f, g, n
<1>7. g = Append(f, Enumerators(list))
  <2>1. BeginsAlike(g, f, n)
    BY <1>5, Zenon DEF BeginsAlike
  <2>2. g = Append(f, g[n + 1])
    BY <1>1, <1>3, <1>6, <2>1, LongerSeq, Zenon
  <2> QED
    BY <1>5, <2>2, Zenon
<1>8. /\ FlattenSeq(f) \in Seq(Pairs)
      /\ FlattenSeq(Append(f, Enumerators(list))) = FlattenSeq(f) \o Enumerators(list)
  BY <1>3, <1>4, FlattenAppend
<1>9. ReadOf(ls) = FlattenSeq(f) /\ ReadOf(Append(ls, list)) = FlattenSeq(g)
  BY Zenon DEF ReadOf, f, g, ll
<1> QED
  BY <1>7, <1>8, <1>9, Zenon

(* The last record gets what is shown by e as well.                        *)
LEMMA ReadReplace ==
  ASSUME NEW ls \in Seq(FieldList), ls # <<>>, NEW new \in FieldList,
         NEW e \in Seq(Pairs),
         Enumerators(new) = Enumerators(ls[Len(ls)]) \o e
  PROVE  ReadOf([ls EXCEPT ![Len(ls)] = new]) = ReadOf(ls) \o e
<1>1. PICK front \in Seq(FieldList), old \in FieldList : ls = Append(front, old)
  BY SequenceEmptyOrAppend
<1> DEFINE n == Len(ls)
<1>2. ls[n] = old /\ [ls EXCEPT ![n] = new] = Append(front, new)
  <2>1. Append(front, old)[Len(Append(front, old))] = old
    BY AppendProperties
  <2>2. [Append(front, old) EXCEPT ![Len(Append(front, old))] = new]
          = Append(front, new)
    BY ReplacedSeq
  <2> QED
    BY <1>1, <2>1, <2>2
<1>7. /\ ReadOf(front) \in Seq(Pairs)
      /\ ReadOf(Append(front, old)) = ReadOf(front) \o Enumerators(old)
      /\ ReadOf(Append(front, new)) = ReadOf(front) \o Enumerators(new)
  BY ReadAppend
<1>8. PICK a \in Seq(Pairs) : a = ReadOf(front)
  BY <1>7, Zenon
<1>9. PICK b \in Seq(Pairs) : b = Enumerators(old)
  BY EnumeratorsFacts
<1>10. PICK ab : ab = ReadOf(ls)
  BY Zenon
<1>11. PICK be : be = Enumerators(new)
  BY Zenon
<1>12. ab = a \o b /\ be = b \o e
  BY <1>1, <1>2, <1>7, <1>8, <1>9, <1>10, <1>11, Zenon
<1>13. ab \o e = a \o be
  BY <1>12, ConcatThrice, SMTT(60)
<1> QED
  BY <1>2, <1>7, <1>8, <1>10, <1>11, <1>13, Zenon

(* Following the references from the first record, a reader comes to every *)
(* record, in the order they were written.                                 *)
LEMMA ReaderFollows == IInv => ReadFrom[1] = ReadOf(lists)
<1> SUFFICES ASSUME IInv PROVE ReadFrom[1] = ReadOf(lists)
  OBVIOUS
<1> DEFINE n == Len(lists)
           E == [k \in 1 .. n |-> Enumerators(lists[k])]
           LastLeaf(k) == lists[k].leaves[Len(lists[k].leaves)]
           Goes(k) == /\ lists[k].leaves # <<>> /\ LastLeaf(k).kind = "index"
                      /\ LastLeaf(k).ref - FirstFieldList \in k .. n - 1
           Body(f, k) == Enumerators(lists[k]) \o
                           IF Goes(k) THEN f[LastLeaf(k).ref - FirstFieldList + 1]
                           ELSE <<>>
<1>1. /\ lists \in Seq(FieldList) /\ n \in Nat /\ n >= 1 /\ n = Filling
      /\ FirstFieldList \in Nat
  BY EnumAssumption DEF IInv, Lists, Filling
<1>2. \A k \in 1 .. n : lists[k].leaves \in Seq(Leaf)
  <2>1. \A k \in 1 .. n : lists[k] \in FieldList
    BY <1>1, ElementOfSeq
  <2> QED
    BY <2>1, Zenon DEF FieldList
<1>3. ASSUME NEW k \in 1 .. n, k = n PROVE ~Goes(k)
  <2>1. \A i \in 1 .. Len(lists[k].leaves) : lists[k].leaves[i].kind = "enumerate"
    BY <1>1, <1>3 DEF IInv, Lists, OpenList
  <2>2. lists[k].leaves # <<>> => Len(lists[k].leaves) \in 1 .. Len(lists[k].leaves)
    BY <1>2, EmptySeq
  <2>3. lists[k].leaves # <<>> => LastLeaf(k).kind = "enumerate"
    BY <2>1, <2>2
  <2> HIDE DEF LastLeaf
  <2> QED
    BY <2>3
<1>4. ASSUME NEW k \in 1 .. n, k < n
      PROVE  Goes(k) /\ LastLeaf(k).ref - FirstFieldList + 1 = k + 1
  <2>1. k \in 1 .. Filling - 1
    BY <1>1, <1>4
  <2>2. ContinuedList(k, lists[k])
    BY <2>1 DEF IInv, Lists
  <2>3. Len(lists[k].leaves) \in 1 .. Len(lists[k].leaves) /\ lists[k].leaves # <<>>
    BY <1>2, <2>2, LenProperties, EmptySeq DEF ContinuedList
  <2>4. LastLeaf(k).kind = "index" /\ LastLeaf(k).ref = FirstFieldList + k
    BY <2>2, <2>3 DEF ContinuedList
  <2> HIDE DEF LastLeaf
  <2>5. LastLeaf(k).ref - FirstFieldList = k
    BY <1>1, <2>4
  <2> QED
    BY <1>1, <1>4, <2>3, <2>4, <2>5
<1> HIDE DEF Goes, LastLeaf, n
<1>5. \A f : \A k \in 1 .. n : Body(f, k) = E[k] \o Rest(f, k, n)
  <2> TAKE f
  <2> TAKE k \in 1 .. n
  <2>1. E[k] = Enumerators(lists[k])
    OBVIOUS
  <2>2. (IF Goes(k) THEN f[LastLeaf(k).ref - FirstFieldList + 1] ELSE <<>>)
          = Rest(f, k, n)
    <3>1. CASE k < n
      BY <1>4, <3>1, Zenon DEF Rest
    <3>2. CASE ~(k < n)
      <4>1. k = n
        BY <1>1, <3>2
      <4> QED
        BY <1>3, <3>2, <4>1, Zenon DEF Rest
    <3> QED
      BY <3>1, <3>2
  <2> QED
    BY <2>1, <2>2, Zenon
<1> HIDE DEF Body, E
<1> DEFINE F(f) == f = [k \in 1 .. n |-> Body(f, k)]
<1>6. \A f : F(f) <=> Chains(f, E, 1, n)
  <2> TAKE f
  <2>1. [k \in 1 .. n |-> Body(f, k)] = [k \in 1 .. n |-> E[k] \o Rest(f, k, n)]
    BY <1>5
  <2> QED
    BY <2>1, Zenon DEF Chains
<1>7. \E f : F(f)
  BY <1>1, <1>6, ChainsExist
<1>8. F(CHOOSE f : F(f))
  BY <1>7, Zenon
<1>9. ReadFrom = CHOOSE f : F(f)
  BY Zenon DEF ReadFrom, Body, Goes, LastLeaf, n
<1>10. Chains(ReadFrom, E, 1, n)
  BY <1>6, <1>8, <1>9, Zenon
<1>11. E \in Seq(Seq(Pairs)) /\ Len(E) = n
  <2>1. \A k \in 1 .. n : Enumerators(lists[k]) \in Seq(Pairs)
    <3>1. \A k \in 1 .. n : lists[k] \in FieldList
      BY <1>1, ElementOfSeq DEF n
    <3> QED
      BY <3>1, EnumeratorsFacts
  <2>2. E \in [1 .. n -> Seq(Pairs)]
    BY <2>1, Zenon DEF E
  <2> QED
    BY <1>1, <2>2, SeqOfFunction
<1>12. E # <<>>
  BY <1>1, <1>11, EmptySeq
<1>13. ReadFrom[1] = FlattenSeq(E)
  <2>1. Chains(ReadFrom, E, 1, Len(E))
    BY <1>10, <1>11
  <2> QED
    BY <1>11, <1>12, <2>1, ChainsFlatten, Zenon
<1> QED
  BY <1>13, Zenon DEF ReadOf, E, n

(* The enumerators of the children the cursor has passed are those in the  *)
(* records, and count is how many there are.                               *)
DeclaredOf(cs, n) == FlattenSeq([j \in 1 .. n |-> Declared(cs[j])])

Complete ==
  /\ ReadOf(lists) = DeclaredOf(children, next - 1)
  /\ count = Len(ReadOf(lists))
  /\ enums # <<>> => next = Len(children) + 1

LEMMA DeclaredAppend ==
  ASSUME NEW cs \in Seq(Child), NEW n \in Nat, n < Len(cs)
  PROVE  /\ DeclaredOf(cs, n) \in Seq(Pairs)
         /\ DeclaredOf(cs, n + 1) = DeclaredOf(cs, n) \o Declared(cs[n + 1])
<1> DEFINE f == [j \in 1 .. n |-> Declared(cs[j])]
           g == [j \in 1 .. n + 1 |-> Declared(cs[j])]
<1>1. \A j \in 1 .. n + 1 : j \in 1 .. Len(cs)
  BY LenProperties
<1>2. \A j \in 1 .. n + 1 : Declared(cs[j]) \in Seq(Pairs)
  <2>1. \A j \in 1 .. n + 1 : cs[j] \in Child
    BY <1>1, ElementOfSeq
  <2>2. 0 \in Nat
    OBVIOUS
  <2> QED
    BY <2>1, <2>2, DeclaredFacts
<1>3. \A j \in 1 .. n : j \in 1 .. n + 1
  OBVIOUS
<1>4. f \in [1 .. n -> Seq(Pairs)] /\ g \in [1 .. n + 1 -> Seq(Pairs)]
  BY <1>2, <1>3, Zenon
<1>5. g[n + 1] = Declared(cs[n + 1]) /\ g[n + 1] \in Seq(Pairs)
  <2>1. n + 1 \in 1 .. n + 1
    OBVIOUS
  <2> QED
    BY <1>2, <2>1
<1>6. BeginsAlike(g, f, n)
  BY <1>3, Zenon DEF BeginsAlike
<1> HIDE DEF f, g
<1>7. f \in Seq(Seq(Pairs)) /\ Len(f) = n
  BY <1>4, SeqOfFunction
<1>8. g = Append(f, g[n + 1])
  BY <1>4, <1>6, <1>7, LongerSeq, Zenon
<1>9. /\ FlattenSeq(f) \in Seq(Pairs)
      /\ FlattenSeq(Append(f, g[n + 1])) = FlattenSeq(f) \o g[n + 1]
  BY <1>5, <1>7, FlattenAppend
<1>10. DeclaredOf(cs, n) = FlattenSeq(f) /\ DeclaredOf(cs, n + 1) = FlattenSeq(g)
  BY Zenon DEF DeclaredOf, f, g
<1> QED
  BY <1>5, <1>8, <1>9, <1>10, Zenon

LEMMA EnumeratorsGrow ==
  ASSUME NEW list \in FieldList, NEW leaf \in Leaf, NEW new \in FieldList,
         new.leaves = Append(list.leaves, leaf)
  PROVE  Enumerators(new) = Enumerators(list) \o Shown(leaf)
<1>1. list.leaves \in Seq(Leaf)
  BY Zenon DEF FieldList
<1>2. ShownOf(Append(list.leaves, leaf)) = ShownOf(list.leaves) \o Shown(leaf)
  BY <1>1, ShownAppend
<1> QED
  BY <1>2, EnumeratorsFacts, Zenon

LEMMA NoEnumerators ==
  ASSUME NEW list \in FieldList, list.leaves = <<>>
  PROVE  Enumerators(list) = <<>>
<1>1. [k \in 1 .. Len(<<>>) |-> Shown(<<>>[k])] = <<>>
  OBVIOUS
<1> QED
  BY <1>1, EnumeratorsFacts, FlattenEmpty, Zenon DEF ShownOf

(* The next child has been passed, and what it declares is in the records. *)
LEMMA OneMore ==
  ASSUME IInv, Complete, next <= Len(children), NEW e,
         e = Declared(children[next]), ReadOf(lists') = ReadOf(lists) \o e,
         count' = count + Len(e), enums = <<>>, enums' = enums,
         children' = children, next' = next + 1
  PROVE  Complete'
<1>1. children \in Seq(Child) /\ next \in Nat /\ next >= 1
  BY DEF IInv, Walk
<1>2. next - 1 \in Nat /\ next - 1 < Len(children) /\ (next - 1) + 1 = next
      /\ next' - 1 = next /\ next \in 1 .. Len(children)
  BY <1>1, LenProperties
<1>3. children[next] \in Child
  BY <1>1, <1>2, ElementOfSeq
<1>4. e \in Seq(Pairs)
  <2>1. 0 \in Nat
    OBVIOUS
  <2> QED
    BY <1>3, <2>1, DeclaredFacts
<1>5. /\ DeclaredOf(children, next - 1) \in Seq(Pairs)
      /\ DeclaredOf(children, (next - 1) + 1)
           = DeclaredOf(children, next - 1) \o Declared(children[(next - 1) + 1])
  BY <1>1, <1>2, DeclaredAppend, Zenon
<1>6. ReadOf(lists) = DeclaredOf(children, next - 1) /\ count = Len(ReadOf(lists))
  BY DEF Complete
<1>7. ReadOf(lists') = DeclaredOf(children, next)
  BY <1>2, <1>5, <1>6, Zenon
<1>8. Len(ReadOf(lists) \o e) = Len(ReadOf(lists)) + Len(e)
  <2>1. ReadOf(lists) \in Seq(Pairs)
    BY <1>5, <1>6
  <2> HIDE DEF Pairs
  <2> QED
    BY <1>4, <2>1, ConcatProperties, Zenon
<1>9. ReadOf(lists)' = ReadOf(lists') /\ DeclaredOf(children, next - 1)' = DeclaredOf(children', next' - 1)
  BY Zenon DEF ReadOf, DeclaredOf, Enumerators, Shown, Declared
<1>10. Len(ReadOf(lists)') = count'
  BY <1>6, <1>8, <1>9
<1>11. ReadOf(lists)' = DeclaredOf(children, next - 1)'
  BY <1>2, <1>7, <1>9
<1> QED
  BY <1>10, <1>11 DEF Complete

LEMMA InitComplete == Init => Complete
<1> SUFFICES ASSUME Init PROVE Complete
  OBVIOUS
<1> DEFINE list == NewList(BufferUsed)
<1>1. list \in FieldList /\ list.leaves = <<>>
  BY NewListFacts, EnumAssumption DEF OpenList, Shaped
<1>2. lists = <<list>> /\ next - 1 = 0 /\ count = 0 /\ enums = <<>>
  BY DEF Init
<1> HIDE DEF list
<1>3. Enumerators(list) = <<>>
  BY <1>1, NoEnumerators
<1>4. ReadOf(<<>>) = <<>> /\ DeclaredOf(children, 0) = <<>>
  <2>1. /\ [k \in 1 .. Len(<<>>) |-> Enumerators(<<>>[k])] = <<>>
        /\ [j \in 1 .. 0 |-> Declared(children[j])] = <<>>
    OBVIOUS
  <2> QED
    BY <2>1, FlattenEmpty, Zenon DEF ReadOf, DeclaredOf
<1>5. ReadOf(Append(<<>>, list)) = <<>> \o <<>>
  <2>1. <<>> \in Seq(FieldList)
    BY EmptySeq
  <2>2. ReadOf(Append(<<>>, list)) = ReadOf(<<>>) \o Enumerators(list)
    BY <1>1, <2>1, ReadAppend, Zenon
  <2> QED
    BY <1>3, <1>4, <2>2, Zenon
<1>6. Append(<<>>, list) = lists /\ <<>> \o <<>> = <<>>
  BY <1>2
<1>7. ReadOf(lists) = <<>>
  BY <1>5, <1>6, Zenon
<1>8. Len(<<>>) = 0
  OBVIOUS
<1> QED
  BY <1>2, <1>4, <1>7, <1>8 DEF Complete

LEMMA CompleteAdd == IInv /\ Complete /\ AddEnumerator => Complete'
<1> SUFFICES ASSUME IInv, Complete, AddEnumerator PROVE Complete'
  OBVIOUS
<1> DEFINE c    == children[next]
           leaf == addFieldEnumerate(ListEnd, c)
           old  == lists[Filling]
           new  == WithLeaf(old, leaf)
<1>1. /\ enums = <<>> /\ enums' = enums /\ children' = children
      /\ next' = next + 1 /\ count' = count + 1 /\ next <= Len(children)
      /\ IsEnumerator(c) /\ lists' = [lists EXCEPT ![Filling] = new]
  BY DEF AddEnumerator, AtChild
<1>2. Filling \in Nat \ {0} /\ old \in FieldList /\ ListEnd \in Nat
  BY <1>1, OpenRecord
<1>3. c \in Child
  BY <1>1, ElementOfSeq, LenProperties DEF IInv, Walk
<1> HIDE DEF c, old
<1>4. leaf \in Leaf
  BY <1>2, <1>3, EnumerateLeaf
<1>5. Shown(leaf) = Declared(c) /\ Len(Declared(c)) = 1 /\ Declared(c) \in Seq(Pairs)
  BY <1>1, <1>2, <1>3, DeclaredFacts
<1> HIDE DEF leaf
<1>6. new \in FieldList /\ new.leaves = Append(old.leaves, leaf)
  BY <1>2, <1>4, WithLeafFacts
<1> HIDE DEF new
<1>7. Enumerators(new) = Enumerators(old) \o Shown(leaf)
  BY <1>2, <1>4, <1>6, EnumeratorsGrow, Zenon
<1>8. lists \in Seq(FieldList) /\ Filling = Len(lists) /\ lists # <<>>
  BY <1>2 DEF IInv, Lists, Filling
<1>9. ReadOf([lists EXCEPT ![Len(lists)] = new]) = ReadOf(lists) \o Shown(leaf)
  BY <1>5, <1>6, <1>7, <1>8, ReadReplace, Zenon DEF old
<1>10. ReadOf(lists') = ReadOf(lists) \o Declared(c)
  BY <1>1, <1>5, <1>8, <1>9, Zenon
<1> QED
  BY <1>1, <1>5, <1>10, OneMore DEF c

LEMMA CompleteSplit == IInv /\ Complete /\ SplitList => Complete'
<1> SUFFICES ASSUME IInv, Complete, SplitList PROVE Complete'
  OBVIOUS
<1> DEFINE c     == children[next]
           start == ListEnd + IndexSize
           leaf  == addFieldEnumerate(start + HeaderSize, c)
           index == IndexLeaf(ListEnd, nextDwarfType)
           old   == lists[Filling]
           cont  == Continued(old, nextDwarfType)
           fresh == NewList(start)
           new   == WithLeaf(fresh, leaf)
           s     == [lists EXCEPT ![Filling] = cont]
<1>1. /\ enums = <<>> /\ enums' = enums /\ children' = children
      /\ next' = next + 1 /\ count' = count + 1 /\ next <= Len(children)
      /\ IsEnumerator(c) /\ lists' = Append(s, new)
  BY DEF SplitList, AtChild, NewStart, CountedOnce
<1>2. /\ Filling \in Nat \ {0} /\ old \in FieldList /\ ListEnd \in Nat
      /\ old.len = 0 /\ fieldlistLength = EndOf(old) - old.pos /\ OpenList(old)
  BY <1>1, OpenRecord
<1>3. c \in Child
  BY <1>1, ElementOfSeq, LenProperties DEF IInv, Walk
<1>4. start \in Nat /\ start + HeaderSize \in Nat /\ nextDwarfType \in Nat
      /\ nextDwarfType = FirstFieldList + Filling
  BY <1>2, EnumAssumption DEF IndexSize, HeaderSize, IInv, Place
<1> HIDE DEF c, old, start
<1>5. leaf \in Leaf /\ index \in Leaf /\ index.kind = "index"
  BY <1>2, <1>3, <1>4, EnumerateLeaf, IndexLeafFacts
<1>6. Shown(leaf) = Declared(c) /\ Len(Declared(c)) = 1 /\ Declared(c) \in Seq(Pairs)
  BY <1>1, <1>3, <1>4, DeclaredFacts
<1>7. Shown(index) = <<>>
  BY <1>5 DEF Shown
<1>8. fresh \in FieldList /\ fresh.leaves = <<>>
  BY <1>4, NewListFacts DEF OpenList, Shaped
<1> HIDE DEF leaf, fresh
<1>9. /\ new \in FieldList /\ new.leaves = Append(fresh.leaves, leaf)
      /\ WithLeaf(old, index).leaves = Append(old.leaves, index)
  BY <1>2, <1>5, <1>8, WithLeafFacts
<1> HIDE DEF new, index
<1>10. cont \in FieldList /\ cont.leaves = Append(old.leaves, index)
  <2>1. ContinuedList(Filling, cont)
    BY <1>2, <1>4, OpenRecord, <1>1, ContinuedOK DEF IInv, Place, old
  <2>2. cont.leaves = WithLeaf(old, index).leaves
    BY <1>2 DEF Continued, Closed, WithLeaf, FieldList, index
  <2> QED
    BY <1>9, <2>1, <2>2 DEF ContinuedList, Shaped
<1> HIDE DEF cont
<1>11. Enumerators(cont) = Enumerators(old) \o <<>>
  BY <1>2, <1>5, <1>7, <1>10, EnumeratorsGrow, Zenon
<1>12. Enumerators(new) = Shown(leaf)
  <2>1. Enumerators(new) = Enumerators(fresh) \o Shown(leaf)
    BY <1>5, <1>8, <1>9, EnumeratorsGrow, Zenon
  <2>2. Enumerators(fresh) = <<>>
    BY <1>8, NoEnumerators
  <2>3. <<>> \o Shown(leaf) = Shown(leaf)
    BY <1>5, ShownFacts, ConcatEmptySeq, Zenon
  <2> QED
    BY <2>1, <2>2, <2>3, Zenon
<1>13. lists \in Seq(FieldList) /\ Filling = Len(lists) /\ lists # <<>>
  BY <1>2 DEF IInv, Lists, Filling
<1>14. ReadOf(s) = ReadOf(lists)
  <2>1. <<>> \in Seq(Pairs)
    BY EmptySeq
  <2>2. ReadOf([lists EXCEPT ![Len(lists)] = cont]) = ReadOf(lists) \o <<>>
    BY <1>10, <1>11, <1>13, <2>1, ReadReplace, Zenon DEF old
  <2>3. ReadOf(lists) \in Seq(Pairs)
    BY <1>8, <1>13, ReadAppend
  <2>4. ReadOf(lists) \o <<>> = ReadOf(lists)
    BY <2>3, ConcatEmptySeq, Zenon
  <2> QED
    BY <1>13, <2>2, <2>4, Zenon
<1>15. s \in Seq(FieldList)
  BY <1>2, <1>10, <1>13, ExceptSeq
<1> HIDE DEF s
<1>16. ReadOf(Append(s, new)) = ReadOf(s) \o Enumerators(new)
  BY <1>9, <1>15, ReadAppend, Zenon
<1>17. ReadOf(lists') = ReadOf(lists) \o Declared(c)
  BY <1>1, <1>6, <1>12, <1>14, <1>16, Zenon
<1> QED
  BY <1>1, <1>6, <1>17, OneMore DEF c

LEMMA CompleteSkip == IInv /\ Complete /\ SkipChild => Complete'
<1> SUFFICES ASSUME IInv, Complete, SkipChild PROVE Complete'
  OBVIOUS
<1> DEFINE c == children[next]
<1>1. /\ enums = <<>> /\ enums' = enums /\ children' = children /\ lists' = lists
      /\ next' = next + 1 /\ count' = count /\ next <= Len(children)
      /\ ~IsEnumerator(c)
  BY DEF SkipChild, AtChild
<1>2. c \in Child
  BY <1>1, ElementOfSeq, LenProperties DEF IInv, Walk
<1> HIDE DEF c
<1>3. Declared(c) = <<>>
  <2>1. 0 \in Nat
    OBVIOUS
  <2> QED
    BY <1>1, <1>2, <2>1, DeclaredFacts
<1>4. ReadOf(lists) \in Seq(Pairs)
  <2>1. NewList(0) \in FieldList
    BY NewListFacts DEF OpenList, Shaped
  <2> QED
    BY <2>1, ReadAppend DEF IInv, Lists
<1>5. ReadOf(lists') = ReadOf(lists) \o Declared(c)
  <2>1. ReadOf(lists) \o <<>> = ReadOf(lists)
    BY <1>4, ConcatEmptySeq, Zenon
  <2> QED
    BY <1>1, <1>3, <2>1, Zenon
<1>6. count' = count + Len(Declared(c))
  BY <1>1, <1>3 DEF IInv, Walk
<1> QED
  BY <1>1, <1>5, <1>6, OneMore DEF c

LEMMA CompleteFinish == IInv /\ Complete /\ FinishEnum => Complete'
<1> SUFFICES ASSUME IInv, Complete, FinishEnum PROVE Complete'
  OBVIOUS
<1> DEFINE old == lists[Filling]
           new == Closed(old, fieldlistLength)
<1>1. /\ enums = <<>> /\ lists' = [lists EXCEPT ![Filling] = new]
      /\ children' = children /\ next' = next /\ count' = count
      /\ ~(next <= Len(children))
  BY DEF FinishEnum, AtChild
<1>2. /\ Filling \in Nat \ {0} /\ old \in FieldList /\ OpenList(old)
      /\ old.len = 0 /\ fieldlistLength = EndOf(old) - old.pos
  BY <1>1, OpenRecord
<1>3. lists \in Seq(FieldList) /\ Filling = Len(lists) /\ lists # <<>>
  BY <1>2 DEF IInv, Lists, Filling
<1> HIDE DEF old
<1>4. fieldlistLength \in Nat /\ fieldlistLength >= HeaderSize
  BY <1>2 DEF OpenList, Shaped, FieldList, HeaderSize
<1>5. new \in FieldList /\ new.leaves = old.leaves
  BY <1>2, <1>4 DEF Closed, FieldList, HeaderSize
<1> HIDE DEF new
<1>6. Enumerators(new) = Enumerators(old) \o <<>> /\ <<>> \in Seq(Pairs)
  <2>1. Enumerators(new) = Enumerators(old) /\ Enumerators(old) \in Seq(Pairs)
    BY <1>2, <1>5, EnumeratorsFacts
  <2>2. Enumerators(old) \o <<>> = Enumerators(old)
    BY <2>1, ConcatEmptySeq, Zenon
  <2> QED
    BY <2>1, <2>2, EmptySeq, Zenon
<1>7. ReadOf([lists EXCEPT ![Len(lists)] = new]) = ReadOf(lists) \o <<>>
  BY <1>3, <1>5, <1>6, ReadReplace, Zenon DEF old
<1>8. ReadOf(lists) \o <<>> = ReadOf(lists)
  <2>1. ReadOf(lists) \in Seq(Pairs)
    BY <1>3, <1>5, ReadAppend
  <2> QED
    BY <2>1, ConcatEmptySeq, Zenon
<1>9. ReadOf(lists') = ReadOf(lists)
  BY <1>1, <1>3, <1>7, <1>8, Zenon
<1>10. ReadOf(lists)' = ReadOf(lists')
       /\ DeclaredOf(children, next - 1)' = DeclaredOf(children', next' - 1)
  BY Zenon DEF ReadOf, DeclaredOf, Enumerators, Shown, Declared
<1>11. next' = Len(children') + 1
  BY <1>1, LenProperties DEF IInv, Walk
<1>12. ReadOf(lists)' = DeclaredOf(children, next - 1)' /\ count' = Len(ReadOf(lists)')
  BY <1>1, <1>9, <1>10, Zenon DEF Complete
<1> QED
  BY <1>11, <1>12 DEF Complete

LEMMA CompleteStep == IInv /\ Complete /\ [Next]_vars => Complete'
<1> SUFFICES ASSUME IInv, Complete, [Next]_vars PROVE Complete'
  OBVIOUS
<1>1. CASE UNCHANGED vars
  BY <1>1, Zenon DEF vars, Complete, ReadOf, DeclaredOf, Enumerators, Shown, Declared
<1> QED
  BY <1>1, CompleteSkip, CompleteAdd, CompleteSplit, CompleteFinish DEF Next

LEMMA CompleteSuffices == IInv /\ Complete => ReaderSeesEnum
<1> SUFFICES ASSUME IInv, Complete, NEW i \in 1 .. Len(enums)
             PROVE  LET read == ReadFrom[enums[i].fieldlist - FirstFieldList + 1]
                    IN  /\ read = DeclaredFirst(Len(children))
                        /\ enums[i].count = Len(read) % CountRange
  BY DEF ReaderSeesEnum
<1>1. enums = <<EnumRecord>> /\ i = 1 /\ enums # <<>>
  <2>1. enums \in {<<>>, <<EnumRecord>>}
    BY Zenon DEF IInv, Walk
  <2>2. enums # <<>>
    OBVIOUS
  <2>3. enums = <<EnumRecord>>
    BY <2>1, <2>2
  <2>4. Len(<<EnumRecord>>) = 1
    OBVIOUS
  <2> QED
    BY <2>2, <2>3, <2>4
<1>2. enums[i].fieldlist = FirstFieldList /\ enums[i].count = count % CountRange
  BY <1>1 DEF EnumRecord
<1>3. ReadFrom[1] = ReadOf(lists)
  BY ReaderFollows
<1>4. next - 1 = Len(children)
  BY <1>1, LenProperties DEF Complete, IInv, Walk
<1>5. ReadOf(lists) = DeclaredFirst(Len(children)) /\ count = Len(ReadOf(lists))
  BY <1>4, Zenon DEF Complete, DeclaredOf, DeclaredFirst
<1>6. enums[i].fieldlist - FirstFieldList + 1 = 1
  BY <1>2, EnumAssumption
<1> QED
  BY <1>2, <1>3, <1>5, <1>6, Zenon

(* A reader that follows the chain from the LF_ENUM gets every enumerator, *)
(* once, in order and with its own value, over every split, and as many as *)
(* the record announces.                                                   *)
THEOREM ReaderGetsAll == Spec => []ReaderSeesEnum
<1>1. Init => IInv /\ Complete
  BY InitIInv, InitComplete
<1>2. (IInv /\ Complete) /\ [Next]_vars => (IInv /\ Complete)'
  BY IInvStep, CompleteStep
<1> QED
  BY <1>1, <1>2, CompleteSuffices, PTL DEF Spec
=============================================================================
