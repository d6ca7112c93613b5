----------------------------- MODULE DieCursor -----------------------------
(***************************************************************************)
(* DIECursor of readDwarf.cpp: how the converter moves over one unit of    *)
(* .debug_info.  A unit holds its tree of DIEs as a sequence: a DIE that   *)
(* has children is followed by them, and they by a null entry; a DIE may   *)
(* say where its next sibling is.  A position is an index into the         *)
(* sequence, and 0 is no position.                                         *)
(***************************************************************************)
EXTENDS Integers, Sequences, FiniteSetsExt

IsNull(die) == die.tag = "null"

Cursor == [ptr : Nat, level : Int, prevHasChild : BOOLEAN, sibling : Nat]

(* A cursor that continues elsewhere as parent does here.                  *)
ChildCursor(parent, ptr) == [parent EXCEPT !.ptr = ptr]

LevelOf(c) == IF c.prevHasChild THEN c.level + 1 ELSE c.level

(* Where a cursor that skips null entries comes to rest.                   *)
AfterNulls(dies, c) ==
  Min({i \in c.ptr .. Len(dies) + 1 :
         \/ i = Len(dies) + 1 \/ ~IsNull(dies[i])
         \/ LevelOf(c) - (i - c.ptr) = -1})

(* readNext: the cursor after it, and the DIE that it read (0: none).      *)
readNext(dies, c, stopAtNull) ==
  LET at    == IF stopAtNull THEN c.ptr ELSE AfterNulls(dies, c)
      level == LevelOf(c) - (at - c.ptr)
      moved == [c EXCEPT !.ptr = at, !.level = level]
  IN  IF level = -1 \/ at > Len(dies) THEN [cursor |-> moved, die |-> 0]
      ELSE IF IsNull(dies[at])
      THEN [cursor |-> [moved EXCEPT !.ptr = at + 1, !.level = level - 1,
                                     !.prevHasChild = FALSE],
            die |-> 0]
      ELSE [cursor |-> [ptr |-> at + 1, level |-> level,
                        prevHasChild |-> dies[at].hasChild,
                        sibling |-> dies[at].sibling],
            die |-> at]

(* The null entry that ends the siblings which begin at p.                 *)
EndOfLevel(dies, p) ==
  LET last == Len(dies) + 1
      end[i \in 1 .. last] ==
        IF i = last \/ IsNull(dies[i]) THEN i
        ELSE IF dies[i].hasChild /\ end[i + 1] < last THEN end[end[i + 1] + 1]
        ELSE end[i + 1]
  IN  end[p]

(* gotoSibling.  Reading on to the end of the children leaves the sibling  *)
(* of the last DIE that was read behind.                                   *)
(* Mutant: only a sibling that is named is gone to.                        *)
MutGotoSibling(dies, c) ==
  IF c.sibling # 0 THEN [c EXCEPT !.ptr = c.sibling, !.prevHasChild = FALSE]
  ELSE c

gotoSibling(dies, c) ==
  IF c.sibling # 0 THEN [c EXCEPT !.ptr = c.sibling, !.prevHasChild = FALSE]
  ELSE IF ~c.prevHasChild THEN c
  ELSE LET end  == EndOfLevel(dies, c.ptr)
           read == {i \in c.ptr .. end : ~IsNull(dies[i])}
       IN  [c EXCEPT !.ptr = end + 1, !.prevHasChild = FALSE,
                     !.sibling = dies[Max(read)].sibling]

-----------------------------------------------------------------------------
(* The tree, by its nesting alone.                                         *)

Around(dies, i) ==
  {p \in 1 .. i - 1 : dies[p].hasChild /\ i < EndOfLevel(dies, p + 1)}
ParentOf(dies, i) == Max({0} \cup Around(dies, i))

ChildrenOf(dies, p) ==
  {i \in p + 1 .. Len(dies) : ~IsNull(dies[i]) /\ ParentOf(dies, i) = p}

(* What compilers write: one root, every level ended, nothing after it;    *)
(* siblings that are named are the siblings; and no DIE that announces     *)
(* children is without (readNext asserts that).                            *)
WellNested(dies) ==
  /\ dies # <<>>
  /\ dies[1].hasChild /\ EndOfLevel(dies, 2) = Len(dies)
  /\ \A i \in 1 .. Len(dies) :
       /\ IsNull(dies[i]) => ~dies[i].hasChild /\ dies[i].sibling = 0
       /\ dies[i].hasChild => ~IsNull(dies[i + 1])
       /\ dies[i].sibling \in {0, IF dies[i].hasChild
                                  THEN EndOfLevel(dies, i + 1) + 1 ELSE i + 1}
=============================================================================
