----------------------------- MODULE DebugLists -----------------------------
(***************************************************************************)
(* RangeCursor and LOCCursor of readDwarf.cpp, and what getRanges and      *)
(* findBestFBLoc make of the lists they read.  An entry of a list is a     *)
(* record [kind, a, b, expr].  Before version 5 a list has "pair"s of      *)
(* offsets from the base, and "select"s a base; its end is the pair of 0   *)
(* and 0.  A list of version 5 is made of "base", "offset_pair",           *)
(* "start_end", "start_length", "default" and "end"; the kinds that take   *)
(* an address by its index are not told from those that hold it.           *)
(***************************************************************************)
EXTENDS Location, FiniteSetsExt

ListEntry ==
  [kind : {"pair", "select", "base", "offset_pair", "start_end", "start_length",
           "default", "end"},
   a : Nat, b : Nat, expr : Seq(Operation)]

(* The unit's base address begins the list; v5 entries replace it.         *)
EntrySpan(e, base) ==
  CASE e.kind \in {"pair", "offset_pair"} -> [lo |-> base + e.a, hi |-> base + e.b]
    [] e.kind = "start_end"    -> [lo |-> e.a, hi |-> e.b]
    [] e.kind = "start_length" -> [lo |-> e.a, hi |-> e.a + e.b]

EndsList(e) == e.kind = "end" \/ (e.kind = "pair" /\ e.a = 0 /\ e.b = 0)

Listed(list) ==
  LET ends == {i \in DOMAIN list : EndsList(list[i])}
  IN  IF ends = {} THEN list
      ELSE SubSeq(list, 1, (CHOOSE i \in ends : \A j \in ends : i <= j) - 1)

(* All that RangeCursor.readNext returns.  Of the old lists, a pair that   *)
(* does not go up is passed over, and so is every select.                  *)
ReadEntry(m, e) ==
  CASE e.kind = "base" -> [m EXCEPT !.base = e.a]
    [] e.kind = "select" \/ (e.kind = "pair" /\ e.a >= e.b) -> m
    [] OTHER -> [m EXCEPT !.out = Append(@, EntrySpan(e, m.base))]

RangesRead(base, list) ==
  LET entries == Listed(list)
      at[k \in 0 .. Len(entries)] ==
        IF k = 0 THEN [base |-> base, out |-> <<>>]
        ELSE ReadEntry(at[k - 1], entries[k])
  IN  at[Len(entries)].out

(* getRanges: a range that the entry point is in is split there, and its   *)
(* upper part comes first.                                                 *)
SplitAt(r, entry) ==
  [first |-> IF r.lo <= entry /\ entry < r.hi THEN <<[r EXCEPT !.lo = entry]>> ELSE <<>>,
   other |-> IF r.lo < entry /\ entry < r.hi THEN <<[r EXCEPT !.hi = entry]>>
             ELSE IF r.lo = entry /\ entry < r.hi THEN <<>>
             ELSE <<r>>]

Placed(out, r, entry) ==
  IF r.lo = r.hi THEN out ELSE SplitAt(r, entry).first \o out \o SplitAt(r, entry).other

SplitRanges(ranges, entry) ==
  LET at[k \in 0 .. Len(ranges)] ==
        IF k = 0 THEN <<>> ELSE Placed(at[k - 1], ranges[k], entry)
  IN  at[Len(ranges)]

(* id.pclo is 0 if the DIE has none; list is what id.ranges names.         *)
getRanges(base, die, list) ==
  IF die.pclo # 0
    THEN IF die.pchi \in {0, die.pclo} THEN <<>>
         ELSE SplitRanges(<<[lo |-> die.pclo, hi |-> die.pchi]>>, die.pcentry)
    ELSE SplitRanges(RangesRead(base, list), die.pcentry)

-----------------------------------------------------------------------------
(* Location lists.  LOCCursor.readNext returns the bounds as they are in   *)
(* the entry, and decodes locations without a frame base.  Not modelled: a *)
(* select in an old list, which returns an entry without a location.       *)
LocationsRead(list) ==
  {i \in DOMAIN Listed(list) : list[i].kind \notin {"base", "select"}}

LocationIn(e) == Evaluate(e.expr, Unusable)[1]

RangeIn(e) ==
  CASE e.kind = "default" -> 0
    [] e.kind = "start_length" -> e.b
    [] OTHER -> e.b - e.a

Ebp(x64) == IF x64 THEN 6 ELSE 5

(* The first one on ebp, or the first of the longest, if any is longer     *)
(* than 0 (0: none).                                                       *)
BestEntry(x64, list) ==
  LET read    == LocationsRead(list)
      onEbp   == {i \in read : /\ IsRegRel(LocationIn(list[i]))
                              /\ LocationIn(list[i]).reg = Ebp(x64)}
      longest == {i \in read : /\ RangeIn(list[i]) > 0
                              /\ \A j \in read : RangeIn(list[j]) <= RangeIn(list[i])}
  IN  IF onEbp # {} THEN Min(onEbp) ELSE IF longest # {} THEN Min(longest) ELSE 0

findBestFBLoc(x64, list) ==
  LET best == BestEntry(x64, list)
  IN  IF best # 0 THEN LocationIn(list[best]) ELSE mkRegRel(DW_REG_CFA, 0)

-----------------------------------------------------------------------------
(* What the lists mean: an entry, and the base that is in force there.     *)

BasesAt(version, base, list) ==
  LET changes == IF version >= 5 THEN "base" ELSE "select"
  IN  [i \in DOMAIN list |->
        LET before == {j \in 1 .. i - 1 : list[j].kind = changes}
        IN  IF before = {} THEN base ELSE list[CHOOSE j \in before : \A k \in before : k <= j].a]

Covers(version, base, list, i, pc) ==
  LET e == list[i]
      b == BasesAt(version, base, list)[i]
  IN  /\ e.kind \in {"pair", "offset_pair", "start_end", "start_length"}
      /\ CASE e.kind \in {"pair", "offset_pair"} -> b + e.a <= pc /\ pc < b + e.b
           [] e.kind = "start_end" -> e.a <= pc /\ pc < e.b
           [] OTHER -> e.a <= pc /\ pc < e.a + e.b

EntriesAt(version, base, list, pc) ==
  {i \in DOMAIN Listed(list) : Covers(version, base, list, i, pc)}
=============================================================================
