------------------------------- MODULE CvLines -------------------------------
(***************************************************************************)
(* Segments, contributions of modules, source lines and publics of the     *)
(* CodeView half (cv2pdb.cpp).                                             *)
(*                                                                         *)
(* The file gives the range of a block of lines up to the first byte of    *)
(* its last line.  To extend it over that line, the starts of all lines,   *)
(* blocks and contributions are marked in a bitmap, when the first block   *)
(* asks for it; a block ends before the next mark.                         *)
(*                                                                         *)
(* Precondition: the entries of modules come before those of source        *)
(* modules, and frames of line blocks are at most the largest frame.       *)
(***************************************************************************)
EXTENDS CvInput

VARIABLES
  frames,    \* segFrame2Index; indices count from 1, 0 is -1
  contribs,  \* what AddSecContrib was given
  starts,    \* srcLineStart
  blk,         \* the next block of lines
  files,     \* the file names of the F3 and F4 subsections
  lineInfo,  \* the blocks that were written
  pub,         \* the next public
  publics    \* what AddPublic2 was given

lineVars == <<frames, contribs, starts, blk, files, lineInfo, pub, publics>>

NoBitmap == {<<0, 0>>}

LinesInit ==
  /\ frames = <<>> /\ contribs = <<>> /\ starts = NoBitmap /\ blk = 1
  /\ files = <<>> /\ lineInfo = <<>> /\ pub = 1 /\ publics = <<>>

-----------------------------------------------------------------------------
(* The last segment of a frame counts.                                     *)
InitSegMap ==
  /\ pc = "segMap"
  /\ frames' = [f \in {input.segs[j].frame : j \in DOMAIN input.segs} |->
                  CHOOSE j \in DOMAIN input.segs :
                    /\ input.segs[j].frame = f
                    /\ \A k \in DOMAIN input.segs : input.segs[k].frame = f => k <= j]
  /\ Goto("types")
  /\ UNCHANGED <<contribs, starts, blk, files, lineInfo, pub, publics>>

CreateModules ==
  /\ pc = "modules"
  /\ contribs' = FlattenSeq(input.modules)
  /\ Goto("addTypes")
  /\ UNCHANGED <<frames, starts, blk, files, lineInfo, pub, publics>>

-----------------------------------------------------------------------------
SegIndex(frame) == IF frame \in DOMAIN frames THEN frames[frame] ELSE 0

(* The frame of a contribution is compared with the number of segments.    *)
ContribIndex(c) == IF c.seg < Len(input.segs) THEN SegIndex(c.seg) ELSE 0

(* Mutant: the start of a block is not marked.                             *)
MutBlockMarks(block) == block.offsets
BlockMarks(block) == <<block.start>> \o block.offsets

Marks ==
  LET ofModules == FlattenSeq(input.modules)
      OfBlock(block) == [k \in DOMAIN BlockMarks(block) |->
                           <<SegIndex(block.seg), BlockMarks(block)[k]>>]
  IN  [k \in DOMAIN ofModules |-> <<ContribIndex(ofModules[k]), ofModules[k].offset>>]
      \o FlattenSeq([k \in DOMAIN input.blocks |-> OfBlock(input.blocks[k])])

(* markSrcLineInBitmap; a position is that in the segment.                 *)
IsMarkable(mark) ==
  /\ mark[1] \in DOMAIN input.segs
  /\ mark[2] - input.segs[mark[1]].offset \in 0 .. (input.segs[mark[1]].size - 1)

AllMarkable == \A mark \in Range(Marks) : IsMarkable(mark)

(* createSrcLineBitmap stops at the first mark it cannot make, and reports *)
(* that to its first caller; the bitmap stays as it is.                    *)
Bitmap ==
  LET marks  == Marks
      failed == SelectInSeq(marks, LAMBDA mark : ~IsMarkable(mark))
  IN  Range(IF failed = 0 THEN marks ELSE SubSeq(marks, 1, failed - 1))
CreateSrcLineBitmap == IF starts = NoBitmap THEN Bitmap ELSE starts
BitmapCreated == starts # NoBitmap \/ (AllMarkable /\ input.segs # <<>>)

getNextSrcLine(frame, off) ==
  LET k   == SegIndex(frame)
      seg == input.segs[k]
      bitmap == CreateSrcLineBitmap
      ends == {x \in (off + 1) .. (seg.offset + seg.size) :
                 x = seg.offset + seg.size \/ <<k, x>> \in bitmap}
  IN  IF ~BitmapCreated \/ k = 0 THEN -1
      ELSE IF ~IsMarkable(<<k, off>>) THEN 0
      ELSE CHOOSE x \in ends : \A y \in ends : x <= y

SegLength(block, segend) ==
  IF segend >= 0 THEN segend - 1 - block.start ELSE block.end - block.start

(* Before version 14, lines are relative to the smallest.                  *)
LineMin(lines) ==
  Min({IF lines[1] > 1 THEN lines[1] ELSE 1} \cup {lines[k] : k \in 2 .. Len(lines)})

Relative(lines, min) == [k \in DOMAIN lines |-> IF lines[k] > min THEN lines[k] - min ELSE 0]

(* addfile: the position of a name in the checksums; an empty name is      *)
(* found at the empty string all names begin with.                         *)
FileEntry(file) ==
  CASE file = ""            -> [files |-> files, id |-> -1]
    [] Contains(files, file) ->
         [files |-> files, id |-> (CHOOSE k \in DOMAIN files : files[k] = file) - 1]
    [] OTHER                -> [files |-> Append(files, file), id |-> Len(files)]

(* One block of lines; the bitmap is made on the first use of it.          *)
Written(block, file, id, min) ==
  [file |-> file, id |-> id, seg |-> block.seg, start |-> block.start,
   length |-> SegLength(block, getNextSrcLine(block.seg, Last(block.offsets))),
   min |-> min,
   offsets |-> [k \in DOMAIN block.offsets |-> block.offsets[k] - block.start],
   lines |-> Relative(block.lines, min)]

AddLines(written) ==
  /\ starts' = IF input.segs = <<>> THEN starts ELSE CreateSrcLineBitmap
  /\ lineInfo' = Append(lineInfo, written)

NextBlock ==
  /\ pc = "lines" /\ blk \in DOMAIN input.blocks
  /\ blk' = blk + 1
  /\ UNCHANGED <<pc, frames, contribs, pub, publics>>

AddSrcLines ==
  LET block == input.blocks[blk]
  IN  /\ NextBlock /\ input.vs < 14
      /\ IF block.offsets = <<>> THEN UNCHANGED <<starts, lineInfo>>
         ELSE AddLines(Written(block, block.file, 0, LineMin(block.lines)))
      /\ UNCHANGED files

(* A name gets its entry even if it has no lines; these stay as they are.  *)
AddSrcLines14 ==
  LET block == input.blocks[blk]
      entry == FileEntry(block.file)
  IN  /\ NextBlock /\ input.vs >= 14
      /\ IF block.offsets = <<>> THEN UNCHANGED <<starts, lineInfo>>
         ELSE AddLines(Written(block, "", entry.id, 0))
      /\ files' = entry.files

FinishLines ==
  /\ pc = "lines" /\ blk > Len(input.blocks)
  /\ Goto("publics") /\ UNCHANGED lineVars

AddPublic ==
  /\ pc = "publics" /\ pub \in DOMAIN input.publics
  /\ pub' = pub + 1
  /\ publics' = IF input.publics[pub].isPublic THEN Append(publics, input.publics[pub].name)
                ELSE publics
  /\ UNCHANGED <<pc, frames, contribs, starts, blk, files, lineInfo>>

FinishPublics ==
  /\ pc = "publics" /\ pub > Len(input.publics)
  /\ Goto("done") /\ UNCHANGED lineVars

LinesNext ==
  \/ InitSegMap \/ CreateModules \/ AddSrcLines \/ AddSrcLines14
  \/ FinishLines \/ AddPublic \/ FinishPublics
=============================================================================
