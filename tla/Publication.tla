---------------------------- MODULE Publication ----------------------------
(***************************************************************************)
(* What a run of cv2pdb promises about the two files it leaves behind: the *)
(* PDB and the image that names it.  The old PDB goes first, then the      *)
(* image is rewritten, and the new PDB appears only when the image is      *)
(* complete.  The run may stop after any step.                             *)
(***************************************************************************)
VARIABLES
  wanted,   \* is an image to be written (not for a .dbg file)
  pdb,      \* "old", "none" or "new"
  image     \* "before", "torn" or "after"

vars == <<wanted, pdb, image>>

Init == wanted \in BOOLEAN /\ pdb = "old" /\ image = "before"

Discard == pdb = "old" /\ pdb' = "none" /\ UNCHANGED <<wanted, image>>

Tear ==
  /\ wanted /\ pdb = "none" /\ image = "before"
  /\ image' = "torn" /\ UNCHANGED <<wanted, pdb>>

Publish ==
  /\ pdb = "none" /\ image = "torn"
  /\ image' = "after" /\ UNCHANGED <<wanted, pdb>>

Commit ==
  /\ pdb = "none" /\ image = (IF wanted THEN "after" ELSE "before")
  /\ pdb' = "new" /\ UNCHANGED <<wanted, image>>

Next == Discard \/ Tear \/ Publish \/ Commit

Spec == Init /\ [][Next]_vars
=============================================================================
