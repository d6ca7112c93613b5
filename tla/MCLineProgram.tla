---------------------------- MODULE MCLineProgram ----------------------------
EXTENDS LineProgram

(* .text from 4 to 12, another section of code behind it.                  *)
MCSections == <<[lo |-> 4, hi |-> 12], [lo |-> 16, hi |-> 20]>>
MCTargets  == {0, 4, 6, 16, 24}
MCLineSteps == {-1, 0, 3}

MCDirs  == <<[name |-> "d1", relative |-> FALSE], [name |-> "d2", relative |-> TRUE]>>
MCFiles == <<[name |-> "f1", relative |-> TRUE, dir |-> 0],
             [name |-> "f2", relative |-> TRUE, dir |-> 1]>>

MCHeaders ==
  {[version |-> v, wellFormed |-> TRUE, dirs |-> MCDirs, files |-> MCFiles]
     : v \in {4, 5}}
  \cup {[version |-> 5, wellFormed |-> FALSE, dirs |-> <<>>, files |-> <<>>]}
=============================================================================
