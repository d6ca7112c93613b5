---------------------------- MODULE MCEnumFields ----------------------------
EXTENDS EnumFields

Enumerator(value, name, len) ==
  [tag |-> "enumerator", hasValue |-> TRUE, value |-> value, name |-> name,
   nameLen |-> len]

(* Leaves of 8, 12 and 16 bytes, with     numbers of every width; a name   *)
(* longer than the maximum; an enumerator without a value; another DIE.    *)
MCChildren ==
  {Enumerator(7, 1, 1), Enumerator(-2, 2, 3), Enumerator(40000, 3, 9),
   Enumerator(-300, 4, 3), Enumerator(70000, 5, 5),
   [Enumerator(0, 6, 1) EXCEPT !.hasValue = FALSE],
   [Enumerator(0, 7, 1) EXCEPT !.tag = "other"]}

MCEnums == UNION {[1 .. n -> MCChildren] : n \in 0 .. 5}
=============================================================================
