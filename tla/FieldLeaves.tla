---------------------------- MODULE FieldLeaves ----------------------------
(***************************************************************************)
(* The leaves of a CodeView field list, by what they take up and by what a *)
(* reader gets out of them: numbers of a variable width (numeric_leaf and  *)
(* write_numeric_leaf in cvutil.cpp), names that are cut at a maximal      *)
(* length (cstrcpy_v in symutil.cpp), and padding to four bytes.           *)
(***************************************************************************)
EXTENDS Integers

CONSTANT MaxNameLen     \* kMaxNameLen, with the terminating zero

ASSUME MaxNameLenAssumption == MaxNameLen \in Nat \ {0}

(* A number that fits into 15 bits is written as it is; any other one      *)
(* follows a word that tells how wide it is.  bits is the number as the    *)
(* file holds it: without a sign, except for the four bytes of LF_LONG.    *)
Forms == {"LF_NUMERIC", "LF_CHAR", "LF_SHORT", "LF_USHORT", "LF_LONG"}
NumericLeaf == [form : Forms, bits : Int]

Numeric(form, bits) == [form |-> form, bits |-> bits]

(* Mutant: small negative numbers are taken for 16 bits without a sign.    *)
MutWriteNumericLeaf(v) ==
  IF 0 <= v /\ v <= 32767 THEN Numeric("LF_NUMERIC", v)
  ELSE IF -32768 <= v /\ v <= 65535 THEN Numeric("LF_USHORT", v % 65536)
  ELSE Numeric("LF_LONG", v)

write_numeric_leaf(v) ==
  IF 0 <= v /\ v <= 32767 THEN Numeric("LF_NUMERIC", v)
  ELSE IF -128 <= v /\ v <= 127 THEN Numeric("LF_CHAR", v % 256)
  ELSE IF -32768 <= v /\ v <= 32767 THEN Numeric("LF_SHORT", v % 65536)
  ELSE IF 0 <= v /\ v <= 65535 THEN Numeric("LF_USHORT", v)
  ELSE Numeric("LF_LONG", v)

SignExtended(bits, range) == IF 2 * bits < range THEN bits ELSE bits - range

numeric_leaf(leaf) ==
  IF leaf.form = "LF_CHAR" THEN SignExtended(leaf.bits, 256)
  ELSE IF leaf.form = "LF_SHORT" THEN SignExtended(leaf.bits, 65536)
  ELSE leaf.bits

NumericSize(leaf) ==
  [LF_NUMERIC |-> 2, LF_CHAR |-> 3, LF_SHORT |-> 4, LF_USHORT |-> 4,
   LF_LONG |-> 6][leaf.form]

(* The bytes of a name of n characters.                                    *)
NameSize(n) == (IF n < MaxNameLen THEN n ELSE MaxNameLen - 1) + 1

Aligned(n) == n + ((-n) % 4)

EnumerateSize(v, n) ==
  Aligned(4 + NumericSize(write_numeric_leaf(v)) + NameSize(n))

(* An LF_INDEX leaf, which continues a field list in another record, and   *)
(* the length and the id that begin every record.                          *)
IndexSize  == 8
HeaderSize == 4
=============================================================================
