------------------------------- MODULE CvInput -------------------------------
(***************************************************************************)
(* What the CodeView half of the converter reads (the subsections of the   *)
(* debug directory, mscvpdb.h), and where it is in the list of steps of    *)
(* T_main.  CvTypes, CvSymbols and CvLines are its parts, CodeView the     *)
(* whole.                                                                  *)
(*                                                                         *)
(* A type, in the file or written by the converter, is one record for all  *)
(* kinds: refs are the types it names in order, list its field list, count *)
(* its n_element, size its length in bytes (in a method list, the vbaseoff *)
(* of the first entry), attr what distinguishes it from its like (flags of *)
(* a pointer or a modifier, "introducing" in a method list, the calling    *)
(* convention of a function), params a count.  Names are sequences of the  *)
(* words they are made of.                                                 *)
(***************************************************************************)
EXTENDS Integers, Sequences, FiniteSets, SequencesExt

CONSTANT Inputs

BASE_USER_TYPE == 4096

VARIABLES
  input,  \* the image and the options, see below
  pc      \* the step of T_main, "done", "failed" or "looping"

Leaves == {"enumerate", "member", "bclass", "method", "stmember", "nesttype",
           "vfunctab", "friendfcn", "friendcls", "vbclass", "unsupported"}
Field == [leaf : Leaves, version : 1 .. 3, type : Nat, offset : Nat,
          name : Seq(STRING)]

Kinds == {"struct", "class", "union", "pointer", "array", "enum", "procedure",
          "mfunction", "modifier", "bitfield", "arglist", "derived", "vtshape",
          "methodlist", "fieldlist", "dynarray", "assoc", "delegate", "oem",
          "null"}
Type == [kind : Kinds, name : Seq(STRING), list : Nat, count : Nat, size : Nat,
         props : SUBSET {"incomplete", "hasNested", "isNested"},
         attr : Nat, params : Nat, refs : Seq(Nat), fields : Seq(Field)]

(* sstGlobalSym, sstStaticSym and the sstAlignSym of modules.  sblk, send  *)
(* and this are S_BPREL with the names @sblk, @send and this; offset and   *)
(* length are those of a procedure or of a block, the latter counted from  *)
(* its procedure in an sblk.  zero has no id, or is too short for one.     *)
Symbol == [kind : {"udt", "udt3", "data", "proc", "bprel", "sblk", "send", "this",
                   "return", "endarg", "end", "procref", "constant", "block",
                   "align", "other", "zero"},
           type : Nat, offset : Nat, length : Nat, name : Seq(STRING)]

Segment == [frame : Nat, offset : Nat, size : Nat]
Contrib == [seg : Nat, offset : Nat]
LineBlock == [file : STRING, seg : Nat, start : Nat, end : Nat,
              offsets : Seq(Nat), lines : Seq(Nat)]
Public == [name : Seq(STRING), isPublic : BOOLEAN]

Blank == [kind |-> "null", name |-> <<>>, list |-> 0, count |-> 0, size |-> 0,
          props |-> {}, attr |-> 0, params |-> 0, refs |-> <<>>, fields |-> <<>>]

(* tables: how many sstGlobalTypes entries there are; version: Dversion,   *)
(* times 1000; vs: the version of the PDB library (vsVersion);             *)
(* typedefEnum: the option useTypedefEnum.                                 *)
Image == [tables : 0 .. 2, types : Seq(Type), version : Nat, vs : Nat, x64 : BOOLEAN,
          typedefEnum : BOOLEAN, align : Seq(Seq(Symbol)), static : Seq(Symbol), global : Seq(Symbol),
          segs : Seq(Segment), modules : Seq(Seq(Contrib)),
          blocks : Seq(LineBlock), publics : Seq(Public)]

ASSUME InputAssumption == Inputs \subseteq Image

Goto(step) == pc' = step
Fails == Goto("failed")
=============================================================================
