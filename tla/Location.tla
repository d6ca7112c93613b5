------------------------------ MODULE Location ------------------------------
(***************************************************************************)
(* decodeLocation of readDwarf.cpp: a DWARF expression is evaluated as far *)
(* as it goes without a process to look at.  A value on its stack is an    *)
(* address relative to a register, a number, or the mark that a variable   *)
(* lives in a register; the first value left is the location.              *)
(*                                                                         *)
(* An operation is a record [op, reg, n] of its name and operands.  The    *)
(* operands of skip and bra count operations, not bytes.  Operations that  *)
(* are refused are "deref".                                                *)
(*                                                                         *)
(* Offsets are integers: one that leaves the 32 bits of Location::off      *)
(* wraps around in the code.  The operand of addr has the four bytes the   *)
(* code reads.                                                             *)
(***************************************************************************)
EXTENDS Integers, Sequences, SequencesExt

DW_REG_CFA == 257

mkInReg(reg)       == [type |-> "InReg", reg |-> reg, off |-> 0]
mkAbs(off)         == [type |-> "Abs", reg |-> 0, off |-> off]
mkRegRel(reg, off) == [type |-> "RegRel", reg |-> reg, off |-> off]
Unusable           == [type |-> "Invalid", reg |-> 0, off |-> 0]

Operation == [op : STRING, reg : 0 .. 63, n : Int]

Location == [type : {"InReg", "Abs", "RegRel", "Invalid"}, reg : Nat, off : Int]

IsInReg(l)  == l.type = "InReg"
IsAbs(l)    == l.type = "Abs"
IsRegRel(l) == l.type = "RegRel"
IsZero(l)   == IsAbs(l) /\ l.off = 0

(* The k-th value below the top, and the stack without the top k.          *)
Below(stack, k) == stack[Len(stack) - k]
Dropped(stack, k) == SubSeq(stack, 1, Len(stack) - k)

Truth(p) == IF p THEN 1 ELSE 0

(* C's division cuts towards zero.                                         *)
Quotient(x, y) ==
  LET abs(n) == IF n < 0 THEN -n ELSE n
      q      == abs(x) \div abs(y)
  IN  IF (x < 0) = (y < 0) THEN q ELSE -q

TwoTo[n \in 0 .. 63] == IF n = 0 THEN 1 ELSE 2 * TwoTo[n - 1]

Unary(op, x) ==
  CASE op = "abs" -> IF x < 0 THEN -x ELSE x
    [] op = "neg" -> -x
    [] op = "not" -> -x - 1

(* Of or, xor and and, what they do to truth values.                       *)
Arithmetic(op, x, y) ==
  CASE op = "plus"  -> x + y
    [] op = "minus" -> x - y
    [] op = "mul"   -> x * y
    [] op = "div"   -> Quotient(x, y)
    [] op = "mod"   -> x - y * Quotient(x, y)
    [] op = "shl"   -> x * TwoTo[y]
    [] op \in {"shr", "shra"} -> x \div TwoTo[y]
    [] op = "and"   -> Truth(x = 1 /\ y = 1)
    [] op = "or"    -> Truth(x = 1 \/ y = 1)
    [] op = "xor"   -> Truth(x # y)
    [] op = "eq"    -> Truth(x = y)
    [] op = "ne"    -> Truth(x # y)
    [] op = "lt"    -> Truth(x < y)
    [] op = "le"    -> Truth(x <= y)
    [] op = "gt"    -> Truth(x > y)
    [] op = "ge"    -> Truth(x >= y)

BinaryOps == {"plus", "minus", "mul", "div", "mod", "shl", "shr", "shra", "and",
              "or", "xor", "eq", "ne", "lt", "le", "gt", "ge"}

(* x op y where not both are numbers.                                      *)
Mixed(op, x, y) ==
  CASE op \in {"plus", "minus"} /\ IsRegRel(x) /\ IsAbs(y) ->
         mkRegRel(x.reg, Arithmetic(op, x.off, y.off))
    [] op = "plus" /\ IsAbs(x) /\ IsRegRel(y) -> mkRegRel(y.reg, x.off + y.off)
    [] op = "minus" /\ IsRegRel(x) /\ IsRegRel(y) /\ x.reg = y.reg -> mkAbs(0)
    [] op \in {"mul", "and"} /\ (IsZero(x) \/ IsZero(y)) -> mkAbs(0)
    [] OTHER -> Unusable

Binary(op, x, y) ==
  IF IsAbs(x) /\ IsAbs(y) THEN mkAbs(Arithmetic(op, x.off, y.off)) ELSE Mixed(op, x, y)

(* What fbreg pushes.  Without a frame base there is none.                 *)
FrameRelative(frameBase, n) ==
  IF IsInReg(frameBase) \/ IsRegRel(frameBase)
    THEN mkRegRel(frameBase.reg, frameBase.off + n) ELSE Unusable

(* The operations that push a value.                                       *)
Pushed(o, stack, frameBase) ==
  CASE o.op = "reg"    -> mkInReg(o.reg)
    [] o.op = "breg"   -> mkRegRel(o.reg, o.n)
    [] o.op \in {"const", "addr"} -> mkAbs(o.n)
    [] o.op = "lit"    -> IF o.n < 24 THEN mkAbs(o.n) ELSE Unusable
    [] o.op = "fbreg"  -> FrameRelative(frameBase, o.n)
    [] o.op = "call_frame_cfa" -> mkRegRel(DW_REG_CFA, 0)
    [] o.op = "dup"    -> Below(stack, 0)
    [] o.op = "over"   -> Below(stack, 1)
    [] o.op = "pick"   -> stack[o.n + 1]
    [] OTHER           -> Unusable

Replaced(stack, k, value) ==
  IF value = Unusable THEN <<Unusable>> ELSE Append(Dropped(stack, k), value)

(* The stack after an operation; that of Unusable alone is of "return      *)
(* invalid".                                                               *)
After(o, s, frameBase) ==
  CASE o.op \in {"abs", "neg", "not"} ->
         Replaced(s, 1, IF IsAbs(Below(s, 0)) THEN mkAbs(Unary(o.op, Below(s, 0).off))
                        ELSE Unusable)
    [] o.op = "plus_uconst" ->
         Replaced(s, 1, IF IsInReg(Below(s, 0)) THEN Unusable
                        ELSE [Below(s, 0) EXCEPT !.off = @ + o.n])
    [] o.op \in BinaryOps -> Replaced(s, 2, Binary(o.op, Below(s, 1), Below(s, 0)))
    [] o.op = "drop" -> Dropped(s, 1)
    [] o.op = "swap" -> Dropped(s, 2) \o <<Below(s, 0), Below(s, 1)>>
    [] o.op = "rot"  -> Dropped(s, 3) \o <<Below(s, 0), Below(s, 2), Below(s, 1)>>
    [] o.op = "bra"  -> IF IsAbs(Below(s, 0)) THEN Dropped(s, 1) ELSE <<Unusable>>
    [] o.op \in {"skip", "nop"} -> s
    [] OTHER -> Replaced(s, 0, Pushed(o, s, frameBase))

(* How many operations are passed over next.                               *)
Skips(o, s) ==
  IF o.op = "skip" \/ (o.op = "bra" /\ Below(s, 0).off # 0) THEN o.n ELSE 0

(* The operand of a bra that is not taken and that of pick are read as     *)
(* operations: 0 ends the expression, and the next ones are refused.       *)
Misread(o, s) == o.op = "pick" \/ (o.op = "bra" /\ IsZero(Below(s, 0)))

(* An operation is passed over, or performed on the stack.                 *)
Refused == [stack |-> <<Unusable>>, skip |-> 0, stop |-> TRUE]
Decode(m, o, frameBase) ==
  LET after == After(o, m.stack, frameBase)
  IN  IF m.stop THEN m
      ELSE IF m.skip > 0 THEN [m EXCEPT !.skip = @ - 1]
      ELSE IF (Misread(o, m.stack) /\ o.n # 0) \/ after = <<Unusable>> THEN Refused
      ELSE [stack |-> after, skip |-> Skips(o, m.stack), stop |-> Misread(o, m.stack)]

Evaluate(expr, frameBase) ==
  LET at[k \in 0 .. Len(expr)] ==
        IF k = 0 THEN [stack |-> <<>>, skip |-> 0, stop |-> FALSE]
        ELSE Decode(at[k - 1], expr[k], frameBase)
  IN  at[Len(expr)].stack

(* decodeLocation of an attribute [form, expr, n].                         *)
decodeLocation(attr, frameBase) ==
  CASE attr.form = "const" -> mkAbs(attr.n)
    [] attr.form = "expr"  -> Evaluate(attr.expr, frameBase)[1]
    [] OTHER               -> Unusable

-----------------------------------------------------------------------------
(* What an expression means in a process: registers hold numbers, env says *)
(* which, and where the frame base and the canonical frame address are.    *)
(* An address is told from a number, as expressions that compute with the  *)
(* address itself are no locations a compiler writes.                      *)

Num(v) == [v |-> v, addr |-> FALSE]
Adr(v) == [v |-> v, addr |-> TRUE]

Needs(o) ==
  CASE o.op \in BinaryOps \cup {"over", "swap"} -> 2
    [] o.op = "rot" -> 3
    [] o.op \in {"abs", "neg", "not", "plus_uconst", "dup", "drop", "bra", "deref"} -> 1
    [] OTHER -> 0

(* What an operation pushes for the values it takes.                       *)
Means(o, s, env) ==
  CASE o.op = "breg" -> <<Adr(env.reg[o.reg] + o.n)>>
    [] o.op \in {"const", "lit", "addr"} -> <<Num(o.n)>>
    [] o.op = "fbreg" -> <<Adr(env.frameBase + o.n)>>
    [] o.op = "call_frame_cfa" -> <<Adr(env.cfa)>>
    [] o.op = "deref" -> <<Adr(env.memory + Below(s, 0).v)>>
    [] o.op \in {"abs", "neg", "not"} -> <<Num(Unary(o.op, Below(s, 0).v))>>
    [] o.op = "plus_uconst" -> <<[Below(s, 0) EXCEPT !.v = @ + o.n]>>
    [] o.op \in BinaryOps ->
         <<[v    |-> Arithmetic(o.op, Below(s, 1).v, Below(s, 0).v),
            addr |-> o.op \in {"plus", "minus"} /\ Below(s, 1).addr # Below(s, 0).addr]>>
    [] o.op = "dup"  -> <<Below(s, 0), Below(s, 0)>>
    [] o.op = "over" -> <<Below(s, 1), Below(s, 0), Below(s, 1)>>
    [] o.op = "pick" -> <<Below(s, o.n)>>
    [] o.op = "swap" -> <<Below(s, 0), Below(s, 1)>>
    [] o.op = "rot"  -> <<Below(s, 0), Below(s, 2), Below(s, 1)>>
    [] OTHER -> <<>>

(* An operation has the operands it needs, and what it does with them is   *)
(* defined.  reg names a register and leaves no value.                     *)
Defined(o, s) ==
  /\ Len(s) >= Needs(o)
  /\ o.op # "reg"
  /\ o.op = "pick" => o.n \in 0 .. Len(s) - 1
  /\ o.op \in {"div", "mod"} => Below(s, 0).v # 0
  /\ o.op \in {"shl", "shr", "shra"} => Below(s, 0).v \in 0 .. 15
  /\ o.op \in {"and", "or", "xor"} => {Below(s, 0).v, Below(s, 1).v} \subseteq {0, 1}

(* Where decodeLocation and the standard part.  It takes the difference of *)
(* two addresses relative to a register for 0, and reads on in the operand *)
(* of pick, whose index it counts from the bottom, and of a bra it does    *)
(* not take; it computes mod and shr of signed numbers.                    *)
Departure(o, s) ==
  \/ o.op = "minus" /\ Below(s, 0).addr /\ Below(s, 1).addr /\ Below(s, 0).v # Below(s, 1).v
  \/ o.op = "pick"
  \/ o.op = "bra" /\ Below(s, 0).v = 0
  \/ o.op \in {"mod", "shr"} /\ (Below(s, 0).v < 0 \/ Below(s, 1).v < 0)

Perform(m, o, env) ==
  IF ~m.ok THEN m
  ELSE IF m.skip > 0 THEN [m EXCEPT !.skip = @ - 1]
  ELSE IF ~Defined(o, m.stack) THEN [m EXCEPT !.ok = FALSE]
  ELSE [ok    |-> TRUE,
        exact |-> m.exact /\ ~Departure(o, m.stack),
        skip  |-> IF o.op = "skip" \/ (o.op = "bra" /\ Below(m.stack, 0).v # 0)
                    THEN o.n ELSE 0,
        stack |-> Dropped(m.stack, Needs(o)) \o Means(o, m.stack, env)]

Run(expr, env) ==
  LET at[k \in 0 .. Len(expr)] ==
        IF k = 0 THEN [ok |-> TRUE, exact |-> TRUE, skip |-> 0, stack |-> <<>>]
        ELSE Perform(at[k - 1], expr[k], env)
  IN  at[Len(expr)]

(* The value on top of the stack at the end is the location.               *)
HasMeaning(expr, env) == Run(expr, env).ok /\ Run(expr, env).stack # <<>>
Leaves(expr, env)     == Last(Run(expr, env).stack)
Meaning(expr, env)    == Leaves(expr, env).v

(* decodeLocation may say something else: an operation departs, or more    *)
(* than one value is left, of which it takes the first.                    *)
Departs(expr, env)   == ~Run(expr, env).exact \/ Len(Run(expr, env).stack) # 1
Decodable(expr, env) == HasMeaning(expr, env) /\ ~Departs(expr, env)
=============================================================================
