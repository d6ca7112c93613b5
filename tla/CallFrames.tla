----------------------------- MODULE CallFrames -----------------------------
(***************************************************************************)
(* CFIIndex, CFICursor, CFACursor and findBestCFA of dwarf2pdb.cpp: one    *)
(* rule for the canonical frame address is taken out of .debug_frame for   *)
(* all of a procedure.  A frame is a record [lo, hi, initial, program] of  *)
(* an FDE: its range, the instructions of its CIE and its own.  An         *)
(* instruction is a record [op, reg, n, expr]; offsets are factored        *)
(* already, and the rules of registers that are not the CFA are "other".   *)
(***************************************************************************)
EXTENDS Location

Instruction == [op : STRING, reg : 0 .. 63, n : Int, expr : Seq(Operation)]
Frame == [lo : Nat, hi : Nat, initial : Seq(Instruction), program : Seq(Instruction)]

(* CFIIndex sorts the frames and looks for the first that is not before    *)
(* the procedure's start.                                                  *)
Before(e, f) == e.lo < f.lo \/ (e.lo = f.lo /\ e.hi < f.hi)

Lookup(frames, pclo, pchi) ==
  LET from  == {e \in frames : ~Before(e, [lo |-> pclo, hi |-> pclo])}
      first == {e \in from : \A f \in from : ~Before(f, e)}
  IN  {e \in first : e.lo <= pclo /\ pchi <= e.hi}

(* processNext.  The expression of another register is taken for the CFA's.*)
ProcessInstruction(cfa, i) ==
  CASE i.op = "def_cfa" -> [cfa EXCEPT !.reg = i.reg, !.off = i.n]
    [] i.op = "def_cfa_register" -> [cfa EXCEPT !.reg = i.reg]
    [] i.op = "def_cfa_offset" -> [cfa EXCEPT !.off = i.n]
    [] i.op \in {"def_cfa_expression", "expression"} -> Evaluate(i.expr, Unusable)[1]
    [] OTHER -> cfa

(* beforeRestore: what follows the first restore is of an epilogue.        *)
(* Mutant: the epilogue is run as well.                                    *)
MutUpToRestore(program) == program
UpToRestore(program) ==
  LET restores == {i \in DOMAIN program : program[i].op \in {"restore", "restore_state"}}
  IN  IF restores = {} THEN program
      ELSE SubSeq(program, 1, (CHOOSE i \in restores : \A j \in restores : i <= j) - 1)

DefaultCFA(x64) == IF x64 THEN mkRegRel(6, 16) ELSE mkRegRel(5, 8)

(* The rule that a list of instructions leaves.                            *)
RuleBehind(program) ==
  LET at[k \in 0 .. Len(program)] ==
        IF k = 0 THEN mkRegRel(DW_REG_CFA, 0)
        ELSE ProcessInstruction(at[k - 1], program[k])
  IN  at[Len(program)]

findBestCFA(x64, frames, pclo, pchi) ==
  LET found == Lookup(frames, pclo, pchi)
      fde   == CHOOSE f \in found : TRUE
  IN  IF found = {} THEN DefaultCFA(x64)
      ELSE RuleBehind(fde.initial \o UpToRestore(fde.program))

-----------------------------------------------------------------------------
(* What a frame means: the rule of the CFA at an address, after all the    *)
(* instructions that are for addresses up to it.                           *)
Instructions(frame) == frame.initial \o frame.program

Execute(m, i, pc) ==
  IF m.loc > pc THEN m
  ELSE CASE i.op = "advance" -> [m EXCEPT !.loc = @ + i.n]
         [] i.op = "remember_state" -> [m EXCEPT !.saved = <<m.cfa>> \o @]
         [] i.op = "restore_state" -> [m EXCEPT !.cfa = m.saved[1], !.saved = Tail(@)]
         [] i.op = "expression" -> m
         [] OTHER -> [m EXCEPT !.cfa = ProcessInstruction(@, i)]

(* The state after each instruction.                                       *)
RulesAt(frame, pc) ==
  LET program == Instructions(frame)
      at[k \in 0 .. Len(program)] ==
        IF k = 0 THEN [loc |-> frame.lo, cfa |-> mkRegRel(DW_REG_CFA, 0), saved |-> <<>>]
        ELSE Execute(at[k - 1], program[k], pc)
  IN  at

RuleAt(frame, pc) == RulesAt(frame, pc)[Len(Instructions(frame))].cfa

(* The frame stands at an address if what has been executed there is all   *)
(* that says where the CFA is before the first restore in the program, and *)
(* only takes it from a register.                                          *)
Restores(i)   == i.op \in {"restore", "restore_state"}
ChangesCfa(i) == i.op \in {"def_cfa", "def_cfa_register", "def_cfa_offset",
                           "def_cfa_expression", "expression"}

LastBefore(at, n, count, pc) == at[n].loc <= pc /\ (n = count \/ at[n + 1].loc > pc)
Plainly(program, k, first) ==
  /\ program[k].op \notin {"expression", "restore_state"}
  /\ k >= first => ~Restores(program[k])
InEpilogue(program, k, first) ==
  ChangesCfa(program[k]) => \E j \in first .. k - 1 : Restores(program[j])

FrameStands(frame, pc) ==
  LET program == Instructions(frame)
      first   == Len(frame.initial) + 1
      at      == RulesAt(frame, pc)
  IN  /\ at[Len(program)].cfa.type = "RegRel" /\ at[Len(program)].cfa.reg \in 0 .. 63
      /\ \E n \in DOMAIN program :
           /\ LastBefore(at, n, Len(program), pc)
           /\ \A k \in 1 .. n : Plainly(program, k, first)
           /\ \A k \in n + 1 .. Len(program) : InEpilogue(program, k, first)
=============================================================================
