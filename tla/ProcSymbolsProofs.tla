-------------------------- MODULE ProcSymbolsProofs --------------------------
(***************************************************************************)
(* Theorems about the symbols of procedures and variables, for every unit  *)
(* that compilers write.  First, what the recursive functions of the model *)
(* compute: each is what its equation says, as there is a function that    *)
(* satisfies the equation.                                                 *)
(***************************************************************************)
EXTENDS ProcSymbols, DataLemmas, TLAPS

(* What decodeLocation has after each operation.                            *)
Decoding(f, expr, frameBase, n) ==
  f = [k \in 0 .. n |-> IF k = 0 THEN [stack |-> <<>>, skip |-> 0, stop |-> FALSE]
                       ELSE Decode(f[k - 1], expr[k], frameBase)]

LEMMA DecodingAt ==
  ASSUME NEW f, NEW expr, NEW frameBase, NEW n \in Nat, Decoding(f, expr, frameBase, n),
         NEW k \in 0 .. n
  PROVE  f[k] = IF k = 0 THEN [stack |-> <<>>, skip |-> 0, stop |-> FALSE]
                ELSE Decode(f[k - 1], expr[k], frameBase)
<1> DEFINE G(j) == IF j = 0 THEN [stack |-> <<>>, skip |-> 0, stop |-> FALSE] ELSE Decode(f[j - 1], expr[j], frameBase)
<1>1. f = [j \in 0 .. n |-> G(j)]
  BY Zenon DEF Decoding
<1> HIDE DEF G
<1>2. f[k] = G(k)
  BY <1>1
<1> QED
  BY <1>2 DEF G

LEMMA DecodingExists ==
  ASSUME NEW expr, NEW frameBase, NEW n \in Nat
  PROVE  \E f : Decoding(f, expr, frameBase, n)
<1> DEFINE S == {k \in Nat : ~\E f : Decoding(f, expr, frameBase, k)}
           G(f, j) == IF j = 0 THEN [stack |-> <<>>, skip |-> 0, stop |-> FALSE] ELSE Decode(f[j - 1], expr[j], frameBase)
<1> SUFFICES ASSUME S # {} PROVE FALSE
  OBVIOUS
<1>1. PICK m \in S : \A k \in S : m <= k
  BY NatLeast
<1>2. PICK f : m # 0 => Decoding(f, expr, frameBase, m - 1)
  BY <1>1
<1> DEFINE g == [j \in 0 .. m |-> G(f, j)]
<1>3. \A j \in 0 .. m : G(g, j) = G(f, j)
  <2> SUFFICES ASSUME NEW j \in 0 .. m PROVE G(g, j) = G(f, j)
    OBVIOUS
  <2> SUFFICES ASSUME j # 0 PROVE g[j - 1] = f[j - 1]
    <3> HIDE DEF g
    <3> QED
      BY Zenon
  <2>1. j - 1 \in 0 .. m /\ j - 1 \in 0 .. m - 1 /\ m - 1 \in Nat
    BY <1>1
  <2>2. g[j - 1] = G(f, j - 1)
    <3> HIDE DEF G
    <3> QED
      BY <2>1
  <2>3. f[j - 1] = G(f, j - 1)
    BY <1>1, <1>2, <2>1, DecodingAt
  <2> QED
    BY <2>2, <2>3, Zenon
<1>4. g = [j \in 0 .. m |-> G(g, j)]
  <2> DEFINE h == [j \in 0 .. m |-> G(g, j)]
  <2>1. \A j \in 0 .. m : g[j] = G(f, j) /\ h[j] = G(g, j)
    <3> HIDE DEF G
    <3> QED
      OBVIOUS
  <2>2. \A j \in 0 .. m : g[j] = h[j]
    <3> HIDE DEF G, g, h
    <3> QED
      BY <1>3, <2>1
  <2>3. g = [j \in 0 .. m |-> g[j]] /\ h = [j \in 0 .. m |-> h[j]]
    <3> HIDE DEF G
    <3> QED
      OBVIOUS
  <2> HIDE DEF g, h
  <2>4. g = h
    BY <2>2, <2>3
  <2> QED
    BY <2>4 DEF h
<1>5. Decoding(g, expr, frameBase, m)
  <2> HIDE DEF g
  <2> QED
    BY <1>4, Zenon DEF Decoding
<1> QED
  BY <1>1, <1>5

LEMMA DecodingIs ==
  ASSUME NEW expr, NEW frameBase, Len(expr) \in Nat
  PROVE  \E f : Decoding(f, expr, frameBase, Len(expr)) /\ Evaluate(expr, frameBase) = f[Len(expr)].stack
<1> DEFINE F(f) == f = [k \in 0 .. Len(expr) |->
                        IF k = 0 THEN [stack |-> <<>>, skip |-> 0, stop |-> FALSE]
                        ELSE Decode(f[k - 1], expr[k], frameBase)]
           c == CHOOSE f : F(f)
<1>1. \E f : F(f)
  <2>1. PICK f : Decoding(f, expr, frameBase, Len(expr))
    BY DecodingExists, Zenon
  <2>2. F(f)
    BY <2>1, Zenon DEF Decoding
  <2> QED
    BY <2>2, Zenon
<1>2. F(c)
  BY <1>1, Zenon
<1>3. Evaluate(expr, frameBase) = c[Len(expr)].stack
  BY Zenon DEF Evaluate
<1> QED
  BY <1>2, <1>3, Zenon DEF Decoding

(* What an expression means after each operation.                          *)
Running(f, expr, env, n) ==
  f = [k \in 0 .. n |-> IF k = 0 THEN [ok |-> TRUE, exact |-> TRUE, skip |-> 0, stack |-> <<>>]
                       ELSE Perform(f[k - 1], expr[k], env)]

LEMMA RunningAt ==
  ASSUME NEW f, NEW expr, NEW env, NEW n \in Nat, Running(f, expr, env, n),
         NEW k \in 0 .. n
  PROVE  f[k] = IF k = 0 THEN [ok |-> TRUE, exact |-> TRUE, skip |-> 0, stack |-> <<>>]
                ELSE Perform(f[k - 1], expr[k], env)
<1> DEFINE G(j) == IF j = 0 THEN [ok |-> TRUE, exact |-> TRUE, skip |-> 0, stack |-> <<>>] ELSE Perform(f[j - 1], expr[j], env)
<1>1. f = [j \in 0 .. n |-> G(j)]
  BY Zenon DEF Running
<1> HIDE DEF G
<1>2. f[k] = G(k)
  BY <1>1
<1> QED
  BY <1>2 DEF G

LEMMA RunningExists ==
  ASSUME NEW expr, NEW env, NEW n \in Nat
  PROVE  \E f : Running(f, expr, env, n)
<1> DEFINE S == {k \in Nat : ~\E f : Running(f, expr, env, k)}
           G(f, j) == IF j = 0 THEN [ok |-> TRUE, exact |-> TRUE, skip |-> 0, stack |-> <<>>] ELSE Perform(f[j - 1], expr[j], env)
<1> SUFFICES ASSUME S # {} PROVE FALSE
  OBVIOUS
<1>1. PICK m \in S : \A k \in S : m <= k
  BY NatLeast
<1>2. PICK f : m # 0 => Running(f, expr, env, m - 1)
  BY <1>1
<1> DEFINE g == [j \in 0 .. m |-> G(f, j)]
<1>3. \A j \in 0 .. m : G(g, j) = G(f, j)
  <2> SUFFICES ASSUME NEW j \in 0 .. m PROVE G(g, j) = G(f, j)
    OBVIOUS
  <2> SUFFICES ASSUME j # 0 PROVE g[j - 1] = f[j - 1]
    <3> HIDE DEF g
    <3> QED
      BY Zenon
  <2>1. j - 1 \in 0 .. m /\ j - 1 \in 0 .. m - 1 /\ m - 1 \in Nat
    BY <1>1
  <2>2. g[j - 1] = G(f, j - 1)
    <3> HIDE DEF G
    <3> QED
      BY <2>1
  <2>3. f[j - 1] = G(f, j - 1)
    BY <1>1, <1>2, <2>1, RunningAt
  <2> QED
    BY <2>2, <2>3, Zenon
<1>4. g = [j \in 0 .. m |-> G(g, j)]
  <2> DEFINE h == [j \in 0 .. m |-> G(g, j)]
  <2>1. \A j \in 0 .. m : g[j] = G(f, j) /\ h[j] = G(g, j)
    <3> HIDE DEF G
    <3> QED
      OBVIOUS
  <2>2. \A j \in 0 .. m : g[j] = h[j]
    <3> HIDE DEF G, g, h
    <3> QED
      BY <1>3, <2>1
  <2>3. g = [j \in 0 .. m |-> g[j]] /\ h = [j \in 0 .. m |-> h[j]]
    <3> HIDE DEF G
    <3> QED
      OBVIOUS
  <2> HIDE DEF g, h
  <2>4. g = h
    BY <2>2, <2>3
  <2> QED
    BY <2>4 DEF h
<1>5. Running(g, expr, env, m)
  <2> HIDE DEF g
  <2> QED
    BY <1>4, Zenon DEF Running
<1> QED
  BY <1>1, <1>5

LEMMA RunningIs ==
  ASSUME NEW expr, NEW env, Len(expr) \in Nat
  PROVE  \E f : Running(f, expr, env, Len(expr)) /\ Run(expr, env) = f[Len(expr)]
<1> DEFINE F(f) == f = [k \in 0 .. Len(expr) |->
                        IF k = 0 THEN [ok |-> TRUE, exact |-> TRUE, skip |-> 0, stack |-> <<>>]
                        ELSE Perform(f[k - 1], expr[k], env)]
           c == CHOOSE f : F(f)
<1>1. \E f : F(f)
  <2>1. PICK f : Running(f, expr, env, Len(expr))
    BY RunningExists, Zenon
  <2>2. F(f)
    BY <2>1, Zenon DEF Running
  <2> QED
    BY <2>2, Zenon
<1>2. F(c)
  BY <1>1, Zenon
<1>3. Run(expr, env) = c[Len(expr)]
  BY Zenon DEF Run
<1> QED
  BY <1>2, <1>3, Zenon DEF Running

(* The powers of a number.                                                  *)
Powers(f, x, n) ==
  f = [k \in 0 .. n |-> IF k = 0 THEN 1
                       ELSE x * f[k - 1]]

LEMMA PowersAt ==
  ASSUME NEW f, NEW x, NEW n \in Nat, Powers(f, x, n),
         NEW k \in 0 .. n
  PROVE  f[k] = IF k = 0 THEN 1
                ELSE x * f[k - 1]
<1> DEFINE G(j) == IF j = 0 THEN 1 ELSE x * f[j - 1]
<1>1. f = [j \in 0 .. n |-> G(j)]
  BY Zenon DEF Powers
<1> HIDE DEF G
<1>2. f[k] = G(k)
  BY <1>1
<1> QED
  BY <1>2 DEF G

LEMMA PowersExists ==
  ASSUME NEW x, NEW n \in Nat
  PROVE  \E f : Powers(f, x, n)
<1> DEFINE S == {k \in Nat : ~\E f : Powers(f, x, k)}
           G(f, j) == IF j = 0 THEN 1 ELSE x * f[j - 1]
<1> SUFFICES ASSUME S # {} PROVE FALSE
  OBVIOUS
<1>1. PICK m \in S : \A k \in S : m <= k
  BY NatLeast
<1>2. PICK f : m # 0 => Powers(f, x, m - 1)
  BY <1>1
<1> DEFINE g == [j \in 0 .. m |-> G(f, j)]
<1>3. \A j \in 0 .. m : G(g, j) = G(f, j)
  <2> SUFFICES ASSUME NEW j \in 0 .. m PROVE G(g, j) = G(f, j)
    OBVIOUS
  <2> SUFFICES ASSUME j # 0 PROVE g[j - 1] = f[j - 1]
    <3> HIDE DEF g
    <3> QED
      BY Zenon
  <2>1. j - 1 \in 0 .. m /\ j - 1 \in 0 .. m - 1 /\ m - 1 \in Nat
    BY <1>1
  <2>2. g[j - 1] = G(f, j - 1)
    <3> HIDE DEF G
    <3> QED
      BY <2>1
  <2>3. f[j - 1] = G(f, j - 1)
    BY <1>1, <1>2, <2>1, PowersAt
  <2> QED
    BY <2>2, <2>3, Zenon
<1>4. g = [j \in 0 .. m |-> G(g, j)]
  <2> DEFINE h == [j \in 0 .. m |-> G(g, j)]
  <2>1. \A j \in 0 .. m : g[j] = G(f, j) /\ h[j] = G(g, j)
    <3> HIDE DEF G
    <3> QED
      OBVIOUS
  <2>2. \A j \in 0 .. m : g[j] = h[j]
    <3> HIDE DEF G, g, h
    <3> QED
      BY <1>3, <2>1
  <2>3. g = [j \in 0 .. m |-> g[j]] /\ h = [j \in 0 .. m |-> h[j]]
    <3> HIDE DEF G
    <3> QED
      OBVIOUS
  <2> HIDE DEF g, h
  <2>4. g = h
    BY <2>2, <2>3
  <2> QED
    BY <2>4 DEF h
<1>5. Powers(g, x, m)
  <2> HIDE DEF g
  <2> QED
    BY <1>4, Zenon DEF Powers
<1> QED
  BY <1>1, <1>5

LEMMA TwoToIs ==
  ASSUME NEW n \in 0 .. 63
  PROVE  TwoTo[n] \in Nat \ {0}
<1> DEFINE F(f) == f = [k \in 0 .. 63 |-> IF k = 0 THEN 1 ELSE 2 * f[k - 1]]
<1>1. \E f : F(f)
  <2>1. PICK f : Powers(f, 2, 63)
    BY PowersExists
  <2>2. F(f)
    BY <2>1, Zenon DEF Powers
  <2> QED
    BY <2>2, Zenon
<1>2. F(TwoTo)
  <2> DEFINE c == CHOOSE f : F(f)
  <2>1. F(c)
    BY <1>1, Zenon
  <2>2. TwoTo = c
    BY Zenon DEF TwoTo
  <2> QED
    BY <2>1, <2>2, Zenon
<1>3. Powers(TwoTo, 2, 63)
  BY <1>2, Zenon DEF Powers
<1> DEFINE S == {k \in 0 .. 63 : TwoTo[k] \notin Nat \ {0}}
<1>4. ASSUME S # {} PROVE FALSE
  <2>1. PICK k \in S : \A i \in S : k <= i
    <3>1. S \in SUBSET Nat /\ S # {}
      BY <1>4
    <3> QED
      BY <3>1, NatLeast, Zenon
  <2>2. TwoTo[k] = IF k = 0 THEN 1 ELSE 2 * TwoTo[k - 1]
    BY <1>3, <2>1, PowersAt
  <2>3. k # 0 => TwoTo[k - 1] \in Nat \ {0}
    BY <2>1
  <2> QED
    BY <2>1, <2>2, <2>3
<1> QED
  BY <1>4

(* What RangeCursor has read after each entry.                             *)
Reading(f, base, list, n) ==
  f = [k \in 0 .. n |-> IF k = 0 THEN [base |-> base, out |-> <<>>]
                       ELSE ReadEntry(f[k - 1], Listed(list)[k])]

LEMMA ReadingAt ==
  ASSUME NEW f, NEW base, NEW list, NEW n \in Nat, Reading(f, base, list, n),
         NEW k \in 0 .. n
  PROVE  f[k] = IF k = 0 THEN [base |-> base, out |-> <<>>]
                ELSE ReadEntry(f[k - 1], Listed(list)[k])
<1> DEFINE G(j) == IF j = 0 THEN [base |-> base, out |-> <<>>] ELSE ReadEntry(f[j - 1], Listed(list)[j])
<1>1. f = [j \in 0 .. n |-> G(j)]
  BY Zenon DEF Reading
<1> HIDE DEF G
<1>2. f[k] = G(k)
  BY <1>1
<1> QED
  BY <1>2 DEF G

LEMMA ReadingExists ==
  ASSUME NEW base, NEW list, NEW n \in Nat
  PROVE  \E f : Reading(f, base, list, n)
<1> DEFINE S == {k \in Nat : ~\E f : Reading(f, base, list, k)}
           G(f, j) == IF j = 0 THEN [base |-> base, out |-> <<>>] ELSE ReadEntry(f[j - 1], Listed(list)[j])
<1> SUFFICES ASSUME S # {} PROVE FALSE
  OBVIOUS
<1>1. PICK m \in S : \A k \in S : m <= k
  BY NatLeast
<1>2. PICK f : m # 0 => Reading(f, base, list, m - 1)
  BY <1>1
<1> DEFINE g == [j \in 0 .. m |-> G(f, j)]
<1>3. \A j \in 0 .. m : G(g, j) = G(f, j)
  <2> SUFFICES ASSUME NEW j \in 0 .. m PROVE G(g, j) = G(f, j)
    OBVIOUS
  <2> SUFFICES ASSUME j # 0 PROVE g[j - 1] = f[j - 1]
    <3> HIDE DEF g
    <3> QED
      BY Zenon
  <2>1. j - 1 \in 0 .. m /\ j - 1 \in 0 .. m - 1 /\ m - 1 \in Nat
    BY <1>1
  <2>2. g[j - 1] = G(f, j - 1)
    <3> HIDE DEF G
    <3> QED
      BY <2>1
  <2>3. f[j - 1] = G(f, j - 1)
    BY <1>1, <1>2, <2>1, ReadingAt
  <2> QED
    BY <2>2, <2>3, Zenon
<1>4. g = [j \in 0 .. m |-> G(g, j)]
  <2> DEFINE h == [j \in 0 .. m |-> G(g, j)]
  <2>1. \A j \in 0 .. m : g[j] = G(f, j) /\ h[j] = G(g, j)
    <3> HIDE DEF G
    <3> QED
      OBVIOUS
  <2>2. \A j \in 0 .. m : g[j] = h[j]
    <3> HIDE DEF G, g, h
    <3> QED
      BY <1>3, <2>1
  <2>3. g = [j \in 0 .. m |-> g[j]] /\ h = [j \in 0 .. m |-> h[j]]
    <3> HIDE DEF G
    <3> QED
      OBVIOUS
  <2> HIDE DEF g, h
  <2>4. g = h
    BY <2>2, <2>3
  <2> QED
    BY <2>4 DEF h
<1>5. Reading(g, base, list, m)
  <2> HIDE DEF g
  <2> QED
    BY <1>4, Zenon DEF Reading
<1> QED
  BY <1>1, <1>5

LEMMA ReadingIs ==
  ASSUME NEW base, NEW list, Len(Listed(list)) \in Nat
  PROVE  \E f : Reading(f, base, list, Len(Listed(list))) /\ RangesRead(base, list) = f[Len(Listed(list))].out
<1> DEFINE F(f) == f = [k \in 0 .. Len(Listed(list)) |->
                        IF k = 0 THEN [base |-> base, out |-> <<>>]
                        ELSE ReadEntry(f[k - 1], Listed(list)[k])]
           c == CHOOSE f : F(f)
<1>1. \E f : F(f)
  <2>1. PICK f : Reading(f, base, list, Len(Listed(list)))
    BY ReadingExists, Zenon
  <2>2. F(f)
    BY <2>1, Zenon DEF Reading
  <2> QED
    BY <2>2, Zenon
<1>2. F(c)
  BY <1>1, Zenon
<1>3. RangesRead(base, list) = c[Len(Listed(list))].out
  BY Zenon DEF RangesRead
<1> QED
  BY <1>2, <1>3, Zenon DEF Reading

(* What getRanges has after each range.                                    *)
Splitting(f, ranges, entry, n) ==
  f = [k \in 0 .. n |-> IF k = 0 THEN <<>>
                       ELSE Placed(f[k - 1], ranges[k], entry)]

LEMMA SplittingAt ==
  ASSUME NEW f, NEW ranges, NEW entry, NEW n \in Nat, Splitting(f, ranges, entry, n),
         NEW k \in 0 .. n
  PROVE  f[k] = IF k = 0 THEN <<>>
                ELSE Placed(f[k - 1], ranges[k], entry)
<1> DEFINE G(j) == IF j = 0 THEN <<>> ELSE Placed(f[j - 1], ranges[j], entry)
<1>1. f = [j \in 0 .. n |-> G(j)]
  BY Zenon DEF Splitting
<1> HIDE DEF G
<1>2. f[k] = G(k)
  BY <1>1
<1> QED
  BY <1>2 DEF G

LEMMA SplittingExists ==
  ASSUME NEW ranges, NEW entry, NEW n \in Nat
  PROVE  \E f : Splitting(f, ranges, entry, n)
<1> DEFINE S == {k \in Nat : ~\E f : Splitting(f, ranges, entry, k)}
           G(f, j) == IF j = 0 THEN <<>> ELSE Placed(f[j - 1], ranges[j], entry)
<1> SUFFICES ASSUME S # {} PROVE FALSE
  OBVIOUS
<1>1. PICK m \in S : \A k \in S : m <= k
  BY NatLeast
<1>2. PICK f : m # 0 => Splitting(f, ranges, entry, m - 1)
  BY <1>1
<1> DEFINE g == [j \in 0 .. m |-> G(f, j)]
<1>3. \A j \in 0 .. m : G(g, j) = G(f, j)
  <2> SUFFICES ASSUME NEW j \in 0 .. m PROVE G(g, j) = G(f, j)
    OBVIOUS
  <2> SUFFICES ASSUME j # 0 PROVE g[j - 1] = f[j - 1]
    <3> HIDE DEF g
    <3> QED
      BY Zenon
  <2>1. j - 1 \in 0 .. m /\ j - 1 \in 0 .. m - 1 /\ m - 1 \in Nat
    BY <1>1
  <2>2. g[j - 1] = G(f, j - 1)
    <3> HIDE DEF G
    <3> QED
      BY <2>1
  <2>3. f[j - 1] = G(f, j - 1)
    BY <1>1, <1>2, <2>1, SplittingAt
  <2> QED
    BY <2>2, <2>3, Zenon
<1>4. g = [j \in 0 .. m |-> G(g, j)]
  <2> DEFINE h == [j \in 0 .. m |-> G(g, j)]
  <2>1. \A j \in 0 .. m : g[j] = G(f, j) /\ h[j] = G(g, j)
    <3> HIDE DEF G
    <3> QED
      OBVIOUS
  <2>2. \A j \in 0 .. m : g[j] = h[j]
    <3> HIDE DEF G, g, h
    <3> QED
      BY <1>3, <2>1
  <2>3. g = [j \in 0 .. m |-> g[j]] /\ h = [j \in 0 .. m |-> h[j]]
    <3> HIDE DEF G
    <3> QED
      OBVIOUS
  <2> HIDE DEF g, h
  <2>4. g = h
    BY <2>2, <2>3
  <2> QED
    BY <2>4 DEF h
<1>5. Splitting(g, ranges, entry, m)
  <2> HIDE DEF g
  <2> QED
    BY <1>4, Zenon DEF Splitting
<1> QED
  BY <1>1, <1>5

LEMMA SplittingIs ==
  ASSUME NEW ranges, NEW entry, Len(ranges) \in Nat
  PROVE  \E f : Splitting(f, ranges, entry, Len(ranges)) /\ SplitRanges(ranges, entry) = f[Len(ranges)]
<1> DEFINE F(f) == f = [k \in 0 .. Len(ranges) |->
                        IF k = 0 THEN <<>>
                        ELSE Placed(f[k - 1], ranges[k], entry)]
           c == CHOOSE f : F(f)
<1>1. \E f : F(f)
  <2>1. PICK f : Splitting(f, ranges, entry, Len(ranges))
    BY SplittingExists, Zenon
  <2>2. F(f)
    BY <2>1, Zenon DEF Splitting
  <2> QED
    BY <2>2, Zenon
<1>2. F(c)
  BY <1>1, Zenon
<1>3. SplitRanges(ranges, entry) = c[Len(ranges)]
  BY Zenon DEF SplitRanges
<1> QED
  BY <1>2, <1>3, Zenon DEF Splitting

(* The rule of the frame address after each instruction.                    *)
Ruling(f, program, n) ==
  f = [k \in 0 .. n |-> IF k = 0 THEN mkRegRel(DW_REG_CFA, 0)
                       ELSE ProcessInstruction(f[k - 1], program[k])]

LEMMA RulingAt ==
  ASSUME NEW f, NEW program, NEW n \in Nat, Ruling(f, program, n),
         NEW k \in 0 .. n
  PROVE  f[k] = IF k = 0 THEN mkRegRel(DW_REG_CFA, 0)
                ELSE ProcessInstruction(f[k - 1], program[k])
<1> DEFINE G(j) == IF j = 0 THEN mkRegRel(DW_REG_CFA, 0) ELSE ProcessInstruction(f[j - 1], program[j])
<1>1. f = [j \in 0 .. n |-> G(j)]
  BY Zenon DEF Ruling
<1> HIDE DEF G
<1>2. f[k] = G(k)
  BY <1>1
<1> QED
  BY <1>2 DEF G

LEMMA RulingExists ==
  ASSUME NEW program, NEW n \in Nat
  PROVE  \E f : Ruling(f, program, n)
<1> DEFINE S == {k \in Nat : ~\E f : Ruling(f, program, k)}
           G(f, j) == IF j = 0 THEN mkRegRel(DW_REG_CFA, 0) ELSE ProcessInstruction(f[j - 1], program[j])
<1> SUFFICES ASSUME S # {} PROVE FALSE
  OBVIOUS
<1>1. PICK m \in S : \A k \in S : m <= k
  BY NatLeast
<1>2. PICK f : m # 0 => Ruling(f, program, m - 1)
  BY <1>1
<1> DEFINE g == [j \in 0 .. m |-> G(f, j)]
<1>3. \A j \in 0 .. m : G(g, j) = G(f, j)
  <2> SUFFICES ASSUME NEW j \in 0 .. m PROVE G(g, j) = G(f, j)
    OBVIOUS
  <2> SUFFICES ASSUME j # 0 PROVE g[j - 1] = f[j - 1]
    <3> HIDE DEF g
    <3> QED
      BY Zenon
  <2>1. j - 1 \in 0 .. m /\ j - 1 \in 0 .. m - 1 /\ m - 1 \in Nat
    BY <1>1
  <2>2. g[j - 1] = G(f, j - 1)
    <3> HIDE DEF G
    <3> QED
      BY <2>1
  <2>3. f[j - 1] = G(f, j - 1)
    BY <1>1, <1>2, <2>1, RulingAt
  <2> QED
    BY <2>2, <2>3, Zenon
<1>4. g = [j \in 0 .. m |-> G(g, j)]
  <2> DEFINE h == [j \in 0 .. m |-> G(g, j)]
  <2>1. \A j \in 0 .. m : g[j] = G(f, j) /\ h[j] = G(g, j)
    <3> HIDE DEF G
    <3> QED
      OBVIOUS
  <2>2. \A j \in 0 .. m : g[j] = h[j]
    <3> HIDE DEF G, g, h
    <3> QED
      BY <1>3, <2>1
  <2>3. g = [j \in 0 .. m |-> g[j]] /\ h = [j \in 0 .. m |-> h[j]]
    <3> HIDE DEF G
    <3> QED
      OBVIOUS
  <2> HIDE DEF g, h
  <2>4. g = h
    BY <2>2, <2>3
  <2> QED
    BY <2>4 DEF h
<1>5. Ruling(g, program, m)
  <2> HIDE DEF g
  <2> QED
    BY <1>4, Zenon DEF Ruling
<1> QED
  BY <1>1, <1>5

LEMMA RulingIs ==
  ASSUME NEW program, Len(program) \in Nat
  PROVE  \E f : Ruling(f, program, Len(program)) /\ RuleBehind(program) = f[Len(program)]
<1> DEFINE F(f) == f = [k \in 0 .. Len(program) |->
                        IF k = 0 THEN mkRegRel(DW_REG_CFA, 0)
                        ELSE ProcessInstruction(f[k - 1], program[k])]
           c == CHOOSE f : F(f)
<1>1. \E f : F(f)
  <2>1. PICK f : Ruling(f, program, Len(program))
    BY RulingExists, Zenon
  <2>2. F(f)
    BY <2>1, Zenon DEF Ruling
  <2> QED
    BY <2>2, Zenon
<1>2. F(c)
  BY <1>1, Zenon
<1>3. RuleBehind(program) = c[Len(program)]
  BY Zenon DEF RuleBehind
<1> QED
  BY <1>2, <1>3, Zenon DEF Ruling

-----------------------------------------------------------------------------
(***************************************************************************)
(* decodeLocation.  What it has on its stack stands for what an expression *)
(* has on its own in a process: an address relative to a register for that *)
(* address, and a number for itself.                                       *)
(***************************************************************************)

Regs  == 0 .. 63 \cup {DW_REG_CFA}
Value == [v : Int, addr : BOOLEAN]
Env   == [reg : [0 .. 63 -> Int], frameBase : Int, cfa : Int, memory : Int]

Held(reg, env) == IF reg = DW_REG_CFA THEN env.cfa ELSE env.reg[reg]

Stands(l, v, env) ==
  \/ \E n \in Int : l = mkAbs(n) /\ v = Num(n)
  \/ \E r \in Regs, n \in Int : l = mkRegRel(r, n) /\ v = Adr(Held(r, env) + n)

StandFor(ls, vs, env) ==
  /\ ls \in Seq(Location) /\ vs \in Seq(Value) /\ Len(ls) = Len(vs)
  /\ \A k \in 1 .. Len(ls) : Stands(ls[k], vs[k], env)

(* A frame base, if it is known, is where the process has it.              *)
FrameBaseStands(frameBase, env) ==
  IsInReg(frameBase) \/ IsRegRel(frameBase) =>
    /\ frameBase.reg \in Regs /\ frameBase.off \in Int
    /\ env.frameBase = Held(frameBase.reg, env) + frameBase.off

LEMMA HeldType ==
  ASSUME NEW env \in Env, NEW r \in Regs
  PROVE  Held(r, env) \in Int
BY DEF Env, Regs, Held

LEMMA StandsType ==
  ASSUME NEW env \in Env, NEW l, NEW v, Stands(l, v, env)
  PROVE  l \in Location /\ v \in Value
<1>1. CASE \E n \in Int : l = mkAbs(n) /\ v = Num(n)
  BY <1>1 DEF mkAbs, Num, Location, Value
<1>2. CASE \E r \in Regs, n \in Int : l = mkRegRel(r, n) /\ v = Adr(Held(r, env) + n)
  <2>1. PICK r \in Regs, n \in Int : l = mkRegRel(r, n) /\ v = Adr(Held(r, env) + n)
    BY <1>2
  <2>2. r \in Nat /\ Held(r, env) + n \in Int
    BY HeldType DEF Regs, DW_REG_CFA
  <2> QED
    BY <2>1, <2>2 DEF mkRegRel, Adr, Location, Value
<1> QED
  BY <1>1, <1>2 DEF Stands

LEMMA StandsAbs ==
  ASSUME NEW env, NEW n \in Int
  PROVE  Stands(mkAbs(n), Num(n), env)
BY DEF Stands

LEMMA StandsRel ==
  ASSUME NEW env, NEW r \in Regs, NEW n \in Int
  PROVE  Stands(mkRegRel(r, n), Adr(Held(r, env) + n), env)
BY DEF Stands

(* Stacks that stand for stacks, put together and taken apart.             *)
LEMMA StandOne ==
  ASSUME NEW env \in Env, NEW l, NEW v, Stands(l, v, env)
  PROVE  StandFor(<<l>>, <<v>>, env)
<1>1. l \in Location /\ v \in Value
  BY StandsType
<1> QED
  BY <1>1 DEF StandFor

LEMMA StandBoth ==
  ASSUME NEW env, NEW a, NEW b, NEW c, NEW d,
         StandFor(a, c, env), StandFor(b, d, env)
  PROVE  StandFor(a \o b, c \o d, env)
<1>1. /\ a \in Seq(Location) /\ b \in Seq(Location) /\ c \in Seq(Value) /\ d \in Seq(Value)
      /\ Len(a) = Len(c) /\ Len(b) = Len(d)
  BY DEF StandFor
<1>2. ASSUME NEW k \in 1 .. Len(a \o b) PROVE Stands((a \o b)[k], (c \o d)[k], env)
  <2>1. CASE k <= Len(a)
    <3>1. (a \o b)[k] = a[k] /\ (c \o d)[k] = c[k] /\ k \in 1 .. Len(a)
      BY <1>1, <2>1
    <3> QED
      BY <3>1 DEF StandFor
  <2>2. CASE k > Len(a)
    <3>1. (a \o b)[k] = b[k - Len(a)] /\ (c \o d)[k] = d[k - Len(a)]
          /\ k - Len(a) \in 1 .. Len(b)
      BY <1>1, <2>2
    <3> QED
      BY <3>1 DEF StandFor
  <2> QED
    BY <1>1, <2>1, <2>2
<1>3. a \o b \in Seq(Location) /\ c \o d \in Seq(Value) /\ Len(a \o b) = Len(c \o d)
  BY <1>1
<1> QED
  BY <1>2, <1>3 DEF StandFor

LEMMA StandBelow ==
  ASSUME NEW env, NEW s, NEW t, StandFor(s, t, env),
         NEW k \in Nat, k <= Len(t)
  PROVE  /\ StandFor(Dropped(s, k), Dropped(t, k), env)
         /\ \A i \in 0 .. k - 1 : Stands(Below(s, i), Below(t, i), env)
<1>1. s \in Seq(Location) /\ t \in Seq(Value) /\ Len(s) = Len(t)
  BY DEF StandFor
<1>2. Dropped(s, k) \in Seq(Location) /\ Dropped(t, k) \in Seq(Value)
  BY <1>1 DEF Dropped
<1>3. /\ Len(Dropped(s, k)) = Len(s) - k /\ Len(Dropped(t, k)) = Len(s) - k
      /\ \A i \in 1 .. Len(s) - k : Dropped(s, k)[i] = s[i] /\ Dropped(t, k)[i] = t[i]
  BY <1>1 DEF Dropped
<1>4. \A i \in 1 .. Len(s) - k : i \in 1 .. Len(s)
  BY <1>1
<1>5. \A i \in 0 .. k - 1 : Len(s) - i \in 1 .. Len(s)
  BY <1>1
<1> QED
  BY <1>1, <1>2, <1>3, <1>4, <1>5 DEF StandFor, Below

(* The top of a stack.                                                     *)
LEMMA TopOne ==
  ASSUME NEW S, NEW s \in Seq(S), Len(s) >= 1
  PROVE  s = Dropped(s, 1) \o <<Below(s, 0)>>
BY DEF Dropped, Below

LEMMA TopTwo ==
  ASSUME NEW S, NEW s \in Seq(S), Len(s) >= 2
  PROVE  s = Dropped(s, 2) \o <<Below(s, 1), Below(s, 0)>>
BY DEF Dropped, Below

(***************************************************************************)
(* One operation that is defined and no departure: it is refused, or what  *)
(* it leaves stands for what it means.                                     *)
(***************************************************************************)

Plain(o, t) == Defined(o, t) /\ ~Departure(o, t)

AtStep(o, s, t, frameBase, env) ==
  /\ o \in Operation /\ env \in Env /\ FrameBaseStands(frameBase, env)
  /\ StandFor(s, t, env) /\ Plain(o, t)

Follows(o, s, t, frameBase, env) ==
  \/ After(o, s, frameBase) = <<Unusable>>
  \/ StandFor(After(o, s, frameBase), Dropped(t, Needs(o)) \o Means(o, t, env), env)

LEMMA StepBelow ==
  ASSUME NEW o, NEW s, NEW t, NEW frameBase, NEW env, AtStep(o, s, t, frameBase, env),
         NEW k \in Nat, Needs(o) = k
  PROVE  /\ Len(s) = Len(t) /\ k <= Len(t) /\ s \in Seq(Location) /\ t \in Seq(Value)
         /\ StandFor(Dropped(s, k), Dropped(t, k), env)
         /\ \A i \in 0 .. k - 1 : Stands(Below(s, i), Below(t, i), env)
<1>1. Len(t) >= k
  BY DEF AtStep, Plain, Defined, Departure
<1>2. StandFor(s, t, env)
  BY DEF AtStep
<1>3. Len(s) = Len(t) /\ s \in Seq(Location) /\ t \in Seq(Value)
  BY <1>2 DEF StandFor
<1>4. k <= Len(t)
  BY <1>1, <1>3
<1> QED
  BY <1>2, <1>3, <1>4, StandBelow

(* A value that replaces some of the stack.                                *)
LEMMA ReplacedStands ==
  ASSUME NEW o, NEW s, NEW t, NEW frameBase, NEW env, AtStep(o, s, t, frameBase, env),
         NEW k \in Nat, Needs(o) = k, NEW value,
         After(o, s, frameBase) = Replaced(s, k, value),
         NEW v, Means(o, t, env) = <<v>>,
         value # Unusable => Stands(value, v, env)
  PROVE  Follows(o, s, t, frameBase, env)
<1>1. CASE value = Unusable
  BY <1>1 DEF Replaced, Follows
<1>2. CASE value # Unusable
  <2>1. env \in Env
    BY DEF AtStep
  <2>2. StandFor(Dropped(s, k), Dropped(t, k), env) /\ s \in Seq(Location)
    BY StepBelow
  <2>3. StandFor(<<value>>, <<v>>, env)
    BY <1>2, <2>1, StandOne
  <2>4. StandFor(Dropped(s, k) \o <<value>>, Dropped(t, k) \o <<v>>, env)
    BY <2>2, <2>3, StandBoth
  <2>5. value \in Location /\ Dropped(s, k) \in Seq(Location)
    BY <1>2, <2>1, <2>2, StandsType DEF StandFor
  <2>6. After(o, s, frameBase) = Dropped(s, k) \o <<value>>
    BY <1>2, <2>5 DEF Replaced
  <2> QED
    BY <2>4, <2>6 DEF Follows
<1> QED
  BY <1>1, <1>2

PushOps == {"breg", "const", "lit", "addr", "fbreg", "call_frame_cfa"}

LEMMA PushFollows ==
  ASSUME NEW o, NEW s, NEW t, NEW frameBase, NEW env, AtStep(o, s, t, frameBase, env),
         o.op \in PushOps
  PROVE  Follows(o, s, t, frameBase, env)
<1>1. o \in Operation /\ env \in Env /\ FrameBaseStands(frameBase, env)
  BY DEF AtStep
<1>2. o.reg \in Regs /\ o.n \in Int /\ o.reg # DW_REG_CFA
  BY <1>1 DEF Operation, Regs, DW_REG_CFA
<1>3. Needs(o) = 0
  BY DEF PushOps, Needs, BinaryOps
<1>4. After(o, s, frameBase) = Replaced(s, 0, Pushed(o, s, frameBase))
  BY DEF PushOps, After, BinaryOps
<1>5. CASE o.op = "breg"
  <2>1. Pushed(o, s, frameBase) = mkRegRel(o.reg, o.n)
    BY <1>5 DEF Pushed
  <2>2. Means(o, t, env) = <<Adr(Held(o.reg, env) + o.n)>>
    BY <1>2, <1>5 DEF Means, Held, BinaryOps
  <2>3. Stands(mkRegRel(o.reg, o.n), Adr(Held(o.reg, env) + o.n), env)
    BY <1>2, StandsRel
  <2> QED
    BY <1>3, <1>4, <2>1, <2>2, <2>3, ReplacedStands
<1>6. CASE o.op \in {"const", "lit", "addr"}
  <2>1. Pushed(o, s, frameBase) \in {mkAbs(o.n), Unusable}
    BY <1>6 DEF Pushed
  <2>2. Means(o, t, env) = <<Num(o.n)>>
    BY <1>6 DEF Means, BinaryOps
  <2>3. Stands(mkAbs(o.n), Num(o.n), env)
    BY <1>2, StandsAbs
  <2> QED
    BY <1>3, <1>4, <2>1, <2>2, <2>3, ReplacedStands
<1>7. CASE o.op = "fbreg"
  <2>1. Pushed(o, s, frameBase) = FrameRelative(frameBase, o.n)
    BY <1>7 DEF Pushed
  <2>2. Means(o, t, env) = <<Adr(env.frameBase + o.n)>>
    BY <1>7 DEF Means, BinaryOps
  <2>3. CASE IsInReg(frameBase) \/ IsRegRel(frameBase)
    <3>1. /\ frameBase.reg \in Regs /\ frameBase.off \in Int
          /\ env.frameBase = Held(frameBase.reg, env) + frameBase.off
      BY <1>1, <2>3 DEF FrameBaseStands
    <3>2. PICK r, n : r = frameBase.reg /\ n = frameBase.off
      BY Zenon
    <3>3. PICK h : h = Held(r, env)
      BY Zenon
    <3>4. h \in Int
      BY <1>1, <3>1, <3>2, <3>3, HeldType
    <3>5. env.frameBase + o.n = h + (n + o.n)
      BY <1>2, <3>1, <3>2, <3>3, <3>4
    <3>6. Stands(mkRegRel(r, n + o.n), Adr(h + (n + o.n)), env)
      BY <1>2, <3>1, <3>2, <3>3, StandsRel
    <3>7. FrameRelative(frameBase, o.n) = mkRegRel(r, n + o.n)
      BY <2>3, <3>2 DEF FrameRelative
    <3> QED
      BY <1>3, <1>4, <2>1, <2>2, <3>5, <3>6, <3>7, ReplacedStands
  <2>4. CASE ~(IsInReg(frameBase) \/ IsRegRel(frameBase))
    <3>1. FrameRelative(frameBase, o.n) = Unusable
      BY <2>4 DEF FrameRelative
    <3> QED
      BY <1>3, <1>4, <2>1, <2>2, <3>1, ReplacedStands
  <2> QED
    BY <2>3, <2>4
<1>8. CASE o.op = "call_frame_cfa"
  <2>1. Pushed(o, s, frameBase) = mkRegRel(DW_REG_CFA, 0)
    BY <1>8 DEF Pushed
  <2>2. Means(o, t, env) = <<Adr(env.cfa)>>
    BY <1>8 DEF Means, BinaryOps
  <2>3. env.cfa \in Int /\ DW_REG_CFA \in Regs
    BY <1>1 DEF Env, Regs
  <2>4. Held(DW_REG_CFA, env) + 0 = env.cfa
    BY <2>3 DEF Held
  <2>5. Stands(mkRegRel(DW_REG_CFA, 0), Adr(env.cfa), env)
    <3>1. Stands(mkRegRel(DW_REG_CFA, 0), Adr(Held(DW_REG_CFA, env) + 0), env)
      BY <2>3, StandsRel
    <3> QED
      BY <2>4, <3>1
  <2> QED
    BY <1>3, <1>4, <2>1, <2>2, <2>5, ReplacedStands
<1> QED
  BY <1>5, <1>6, <1>7, <1>8 DEF PushOps

(* dup, over, drop, swap, rot.                                             *)
LEMMA MovedStands ==
  ASSUME NEW o, NEW s, NEW t, NEW frameBase, NEW env, AtStep(o, s, t, frameBase, env),
         NEW k \in Nat, Needs(o) = k, NEW a, NEW b,
         After(o, s, frameBase) = Dropped(s, k) \o a,
         Means(o, t, env) = b, StandFor(a, b, env)
  PROVE  Follows(o, s, t, frameBase, env)
<1>1. StandFor(Dropped(s, k), Dropped(t, k), env)
  BY StepBelow
<1>2. StandFor(Dropped(s, k) \o a, Dropped(t, k) \o b, env)
  BY <1>1, StandBoth
<1> QED
  BY <1>2 DEF Follows

LEMMA StandTwo ==
  ASSUME NEW env \in Env, NEW x, NEW y, NEW v, NEW w,
         Stands(x, v, env), Stands(y, w, env)
  PROVE  StandFor(<<x, y>>, <<v, w>>, env)
<1>1. x \in Location /\ y \in Location /\ v \in Value /\ w \in Value
  BY StandsType
<1> QED
  BY <1>1 DEF StandFor

LEMMA StandThree ==
  ASSUME NEW env \in Env, NEW x, NEW y, NEW z, NEW u, NEW v, NEW w,
         Stands(x, u, env), Stands(y, v, env), Stands(z, w, env)
  PROVE  StandFor(<<x, y, z>>, <<u, v, w>>, env)
<1>1. /\ x \in Location /\ y \in Location /\ z \in Location
      /\ u \in Value /\ v \in Value /\ w \in Value
  BY StandsType
<1> QED
  BY <1>1 DEF StandFor

LEMMA MovesFollow ==
  ASSUME NEW o, NEW s, NEW t, NEW frameBase, NEW env, AtStep(o, s, t, frameBase, env),
         o.op \in {"dup", "over", "drop", "swap", "rot"}
  PROVE  Follows(o, s, t, frameBase, env)
<1>1. env \in Env
  BY DEF AtStep
<1>2. CASE o.op = "dup"
  <2> DEFINE x == Below(s, 0)
             y == Below(t, 0)
  <2>1. Needs(o) = 1 /\ Means(o, t, env) = <<y, y>>
    BY <1>2 DEF Needs, Means, BinaryOps
  <2>2. /\ Len(s) = Len(t) /\ 1 <= Len(t) /\ s \in Seq(Location) /\ Stands(x, y, env)
    BY <2>1, StepBelow
  <2>3. StandFor(<<x, x>>, <<y, y>>, env)
    BY <1>1, <2>2, StandTwo
  <2>4. x \in Location /\ x # Unusable
    <3>1. x \in Location
      BY <1>1, <2>2, StandsType
    <3>2. x # Unusable
      BY <2>2 DEF Stands, mkAbs, mkRegRel, Unusable
    <3> QED
      BY <3>1, <3>2
  <2>5. After(o, s, frameBase) = Append(Dropped(s, 0), x)
    BY <1>2, <2>4 DEF After, Pushed, Replaced, BinaryOps
  <2>6. Append(Dropped(s, 0), x) = Dropped(s, 1) \o <<x, x>>
    BY <2>2, <2>4 DEF Dropped, Below
  <2> QED
    BY <2>1, <2>3, <2>5, <2>6, MovedStands
<1>3. CASE o.op = "over"
  <2> DEFINE x == Below(s, 0)
             y == Below(t, 0)
             x1 == Below(s, 1)
             y1 == Below(t, 1)
  <2>1. Needs(o) = 2 /\ Means(o, t, env) = <<y1, y, y1>>
    BY <1>3 DEF Needs, Means, BinaryOps
  <2>2. /\ Len(s) = Len(t) /\ 2 <= Len(t) /\ s \in Seq(Location)
        /\ Stands(x, y, env) /\ Stands(x1, y1, env)
    BY <2>1, StepBelow
  <2>3. StandFor(<<x1, x, x1>>, <<y1, y, y1>>, env)
    BY <1>1, <2>2, StandThree
  <2>4. x1 \in Location /\ x1 # Unusable
    <3>1. x1 \in Location
      BY <1>1, <2>2, StandsType
    <3>2. x1 # Unusable
      BY <2>2 DEF Stands, mkAbs, mkRegRel, Unusable
    <3> QED
      BY <3>1, <3>2
  <2>5. After(o, s, frameBase) = Append(Dropped(s, 0), x1)
    BY <1>3, <2>4 DEF After, Pushed, Replaced, BinaryOps
  <2>6. Append(Dropped(s, 0), x1) = Dropped(s, 2) \o <<x1, x, x1>>
    BY <2>2, <2>4 DEF Dropped, Below
  <2> QED
    BY <2>1, <2>3, <2>5, <2>6, MovedStands
<1>4. CASE o.op = "drop"
  <2>1. Needs(o) = 1 /\ Means(o, t, env) = <<>>
    BY <1>4 DEF Needs, Means, BinaryOps
  <2>2. StandFor(<<>>, <<>>, env)
    BY DEF StandFor
  <2>3. s \in Seq(Location) /\ 1 <= Len(s)
    BY <2>1, StepBelow
  <2>4. After(o, s, frameBase) = Dropped(s, 1)
    BY <1>4 DEF After, BinaryOps
  <2>5. Dropped(s, 1) = Dropped(s, 1) \o <<>>
    BY <2>3 DEF Dropped
  <2> QED
    BY <2>1, <2>2, <2>4, <2>5, MovedStands
<1>5. CASE o.op = "swap"
  <2>1. Needs(o) = 2 /\ Means(o, t, env) = <<Below(t, 0), Below(t, 1)>>
    BY <1>5 DEF Needs, Means, BinaryOps
  <2>2. Stands(Below(s, 0), Below(t, 0), env) /\ Stands(Below(s, 1), Below(t, 1), env)
    BY <2>1, StepBelow
  <2>3. StandFor(<<Below(s, 0), Below(s, 1)>>, <<Below(t, 0), Below(t, 1)>>, env)
    BY <1>1, <2>2, StandTwo
  <2>4. After(o, s, frameBase) = Dropped(s, 2) \o <<Below(s, 0), Below(s, 1)>>
    BY <1>5 DEF After, BinaryOps
  <2> QED
    BY <2>1, <2>3, <2>4, MovedStands
<1>6. CASE o.op = "rot"
  <2>1. Needs(o) = 3 /\ Means(o, t, env) = <<Below(t, 0), Below(t, 2), Below(t, 1)>>
    BY <1>6 DEF Needs, Means, BinaryOps
  <2>2. /\ Stands(Below(s, 0), Below(t, 0), env) /\ Stands(Below(s, 1), Below(t, 1), env)
        /\ Stands(Below(s, 2), Below(t, 2), env)
    BY <2>1, StepBelow
  <2>3. StandFor(<<Below(s, 0), Below(s, 2), Below(s, 1)>>,
                 <<Below(t, 0), Below(t, 2), Below(t, 1)>>, env)
    BY <1>1, <2>2, StandThree
  <2>4. After(o, s, frameBase) =
          Dropped(s, 3) \o <<Below(s, 0), Below(s, 2), Below(s, 1)>>
    BY <1>6 DEF After, BinaryOps
  <2> QED
    BY <2>1, <2>3, <2>4, MovedStands
<1> QED
  BY <1>2, <1>3, <1>4, <1>5, <1>6

LEMMA QuotientType ==
  ASSUME NEW x \in Int, NEW y \in Int, y # 0
  PROVE  Quotient(x, y) \in Int
<1> DEFINE a == IF x < 0 THEN -x ELSE x
           b == IF y < 0 THEN -y ELSE y
<1>1. a \in Nat /\ b \in Nat \ {0}
  OBVIOUS
<1>2. a \div b \in Int
  <2> HIDE DEF a, b
  <2> QED
    BY <1>1, Z3
<1>3. Quotient(x, y) \in {a \div b, -(a \div b)}
  BY DEF Quotient
<1> HIDE DEF a, b
<1> QED
  BY <1>2, <1>3

LEMMA TimesType ==
  ASSUME NEW x \in Int, NEW y \in Int
  PROVE  x * y \in Int
OBVIOUS

LEMMA ArithmeticType ==
  ASSUME NEW op \in BinaryOps, NEW x \in Int, NEW y \in Int,
         op \in {"div", "mod"} => y # 0,
         op \in {"shl", "shr", "shra"} => y \in 0 .. 15
  PROVE  Arithmetic(op, x, y) \in Int
<1>1. CASE op \in {"plus", "minus"}
  BY <1>1 DEF Arithmetic
<1>2. CASE op = "mul"
  <2>1. Arithmetic(op, x, y) = x * y
    BY <1>2 DEF Arithmetic
  <2> QED
    BY <2>1, TimesType
<1>3. CASE op \in {"div", "mod"}
  <2>1. Quotient(x, y) \in Int
    BY <1>3, QuotientType
  <2>2. PICK q : q = Quotient(x, y)
    BY Zenon
  <2>3. y * q \in Int
    BY <2>1, <2>2, TimesType
  <2>4. Arithmetic(op, x, y) \in {q, x - y * q}
    BY <1>3, <2>2 DEF Arithmetic
  <2> QED
    BY <2>1, <2>2, <2>3, <2>4
<1>4. CASE op \in {"shl", "shr", "shra"}
  <2>1. y \in 0 .. 63
    BY <1>4
  <2>2. PICK p : p = TwoTo[y]
    BY Zenon
  <2>3. p \in Nat \ {0}
    BY <2>1, <2>2, TwoToIs
  <2>4. x * p \in Int
    BY <2>3, TimesType
  <2>5. x \div p \in Int
    BY <2>3, Z3
  <2>6. Arithmetic(op, x, y) \in {x * p, x \div p}
    BY <1>4, <2>2 DEF Arithmetic
  <2> QED
    BY <2>4, <2>5, <2>6
<1>5. CASE op \in {"and", "or", "xor", "eq", "ne", "lt", "le", "gt", "ge"}
  <2>1. Arithmetic(op, x, y) \in {0, 1}
    BY <1>5 DEF Arithmetic, Truth
  <2> QED
    BY <2>1
<1> QED
  BY <1>1, <1>2, <1>3, <1>4, <1>5 DEF BinaryOps

(* A number added to a value of either stack.                              *)
LEMMA AddedNumber ==
  ASSUME NEW n \in Int, NEW k \in Int, NEW x, x = mkAbs(n)
  PROVE  [x EXCEPT !.off = @ + k] = mkAbs(n + k)
BY DEF mkAbs

LEMMA AddedAddress ==
  ASSUME NEW r, NEW n \in Int, NEW k \in Int, NEW x, x = mkRegRel(r, n)
  PROVE  [x EXCEPT !.off = @ + k] = mkRegRel(r, n + k)
BY DEF mkRegRel

LEMMA AddedValue ==
  ASSUME NEW b, NEW n, NEW k, NEW w, w = [v |-> n, addr |-> b]
  PROVE  [w EXCEPT !.v = @ + k] = [v |-> n + k, addr |-> b]
OBVIOUS

LEMMA Added ==
  ASSUME NEW n, NEW k
  PROVE  /\ [Num(n) EXCEPT !.v = @ + k] = Num(n + k)
         /\ [Adr(n) EXCEPT !.v = @ + k] = Adr(n + k)
<1>1. [Num(n) EXCEPT !.v = @ + k] = Num(n + k)
  <2>1. PICK w, b : w = Num(n) /\ b = FALSE
    BY Zenon
  <2>2. w = [v |-> n, addr |-> b]
    BY <2>1 DEF Num
  <2>3. [w EXCEPT !.v = @ + k] = [v |-> n + k, addr |-> b]
    BY <2>2, AddedValue
  <2>4. [v |-> n + k, addr |-> b] = Num(n + k)
    BY <2>1 DEF Num
  <2> QED
    BY <2>1, <2>3, <2>4
<1>2. [Adr(n) EXCEPT !.v = @ + k] = Adr(n + k)
  <2>1. PICK w, b : w = Adr(n) /\ b = TRUE
    BY Zenon
  <2>2. w = [v |-> n, addr |-> b]
    BY <2>1 DEF Adr
  <2>3. [w EXCEPT !.v = @ + k] = [v |-> n + k, addr |-> b]
    BY <2>2, AddedValue
  <2>4. [v |-> n + k, addr |-> b] = Adr(n + k)
    BY <2>1 DEF Adr
  <2> QED
    BY <2>1, <2>3, <2>4
<1> QED
  BY <1>1, <1>2

LEMMA UnaryFollows ==
  ASSUME NEW o, NEW s, NEW t, NEW frameBase, NEW env, AtStep(o, s, t, frameBase, env),
         o.op \in {"abs", "neg", "not", "plus_uconst"}
  PROVE  Follows(o, s, t, frameBase, env)
<1>1. o \in Operation /\ env \in Env /\ o.n \in Int
  BY DEF AtStep, Operation
<1>2. Needs(o) = 1
  BY DEF Needs, BinaryOps
<1>3. PICK x, y : x = Below(s, 0) /\ y = Below(t, 0)
  BY Zenon
<1>4. Stands(x, y, env)
  BY <1>2, <1>3, StepBelow
<1>5. CASE o.op \in {"abs", "neg", "not"}
  <2>1. Means(o, t, env) = <<Num(Unary(o.op, y.v))>>
    BY <1>3, <1>5 DEF Means, BinaryOps
  <2>2. After(o, s, frameBase) =
          Replaced(s, 1, IF IsAbs(x) THEN mkAbs(Unary(o.op, x.off)) ELSE Unusable)
    BY <1>3, <1>5 DEF After, BinaryOps
  <2>3. CASE IsAbs(x)
    <3>1. PICK n \in Int : x = mkAbs(n) /\ y = Num(n)
      BY <1>4, <2>3 DEF Stands, IsAbs, mkRegRel
    <3>2. x.off = n /\ y.v = n
      BY <3>1 DEF mkAbs, Num
    <3>3. Unary(o.op, n) \in Int
      BY <1>5 DEF Unary
    <3>4. Stands(mkAbs(Unary(o.op, n)), Num(Unary(o.op, n)), env)
      BY <3>3, StandsAbs
    <3> QED
      BY <1>2, <2>1, <2>2, <2>3, <3>2, <3>4, ReplacedStands
  <2>4. CASE ~IsAbs(x)
    BY <1>2, <2>1, <2>2, <2>4, ReplacedStands
  <2> QED
    BY <2>3, <2>4
<1>6. CASE o.op = "plus_uconst"
  <2>1. PICK k : k = o.n
    BY Zenon
  <2>2. k \in Int
    BY <1>1, <2>1
  <2>3. PICK value, w : /\ value = IF IsInReg(x) THEN Unusable ELSE [x EXCEPT !.off = @ + k]
                        /\ w = [y EXCEPT !.v = @ + k]
    BY Zenon
  <2>4. Means(o, t, env) = <<w>>
    BY <1>3, <1>6, <2>1, <2>3 DEF Means, BinaryOps
  <2>5. After(o, s, frameBase) = Replaced(s, 1, value)
    BY <1>3, <1>6, <2>1, <2>3 DEF After, BinaryOps
  <2>6. Stands(value, w, env)
    <3>1. ASSUME NEW n \in Int, x = mkAbs(n), y = Num(n)
          PROVE  Stands(value, w, env)
      <4>1. ~IsInReg(x)
        BY <3>1 DEF mkAbs, IsInReg
      <4>2. value = mkAbs(n + k)
        BY <2>2, <2>3, <3>1, <4>1, AddedNumber
      <4>4. w = Num(n + k)
        BY <2>3, <3>1, Added
      <4>3. n + k \in Int
        BY <2>2
      <4> QED
        BY <4>2, <4>3, <4>4, StandsAbs
    <3>2. ASSUME NEW r \in Regs, NEW n \in Int,
                 x = mkRegRel(r, n), y = Adr(Held(r, env) + n)
          PROVE  Stands(value, w, env)
      <4>1. PICK h : h = Held(r, env)
        BY Zenon
      <4>2. h \in Int
        BY <1>1, <4>1, HeldType
      <4>3. ~IsInReg(x)
        BY <3>2 DEF mkRegRel, IsInReg
      <4>4. value = mkRegRel(r, n + k)
        <5>1. [x EXCEPT !.off = @ + k] = mkRegRel(r, n + k)
          BY <2>2, <3>2, AddedAddress
        <5> QED
          BY <2>3, <4>3, <5>1
      <4>5. h + n \in Int /\ (h + n) + k = h + (n + k) /\ n + k \in Int
        BY <2>2, <4>2
      <4>6. w = Adr(h + (n + k))
        <5>1. w = [Adr(h + n) EXCEPT !.v = @ + k]
          BY <2>3, <3>2, <4>1
        <5>2. [Adr(h + n) EXCEPT !.v = @ + k] = Adr((h + n) + k)
          BY Added
        <5> QED
          BY <4>5, <5>1, <5>2
      <4> QED
        BY <4>1, <4>4, <4>5, <4>6, StandsRel
    <3> QED
      BY <1>4, <3>1, <3>2, Zenon DEF Stands
  <2> QED
    BY <1>2, <2>4, <2>5, <2>6, ReplacedStands
<1> QED
  BY <1>5, <1>6

(* The sum and the difference of what stands for values.                   *)
LEMMA BinaryFollows ==
  ASSUME NEW o, NEW s, NEW t, NEW frameBase, NEW env, AtStep(o, s, t, frameBase, env),
         o.op \in BinaryOps
  PROVE  Follows(o, s, t, frameBase, env)
<1>1. o \in Operation /\ env \in Env
  BY DEF AtStep
<1>2. Needs(o) = 2
  BY DEF Needs, BinaryOps
<1>3. PICK x, y, u, v : /\ x = Below(s, 1) /\ y = Below(s, 0)
                        /\ u = Below(t, 1) /\ v = Below(t, 0)
  BY Zenon
<1>4. Stands(x, u, env) /\ Stands(y, v, env)
  BY <1>2, <1>3, StepBelow
<1> DEFINE w == [v |-> Arithmetic(o.op, u.v, v.v),
                 addr |-> o.op \in {"plus", "minus"} /\ u.addr # v.addr]
<1>5. Means(o, t, env) = <<w>>
  BY <1>3 DEF Means, BinaryOps
<1>6. After(o, s, frameBase) = Replaced(s, 2, Binary(o.op, x, y))
  BY <1>3 DEF After, BinaryOps
<1>7. /\ o.op \in {"div", "mod"} => v.v # 0
      /\ o.op \in {"shl", "shr", "shra"} => v.v \in 0 .. 15
      /\ o.op \in {"and", "or", "xor"} => {v.v, u.v} \subseteq {0, 1}
      /\ o.op = "minus" /\ v.addr /\ u.addr => v.v = u.v
  BY <1>3 DEF AtStep, Plain, Defined, Departure
<1>8. SUFFICES Binary(o.op, x, y) # Unusable => Stands(Binary(o.op, x, y), w, env)
  <2> HIDE DEF w
  <2> QED
    BY <1>2, <1>5, <1>6, ReplacedStands
<1>9. CASE IsAbs(x) /\ IsAbs(y)
  <2>1. PICK m \in Int : x = mkAbs(m) /\ u = Num(m)
    BY <1>4, <1>9 DEF Stands, IsAbs, mkRegRel
  <2>2. PICK n \in Int : y = mkAbs(n) /\ v = Num(n)
    BY <1>4, <1>9 DEF Stands, IsAbs, mkRegRel
  <2>3. PICK a : a = Arithmetic(o.op, m, n)
    BY Zenon
  <2>4. Binary(o.op, x, y) = mkAbs(a)
    BY <1>9, <2>1, <2>2, <2>3 DEF Binary, mkAbs
  <2>5. w = Num(a)
    BY <2>1, <2>2, <2>3 DEF Num
  <2>6. a \in Int
    <3>1. v.v = n
      BY <2>2 DEF Num
    <3> QED
      BY <1>7, <2>3, <3>1, ArithmeticType
  <2> QED
    BY <2>4, <2>5, <2>6, StandsAbs
<1>10. CASE IsRegRel(x) /\ IsAbs(y)
  <2>1. PICK r \in Regs, m \in Int : x = mkRegRel(r, m) /\ u = Adr(Held(r, env) + m)
    BY <1>4, <1>10 DEF Stands, IsRegRel, mkAbs
  <2>2. PICK n \in Int : y = mkAbs(n) /\ v = Num(n)
    BY <1>4, <1>10 DEF Stands, IsAbs, mkRegRel
  <2>3. PICK h : h = Held(r, env)
    BY Zenon
  <2>4. h \in Int
    BY <1>1, <2>3, HeldType
  <2>5. CASE o.op \in {"plus", "minus"}
    <3>1. PICK a : a = Arithmetic(o.op, m, n)
      BY Zenon
    <3>2. a \in Int /\ Arithmetic(o.op, h + m, n) = h + a
      BY <2>4, <2>5, <3>1 DEF Arithmetic
    <3>3. Binary(o.op, x, y) = mkRegRel(r, a)
      BY <1>10, <2>1, <2>2, <2>5, <3>1
         DEF Binary, Mixed, mkAbs, mkRegRel, IsAbs, IsRegRel
    <3>4. w = Adr(h + a)
      BY <2>1, <2>2, <2>3, <2>5, <3>2 DEF Num, Adr
    <3> QED
      BY <2>3, <3>2, <3>3, <3>4, StandsRel
  <2>6. CASE o.op \notin {"plus", "minus"}
    <3>1. Binary(o.op, x, y) = (IF o.op \in {"mul", "and"} /\ n = 0 THEN mkAbs(0) ELSE Unusable)
      BY <1>10, <2>1, <2>2, <2>6
         DEF Binary, Mixed, mkAbs, mkRegRel, IsAbs, IsRegRel, IsZero, Unusable
    <3>2. CASE o.op = "mul" /\ n = 0
      <4>1. Arithmetic(o.op, h + m, n) = 0
        BY <2>4, <3>2 DEF Arithmetic
      <4>2. w = Num(0)
        BY <2>1, <2>2, <2>3, <2>6, <4>1 DEF Num, Adr
      <4> QED
        BY <3>1, <3>2, <4>2, StandsAbs
    <3>3. CASE o.op = "and" /\ n = 0
      <4>1. Arithmetic(o.op, h + m, n) = 0
        BY <3>3 DEF Arithmetic, Truth
      <4>2. w = Num(0)
        BY <2>1, <2>2, <2>3, <2>6, <4>1 DEF Num, Adr
      <4> QED
        BY <3>1, <3>3, <4>2, StandsAbs
    <3> QED
      BY <3>1, <3>2, <3>3
  <2> QED
    BY <2>5, <2>6
<1>11. CASE IsAbs(x) /\ IsRegRel(y)
  <2>1. PICK m \in Int : x = mkAbs(m) /\ u = Num(m)
    BY <1>4, <1>11 DEF Stands, IsAbs, mkRegRel
  <2>2. PICK r \in Regs, n \in Int : y = mkRegRel(r, n) /\ v = Adr(Held(r, env) + n)
    BY <1>4, <1>11 DEF Stands, IsRegRel, mkAbs
  <2>3. PICK h : h = Held(r, env)
    BY Zenon
  <2>4. h \in Int
    BY <1>1, <2>3, HeldType
  <2>5. CASE o.op = "plus"
    <3>1. Arithmetic(o.op, m, h + n) = h + (m + n)
      BY <2>4, <2>5 DEF Arithmetic
    <3>2. Binary(o.op, x, y) = mkRegRel(r, m + n)
      BY <1>11, <2>1, <2>2, <2>5
         DEF Binary, Mixed, mkAbs, mkRegRel, IsAbs, IsRegRel
    <3>3. w = Adr(h + (m + n))
      BY <2>1, <2>2, <2>3, <2>5, <3>1 DEF Num, Adr
    <3>4. m + n \in Int
      OBVIOUS
    <3> QED
      BY <2>3, <3>2, <3>3, <3>4, StandsRel
  <2>6. CASE o.op # "plus"
    <3>1. Binary(o.op, x, y) = (IF o.op \in {"mul", "and"} /\ m = 0 THEN mkAbs(0) ELSE Unusable)
      BY <1>11, <2>1, <2>2, <2>6
         DEF Binary, Mixed, mkAbs, mkRegRel, IsAbs, IsRegRel, IsZero, Unusable
    <3>2. CASE o.op = "mul" /\ m = 0
      <4>1. Arithmetic(o.op, m, h + n) = 0
        BY <2>4, <3>2 DEF Arithmetic
      <4>2. w = Num(0)
        BY <2>1, <2>2, <2>3, <2>6, <3>2, <4>1 DEF Num, Adr
      <4> QED
        BY <3>1, <3>2, <4>2, StandsAbs
    <3>3. CASE o.op = "and" /\ m = 0
      <4>1. Arithmetic(o.op, m, h + n) = 0
        BY <3>3 DEF Arithmetic, Truth
      <4>2. w = Num(0)
        BY <2>1, <2>2, <2>3, <2>6, <3>3, <4>1 DEF Num, Adr
      <4> QED
        BY <3>1, <3>3, <4>2, StandsAbs
    <3> QED
      BY <3>1, <3>2, <3>3
  <2> QED
    BY <2>5, <2>6
<1>12. CASE IsRegRel(x) /\ IsRegRel(y)
  <2>1. PICK p \in Regs, m \in Int : x = mkRegRel(p, m) /\ u = Adr(Held(p, env) + m)
    BY <1>4, <1>12 DEF Stands, IsRegRel, mkAbs
  <2>2. PICK r \in Regs, n \in Int : y = mkRegRel(r, n) /\ v = Adr(Held(r, env) + n)
    BY <1>4, <1>12 DEF Stands, IsRegRel, mkAbs
  <2>3. CASE o.op = "minus" /\ p = r
    <3>1. PICK g, h : g = Held(p, env) + m /\ h = Held(r, env) + n
      BY Zenon
    <3>2. g \in Int /\ h \in Int
      BY <1>1, <3>1, HeldType
    <3>3. g = h
      BY <1>7, <2>1, <2>2, <2>3, <3>1 DEF Adr
    <3>4. Arithmetic(o.op, g, h) = 0
      BY <2>3, <3>2, <3>3 DEF Arithmetic
    <3>5. w = Num(0)
      BY <2>1, <2>2, <3>1, <3>4 DEF Num, Adr
    <3>6. Binary(o.op, x, y) = mkAbs(0)
      BY <1>12, <2>1, <2>2, <2>3
         DEF Binary, Mixed, mkAbs, mkRegRel, IsAbs, IsRegRel
    <3> QED
      BY <3>5, <3>6, StandsAbs
  <2>4. CASE ~(o.op = "minus" /\ p = r)
    <3>1. Binary(o.op, x, y) = Unusable
      BY <1>12, <2>1, <2>2, <2>4
         DEF Binary, Mixed, mkAbs, mkRegRel, IsAbs, IsRegRel, IsZero
    <3> QED
      BY <3>1
  <2> QED
    BY <2>3, <2>4
<1>13. (IsAbs(x) \/ IsRegRel(x)) /\ (IsAbs(y) \/ IsRegRel(y))
  BY <1>4 DEF Stands, IsAbs, IsRegRel, mkAbs, mkRegRel
<1> QED
  BY <1>9, <1>10, <1>11, <1>12, <1>13

(* skip, a branch that is taken, nop, and what is refused.                 *)
LEMMA RestFollows ==
  ASSUME NEW o, NEW s, NEW t, NEW frameBase, NEW env, AtStep(o, s, t, frameBase, env),
         o.op \notin PushOps \cup BinaryOps
                     \cup {"abs", "neg", "not", "plus_uconst", "dup", "over", "drop", "swap", "rot"}
  PROVE  Follows(o, s, t, frameBase, env)
<1>1. o.op \notin {"reg", "pick"} /\ StandFor(s, t, env)
  BY DEF AtStep, Plain, Defined, Departure
<1>2. StandFor(<<>>, <<>>, env)
  BY DEF StandFor
<1>3. CASE o.op = "bra"
  <2>1. Needs(o) = 1 /\ Means(o, t, env) = <<>>
    BY <1>3 DEF Needs, Means, BinaryOps
  <2>2. After(o, s, frameBase) \in {Dropped(s, 1), <<Unusable>>}
    BY <1>3 DEF After, BinaryOps
  <2>3. s \in Seq(Location) /\ 1 <= Len(s)
    BY <2>1, StepBelow
  <2>4. Dropped(s, 1) = Dropped(s, 1) \o <<>>
    BY <2>3 DEF Dropped
  <2>5. CASE After(o, s, frameBase) = Dropped(s, 1)
    BY <1>2, <2>1, <2>4, <2>5, MovedStands
  <2>6. CASE After(o, s, frameBase) = <<Unusable>>
    BY <2>6 DEF Follows
  <2> QED
    BY <2>2, <2>5, <2>6
<1>4. CASE o.op \in {"skip", "nop"}
  <2>1. Needs(o) = 0 /\ Means(o, t, env) = <<>>
    BY <1>4 DEF Needs, Means, BinaryOps
  <2>2. After(o, s, frameBase) = s
    BY <1>4 DEF After, BinaryOps
  <2>3. s \in Seq(Location)
    BY <1>1 DEF StandFor
  <2>4. After(o, s, frameBase) = Dropped(s, 0) \o <<>>
    BY <2>2, <2>3 DEF Dropped
  <2>5. 0 \in Nat
    OBVIOUS
  <2> QED
    BY <1>2, <2>1, <2>4, <2>5, MovedStands, Zenon
<1>5. CASE o.op \notin {"bra", "skip", "nop"}
  <2>1. Pushed(o, s, frameBase) = Unusable
    BY <1>1, <1>5 DEF Pushed, PushOps
  <2>2. After(o, s, frameBase) = Replaced(s, 0, Pushed(o, s, frameBase))
    BY <1>5 DEF After
  <2> QED
    BY <2>1, <2>2 DEF Replaced, Follows
<1> QED
  BY <1>3, <1>4, <1>5

LEMMA OperationFollows ==
  ASSUME NEW o, NEW s, NEW t, NEW frameBase, NEW env, AtStep(o, s, t, frameBase, env)
  PROVE  Follows(o, s, t, frameBase, env)
BY PushFollows, MovesFollow, UnaryFollows, BinaryFollows, RestFollows

(* The decoder and the process, after as many operations.                  *)
Stack(s, n, b) == [stack |-> s, skip |-> n, stop |-> b]
Done(t, n, b)  == [ok |-> TRUE, exact |-> b, skip |-> n, stack |-> t]

(* A process that has come to what is not defined, or is a departure.      *)
Left(r) == ~r.ok \/ \E t, n : r = Done(t, n, FALSE)

Simulates(m, r, env) ==
  \/ Left(r)
  \/ m = Refused
  \/ \E s, t : \E n \in Int :
       m = Stack(s, n, FALSE) /\ r = Done(t, n, TRUE) /\ StandFor(s, t, env)

LEMMA Skipped ==
  ASSUME NEW s, NEW n, NEW b, NEW m, m = Stack(s, n, b)
  PROVE  [m EXCEPT !.skip = @ - 1] = Stack(s, n - 1, b)
BY DEF Stack

LEMMA SkippedToo ==
  ASSUME NEW t, NEW n, NEW b, NEW m, m = Done(t, n, b)
  PROVE  [m EXCEPT !.skip = @ - 1] = Done(t, n - 1, b)
<1>1. \A a : m = [ok |-> a, exact |-> b, skip |-> n, stack |-> t]
        => [m EXCEPT !.skip = @ - 1] = [ok |-> a, exact |-> b, skip |-> n - 1, stack |-> t]
  OBVIOUS
<1> QED
  BY <1>1, Zenon DEF Done

(* How a process leaves the plain operations, and that it does not return. *)
LEMMA PerformLeaves ==
  ASSUME NEW r, NEW t, NEW n, NEW b, r = Done(t, n, b), NEW o, NEW env,
         b = FALSE \/ (~(n > 0) /\ ~Plain(o, t))
  PROVE  Left(Perform(r, o, env))
<1>1. r.ok /\ r.exact = b /\ r.skip = n /\ r.stack = t
  BY DEF Done
<1>2. CASE n > 0
  <2>1. Perform(r, o, env) = [r EXCEPT !.skip = @ - 1]
    BY <1>1, <1>2 DEF Perform
  <2>2. [r EXCEPT !.skip = @ - 1] = Done(t, n - 1, b)
    BY SkippedToo
  <2>3. b = FALSE
    BY <1>2
  <2> QED
    BY <2>1, <2>2, <2>3, Zenon DEF Left
<1>3. CASE ~(n > 0) /\ ~Defined(o, t)
  <2>1. Perform(r, o, env) = [r EXCEPT !.ok = FALSE]
    BY <1>1, <1>3 DEF Perform
  <2>2. ~[r EXCEPT !.ok = FALSE].ok
    BY DEF Done
  <2> QED
    BY <2>1, <2>2, Zenon DEF Left
<1>4. CASE ~(n > 0) /\ Defined(o, t)
  <2>1. PICK c, k, rest :
          /\ c = (r.exact /\ ~Departure(o, t))
          /\ k = IF o.op = "skip" \/ (o.op = "bra" /\ Below(t, 0).v # 0) THEN o.n ELSE 0
          /\ rest = Dropped(t, Needs(o)) \o Means(o, t, env)
    BY Zenon
  <2>2. c = FALSE
    BY <1>1, <1>4, <2>1 DEF Plain
  <2>3. Perform(r, o, env) = Done(rest, k, c)
    BY <1>1, <1>4, <2>1 DEF Perform, Done
  <2> QED
    BY <2>2, <2>3, Zenon DEF Left
<1> QED
  BY <1>2, <1>3, <1>4

Came(t, n) == Done(t, n, TRUE)

Performed(o, t, env) ==
  Came(Dropped(t, Needs(o)) \o Means(o, t, env), IF o.op \in {"skip", "bra"} THEN o.n ELSE 0)

LEMMA PerformPlain ==
  ASSUME NEW r, NEW t, NEW n \in Int, r = Came(t, n), ~(n > 0),
         NEW o, Plain(o, t), NEW env
  PROVE  Perform(r, o, env) = Performed(o, t, env)
<1>0. PICK skip, rest : /\ skip = IF o.op \in {"skip", "bra"} THEN o.n ELSE 0
                        /\ rest = Dropped(t, Needs(o)) \o Means(o, t, env)
  BY Zenon
<1>1. r.ok /\ r.exact = TRUE /\ r.skip = n /\ r.stack = t
  BY DEF Came, Done
<1>2. Defined(o, t) /\ ~Departure(o, t)
  BY DEF Plain
<1>3. (o.op = "skip" \/ (o.op = "bra" /\ Below(t, 0).v # 0)) <=> o.op \in {"skip", "bra"}
  BY <1>2 DEF Departure
<1>4. PICK c : c = (r.exact /\ ~Departure(o, t))
  BY Zenon
<1>5. c = TRUE
  BY <1>1, <1>2, <1>4
<1>6. Perform(r, o, env) = Done(rest, skip, c)
  BY <1>0, <1>1, <1>2, <1>3, <1>4 DEF Perform, Done
<1> QED
  BY <1>0, <1>5, <1>6, Zenon DEF Performed, Came

LEMMA BranchStands ==
  ASSUME NEW o, NEW s, NEW t, NEW frameBase, NEW env, AtStep(o, s, t, frameBase, env),
         After(o, s, frameBase) # <<Unusable>>
  PROVE  /\ ~Misread(o, s)
         /\ Skips(o, s) = IF o.op \in {"skip", "bra"} THEN o.n ELSE 0
<1>1. CASE o.op = "bra"
  <2>1. Needs(o) = 1
    BY <1>1 DEF Needs, BinaryOps
  <2>2. PICK x, y : x = Below(s, 0) /\ y = Below(t, 0)
    BY Zenon
  <2>3. Stands(x, y, env)
    BY <2>1, <2>2, StepBelow
  <2>4. y.v # 0
    BY <1>1, <2>2 DEF AtStep, Plain, Defined, Departure
  <2>5. IsAbs(x)
    BY <1>1, <2>2 DEF After, BinaryOps
  <2>6. x.off # 0
    BY <2>3, <2>4, <2>5 DEF Stands, IsAbs, mkAbs, mkRegRel, Num
  <2> QED
    BY <1>1, <2>2, <2>6 DEF Misread, Skips, IsZero
<1>2. CASE o.op # "bra"
  <2>1. o.op # "pick"
    BY DEF AtStep, Plain, Defined, Departure
  <2> QED
    BY <1>2, <2>1 DEF Misread, Skips
<1> QED
  BY <1>1, <1>2

LEMMA LeftStays ==
  ASSUME NEW r, Left(r), NEW o, NEW env
  PROVE  Left(Perform(r, o, env))
<1>1. CASE ~r.ok
  <2>1. Perform(r, o, env) = r
    BY <1>1 DEF Perform
  <2> QED
    BY <1>1, <2>1, Zenon DEF Left
<1>2. ASSUME NEW t, NEW n, r = Done(t, n, FALSE) PROVE Left(Perform(r, o, env))
  BY <1>2, PerformLeaves
<1> QED
  BY <1>1, <1>2, Zenon DEF Left

LEMMA StepSimulates ==
  ASSUME NEW m, NEW r, NEW o \in Operation, NEW env \in Env, NEW frameBase,
         FrameBaseStands(frameBase, env), Simulates(m, r, env)
  PROVE  Simulates(Decode(m, o, frameBase), Perform(r, o, env), env)
<1>1. CASE Left(r)
  <2>1. Left(Perform(r, o, env))
    BY <1>1, LeftStays
  <2> QED
    BY <2>1, Zenon DEF Simulates
<1>2. CASE m = Refused
  <2>1. Decode(m, o, frameBase) = Refused
    BY <1>2 DEF Decode, Refused
  <2> QED
    BY <2>1, Zenon DEF Simulates
<1>3. ASSUME NEW s, NEW t, NEW n \in Int, m = Stack(s, n, FALSE), r = Done(t, n, TRUE),
             StandFor(s, t, env)
      PROVE  Simulates(Decode(m, o, frameBase), Perform(r, o, env), env)
  <2>1. ~m.stop /\ r.ok /\ m.skip = n /\ r.skip = n /\ m.stack = s /\ r.stack = t
    BY <1>3 DEF Stack, Done
  <2>2. CASE n > 0
    <3>1. Decode(m, o, frameBase) = [m EXCEPT !.skip = @ - 1]
      BY <2>1, <2>2 DEF Decode
    <3>2. Perform(r, o, env) = [r EXCEPT !.skip = @ - 1]
      BY <2>1, <2>2 DEF Perform
    <3>3. [m EXCEPT !.skip = @ - 1] = Stack(s, n - 1, FALSE)
      <4>1. PICK b : b = FALSE
        BY Zenon
      <4>2. m = Stack(s, n, b)
        BY <1>3, <4>1, Zenon
      <4>3. [m EXCEPT !.skip = @ - 1] = Stack(s, n - 1, b)
        BY <4>2, Skipped
      <4> QED
        BY <4>1, <4>3, Zenon
    <3>4. [r EXCEPT !.skip = @ - 1] = Done(t, n - 1, TRUE)
      <4>1. PICK b : b = TRUE
        BY Zenon
      <4>2. r = Done(t, n, b)
        BY <1>3, <4>1, Zenon
      <4>3. [r EXCEPT !.skip = @ - 1] = Done(t, n - 1, b)
        BY <4>2, SkippedToo
      <4> QED
        BY <4>1, <4>3, Zenon
    <3>5. n - 1 \in Int
      OBVIOUS
    <3>6. /\ Decode(m, o, frameBase) = Stack(s, n - 1, FALSE)
          /\ Perform(r, o, env) = Done(t, n - 1, TRUE)
      BY <3>1, <3>2, <3>3, <3>4, Zenon
    <3> QED
      BY <1>3, <3>5, <3>6, Zenon DEF Simulates
  <2>3. CASE ~(n > 0)
    <3>1. CASE ~Plain(o, t)
      <4>1. Left(Perform(r, o, env))
        BY <1>3, <2>3, <3>1, PerformLeaves
      <4> QED
        BY <4>1, Zenon DEF Simulates
    <3>2. CASE Plain(o, t)
      <4>1. AtStep(o, s, t, frameBase, env)
        BY <1>3, <3>2, Zenon DEF AtStep
      <4>2. PICK after : after = After(o, s, frameBase)
        BY Zenon
      <4>3. CASE after = <<Unusable>>
        <5>1. Decode(m, o, frameBase) = Refused
          BY <2>1, <2>3, <4>2, <4>3 DEF Decode
        <5> QED
          BY <5>1, Zenon DEF Simulates
      <4>4. CASE after # <<Unusable>>
        <5>1. PICK skip : skip = IF o.op \in {"skip", "bra"} THEN o.n ELSE 0
          BY Zenon
        <5>2. skip \in Int
          BY <5>1 DEF Operation
        <5>3. ~Misread(o, s) /\ Skips(o, s) = skip
          BY <4>1, <4>2, <4>4, <5>1, BranchStands
        <5>4. Decode(m, o, frameBase) = Stack(after, skip, FALSE)
          <6>1. Decode(m, o, frameBase) = Stack(after, Skips(o, s), Misread(o, s))
            BY <2>1, <2>3, <4>2, <4>4, <5>3 DEF Decode, Stack
          <6>2. Misread(o, s) = FALSE
            BY <5>3 DEF Misread, IsZero
          <6> QED
            BY <5>3, <6>1, <6>2, Zenon
        <5>5. PICK rest : rest = Dropped(t, Needs(o)) \o Means(o, t, env)
          BY Zenon
        <5>6. Perform(r, o, env) = Done(rest, skip, TRUE)
          <6>1. r = Came(t, n)
            BY <1>3, Zenon DEF Came
          <6>2. Perform(r, o, env) = Performed(o, t, env)
            BY <2>3, <3>2, <6>1, PerformPlain
          <6> QED
            BY <5>1, <5>5, <6>2, Zenon DEF Performed, Came
        <5>7. StandFor(after, rest, env)
          BY <4>1, <4>2, <4>4, <5>5, OperationFollows, Zenon DEF Follows
        <5> QED
          BY <5>2, <5>4, <5>6, <5>7, Zenon DEF Simulates
      <4> QED
        BY <4>3, <4>4
    <3> QED
      BY <3>1, <3>2
  <2> QED
    BY <2>2, <2>3
<1> QED
  BY <1>1, <1>2, <1>3, Zenon DEF Simulates

LEMMA DecodingSimulates ==
  ASSUME NEW expr \in Seq(Operation), NEW env \in Env, NEW frameBase,
         FrameBaseStands(frameBase, env),
         NEW f, Decoding(f, expr, frameBase, Len(expr)),
         NEW g, Running(g, expr, env, Len(expr))
  PROVE  \A k \in 0 .. Len(expr) : Simulates(f[k], g[k], env)
<1> DEFINE P(k) == Simulates(f[k], g[k], env)
           S == {k \in Nat : k <= Len(expr) /\ ~P(k)}
<1>1. SUFFICES ASSUME S # {} PROVE FALSE
  <2> HIDE DEF P
  <2>1. S = {} => \A k \in 0 .. Len(expr) : P(k)
    OBVIOUS
  <2> QED
    BY <2>1 DEF P
<1>2. PICK k \in S : \A j \in S : k <= j
  <2> HIDE DEF P
  <2> QED
    BY <1>1, NatLeast
<1>3. k \in 0 .. Len(expr) /\ ~P(k)
  <2> HIDE DEF P
  <2> QED
    BY <1>2
<1>4. Len(expr) \in Nat
  OBVIOUS
<1>5. CASE k = 0
  <2>1. f[k] = Stack(<<>>, 0, FALSE)
    BY <1>3, <1>4, <1>5, DecodingAt DEF Stack
  <2>2. g[k] = Done(<<>>, 0, TRUE)
    BY <1>3, <1>4, <1>5, RunningAt DEF Done
  <2>3. StandFor(<<>>, <<>>, env) /\ 0 \in Int
    BY DEF StandFor
  <2> QED
    BY <1>3, <2>1, <2>2, <2>3, Zenon DEF Simulates
<1>6. CASE k # 0
  <2>1. P(k - 1)
    <3> HIDE DEF P
    <3>1. k - 1 \in Nat /\ k - 1 < k /\ k - 1 <= Len(expr)
      BY <1>3, <1>4, <1>6
    <3>2. k - 1 \notin S
      BY <1>2, <1>3, <3>1
    <3> QED
      BY <3>1, <3>2
  <2>2. expr[k] \in Operation
    BY <1>3, <1>6
  <2>0. k \in 0 .. Len(expr) /\ Len(expr) <= Len(expr)
    BY <1>3, <1>4
  <2>3. f[k] = Decode(f[k - 1], expr[k], frameBase)
    BY <1>4, <1>6, <2>0, DecodingAt, ZenonT(30)
  <2>4. g[k] = Perform(g[k - 1], expr[k], env)
    BY <1>4, <1>6, <2>0, RunningAt, ZenonT(30)
  <2>5. P(k)
    BY <2>1, <2>2, <2>3, <2>4, StepSimulates
  <2> QED
    BY <1>3, <2>5
<1> QED
  BY <1>5, <1>6

(***************************************************************************)
(* decodeLocation: where an expression has a meaning in a process, what    *)
(* the decoder makes of it without the process is that meaning, or it is   *)
(* refused, or the expression is one of those where the code departs from  *)
(* the standard (DecodeDeparts).  A location relative to a register is     *)
(* that far from what the register holds.                                  *)
(***************************************************************************)
DecodesTo(l, expr, env) == l = Unusable \/ Stands(l, Leaves(expr, env), env)

THEOREM DecodeSound ==
  ASSUME NEW expr \in Seq(Operation), NEW env \in Env, NEW frameBase,
         FrameBaseStands(frameBase, env), HasMeaning(expr, env)
  PROVE  DecodesTo(Evaluate(expr, frameBase)[1], expr, env) \/ Departs(expr, env)
<1> SUFFICES ASSUME ~Departs(expr, env)
             PROVE  DecodesTo(Evaluate(expr, frameBase)[1], expr, env)
  OBVIOUS
<1>1. PICK f : Decoding(f, expr, frameBase, Len(expr))
               /\ Evaluate(expr, frameBase) = f[Len(expr)].stack
  BY DecodingIs
<1>2. PICK g : Running(g, expr, env, Len(expr)) /\ Run(expr, env) = g[Len(expr)]
  BY RunningIs
<1>3. PICK m, r : m = f[Len(expr)] /\ r = g[Len(expr)]
  BY Zenon
<1>4. Simulates(m, r, env)
  BY <1>1, <1>2, <1>3, DecodingSimulates
<1>5. r.ok /\ r.exact /\ Len(r.stack) = 1
  BY <1>2, <1>3 DEF HasMeaning, Departs
<1>6. ~Left(r)
  BY <1>5 DEF Left, Done
<1>7. CASE m = Refused
  BY <1>1, <1>3, <1>7 DEF Refused, DecodesTo
<1>8. CASE m # Refused
  <2>1. PICK s, t : StandFor(s, t, env) /\ m.stack = s /\ r.stack = t
    BY <1>4, <1>6, <1>8 DEF Simulates, Stack, Done
  <2>2. 1 \in 1 .. Len(s)
    BY <1>5, <2>1 DEF StandFor
  <2>3. Stands(s[1], t[1], env)
    BY <2>1, <2>2 DEF StandFor
  <2>4. Leaves(expr, env) = t[1]
    BY <1>2, <1>3, <1>5, <2>1 DEF Leaves, Last
  <2> QED
    BY <1>1, <1>3, <2>1, <2>3, <2>4 DEF DecodesTo
<1> QED
  BY <1>7, <1>8

(***************************************************************************)
(* Where the code departs from the standard: the address of an expression  *)
(* of each kind, and what the decoder takes it for.                        *)
(***************************************************************************)
OpOf(op, reg, n) == [op |-> op, reg |-> reg, n |-> n]

(* The difference of two addresses; two values left; pick; and a branch    *)
(* that is not taken.                                                      *)
Departing(r, m, n) ==
  LET a == OpOf("breg", r, m)
      b == OpOf("breg", r, n)
  IN  {<<a, b, OpOf("minus", 0, 0)>>, <<a, b>>,
       <<a, OpOf("pick", 0, 0), OpOf("drop", 0, 0), OpOf("plus_uconst", 0, n)>>,
       <<a, OpOf("const", 0, 0), OpOf("bra", 0, 0), OpOf("plus_uconst", 0, n)>>}

(* A decoder that goes on, and one that has come to its end.               *)
Going(s)   == Stack(s, 0, FALSE)
Stopped(s) == Stack(s, 0, TRUE)

LEMMA DecodeSteps ==
  ASSUME NEW expr, Len(expr) \in Nat, NEW frameBase
  PROVE  \E f : /\ f[0] = Going(<<>>)
                /\ \A k \in 1 .. Len(expr) : f[k] = Decode(f[k - 1], expr[k], frameBase)
                /\ Evaluate(expr, frameBase) = f[Len(expr)].stack
<1>1. PICK f : Decoding(f, expr, frameBase, Len(expr))
               /\ Evaluate(expr, frameBase) = f[Len(expr)].stack
  BY DecodingIs
<1>2. f[0] = Going(<<>>)
  BY <1>1, DecodingAt DEF Going, Stack
<1>3. ASSUME NEW k \in 1 .. Len(expr) PROVE f[k] = Decode(f[k - 1], expr[k], frameBase)
  <2>1. k \in 0 .. Len(expr) /\ k # 0
    OBVIOUS
  <2> QED
    BY <1>1, <2>1, DecodingAt, ZenonT(30)
<1> QED
  BY <1>1, <1>2, <1>3, Zenon

(* What a process holds, whether by plain operations or not.               *)
Holds(r, t) == \E b : r = Done(t, 0, b)

LEMMA RunSteps ==
  ASSUME NEW expr, Len(expr) \in Nat, NEW env
  PROVE  \E g : /\ Holds(g[0], <<>>)
                /\ \A k \in 1 .. Len(expr) : g[k] = Perform(g[k - 1], expr[k], env)
                /\ Run(expr, env) = g[Len(expr)]
<1>1. PICK g : Running(g, expr, env, Len(expr)) /\ Run(expr, env) = g[Len(expr)]
  BY RunningIs
<1>2. g[0] = Done(<<>>, 0, TRUE)
  BY <1>1, RunningAt DEF Done
<1>3. ASSUME NEW k \in 1 .. Len(expr) PROVE g[k] = Perform(g[k - 1], expr[k], env)
  <2>1. k \in 0 .. Len(expr) /\ k # 0
    OBVIOUS
  <2> QED
    BY <1>1, <2>1, RunningAt, ZenonT(30)
<1> QED
  BY <1>1, <1>2, <1>3, Zenon DEF Holds

LEMMA DecodeStep ==
  ASSUME NEW s, NEW o, NEW frameBase, NEW after, after = After(o, s, frameBase),
         after # <<Unusable>>, Skips(o, s) = 0
  PROVE  /\ ~Misread(o, s) => Decode(Going(s), o, frameBase) = Going(after)
         /\ Misread(o, s) /\ o.n = 0 => Decode(Going(s), o, frameBase) = Stopped(after)
<1>1. PICK m : m = Going(s)
  BY Zenon
<1>2. ~m.stop /\ m.skip = 0 /\ m.stack = s
  BY <1>1 DEF Going, Stack
<1>3. PICK stop : stop = Misread(o, s)
  BY Zenon
<1>4. ~Misread(o, s) \/ o.n = 0 => Decode(m, o, frameBase) = Stack(after, 0, stop)
  BY <1>2, <1>3 DEF Decode, Stack
<1>5. stop \in BOOLEAN
  BY <1>3 DEF Misread, IsZero
<1>6. (Misread(o, s) => stop = TRUE) /\ (~Misread(o, s) => stop = FALSE)
  BY <1>3, <1>5
<1> QED
  BY <1>1, <1>4, <1>6, Zenon DEF Going, Stopped

LEMMA DecodeStopped ==
  ASSUME NEW s, NEW o, NEW frameBase
  PROVE  Decode(Stopped(s), o, frameBase) = Stopped(s)
<1>1. PICK m : m = Stopped(s)
  BY Zenon
<1>2. m.stop = TRUE
  BY <1>1 DEF Stopped, Stack
<1>3. Decode(m, o, frameBase) = m
  BY <1>2 DEF Decode
<1> QED
  BY <1>1, <1>3, Zenon

LEMMA HoldsNext ==
  ASSUME NEW r, NEW t, Holds(r, t), NEW o, NEW env, Defined(o, t),
         o.op # "skip", o.op = "bra" => Below(t, 0).v = 0
  PROVE  Holds(Perform(r, o, env), Dropped(t, Needs(o)) \o Means(o, t, env))
<1>1. PICK b : r = Done(t, 0, b)
  BY DEF Holds
<1>2. r.ok /\ r.skip = 0 /\ r.stack = t
  BY <1>1 DEF Done
<1>3. PICK c, rest : c = (r.exact /\ ~Departure(o, t))
                     /\ rest = Dropped(t, Needs(o)) \o Means(o, t, env)
  BY Zenon
<1>4. Perform(r, o, env) = Done(rest, 0, c)
  <2>1. ~(o.op = "skip" \/ (o.op = "bra" /\ Below(t, 0).v # 0))
    BY Zenon
  <2>2. ~(0 > 0) /\ r.ok = TRUE
    BY <1>1 DEF Done
  <2> QED
    BY <1>2, <1>3, <2>1, <2>2 DEF Perform, Done
<1> QED
  BY <1>3, <1>4, Zenon DEF Holds

(* An address is none of another offset.                                   *)
LEMMA StandsNot ==
  ASSUME NEW env \in Env, NEW r \in 0 .. 63, NEW m \in Int, NEW x \in Int, m # x
  PROVE  ~Stands(mkRegRel(r, m), Adr(env.reg[r] + x), env)
<1>1. PICK h : h = env.reg[r]
  BY Zenon
<1>2. h \in Int /\ Held(r, env) = h
  <2>1. r # DW_REG_CFA
    BY DEF DW_REG_CFA
  <2> QED
    BY <1>1, <2>1 DEF Env, Held
<1>3. \A k \in Int : mkRegRel(r, m) # mkAbs(k)
  BY DEF mkRegRel, mkAbs
<1>4. \A p \in Regs, k \in Int : mkRegRel(r, m) = mkRegRel(p, k) => p = r /\ k = m
  BY DEF mkRegRel
<1>5. Adr(h + x) # Adr(h + m)
  <2>1. h + x # h + m
    BY <1>2
  <2> QED
    BY <2>1 DEF Adr
<1> QED
  BY <1>1, <1>2, <1>3, <1>4, <1>5, Zenon DEF Stands

(* What a register's address and a constant are, on both sides.            *)
LEMMA RelativeIs ==
  ASSUME NEW r \in 0 .. 63, NEW m \in Int
  PROVE  mkRegRel(r, m) \in Location /\ mkRegRel(r, m) # Unusable
<1>1. r \in Nat
  OBVIOUS
<1> QED
  BY <1>1 DEF mkRegRel, Location, Unusable

LEMMA AddressIs ==
  ASSUME NEW r \in 0 .. 63, NEW m \in Int, NEW env \in Env
  PROVE  env.reg[r] \in Int /\ Adr(env.reg[r] + m) \in Value
<1>1. env.reg[r] \in Int
  BY DEF Env
<1>2. Adr(env.reg[r] + m) \in Value
  BY <1>1 DEF Adr, Value
<1> QED
  BY <1>1, <1>2, Zenon

LEMMA AppendOne ==
  ASSUME NEW x, NEW y
  PROVE  Append(<<x>>, y) = <<x, y>>
<1>1. Append(<<x>>, y) = [i \in 1 .. 2 |-> IF i = 2 THEN y ELSE x]
  OBVIOUS
<1>2. <<x, y>> = [i \in 1 .. 2 |-> IF i = 2 THEN y ELSE x]
  OBVIOUS
<1> QED
  BY <1>1, <1>2

LEMMA Appended ==
  ASSUME NEW S, NEW s \in Seq(S), NEW x \in S
  PROVE  /\ \A y : x # y => Append(s, x) # <<y>>
         /\ Dropped(s, 0) = s /\ s \o <<x>> = Append(s, x) /\ Len(s) \in Nat
<1>1. Dropped(s, 0) = s /\ s \o <<x>> = Append(s, x) /\ Len(s) \in Nat
  BY DEF Dropped
<1>2. Append(s, x)[Len(s) + 1] = x /\ Len(Append(s, x)) = Len(s) + 1
  OBVIOUS
<1>3. ASSUME NEW y, Append(s, x) = <<y>> PROVE x = y
  <2>1. Len(<<y>>) = 1 /\ <<y>>[1] = y
    OBVIOUS
  <2>2. Len(s) = 0
    BY <1>1, <1>2, <1>3, <2>1
  <2> QED
    BY <1>2, <1>3, <2>1, <2>2
<1> QED
  BY <1>1, <1>3, Zenon

LEMMA BregDecoded ==
  ASSUME NEW s \in Seq(Location), NEW frameBase,
         NEW r \in 0 .. 63, NEW n \in Int
  PROVE  Decode(Going(s), OpOf("breg", r, n), frameBase) = Going(Append(s, mkRegRel(r, n)))
<1>1. PICK x, o : x = mkRegRel(r, n) /\ o = OpOf("breg", r, n)
  BY Zenon
<1>2. x \in Location /\ x # Unusable
  BY <1>1, RelativeIs, Zenon
<1>3. o.op = "breg" /\ Pushed(o, s, frameBase) = x
  BY <1>1 DEF OpOf, Pushed
<1>4. After(o, s, frameBase) = Replaced(s, 0, Pushed(o, s, frameBase))
  BY <1>3 DEF After, BinaryOps
<1>5. Dropped(s, 0) = s
  BY <1>2, Appended
<1>6. After(o, s, frameBase) = Append(s, x)
  BY <1>2, <1>3, <1>4, <1>5 DEF Replaced
<1>7. Append(s, x) # <<Unusable>>
  BY <1>2, Appended, Zenon
<1>8. ~Misread(o, s) /\ Skips(o, s) = 0
  BY <1>3 DEF Misread, Skips
<1> QED
  BY <1>1, <1>6, <1>7, <1>8, DecodeStep, Zenon

LEMMA BregHeld ==
  ASSUME NEW g, NEW t \in Seq(Value), Holds(g, t), NEW env \in Env,
         NEW r \in 0 .. 63, NEW n \in Int, NEW o, o = OpOf("breg", r, n)
  PROVE  Holds(Perform(g, o, env), Append(t, Adr(env.reg[r] + n)))
<1>1. o.op = "breg" /\ o.reg = r /\ o.n = n
  BY DEF OpOf
<1>2. Needs(o) = 0 /\ Means(o, t, env) = <<Adr(env.reg[r] + n)>>
  BY <1>1 DEF Needs, Means, BinaryOps
<1>3. Defined(o, t)
  <2>1. Len(t) \in Nat
    OBVIOUS
  <2> QED
    BY <1>1, <1>2, <2>1 DEF Defined
<1>4. PICK v : v = Adr(env.reg[r] + n)
  BY Zenon
<1>5. Dropped(t, 0) \o <<v>> = Append(t, v)
  <2>1. v \in Value
    BY <1>4, AddressIs
  <2>2. Dropped(t, 0) = t /\ t \o <<v>> = Append(t, v)
    BY <2>1, Appended, Zenon
  <2> QED
    BY <2>2, Zenon
<1>6. Holds(Perform(g, o, env), Dropped(t, Needs(o)) \o Means(o, t, env))
  BY <1>1, <1>3, HoldsNext
<1> QED
  BY <1>2, <1>4, <1>5, <1>6, Zenon

LEMMA DepartureIs ==
  ASSUME NEW expr, NEW env, NEW frameBase,
         NEW l, Evaluate(expr, frameBase)[1] = l, l # Unusable,
         NEW t, Holds(Run(expr, env), t), t # <<>>, ~Stands(l, Last(t), env)
  PROVE  HasMeaning(expr, env) /\ ~DecodesTo(Evaluate(expr, frameBase)[1], expr, env)
<1>1. Run(expr, env).ok /\ Run(expr, env).stack = t
  BY DEF Holds, Done
<1>2. Leaves(expr, env) = Last(t)
  BY <1>1, Zenon DEF Leaves
<1>3. HasMeaning(expr, env)
  BY <1>1 DEF HasMeaning
<1> QED
  BY <1>2, <1>3, Zenon DEF DecodesTo

(* The steps of both, of an expression that begins with an address.        *)
Alongside(f, g, expr, frameBase, env) ==
  /\ \A k \in 1 .. Len(expr) : /\ f[k] = Decode(f[k - 1], expr[k], frameBase)
                               /\ g[k] = Perform(g[k - 1], expr[k], env)
  /\ Evaluate(expr, frameBase) = f[Len(expr)].stack /\ Run(expr, env) = g[Len(expr)]

LEMMA Starts ==
  ASSUME NEW r \in 0 .. 63, NEW m \in Int, NEW env \in Env, NEW frameBase,
         NEW expr, Len(expr) \in Nat \ {0}, expr[1] = OpOf("breg", r, m)
  PROVE  \E f, g : /\ Alongside(f, g, expr, frameBase, env)
                   /\ f[1] = Going(<<mkRegRel(r, m)>>)
                   /\ Holds(g[1], <<Adr(env.reg[r] + m)>>)
<1>1. PICK f : /\ f[0] = Going(<<>>)
               /\ \A k \in 1 .. Len(expr) : f[k] = Decode(f[k - 1], expr[k], frameBase)
               /\ Evaluate(expr, frameBase) = f[Len(expr)].stack
  BY DecodeSteps
<1>2. PICK g : /\ Holds(g[0], <<>>)
               /\ \A k \in 1 .. Len(expr) : g[k] = Perform(g[k - 1], expr[k], env)
               /\ Run(expr, env) = g[Len(expr)]
  BY RunSteps
<1>3. Alongside(f, g, expr, frameBase, env)
  BY <1>1, <1>2, Zenon DEF Alongside
<1>4. 1 \in 1 .. Len(expr) /\ 1 - 1 = 0
  OBVIOUS
<1>5. PICK o, x, v : o = expr[1] /\ x = mkRegRel(r, m) /\ v = Adr(env.reg[r] + m)
  BY Zenon
<1>6. f[1] = Decode(Going(<<>>), o, frameBase) /\ g[1] = Perform(g[0], o, env)
  BY <1>1, <1>2, <1>4, <1>5
<1>7. <<>> \in Seq(Location) /\ <<>> \in Seq(Value)
  OBVIOUS
<1>8. Append(<<>>, x) = <<x>> /\ Append(<<>>, v) = <<v>>
  OBVIOUS
<1>9. Decode(Going(<<>>), o, frameBase) = Going(Append(<<>>, x))
  <2>1. o = OpOf("breg", r, m)
    BY <1>5
  <2>2. Decode(Going(<<>>), OpOf("breg", r, m), frameBase)
          = Going(Append(<<>>, mkRegRel(r, m)))
    BY <1>7, BregDecoded, Zenon
  <2> QED
    BY <1>5, <2>1, <2>2, Zenon
<1>10. Holds(Perform(g[0], o, env), Append(<<>>, v))
  BY <1>2, <1>5, <1>7, BregHeld
<1>11. f[1] = Going(<<x>>) /\ Holds(g[1], <<v>>)
  BY <1>6, <1>8, <1>9, <1>10, Zenon
<1> QED
  BY <1>3, <1>5, <1>11, Zenon

(* With a second address on the stack.                                     *)
LEMMA GoesOn ==
  ASSUME NEW r \in 0 .. 63, NEW m \in Int, NEW n \in Int, NEW env \in Env, NEW frameBase,
         NEW expr, Len(expr) \in Nat, Len(expr) >= 2,
         expr[1] = OpOf("breg", r, m), expr[2] = OpOf("breg", r, n)
  PROVE  \E f, g : /\ Alongside(f, g, expr, frameBase, env)
                   /\ f[2] = Going(<<mkRegRel(r, m), mkRegRel(r, n)>>)
                   /\ Holds(g[2], <<Adr(env.reg[r] + m), Adr(env.reg[r] + n)>>)
<1>1. PICK f, g : /\ Alongside(f, g, expr, frameBase, env)
                  /\ f[1] = Going(<<mkRegRel(r, m)>>)
                  /\ Holds(g[1], <<Adr(env.reg[r] + m)>>)
  <2>1. Len(expr) \in Nat \ {0}
    OBVIOUS
  <2> QED
    BY <2>1, Starts, Zenon
<1>2. 2 \in 1 .. Len(expr) /\ 2 - 1 = 1
  OBVIOUS
<1>3. PICK o, x, y, u, v : /\ o = expr[2] /\ x = mkRegRel(r, m) /\ y = mkRegRel(r, n)
                           /\ u = Adr(env.reg[r] + m) /\ v = Adr(env.reg[r] + n)
  BY Zenon
<1>4. f[2] = Decode(f[1], o, frameBase) /\ g[2] = Perform(g[1], o, env)
  BY <1>1, <1>2, <1>3 DEF Alongside
<1>5. x \in Location /\ y \in Location /\ u \in Value /\ v \in Value
  BY <1>3, AddressIs, RelativeIs, Zenon
<1>6. <<x>> \in Seq(Location) /\ <<u>> \in Seq(Value)
  BY <1>5
<1>7. Append(<<x>>, y) = <<x, y>> /\ Append(<<u>>, v) = <<u, v>>
  BY AppendOne, Zenon
<1>8. Decode(Going(<<x>>), o, frameBase) = Going(Append(<<x>>, y))
  <2>1. o = OpOf("breg", r, n)
    BY <1>3
  <2>2. Decode(Going(<<x>>), OpOf("breg", r, n), frameBase)
          = Going(Append(<<x>>, mkRegRel(r, n)))
    BY <1>6, BregDecoded, Zenon
  <2> QED
    BY <1>3, <2>1, <2>2, Zenon
<1>9. Holds(Perform(g[1], o, env), Append(<<u>>, v))
  <2>1. Holds(g[1], <<u>>)
    BY <1>1, <1>3, Zenon
  <2> QED
    BY <1>3, <1>6, <2>1, BregHeld
<1>10. f[2] = Going(<<x, y>>) /\ Holds(g[2], <<u, v>>)
  BY <1>1, <1>3, <1>4, <1>7, <1>8, <1>9, Zenon
<1> QED
  BY <1>1, <1>3, <1>10, Zenon

(* Of two values the first is taken, and not the last.                     *)
LEMMA PairDeparts ==
  ASSUME NEW r \in 0 .. 63, NEW m \in Int, NEW n \in Int, m # n, NEW env \in Env,
         NEW frameBase, NEW expr, expr = <<OpOf("breg", r, m), OpOf("breg", r, n)>>
  PROVE  HasMeaning(expr, env) /\ ~DecodesTo(Evaluate(expr, frameBase)[1], expr, env)
<1>1. Len(expr) = 2 /\ expr[1] = OpOf("breg", r, m) /\ expr[2] = OpOf("breg", r, n)
  OBVIOUS
<1>2. Len(expr) \in Nat /\ Len(expr) >= 2
  BY <1>1
<1>3. PICK x, y, u, v : /\ x = mkRegRel(r, m) /\ y = mkRegRel(r, n)
                        /\ u = Adr(env.reg[r] + m) /\ v = Adr(env.reg[r] + n)
  BY Zenon
<1>4. PICK f, g : /\ Alongside(f, g, expr, frameBase, env)
                  /\ f[2] = Going(<<x, y>>) /\ Holds(g[2], <<u, v>>)
  BY <1>1, <1>2, <1>3, GoesOn, Zenon
<1>5. Evaluate(expr, frameBase) = f[2].stack /\ Run(expr, env) = g[2]
  BY <1>1, <1>4, Zenon DEF Alongside
<1>6. Evaluate(expr, frameBase)[1] = x
  BY <1>4, <1>5 DEF Going, Stack
<1>7. <<u, v>> # <<>> /\ Last(<<u, v>>) = v
  BY DEF Last
<1>8. x # Unusable /\ ~Stands(x, v, env)
  BY <1>3, RelativeIs, StandsNot, Zenon
<1> QED
  BY <1>4, <1>5, <1>6, <1>7, <1>8, DepartureIs, Zenon

(* Stacks of one and two.                                                  *)
LEMMA OneIs ==
  ASSUME NEW x
  PROVE  /\ Below(<<x>>, 0) = x /\ Dropped(<<x>>, 0) = <<x>> /\ Dropped(<<x>>, 1) = <<>>
         /\ <<>> \o <<x>> = <<x>> /\ <<x>> \o <<>> = <<x>> /\ Append(<<>>, x) = <<x>>
         /\ Len(<<x>>) = 1 /\ <<x>>[1] = x /\ <<x>> # <<>> /\ Last(<<x>>) = x
<1>1. Len(<<x>>) = 1 /\ <<x>>[1] = x /\ <<x>> # <<>>
  OBVIOUS
<1>2. Below(<<x>>, 0) = x /\ Last(<<x>>) = x
  BY <1>1 DEF Below, Last
<1>3. Dropped(<<x>>, 0) = <<x>> /\ Dropped(<<x>>, 1) = <<>>
  <2>1. SubSeq(<<x>>, 1, 1) = [i \in 1 .. 1 |-> x] /\ <<x>> = [i \in 1 .. 1 |-> x]
    OBVIOUS
  <2>2. SubSeq(<<x>>, 1, 0) = <<>>
    OBVIOUS
  <2>3. Len(<<x>>) - 0 = 1 /\ Len(<<x>>) - 1 = 0
    OBVIOUS
  <2> QED
    BY <2>1, <2>2, <2>3 DEF Dropped
<1>4. <<>> \o <<x>> = <<x>> /\ <<x>> \o <<>> = <<x>> /\ Append(<<>>, x) = <<x>>
  OBVIOUS
<1> QED
  BY <1>1, <1>2, <1>3, <1>4, Zenon

LEMMA TwoIs ==
  ASSUME NEW x, NEW y
  PROVE  /\ Below(<<x, y>>, 0) = y /\ Below(<<x, y>>, 1) = x
         /\ Dropped(<<x, y>>, 1) = <<x>> /\ Dropped(<<x, y>>, 2) = <<>>
         /\ <<x>> \o <<y>> = <<x, y>> /\ Len(<<x, y>>) = 2 /\ <<x, y>>[1] = x
<1>1. Len(<<x, y>>) = 2 /\ <<x, y>>[1] = x /\ <<x, y>>[2] = y
  OBVIOUS
<1>2. Below(<<x, y>>, 0) = y /\ Below(<<x, y>>, 1) = x
  BY <1>1 DEF Below
<1>3. Dropped(<<x, y>>, 1) = <<x>> /\ Dropped(<<x, y>>, 2) = <<>>
  <2>1. SubSeq(<<x, y>>, 1, 1) = [i \in 1 .. 1 |-> x] /\ <<x>> = [i \in 1 .. 1 |-> x]
    OBVIOUS
  <2>2. SubSeq(<<x, y>>, 1, 0) = <<>>
    OBVIOUS
  <2>3. Len(<<x, y>>) - 1 = 1 /\ Len(<<x, y>>) - 2 = 0
    OBVIOUS
  <2> QED
    BY <2>1, <2>2, <2>3 DEF Dropped
<1>4. <<x>> \o <<y>> = <<x, y>>
  <2>1. <<x>> \o <<y>> = Append(<<x>>, y)
    OBVIOUS
  <2> QED
    BY <2>1, AppendOne, Zenon
<1> QED
  BY <1>1, <1>2, <1>3, <1>4, Zenon

(* The offset that is added at the end, where the decoder has stopped.     *)
LEMMA AddedHeld ==
  ASSUME NEW g, NEW k, Holds(g, <<Adr(k)>>), NEW n, NEW env
  PROVE  Holds(Perform(g, OpOf("plus_uconst", 0, n), env), <<Adr(k + n)>>)
<1>1. PICK o, u : o = OpOf("plus_uconst", 0, n) /\ u = Adr(k)
  BY Zenon
<1>2. o.op = "plus_uconst" /\ o.n = n
  BY <1>1 DEF OpOf
<1>3. Needs(o) = 1
  BY <1>2 DEF Needs, BinaryOps
<1>4. Means(o, <<u>>, env) = <<[u EXCEPT !.v = @ + n]>>
  <2>1. Means(o, <<u>>, env) = <<[Below(<<u>>, 0) EXCEPT !.v = @ + o.n]>>
    BY <1>2 DEF Means, BinaryOps
  <2> QED
    BY <1>2, <2>1, OneIs
<1>5. [u EXCEPT !.v = @ + n] = Adr(k + n)
  BY <1>1, Added, Zenon
<1>6. Defined(o, <<u>>)
  BY <1>2, <1>3, OneIs DEF Defined
<1>7. Holds(Perform(g, o, env), Dropped(<<u>>, Needs(o)) \o Means(o, <<u>>, env))
  <2>1. Holds(g, <<u>>) /\ o.op # "skip" /\ o.op # "bra"
    BY <1>1, <1>2
  <2> QED
    BY <1>6, <2>1, HoldsNext
<1>8. Dropped(<<u>>, Needs(o)) \o Means(o, <<u>>, env) = <<Adr(k + n)>>
  BY <1>3, <1>4, <1>5, OneIs, Zenon
<1> QED
  BY <1>1, <1>7, <1>8, Zenon

(* The difference of two addresses is taken for 0.                         *)
LEMMA MinusDeparts ==
  ASSUME NEW r \in 0 .. 63, NEW m \in Int, NEW n \in Int, m # n, NEW env \in Env,
         NEW frameBase, NEW expr,
         expr = <<OpOf("breg", r, m), OpOf("breg", r, n), OpOf("minus", 0, 0)>>
  PROVE  HasMeaning(expr, env) /\ ~DecodesTo(Evaluate(expr, frameBase)[1], expr, env)
<1>1. Len(expr) = 3 /\ expr[1] = OpOf("breg", r, m) /\ expr[2] = OpOf("breg", r, n)
      /\ expr[3] = OpOf("minus", 0, 0)
  OBVIOUS
<1>2. Len(expr) \in Nat /\ Len(expr) >= 2 /\ 3 \in 1 .. Len(expr) /\ 3 - 1 = 2
  BY <1>1
<1>3. PICK x, y, z, u, v, o :
        /\ x = mkRegRel(r, m) /\ y = mkRegRel(r, n) /\ z = mkAbs(0)
        /\ u = Adr(env.reg[r] + m) /\ v = Adr(env.reg[r] + n) /\ o = OpOf("minus", 0, 0)
  BY Zenon
<1>4. PICK f, g : /\ Alongside(f, g, expr, frameBase, env)
                  /\ f[2] = Going(<<x, y>>) /\ Holds(g[2], <<u, v>>)
  BY <1>1, <1>2, <1>3, GoesOn, Zenon
<1>5. /\ f[3] = Decode(Going(<<x, y>>), o, frameBase) /\ g[3] = Perform(g[2], o, env)
      /\ Evaluate(expr, frameBase) = f[3].stack /\ Run(expr, env) = g[3]
  BY <1>1, <1>2, <1>3, <1>4 DEF Alongside
<1>6. o.op = "minus" /\ Needs(o) = 2
  BY <1>3 DEF OpOf, Needs, BinaryOps
<1>7. z # Unusable
  BY <1>3 DEF mkAbs, Unusable
<1>8. Binary("minus", x, y) = z
  BY <1>3 DEF Binary, Mixed, mkAbs, mkRegRel, IsAbs, IsRegRel
<1>9. After(o, <<x, y>>, frameBase) = <<z>>
  <2>1. After(o, <<x, y>>, frameBase) = Replaced(<<x, y>>, 2, z)
    <3>1. After(o, <<x, y>>, frameBase) = Replaced(<<x, y>>, 2, Binary("minus", x, y))
      BY <1>6, TwoIs DEF After, BinaryOps
    <3> QED
      BY <1>8, <3>1, Zenon
  <2>2. Replaced(<<x, y>>, 2, z) = Append(Dropped(<<x, y>>, 2), z)
    BY <1>7 DEF Replaced
  <2>3. Dropped(<<x, y>>, 2) = <<>>
    BY TwoIs, Zenon
  <2>4. Append(<<>>, z) = <<z>>
    BY OneIs, Zenon
  <2> QED
    BY <2>1, <2>2, <2>3, <2>4, Zenon
<1>10. ~Misread(o, <<x, y>>) /\ Skips(o, <<x, y>>) = 0
  BY <1>6 DEF Misread, Skips
<1>11. f[3] = Going(<<z>>)
  <2>1. <<z>> # <<Unusable>>
    BY <1>7
  <2> QED
    BY <1>5, <1>9, <1>10, <2>1, DecodeStep, Zenon
<1>12. Evaluate(expr, frameBase)[1] = z
  BY <1>5, <1>11 DEF Going, Stack
<1>13. PICK w : Means(o, <<u, v>>, env) = <<w>> /\ w.v = u.v - v.v
  <2>1. PICK b : b = (o.op \in {"plus", "minus"} /\ u.addr # v.addr)
    BY Zenon
  <2>2. Means(o, <<u, v>>, env) = <<[v |-> Arithmetic("minus", u.v, v.v), addr |-> b]>>
    <3>1. Means(o, <<u, v>>, env)
            = <<[v    |-> Arithmetic(o.op, Below(<<u, v>>, 1).v, Below(<<u, v>>, 0).v),
                 addr |-> o.op \in {"plus", "minus"}
                            /\ Below(<<u, v>>, 1).addr # Below(<<u, v>>, 0).addr]>>
      BY <1>6 DEF Means, BinaryOps
    <3>2. Below(<<u, v>>, 1) = u /\ Below(<<u, v>>, 0) = v
      BY TwoIs, Zenon
    <3> QED
      BY <1>6, <2>1, <3>1, <3>2, Zenon
  <2>3. Arithmetic("minus", u.v, v.v) = u.v - v.v
    BY DEF Arithmetic
  <2> QED
    BY <2>2, <2>3
<1>14. w.v # 0
  <2>1. u.v = env.reg[r] + m /\ v.v = env.reg[r] + n
    BY <1>3 DEF Adr
  <2>2. env.reg[r] \in Int
    BY AddressIs
  <2> QED
    BY <1>13, <2>1, <2>2
<1>15. ~Stands(z, w, env)
  <2>1. \A k \in Int : mkAbs(0) = mkAbs(k) => k = 0
    BY DEF mkAbs
  <2>2. \A p, k : mkAbs(0) # mkRegRel(p, k)
    BY DEF mkAbs, mkRegRel
  <2>3. w # Num(0)
    BY <1>14 DEF Num
  <2> QED
    BY <1>3, <2>1, <2>2, <2>3, Zenon DEF Stands
<1>16. Holds(g[3], <<w>>)
  <2>1. Defined(o, <<u, v>>)
    BY <1>6, TwoIs DEF Defined
  <2>2. Holds(Perform(g[2], o, env), Dropped(<<u, v>>, Needs(o)) \o Means(o, <<u, v>>, env))
    BY <1>4, <1>6, <2>1, HoldsNext
  <2>3. Dropped(<<u, v>>, Needs(o)) \o Means(o, <<u, v>>, env) = <<w>>
    <3>1. Dropped(<<u, v>>, 2) = <<>>
      BY TwoIs, Zenon
    <3>2. <<>> \o <<w>> = <<w>>
      BY OneIs, Zenon
    <3> QED
      BY <1>6, <1>13, <3>1, <3>2, Zenon
  <2> QED
    BY <1>5, <2>2, <2>3, Zenon
<1>17. <<w>> # <<>> /\ Last(<<w>>) = w
  BY OneIs
<1> QED
  BY <1>5, <1>7, <1>12, <1>15, <1>16, <1>17, DepartureIs, Zenon

(* Where the decoder stops with an address, to which the process adds.     *)
LEMMA StopDeparts ==
  ASSUME NEW r \in 0 .. 63, NEW m \in Int, NEW n \in Nat \ {0}, NEW env \in Env,
         NEW frameBase, NEW expr, Evaluate(expr, frameBase)[1] = mkRegRel(r, m),
         Holds(Run(expr, env), <<Adr(env.reg[r] + m + n)>>)
  PROVE  HasMeaning(expr, env) /\ ~DecodesTo(Evaluate(expr, frameBase)[1], expr, env)
<1>1. PICK w : w = Adr(env.reg[r] + m + n)
  BY Zenon
<1>2. w = Adr(env.reg[r] + (m + n)) /\ m + n \in Int /\ m # m + n
  <2>1. env.reg[r] \in Int
    BY AddressIs
  <2>2. env.reg[r] + m + n = env.reg[r] + (m + n) /\ m + n \in Int /\ m # m + n
    BY <2>1
  <2> QED
    BY <1>1, <2>2
<1>3. ~Stands(mkRegRel(r, m), w, env) /\ mkRegRel(r, m) # Unusable
  BY <1>2, StandsNot, RelativeIs, Zenon
<1>4. <<w>> # <<>> /\ Last(<<w>>) = w
  BY OneIs, Zenon
<1> QED
  BY <1>1, <1>3, <1>4, DepartureIs, Zenon

(* The operand of pick is read as the end of the expression.               *)
LEMMA PickDeparts ==
  ASSUME NEW r \in 0 .. 63, NEW m \in Int, NEW n \in Nat \ {0}, NEW env \in Env,
         NEW frameBase, NEW expr,
         expr = <<OpOf("breg", r, m), OpOf("pick", 0, 0), OpOf("drop", 0, 0),
                  OpOf("plus_uconst", 0, n)>>
  PROVE  HasMeaning(expr, env) /\ ~DecodesTo(Evaluate(expr, frameBase)[1], expr, env)
<1>1. PICK x, u, p, q, o : /\ x = mkRegRel(r, m) /\ u = Adr(env.reg[r] + m)
                           /\ p = OpOf("pick", 0, 0) /\ q = OpOf("drop", 0, 0)
                           /\ o = OpOf("plus_uconst", 0, n)
  BY Zenon
<1>2. Len(expr) = 4 /\ expr[1] = OpOf("breg", r, m) /\ expr[2] = p /\ expr[3] = q /\ expr[4] = o
  BY <1>1
<1>3. Len(expr) \in Nat \ {0} /\ \A k \in {2, 3, 4} : k \in 1 .. Len(expr)
  BY <1>2
<1>4. PICK f, g : /\ Alongside(f, g, expr, frameBase, env)
                  /\ f[1] = Going(<<x>>) /\ Holds(g[1], <<u>>)
  BY <1>1, <1>2, <1>3, Starts, Zenon
<1>5. /\ f[2] = Decode(f[1], p, frameBase) /\ g[2] = Perform(g[1], p, env)
      /\ f[3] = Decode(f[2], q, frameBase) /\ g[3] = Perform(g[2], q, env)
      /\ f[4] = Decode(f[3], o, frameBase) /\ g[4] = Perform(g[3], o, env)
      /\ Evaluate(expr, frameBase) = f[4].stack /\ Run(expr, env) = g[4]
  <2>1. 2 - 1 = 1 /\ 3 - 1 = 2 /\ 4 - 1 = 3
    OBVIOUS
  <2> QED
    BY <1>2, <1>3, <1>4, <2>1 DEF Alongside
<1>6. p.op = "pick" /\ p.n = 0 /\ q.op = "drop" /\ Needs(p) = 0 /\ Needs(q) = 1
  BY <1>1 DEF OpOf, Needs, BinaryOps
<1>7. f[2] = Stopped(<<x, x>>)
  <2>1. x # Unusable
    BY <1>1, RelativeIs, Zenon
  <2>2. After(p, <<x>>, frameBase) = Replaced(<<x>>, 0, x)
    <3>1. Pushed(p, <<x>>, frameBase) = x
      BY <1>6, OneIs DEF Pushed
    <3> QED
      BY <1>6, <3>1 DEF After, BinaryOps
  <2>3. Replaced(<<x>>, 0, x) = <<x, x>>
    <3>1. Dropped(<<x>>, 0) = <<x>>
      BY OneIs, Zenon
    <3>2. Append(<<x>>, x) = <<x, x>>
      BY AppendOne, Zenon
    <3> QED
      BY <2>1, <3>1, <3>2, Zenon DEF Replaced
  <2>4. <<x, x>> # <<Unusable>> /\ Misread(p, <<x>>) /\ Skips(p, <<x>>) = 0
    <3>1. Len(<<x, x>>) = 2 /\ Len(<<Unusable>>) = 1
      OBVIOUS
    <3> QED
      BY <1>6, <3>1 DEF Misread, Skips
  <2> QED
    BY <1>4, <1>5, <1>6, <2>2, <2>3, <2>4, DecodeStep, Zenon
<1>8. Evaluate(expr, frameBase)[1] = x
  <2>1. f[4] = Stopped(<<x, x>>)
    BY <1>5, <1>7, DecodeStopped, Zenon
  <2>2. Stopped(<<x, x>>).stack = <<x, x>> /\ <<x, x>>[1] = x
    BY TwoIs DEF Stopped, Stack
  <2> QED
    BY <1>5, <2>1, <2>2, Zenon
<1>9. Holds(g[2], <<u, u>>)
  <2>1. Means(p, <<u>>, env) = <<u>>
    BY <1>6, OneIs DEF Means, BinaryOps
  <2>2. Defined(p, <<u>>)
    BY <1>6, OneIs DEF Defined
  <2>3. Dropped(<<u>>, 0) = <<u>>
    BY OneIs, Zenon
  <2>4. <<u>> \o <<u>> = <<u, u>>
    BY TwoIs, Zenon
  <2>5. Holds(Perform(g[1], p, env), Dropped(<<u>>, Needs(p)) \o Means(p, <<u>>, env))
    BY <1>4, <1>6, <2>2, HoldsNext
  <2> QED
    BY <1>5, <1>6, <2>1, <2>3, <2>4, <2>5, Zenon
<1>10. Holds(g[3], <<u>>)
  <2>1. Means(q, <<u, u>>, env) = <<>>
    BY <1>6 DEF Means, BinaryOps
  <2>2. Defined(q, <<u, u>>)
    BY <1>6, TwoIs DEF Defined
  <2>3. Dropped(<<u, u>>, 1) = <<u>>
    BY TwoIs, Zenon
  <2>4. <<u>> \o <<>> = <<u>>
    BY OneIs, Zenon
  <2>5. Holds(Perform(g[2], q, env), Dropped(<<u, u>>, Needs(q)) \o Means(q, <<u, u>>, env))
    BY <1>6, <1>9, <2>2, HoldsNext
  <2> QED
    BY <1>5, <1>6, <2>1, <2>3, <2>4, <2>5, Zenon
<1>11. Holds(g[4], <<Adr(env.reg[r] + m + n)>>)
  BY <1>1, <1>5, <1>10, AddedHeld, Zenon
<1> QED
  BY <1>1, <1>5, <1>8, <1>11, StopDeparts, Zenon


(* The operand of a branch that is not taken is read as the end.           *)
LEMMA BranchDeparts ==
  ASSUME NEW r \in 0 .. 63, NEW m \in Int, NEW n \in Nat \ {0}, NEW env \in Env,
         NEW frameBase, NEW expr,
         expr = <<OpOf("breg", r, m), OpOf("const", 0, 0), OpOf("bra", 0, 0),
                  OpOf("plus_uconst", 0, n)>>
  PROVE  HasMeaning(expr, env) /\ ~DecodesTo(Evaluate(expr, frameBase)[1], expr, env)
<1>1. PICK x, u, z, w, p, q, o :
        /\ x = mkRegRel(r, m) /\ u = Adr(env.reg[r] + m) /\ z = mkAbs(0) /\ w = Num(0)
        /\ p = OpOf("const", 0, 0) /\ q = OpOf("bra", 0, 0) /\ o = OpOf("plus_uconst", 0, n)
  BY Zenon
<1>2. Len(expr) = 4 /\ expr[1] = OpOf("breg", r, m) /\ expr[2] = p /\ expr[3] = q /\ expr[4] = o
  BY <1>1
<1>3. Len(expr) \in Nat \ {0} /\ \A k \in {2, 3, 4} : k \in 1 .. Len(expr)
  BY <1>2
<1>4. PICK f, g : /\ Alongside(f, g, expr, frameBase, env)
                  /\ f[1] = Going(<<x>>) /\ Holds(g[1], <<u>>)
  BY <1>1, <1>2, <1>3, Starts, Zenon
<1>5. /\ f[2] = Decode(f[1], p, frameBase) /\ g[2] = Perform(g[1], p, env)
      /\ f[3] = Decode(f[2], q, frameBase) /\ g[3] = Perform(g[2], q, env)
      /\ f[4] = Decode(f[3], o, frameBase) /\ g[4] = Perform(g[3], o, env)
      /\ Evaluate(expr, frameBase) = f[4].stack /\ Run(expr, env) = g[4]
  <2>1. 2 - 1 = 1 /\ 3 - 1 = 2 /\ 4 - 1 = 3
    OBVIOUS
  <2> QED
    BY <1>2, <1>3, <1>4, <2>1 DEF Alongside
<1>6. p.op = "const" /\ p.n = 0 /\ q.op = "bra" /\ q.n = 0 /\ Needs(p) = 0 /\ Needs(q) = 1
  BY <1>1 DEF OpOf, Needs, BinaryOps
<1>7. z # Unusable /\ IsAbs(z) /\ IsZero(z) /\ z.off = 0
  BY <1>1 DEF mkAbs, Unusable, IsAbs, IsZero
<1>8. f[2] = Going(<<x, z>>)
  <2>1. After(p, <<x>>, frameBase) = Replaced(<<x>>, 0, z)
    <3>1. Pushed(p, <<x>>, frameBase) = z
      BY <1>1, <1>6 DEF Pushed
    <3> QED
      BY <1>6, <3>1 DEF After, BinaryOps
  <2>2. Replaced(<<x>>, 0, z) = <<x, z>>
    <3>1. Dropped(<<x>>, 0) = <<x>>
      BY OneIs, Zenon
    <3>2. Append(<<x>>, z) = <<x, z>>
      BY AppendOne, Zenon
    <3> QED
      BY <1>7, <3>1, <3>2, Zenon DEF Replaced
  <2>3. <<x, z>> # <<Unusable>> /\ ~Misread(p, <<x>>) /\ Skips(p, <<x>>) = 0
    <3>1. Len(<<x, z>>) = 2 /\ Len(<<Unusable>>) = 1
      OBVIOUS
    <3> QED
      BY <1>6, <3>1 DEF Misread, Skips
  <2>4. After(p, <<x>>, frameBase) = <<x, z>> /\ <<x, z>> # <<Unusable>>
    BY <2>1, <2>2, <2>3, Zenon
  <2>5. Decode(Going(<<x>>), p, frameBase) = Going(<<x, z>>)
    BY <2>3, <2>4, DecodeStep, Zenon
  <2> QED
    BY <1>4, <1>5, <2>5, Zenon
<1>9. f[3] = Stopped(<<x>>)
  <2>1. Below(<<x, z>>, 0) = z /\ Dropped(<<x, z>>, 1) = <<x>>
    BY TwoIs, Zenon
  <2>2. After(q, <<x, z>>, frameBase) = <<x>>
    BY <1>6, <1>7, <2>1 DEF After, BinaryOps
  <2>3. Misread(q, <<x, z>>) /\ Skips(q, <<x, z>>) = 0
    BY <1>6, <1>7, <2>1 DEF Misread, Skips
  <2>4. <<x>> # <<Unusable>>
    <3>1. x # Unusable
      BY <1>1, RelativeIs, Zenon
    <3> QED
      BY <3>1
  <2> QED
    BY <1>5, <1>6, <1>8, <2>2, <2>3, <2>4, DecodeStep, Zenon
<1>10. Evaluate(expr, frameBase)[1] = x
  <2>1. f[4] = Stopped(<<x>>)
    BY <1>5, <1>9, DecodeStopped, Zenon
  <2>2. Stopped(<<x>>).stack = <<x>> /\ <<x>>[1] = x
    BY OneIs DEF Stopped, Stack
  <2> QED
    BY <1>5, <2>1, <2>2, Zenon
<1>11. Holds(g[2], <<u, w>>)
  <2>1. Means(p, <<u>>, env) = <<w>>
    BY <1>1, <1>6 DEF Means, BinaryOps
  <2>2. Defined(p, <<u>>)
    BY <1>6, OneIs DEF Defined
  <2>3. Dropped(<<u>>, 0) = <<u>>
    BY OneIs, Zenon
  <2>4. <<u>> \o <<w>> = <<u, w>>
    BY TwoIs, Zenon
  <2>5. Holds(Perform(g[1], p, env), Dropped(<<u>>, Needs(p)) \o Means(p, <<u>>, env))
    BY <1>4, <1>6, <2>2, HoldsNext
  <2> QED
    BY <1>5, <1>6, <2>1, <2>3, <2>4, <2>5, Zenon
<1>12. Holds(g[3], <<u>>)
  <2>1. Means(q, <<u, w>>, env) = <<>>
    BY <1>6 DEF Means, BinaryOps
  <2>2. Defined(q, <<u, w>>)
    BY <1>6, TwoIs DEF Defined
  <2>3. Dropped(<<u, w>>, 1) = <<u>>
    BY TwoIs, Zenon
  <2>4. <<u>> \o <<>> = <<u>>
    BY OneIs, Zenon
  <2>5. Below(<<u, w>>, 0).v = 0
    <3>1. Below(<<u, w>>, 0) = w
      BY TwoIs, Zenon
    <3> QED
      BY <1>1, <3>1 DEF Num
  <2>6. Holds(Perform(g[2], q, env), Dropped(<<u, w>>, Needs(q)) \o Means(q, <<u, w>>, env))
    BY <1>6, <1>11, <2>2, <2>5, HoldsNext
  <2> QED
    BY <1>5, <1>6, <2>1, <2>3, <2>4, <2>6, Zenon
<1>13. Holds(g[4], <<Adr(env.reg[r] + m + n)>>)
  BY <1>1, <1>5, <1>12, AddedHeld, Zenon
<1> QED
  BY <1>1, <1>5, <1>10, <1>13, StopDeparts, Zenon

(* decodeLocation gives a location that is not the expression's in any     *)
(* process, for every register and every two offsets: of the difference of *)
(* two addresses, of two addresses left on the stack, of an operation      *)
(* behind pick, and of one behind a branch that is not taken.              *)
THEOREM DecodeDeparts ==
  ASSUME NEW r \in 0 .. 63, NEW m \in Int, NEW n \in Nat \ {0}, m # n, NEW env \in Env,
         NEW frameBase, NEW expr \in Departing(r, m, n)
  PROVE  HasMeaning(expr, env) /\ ~DecodesTo(Evaluate(expr, frameBase)[1], expr, env)
<1>1. n \in Int
  OBVIOUS
<1>2. CASE expr = <<OpOf("breg", r, m), OpOf("breg", r, n), OpOf("minus", 0, 0)>>
  BY <1>1, <1>2, MinusDeparts, Zenon
<1>3. CASE expr = <<OpOf("breg", r, m), OpOf("breg", r, n)>>
  BY <1>1, <1>3, PairDeparts, Zenon
<1>4. CASE expr = <<OpOf("breg", r, m), OpOf("pick", 0, 0), OpOf("drop", 0, 0),
                    OpOf("plus_uconst", 0, n)>>
  BY <1>4, PickDeparts, Zenon
<1>5. CASE expr = <<OpOf("breg", r, m), OpOf("const", 0, 0), OpOf("bra", 0, 0),
                    OpOf("plus_uconst", 0, n)>>
  BY <1>5, BranchDeparts, Zenon
<1> QED
  BY <1>2, <1>3, <1>4, <1>5, Zenon DEF Departing
-----------------------------------------------------------------------------
(***************************************************************************)
(* What the units are, and that the locations which are taken out of them  *)
(* are locations.                                                          *)
(***************************************************************************)

LEMMA RegisterNumber == \A n \in 0 .. 63 : n \in Nat
OBVIOUS

LEMMA UnitIs ==
  ASSUME NEW u \in Units
  PROVE  /\ u \in Unit /\ IsUnit(u.dies) /\ u.dies \in Seq(Die) /\ Len(u.dies) \in Nat
         /\ \A f \in u.frames : f \in Frame /\ FrameFits(f)
<1>1. u \in Unit /\ WellNested(u.dies) /\ \A f \in u.frames : FrameFits(f)
  BY UnitsAssumption
<1>2. u.dies \in Seq(Die) /\ u.frames \in SUBSET Frame
  BY <1>1 DEF Unit
<1>3. Len(u.dies) \in Nat /\ u.dies # <<>>
  BY <1>1, <1>2 DEF WellNested
<1>4. Len(u.dies) # 0
  BY <1>2, <1>3, EmptySeq
<1>5. \A i \in 1 .. Len(u.dies) : u.dies[i].hasChild \in BOOLEAN /\ u.dies[i].sibling \in Nat
  <2>1. \A d \in Die : d.hasChild \in BOOLEAN /\ d.sibling \in Nat
    BY DEF Die
  <2>2. \A i \in 1 .. Len(u.dies) : u.dies[i] \in Die
    BY <1>2
  <2> QED
    BY <2>1, <2>2, Zenon
<1> QED
  BY <1>1, <1>2, <1>3, <1>4, <1>5 DEF IsUnit

LEMMA DieIs ==
  ASSUME NEW u \in Units, NEW i \in 1 .. Len(u.dies)
  PROVE  /\ u.dies[i] \in Die
         /\ u.dies[i].tag = "compile_unit" <=> i = 1
         /\ u.dies[i].tag \in {"subprogram", "lexical_block"} => CodeFits(u, u.dies[i])
         /\ ExpressionsFit(u, u.dies[i])
<1>1. u.dies \in Seq(Die)
  BY UnitIs
<1> QED
  BY <1>1, UnitsAssumption

LEMMA ListIs ==
  ASSUME NEW u \in Units, NEW n \in {0} \cup DOMAIN u.lists
  PROVE  ListIn(u, n) \in Seq(ListEntry)
<1>1. u.lists \in Seq(Seq(ListEntry))
  BY UnitIs DEF Unit
<1>2. u.lists \in [1 .. Len(u.lists) -> Seq(ListEntry)] /\ Len(u.lists) \in Nat
  BY <1>1
<1>3. n # 0 => u.lists[n] \in Seq(ListEntry)
  BY <1>2
<1> QED
  BY <1>3 DEF ListIn

LEMMA RegisterIs ==
  ASSUME NEW expr \in Seq(Operation), IsRegister(expr), NEW frameBase
  PROVE  /\ Evaluate(expr, frameBase)[1] = mkInReg(expr[1].reg)
         /\ mkInReg(expr[1].reg) \in Location
<1>1. PICK f : Decoding(f, expr, frameBase, Len(expr))
               /\ Evaluate(expr, frameBase) = f[Len(expr)].stack
  BY DecodingIs
<1>2. Len(expr) = 1 /\ expr[1].op = "reg"
  BY DEF IsRegister
<1>3. PICK o, m, x : o = expr[1] /\ m = f[0] /\ x = mkInReg(o.reg)
  BY Zenon
<1>4. o \in Operation /\ o.op = "reg"
  BY <1>2, <1>3, SMTT(30)
<1>5. x \in Location /\ x # Unusable
  <2>1. PICK n : n = o.reg
    BY Zenon
  <2>2. n \in Nat
    <3>1. o.reg \in 0 .. 63
      BY <1>4 DEF Operation
    <3> QED
      BY <2>1, <3>1, RegisterNumber, Zenon
  <2>3. x = mkInReg(n)
    BY <1>3, <2>1, Zenon
  <2> QED
    BY <2>2, <2>3 DEF Location, mkInReg, Unusable
<1>6. m = [stack |-> <<>>, skip |-> 0, stop |-> FALSE]
  BY <1>1, <1>2, <1>3, DecodingAt
<1>7. f[1] = Decode(m, o, frameBase)
  BY <1>1, <1>2, <1>3, DecodingAt
<1>8. After(o, <<>>, frameBase) = Append(Dropped(<<>>, 0), x)
  BY <1>3, <1>4, <1>5 DEF After, Replaced, Pushed, BinaryOps
<1>9. Append(Dropped(<<>>, 0), x) = <<x>>
  <2>1. Dropped(<<>>, 0) = <<>>
    BY DEF Dropped
  <2>2. Append(<<>>, x) = <<x>>
    BY <1>5
  <2> QED
    BY <2>1, <2>2, Zenon
<1>10. ~Misread(o, <<>>)
  BY <1>4 DEF Misread
<1>11. ~m.stop /\ m.skip = 0 /\ m.stack = <<>>
  BY <1>6
<1>12. <<x>> # <<Unusable>>
  BY <1>5
<1>13. Decode(m, o, frameBase).stack = <<x>>
  BY <1>8, <1>9, <1>10, <1>11, <1>12 DEF Decode
<1>14. Evaluate(expr, frameBase)[1] = x
  BY <1>1, <1>2, <1>7, <1>13
<1> QED
  BY <1>3, <1>5, <1>14

LEMMA ProcessExists == \E env \in Anywhere : env \in Env
<1> DEFINE p == [r \in 0 .. 63 |-> 1000 + 17 * r]
           env == [reg |-> p, frameBase |-> 500, cfa |-> 700, memory |-> 7]
<1>1. p \in [0 .. 63 -> Int] /\ p \in Processes
  BY DEF Processes
<1> HIDE DEF p
<1>2. env \in Anywhere /\ env \in Env
  BY <1>1 DEF Anywhere, Env
<1> QED
  BY <1>2

(* An expression that has a value is decoded to a location, and to one of  *)
(* an address if that is what it computes.                                 *)
LEMMA EvaluateType ==
  ASSUME NEW expr \in Seq(Operation)
  PROVE  /\ HasValue(expr) => Evaluate(expr, Unusable)[1] \in Location
         /\ HasAddress(expr) => /\ Evaluate(expr, Unusable)[1] \in Location
                                /\ ~IsAbs(Evaluate(expr, Unusable)[1])
<1>1. CASE IsRegister(expr)
  <2>1. ~IsAbs(mkInReg(expr[1].reg))
    BY DEF IsAbs, mkInReg
  <2> QED
    BY <1>1, <2>1, RegisterIs
<1>2. CASE ~IsRegister(expr)
  <2>1. PICK env \in Anywhere : env \in Env
    BY ProcessExists
  <2>2. FrameBaseStands(Unusable, env)
    BY DEF FrameBaseStands, Unusable, IsInReg, IsRegRel
  <2>3. PICK l, v : l = Evaluate(expr, Unusable)[1] /\ v = Leaves(expr, env)
    BY Zenon
  <2>4. Decodable(expr, env) => l = Unusable \/ Stands(l, v, env)
    BY <2>1, <2>2, <2>3, DecodeSound DEF DecodesTo, Decodable
  <2>5. Decodable(expr, env) => l \in Location
    <3>1. Unusable \in Location
      BY DEF Unusable, Location
    <3> QED
      BY <2>1, <2>4, <3>1, StandsType
  <2>6. Decodable(expr, env) /\ v.addr => ~IsAbs(l)
    BY <2>4 DEF Stands, Num, mkRegRel, IsAbs, Unusable
  <2>7. HasValue(expr) => Decodable(expr, env)
    BY <1>2, <2>1 DEF HasValue
  <2>8. HasAddress(expr) => Decodable(expr, env) /\ v.addr
    BY <1>2, <2>1, <2>3 DEF HasAddress
  <2> QED
    BY <2>3, <2>5, <2>6, <2>7, <2>8
<1> QED
  BY <1>1, <1>2

LEMMA MinIs ==
  ASSUME NEW S, S \subseteq Nat, S # {}
  PROVE  Min(S) \in S /\ \A i \in S : Min(S) <= i
<1>1. \E m \in S : \A n \in S : m <= n
  BY NatLeast
<1> QED
  BY <1>1 DEF Min

LEMMA ListedIs ==
  ASSUME NEW list \in Seq(ListEntry)
  PROVE  /\ Listed(list) \in Seq(ListEntry) /\ Len(Listed(list)) \in 0 .. Len(list)
         /\ DOMAIN Listed(list) = 1 .. Len(Listed(list))
         /\ \A k \in 1 .. Len(Listed(list)) : Listed(list)[k] = list[k] /\ k \in 1 .. Len(list)
<1> DEFINE ends == {i \in DOMAIN list : EndsList(list[i])}
<1>1. CASE ends = {}
  BY <1>1 DEF Listed
<1>2. CASE ends # {}
  <2>1. ends \subseteq Nat /\ ends \subseteq 1 .. Len(list)
    OBVIOUS
  <2>2. PICK e : e = CHOOSE i \in ends : \A j \in ends : i <= j
    BY Zenon
  <2>3. e \in ends
    <3> HIDE DEF ends
    <3>1. \E i \in ends : \A j \in ends : i <= j
      BY <1>2, <2>1, NatLeast
    <3> QED
      BY <2>2, <3>1
  <2>4. Listed(list) = SubSeq(list, 1, e - 1)
    BY <1>2, <2>2 DEF Listed
  <2>5. e \in 1 .. Len(list)
    BY <2>3
  <2> HIDE DEF ends
  <2> QED
    BY <2>4, <2>5
<1> QED
  BY <1>1, <1>2

(* The entry that is taken out of a list, if any, is one that is read.      *)
LEMMA BestEntryIs ==
  ASSUME NEW list \in Seq(ListEntry), NEW x64
  PROVE  /\ BestEntry(x64, list) \in {0} \cup LocationsRead(list)
         /\ \A i \in LocationsRead(list) :
              i \in 1 .. Len(list) /\ list[i].expr \in Seq(Operation)
<1> DEFINE read == LocationsRead(list)
           onEbp == {i \in read : IsRegRel(LocationIn(list[i]))
                                  /\ LocationIn(list[i]).reg = Ebp(x64)}
           longest == {i \in read : RangeIn(list[i]) > 0
                         /\ \A j \in read : RangeIn(list[j]) <= RangeIn(list[i])}
<1>1. read \subseteq Nat /\ \A i \in read : i \in 1 .. Len(list)
  BY ListedIs DEF LocationsRead
<1>2. ASSUME NEW i \in read PROVE list[i].expr \in Seq(Operation)
  <2>1. i \in 1 .. Len(list)
    BY <1>1
  <2>2. list[i] \in ListEntry
    BY <2>1
  <2> QED
    BY <2>2 DEF ListEntry
<1>3. BestEntry(x64, list) =
        IF onEbp # {} THEN Min(onEbp) ELSE IF longest # {} THEN Min(longest) ELSE 0
  BY DEF BestEntry
<1>4. onEbp \subseteq read /\ longest \subseteq read
  OBVIOUS
<1> HIDE DEF onEbp, longest, read
<1>5. onEbp # {} => Min(onEbp) \in read
  BY <1>1, <1>4, MinIs
<1>6. longest # {} => Min(longest) \in read
  BY <1>1, <1>4, MinIs
<1>7. BestEntry(x64, list) \in {0} \cup read
  BY <1>3, <1>5, <1>6
<1> QED
  BY <1>1, <1>2, <1>7 DEF read

LEMMA FBLocType ==
  ASSUME NEW list \in Seq(ListEntry),
         \A i \in LocationsRead(list) : HasValue(list[i].expr), NEW x64
  PROVE  findBestFBLoc(x64, list) \in Location
<1>1. PICK best : best = BestEntry(x64, list)
  BY Zenon
<1>2. findBestFBLoc(x64, list) =
        IF best # 0 THEN LocationIn(list[best]) ELSE mkRegRel(DW_REG_CFA, 0)
  BY <1>1 DEF findBestFBLoc
<1>3. ASSUME best # 0 PROVE LocationIn(list[best]) \in Location
  <2>1. best \in LocationsRead(list)
    BY <1>1, <1>3, BestEntryIs
  <2>2. list[best].expr \in Seq(Operation) /\ HasValue(list[best].expr)
    BY <2>1, BestEntryIs
  <2> QED
    BY <2>2, EvaluateType DEF LocationIn
<1>4. mkRegRel(DW_REG_CFA, 0) \in Location
  BY DEF mkRegRel, DW_REG_CFA, Location
<1> QED
  BY <1>2, <1>3, <1>4

LEMMA FrameBaseType ==
  ASSUME NEW u \in Units, unit = u, NEW i \in 1 .. Len(u.dies)
  PROVE  FrameBaseOf(u.dies[i]) \in Location
<1>1. PICK attr : attr = u.dies[i].frame_base
  BY Zenon
<1>2. attr \in Attribute
  BY <1>1, DieIs DEF Die
<1>3. PICK loc : loc = decodeLocation(attr, Unusable)
  BY Zenon
<1>4. FrameBaseOf(u.dies[i]) =
        IF IsAbs(loc) THEN findBestFBLoc(u.x64, ListIn(u, loc.off)) ELSE loc
  BY <1>1, <1>3 DEF FrameBaseOf, ListOf
<1>5. CASE attr.form = "expr"
  <2>1. attr.expr \in Seq(Operation) /\ HasAddress(attr.expr)
    BY <1>1, <1>2, <1>5, DieIs DEF Attribute, ExpressionsFit
  <2>2. loc = Evaluate(attr.expr, Unusable)[1]
    BY <1>3, <1>5 DEF decodeLocation
  <2> QED
    BY <1>4, <2>1, <2>2, EvaluateType
<1>6. CASE attr.form = "const"
  <2>1. LocationsFit(u, attr.n)
    BY <1>1, <1>6, DieIs DEF ExpressionsFit
  <2>2. IsAbs(loc) /\ loc.off = attr.n
    BY <1>3, <1>6 DEF decodeLocation, mkAbs, IsAbs
  <2>3. /\ ListIn(u, attr.n) \in Seq(ListEntry)
        /\ \A j \in LocationsRead(ListIn(u, attr.n)) : HasValue(ListIn(u, attr.n)[j].expr)
    BY <2>1, ListIs DEF LocationsFit
  <2> QED
    BY <1>4, <2>2, <2>3, FBLocType
<1>7. CASE attr.form \notin {"expr", "const"}
  <2>1. loc = Unusable
    BY <1>3, <1>7 DEF decodeLocation
  <2> QED
    BY <1>4, <2>1 DEF Unusable, IsAbs, Location
<1> QED
  BY <1>5, <1>6, <1>7

RuleFits(program) ==
  \A k \in DOMAIN program :
    program[k].op \in {"def_cfa_expression", "expression"} => HasValue(program[k].expr)

LEMMA RuleType ==
  ASSUME NEW program \in Seq(Instruction), RuleFits(program)
  PROVE  RuleBehind(program) \in Location
<1>1. PICK f : Ruling(f, program, Len(program)) /\ RuleBehind(program) = f[Len(program)]
  BY RulingIs
<1> DEFINE S == {k \in 0 .. Len(program) : f[k] \notin Location}
<1>2. ASSUME S # {} PROVE FALSE
  <2>1. PICK k \in S : \A j \in S : k <= j
    <3>1. S \in SUBSET Nat
      OBVIOUS
    <3> QED
      BY <1>2, <3>1, NatLeast
  <2>2. CASE k = 0
    <3>1. f[0] = mkRegRel(DW_REG_CFA, 0)
      BY <1>1, RulingAt
    <3> QED
      BY <2>2, <3>1 DEF mkRegRel, DW_REG_CFA, Location
  <2>3. CASE k # 0
    <3>1. PICK cfa, i : cfa = f[k - 1] /\ i = program[k]
      BY Zenon
    <3>2. k \in 1 .. Len(program) /\ k - 1 \in 0 .. Len(program)
      BY <2>1, <2>3
    <3>3. cfa \in Location
      BY <2>1, <3>1, <3>2
    <3>4. i \in Instruction
      BY <3>1, <3>2
    <3>5. f[k] = ProcessInstruction(cfa, i)
      BY <1>1, <2>3, <3>1, <3>2, RulingAt
    <3>6. i.op \in {"def_cfa_expression", "expression"} =>
            Evaluate(i.expr, Unusable)[1] \in Location
      <4>1. i.expr \in Seq(Operation)
        BY <3>4 DEF Instruction
      <4>2. i.op \in {"def_cfa_expression", "expression"} => HasValue(i.expr)
        BY <3>1, <3>2 DEF RuleFits
      <4> QED
        BY <4>1, <4>2, EvaluateType
    <3>7. i.reg \in Nat /\ i.n \in Int
      <4>1. i.reg \in 0 .. 63 /\ i.n \in Int
        BY <3>4 DEF Instruction
      <4> QED
        BY <4>1, RegisterNumber, Zenon
    <3>8. /\ [cfa EXCEPT !.reg = i.reg, !.off = i.n] \in Location
          /\ [cfa EXCEPT !.reg = i.reg] \in Location
          /\ [cfa EXCEPT !.off = i.n] \in Location
      BY <3>3, <3>7 DEF Location
    <3>9. f[k] \in Location
      BY <3>3, <3>5, <3>6, <3>8 DEF ProcessInstruction
    <3> QED
      BY <3>9
  <2> QED
    BY <2>2, <2>3
<1> QED
  BY <1>1, <1>2

LEMMA BestCFAType ==
  ASSUME NEW u \in Units, NEW x64, NEW pclo, NEW pchi
  PROVE  findBestCFA(x64, u.frames, pclo, pchi) \in Location
<1> DEFINE found == Lookup(u.frames, pclo, pchi)
           fde == CHOOSE f \in found : TRUE
<1>1. CASE found = {}
  BY <1>1 DEF findBestCFA, DefaultCFA, mkRegRel, Location
<1>2. CASE found # {}
  <2>1. found \subseteq u.frames
    BY DEF Lookup
  <2>2. fde \in u.frames
    BY <1>2, <2>1
  <2>3. findBestCFA(x64, u.frames, pclo, pchi) =
          RuleBehind(fde.initial \o UpToRestore(fde.program))
    BY <1>2 DEF findBestCFA
  <2> HIDE DEF fde
  <2>4. fde \in Frame /\ FrameFits(fde)
    BY <2>2, UnitIs
  <2>5. /\ fde.initial \in Seq(Instruction) /\ fde.program \in Seq(Instruction)
        /\ RuleFits(fde.initial) /\ RuleFits(fde.program)
    BY <2>4 DEF Frame, FrameFits, RuleFits
  <2>6. PICK a, b : a = fde.initial /\ b = UpToRestore(fde.program)
    BY Zenon
  <2>7. b \in Seq(Instruction) /\ RuleFits(b)
    <3> DEFINE restores == {i \in DOMAIN fde.program :
                              fde.program[i].op \in {"restore", "restore_state"}}
    <3>1. CASE restores = {}
      BY <2>5, <2>6, <3>1 DEF UpToRestore
    <3>2. CASE restores # {}
      <4>1. restores \subseteq Nat /\ restores \subseteq 1 .. Len(fde.program)
        BY <2>5
      <4>2. PICK e : e = CHOOSE i \in restores : \A j \in restores : i <= j
        BY Zenon
      <4>3. b = SubSeq(fde.program, 1, e - 1)
        BY <2>6, <3>2, <4>2 DEF UpToRestore
      <4> HIDE DEF restores
      <4>4. e \in restores
        <5>1. \E i \in restores : \A j \in restores : i <= j
          BY <3>2, <4>1, NatLeast
        <5> QED
          BY <4>2, <5>1
      <4>5. e \in 1 .. Len(fde.program)
        BY <4>1, <4>4
      <4> QED
        BY <2>5, <4>3, <4>5 DEF RuleFits
    <3> QED
      BY <3>1, <3>2
  <2>8. a \o b \in Seq(Instruction) /\ RuleFits(a \o b)
    <3>1. a \in Seq(Instruction) /\ RuleFits(a)
      BY <2>5, <2>6
    <3> QED
      BY <2>7, <3>1 DEF RuleFits
  <2> QED
    BY <2>3, <2>6, <2>8, RuleType
<1> QED
  BY <1>1, <1>2

-----------------------------------------------------------------------------
(***************************************************************************)
(* getRanges.  The ranges that are read are those that the list has, and   *)
(* what is made of them has the same addresses, once each, the entry point *)
(* first.                                                                  *)
(***************************************************************************)

Range0      == [lo : Nat, hi : Nat]
In(a, r)    == r.lo <= a /\ a < r.hi
Apart(r, s) == r.hi <= s.lo \/ s.hi <= r.lo
InSpan(s, r) == r.lo <= s.lo /\ s.hi <= r.hi

BoundedTo(s, k) == \E b \in Nat : \A i \in 1 .. k : s[i] <= b

LEMMA Bounded ==
  ASSUME NEW n \in Nat, NEW s, \A i \in 1 .. n : s[i] \in Nat
  PROVE  \E b \in Nat : \A i \in 1 .. n : s[i] <= b
<1> DEFINE S == {k \in 0 .. n : ~BoundedTo(s, k)}
<1>1. ASSUME S # {} PROVE FALSE
  <2>1. PICK k \in S : \A j \in S : k <= j
    <3>1. S \in SUBSET Nat
      OBVIOUS
    <3> QED
      BY <1>1, <3>1, NatLeast
  <2>2. k # 0
    <3>1. \A i \in 1 .. 0 : s[i] <= 0
      OBVIOUS
    <3> QED
      BY <3>1 DEF BoundedTo
  <2>3. k \in 1 .. n /\ s[k] \in Nat /\ k - 1 \in 0 .. n
    BY <2>2
  <2>4. BoundedTo(s, k - 1)
    BY <2>1, <2>3
  <2>5. PICK b \in Nat : \A i \in 1 .. k - 1 : s[i] <= b
    BY <2>4 DEF BoundedTo
  <2>6. PICK c : c = b + s[k]
    BY Zenon
  <2>7. c \in Nat /\ b <= c /\ s[k] <= c
    BY <2>3, <2>6
  <2>8. ASSUME NEW i \in 1 .. k PROVE s[i] <= c
    <3>1. i \in 1 .. n /\ s[i] \in Nat
      BY <2>3
    <3>2. i = k \/ i \in 1 .. k - 1
      BY <2>3
    <3> QED
      BY <2>5, <2>7, <3>1, <3>2
  <2>9. BoundedTo(s, k)
    BY <2>7, <2>8 DEF BoundedTo
  <2> QED
    BY <2>9
<1>2. BoundedTo(s, n)
  BY <1>1
<1> QED
  BY <1>2 DEF BoundedTo

LEMMA AddressType == Addresses \subseteq Nat
<1> DEFINE S == {0} \cup {Sections[s].hi : s \in DOMAIN Sections}
           f == [s \in 1 .. Len(Sections) |-> Sections[s].hi]
<1>1. /\ Sections \in [1 .. Len(Sections) -> Range0] /\ Len(Sections) \in Nat
      /\ DOMAIN Sections = 1 .. Len(Sections)
  <2>1. Sections \in Seq(Range0)
    BY UnitsAssumption DEF Range0
  <2> QED
    BY <2>1
<1>2. \A s \in 1 .. Len(Sections) : f[s] = Sections[s].hi /\ f[s] \in Nat
  BY <1>1 DEF Range0
<1> HIDE DEF f
<1>3. PICK b \in Nat : \A s \in 1 .. Len(Sections) : f[s] <= b
  BY <1>1, <1>2, Bounded
<1>4. S \in SUBSET (0 .. b) /\ S # {}
  BY <1>1, <1>2, <1>3
<1>5. Max(S) \in S
  <2> HIDE DEF S
  <2> QED
    BY <1>4, MaxIs
<1>6. Max(S) \in Nat
  <2>1. PICK m : m = Max(S)
    BY Zenon
  <2> HIDE DEF S
  <2>2. m \in 0 .. b
    BY <1>4, <1>5, <2>1
  <2> QED
    BY <2>1, <2>2
<1>7. Addresses = 0 .. Max(S)
  BY Zenon DEF Addresses
<1> HIDE DEF S
<1> QED
  BY <1>6, <1>7

(* The base that is in force before an entry.                              *)
Changes(u) == IF u.version >= 5 THEN "base" ELSE "select"
Earlier(u, list, i) == {j \in 1 .. i - 1 : list[j].kind = Changes(u)}
LastOf(S) == CHOOSE j \in S : \A k \in S : k <= j
InForce(u, list, i) ==
  IF Earlier(u, list, i) = {} THEN BaseOf(u)
  ELSE list[LastOf(Earlier(u, list, i))].a

LEMMA InForceStep ==
  ASSUME NEW u, NEW list, NEW i \in Nat \ {0}
  PROVE  InForce(u, list, i + 1) =
           IF list[i].kind = Changes(u) THEN list[i].a ELSE InForce(u, list, i)
<1>1. PICK A, B : A = Earlier(u, list, i) /\ B = Earlier(u, list, i + 1)
  BY Zenon
<1>2. CASE list[i].kind = Changes(u)
  <2>1. i \in B /\ \A k \in B : k <= i /\ k \in Nat
    BY <1>1, <1>2 DEF Earlier
  <2>2. PICK c : c = LastOf(B)
    BY Zenon
  <2>3. c \in B /\ \A k \in B : k <= c
    <3>1. \E j \in B : \A k \in B : k <= j
      BY <2>1
    <3> QED
      BY <2>2, <3>1, Zenon DEF LastOf
  <2>4. c = i
    BY <2>1, <2>3
  <2>5. B # {}
    BY <2>1
  <2>6. InForce(u, list, i + 1) = list[c].a
    BY <1>1, <2>2, <2>5, Zenon DEF InForce
  <2> QED
    BY <1>2, <2>4, <2>6
<1>3. CASE list[i].kind # Changes(u)
  <2>1. A = B
    BY <1>1, <1>3 DEF Earlier
  <2> QED
    <3>1. InForce(u, list, i + 1) = InForce(u, list, i)
      BY <1>1, <2>1, Zenon DEF InForce
    <3> QED
      BY <1>3, <3>1
<1> QED
  BY <1>2, <1>3

(* A list that fits.                                                       *)
Fitting(u, list) ==
  /\ u \in Units /\ list \in Seq(ListEntry) /\ RangesFit(u, list)

LEMMA FittingSpan ==
  ASSUME NEW u, NEW list, Fitting(u, list), NEW i \in 1 .. Len(Listed(list))
  PROVE  /\ list[i] \in ListEntry /\ i \in 1 .. Len(list)
         /\ SpanOf(u, list, i) = EntrySpan(list[i], InForce(u, list, i))
         /\ list[i].kind \in {"pair", "base", "offset_pair", "start_end", "start_length"}
         /\ list[i].kind = Changes(u) <=> list[i].kind = "base"
         /\ list[i].kind # "base" =>
              LET s == SpanOf(u, list, i)
              IN  codeSegOff <= s.lo /\ s.lo <= s.hi /\ s.lo .. s.hi - 1 \subseteq Addresses
<1>1. list \in Seq(ListEntry) /\ RangesFit(u, list) /\ DOMAIN Listed(list) = 1 .. Len(Listed(list))
  BY ListedIs DEF Fitting
<1>2. i \in 1 .. Len(list) /\ list[i] \in ListEntry
  BY <1>1, ListedIs
<1>3. i \in DOMAIN list
  BY <1>1, <1>2
<1>4. BasesAt(u.version, BaseOf(u), list)[i] = InForce(u, list, i)
  BY <1>3 DEF BasesAt, InForce, Earlier, Changes, LastOf
<1>5. list[i].kind \in IF u.version < 5 THEN {"pair"}
                       ELSE {"base", "offset_pair", "start_end", "start_length"}
  BY <1>1 DEF RangesFit
<1>6. u.version \in 2 .. 5
  BY UnitIs DEF Fitting, Unit
<1>7. list[i].kind = Changes(u) <=> list[i].kind = "base"
  BY <1>5, <1>6 DEF Changes
<1>8. list[i].kind # "base" =>
        LET s == SpanOf(u, list, i)
        IN  codeSegOff <= s.lo /\ s.lo <= s.hi /\ s.lo .. s.hi - 1 \subseteq Addresses
  BY <1>1 DEF RangesFit
<1>9. SpanOf(u, list, i) = EntrySpan(list[i], InForce(u, list, i))
  BY <1>4 DEF SpanOf
<1>10. list[i].kind \in {"pair", "base", "offset_pair", "start_end", "start_length"}
  BY <1>5
<1> QED
  BY <1>2, <1>7, <1>8, <1>9, <1>10

LEMMA FittingApart ==
  ASSUME NEW u, NEW list, Fitting(u, list),
         NEW i \in 1 .. Len(Listed(list)), NEW j \in 1 .. Len(Listed(list)), i < j,
         list[i].kind # "base", list[j].kind # "base"
  PROVE  Apart(SpanOf(u, list, i), SpanOf(u, list, j))
<1>1. RangesFit(u, list) /\ DOMAIN Listed(list) = 1 .. Len(Listed(list))
  BY ListedIs DEF Fitting
<1> QED
  BY <1>1 DEF RangesFit, Apart

(* What has been read of it.                                               *)
SpanRead(u, list, r, k) ==
  \E i \in 1 .. k : list[i].kind # "base" /\ r = SpanOf(u, list, i)

ReadSoFar(u, list, base, out, k) ==
  /\ base = InForce(u, list, k + 1) /\ base \in Nat /\ out \in Seq(Range0)
  /\ \A j \in 1 .. Len(out) : SpanRead(u, list, out[j], k)
  /\ \A i, j \in 1 .. Len(out) : i < j => Apart(out[i], out[j])
  /\ \A i \in 1 .. k : list[i].kind # "base" /\ SpanOf(u, list, i).lo < SpanOf(u, list, i).hi =>
       \E j \in 1 .. Len(out) : out[j] = SpanOf(u, list, i)

Reader(base, out) == [base |-> base, out |-> out]

LEMMA ReaderBase ==
  ASSUME NEW base, NEW out, NEW a
  PROVE  [Reader(base, out) EXCEPT !.base = a] = Reader(a, out)
BY DEF Reader

LEMMA ReaderOut ==
  ASSUME NEW base, NEW out, NEW r
  PROVE  [Reader(base, out) EXCEPT !.out = Append(@, r)] = Reader(base, Append(out, r))
BY DEF Reader

LEMMA ReadEntryIs ==
  ASSUME NEW u, NEW list, Fitting(u, list), NEW k \in Nat, k + 1 \in 1 .. Len(Listed(list)),
         NEW base, NEW out, ReadSoFar(u, list, base, out, k)
  PROVE  \E b, o : /\ ReadEntry(Reader(base, out), list[k + 1]) = Reader(b, o)
                   /\ ReadSoFar(u, list, b, o, k + 1)
<1> DEFINE s == SpanOf(u, list, k + 1)
<1>1. PICK i, e : i = k + 1 /\ e = list[i]
  BY Zenon
<1>2. /\ e \in ListEntry /\ s = EntrySpan(e, base)
      /\ e.kind \in {"pair", "base", "offset_pair", "start_end", "start_length"}
      /\ e.kind = Changes(u) <=> e.kind = "base"
  BY <1>1, FittingSpan DEF ReadSoFar
<1>3. base \in Nat /\ out \in Seq(Range0) /\ Len(out) \in Nat
  BY DEF ReadSoFar
<1>4. InForce(u, list, i + 1) = IF e.kind = "base" THEN e.a ELSE base
  BY <1>1, <1>2, InForceStep DEF ReadSoFar
<1>5. e.a \in Nat /\ e.b \in Nat
  BY <1>2 DEF ListEntry
<1>6. CASE e.kind = "base"
  <2>1. ReadEntry(Reader(base, out), e) = Reader(e.a, out)
    BY <1>6, ReaderBase DEF ReadEntry
  <2>2. \A j \in 1 .. Len(out) : SpanRead(u, list, out[j], i)
    BY <1>1 DEF ReadSoFar, SpanRead
  <2>3. \A n \in 1 .. i : list[n].kind # "base" /\ SpanOf(u, list, n).lo < SpanOf(u, list, n).hi =>
          \E j \in 1 .. Len(out) : out[j] = SpanOf(u, list, n)
    <3>1. \A n \in 1 .. i : n = i \/ n \in 1 .. k
      BY <1>1
    <3> QED
      BY <1>1, <1>6, <3>1 DEF ReadSoFar
  <2>4. ReadSoFar(u, list, e.a, out, i)
    BY <1>3, <1>4, <1>5, <1>6, <2>2, <2>3 DEF ReadSoFar
  <2> QED
    BY <1>1, <2>1, <2>4
<1>7. CASE e.kind # "base" /\ e.kind = "pair" /\ e.a >= e.b
  <2>1. ReadEntry(Reader(base, out), e) = Reader(base, out)
    BY <1>7 DEF ReadEntry
  <2>2. ~(s.lo < s.hi)
    BY <1>2, <1>3, <1>5, <1>7 DEF EntrySpan
  <2>3. \A j \in 1 .. Len(out) : SpanRead(u, list, out[j], i)
    BY <1>1 DEF ReadSoFar, SpanRead
  <2>4. \A n \in 1 .. i : list[n].kind # "base" /\ SpanOf(u, list, n).lo < SpanOf(u, list, n).hi =>
          \E j \in 1 .. Len(out) : out[j] = SpanOf(u, list, n)
    <3>1. \A n \in 1 .. i : n = i \/ n \in 1 .. k
      BY <1>1
    <3> HIDE DEF s
    <3>2. s = SpanOf(u, list, i)
      BY <1>1 DEF s
    <3> QED
      BY <2>2, <3>1, <3>2 DEF ReadSoFar
  <2>5. ReadSoFar(u, list, base, out, i)
    BY <1>3, <1>4, <1>7, <2>3, <2>4 DEF ReadSoFar
  <2> QED
    BY <1>1, <2>1, <2>5
<1>8. CASE e.kind # "base" /\ ~(e.kind = "pair" /\ e.a >= e.b)
  <2>1. ReadEntry(Reader(base, out), e) = Reader(base, Append(out, s))
    BY <1>2, <1>8, ReaderOut DEF ReadEntry, Reader
  <2>2. s \in Range0
    BY <1>2, <1>3, <1>5, <1>8, SMTT(30) DEF EntrySpan, Range0
  <2>3. SpanRead(u, list, s, i)
    BY <1>1, <1>8 DEF SpanRead
  <2>4. PICK longer : longer = Append(out, s)
    BY Zenon
  <2> HIDE DEF s
  <2>5. /\ longer \in Seq(Range0) /\ Len(longer) = Len(out) + 1
        /\ longer[Len(out) + 1] = s /\ \A j \in 1 .. Len(out) : longer[j] = out[j]
    BY <1>3, <2>2, <2>4
  <2>6. \A j \in 1 .. Len(longer) : j = Len(out) + 1 \/ j \in 1 .. Len(out)
    BY <1>3, <2>5
  <2>7. \A j \in 1 .. Len(longer) : SpanRead(u, list, longer[j], i)
    <3>1. \A j \in 1 .. Len(out) : SpanRead(u, list, out[j], i)
      BY <1>1 DEF ReadSoFar, SpanRead
    <3> QED
      BY <2>3, <2>5, <2>6, <3>1, Zenon
  <2>8. \A j \in 1 .. Len(out) : Apart(out[j], s)
    <3> SUFFICES ASSUME NEW j \in 1 .. Len(out) PROVE Apart(out[j], s)
      OBVIOUS
    <3>1. PICK n \in 1 .. k : list[n].kind # "base" /\ out[j] = SpanOf(u, list, n)
      BY DEF ReadSoFar, SpanRead
    <3>2. n \in 1 .. Len(Listed(list)) /\ n < i /\ i \in 1 .. Len(Listed(list))
      BY <1>1, <3>1
    <3>3. list[i].kind # "base" /\ s = SpanOf(u, list, i)
      BY <1>1, <1>8 DEF s
    <3> QED
      BY <3>1, <3>2, <3>3, FittingApart
  <2>9. \A m, j \in 1 .. Len(longer) : m < j => Apart(longer[m], longer[j])
    <3> SUFFICES ASSUME NEW m \in 1 .. Len(longer), NEW j \in 1 .. Len(longer), m < j
                 PROVE  Apart(longer[m], longer[j])
      OBVIOUS
    <3>1. m \in 1 .. Len(out)
      BY <1>3, <2>5
    <3>2. CASE j = Len(out) + 1
      BY <2>5, <2>8, <3>1, <3>2
    <3>3. CASE j \in 1 .. Len(out)
      BY <2>5, <3>1, <3>3 DEF ReadSoFar
    <3> QED
      BY <2>6, <3>2, <3>3
  <2>10. \A n \in 1 .. i : list[n].kind # "base" /\ SpanOf(u, list, n).lo < SpanOf(u, list, n).hi =>
           \E j \in 1 .. Len(longer) : longer[j] = SpanOf(u, list, n)
    <3> SUFFICES ASSUME NEW n \in 1 .. i, list[n].kind # "base",
                        SpanOf(u, list, n).lo < SpanOf(u, list, n).hi
                 PROVE  \E j \in 1 .. Len(longer) : longer[j] = SpanOf(u, list, n)
      OBVIOUS
    <3>1. CASE n = i
      <4>1. SpanOf(u, list, n) = s /\ Len(out) + 1 \in 1 .. Len(longer)
        BY <1>1, <1>3, <2>5, <3>1 DEF s
      <4> QED
        BY <2>5, <4>1
    <3>2. CASE n # i
      <4>1. n \in 1 .. k
        BY <1>1, <3>2
      <4>2. PICK j \in 1 .. Len(out) : out[j] = SpanOf(u, list, n)
        BY <4>1 DEF ReadSoFar
      <4>3. j \in 1 .. Len(longer)
        BY <1>3, <2>5
      <4> QED
        BY <2>5, <4>2, <4>3
    <3> QED
      BY <3>1, <3>2
  <2>11. ReadSoFar(u, list, base, longer, i)
    BY <1>3, <1>4, <1>8, <2>5, <2>7, <2>9, <2>10 DEF ReadSoFar
  <2> QED
    BY <1>1, <2>1, <2>4, <2>11
<1> QED
  BY <1>6, <1>7, <1>8

LEMMA ReadingNext ==
  ASSUME NEW f, NEW base, NEW list, NEW n \in Nat, Reading(f, base, list, n), NEW k \in 1 .. n
  PROVE  f[k] = ReadEntry(f[k - 1], Listed(list)[k])
<1> DEFINE G(j) == IF j = 0 THEN [base |-> base, out |-> <<>>]
                   ELSE ReadEntry(f[j - 1], Listed(list)[j])
<1>1. f = [j \in 0 .. n |-> G(j)]
  BY Zenon DEF Reading
<1> HIDE DEF G
<1>2. k \in 0 .. n /\ k # 0
  OBVIOUS
<1>3. f[k] = G(k)
  BY <1>1, <1>2
<1> QED
  BY <1>2, <1>3 DEF G

LEMMA BaseType ==
  ASSUME NEW u \in Units
  PROVE  BaseOf(u) \in Nat
<1>1. 1 \in 1 .. Len(u.dies)
  BY UnitIs DEF IsUnit
<1>2. u.dies[1] \in Die
  BY <1>1, DieIs
<1> QED
  BY <1>2 DEF BaseOf, Die

LEMMA RangesReadIs ==
  ASSUME NEW u, NEW list, Fitting(u, list)
  PROVE  \E base : ReadSoFar(u, list, base, RangesRead(BaseOf(u), list), Len(Listed(list)))
<1>0. PICK n : n = Len(Listed(list))
  BY Zenon
<1>1. list \in Seq(ListEntry) /\ u \in Units
  BY DEF Fitting
<1>2. /\ n \in Nat /\ \A k \in 1 .. n : Listed(list)[k] = list[k]
  BY <1>0, <1>1, ListedIs
<1>3. PICK f : Reading(f, BaseOf(u), list, n) /\ RangesRead(BaseOf(u), list) = f[n].out
  BY <1>0, <1>2, ReadingIs
<1>10. \A k \in 1 .. n : f[k] = ReadEntry(f[k - 1], list[k])
  <2> SUFFICES ASSUME NEW k \in 1 .. n PROVE f[k] = ReadEntry(f[k - 1], list[k])
    OBVIOUS
  <2>5. f[k] = ReadEntry(f[k - 1], Listed(list)[k])
    BY <1>2, <1>3, ReadingNext
  <2> QED
    BY <1>2, <2>5
<1> DEFINE P(k) == \E base, out : f[k] = Reader(base, out) /\ ReadSoFar(u, list, base, out, k)
           S == {k \in 0 .. n : ~P(k)}
<1>4. BaseOf(u) \in Nat
  BY <1>1, BaseType
<1>5. ASSUME S # {} PROVE FALSE
  <2>1. PICK k \in S : \A j \in S : k <= j
    <3> HIDE DEF P
    <3>1. S \in SUBSET Nat
      BY <1>2
    <3> QED
      BY <1>5, <3>1, NatLeast
  <2>2. k \in 0 .. n /\ ~P(k)
    OBVIOUS
  <2>3. CASE k = 0
    <3>1. f[0] = Reader(BaseOf(u), <<>>)
      BY <1>2, <1>3, ReadingAt DEF Reader
    <3>2. InForce(u, list, 1) = BaseOf(u)
      BY DEF InForce, Earlier
    <3>3. ReadSoFar(u, list, BaseOf(u), <<>>, 0)
      BY <1>4, <3>2 DEF ReadSoFar
    <3> QED
      BY <2>2, <2>3, <3>1, <3>3
  <2>4. CASE k # 0
    <3>1. P(k - 1)
      <4> HIDE DEF P
      <4>1. k - 1 \in 0 .. n /\ k - 1 < k
        BY <1>2, <2>2, <2>4
      <4>2. k - 1 \notin S
        BY <2>1, <2>2, <4>1
      <4> QED
        BY <4>1, <4>2
    <3>2. PICK base, out : f[k - 1] = Reader(base, out) /\ ReadSoFar(u, list, base, out, k - 1)
      BY <3>1
    <3>3. PICK j : j = k - 1
      BY Zenon
    <3>4. j \in Nat /\ j + 1 = k /\ k \in 1 .. n
      BY <1>2, <2>2, <2>4, <3>3
    <3>5. f[k] = ReadEntry(f[k - 1], list[k])
      BY <1>10, <3>4
    <3>6. ReadSoFar(u, list, base, out, j) /\ j + 1 \in 1 .. Len(Listed(list))
      BY <1>0, <3>2, <3>3, <3>4
    <3>7. \E b, o : /\ ReadEntry(Reader(base, out), list[j + 1]) = Reader(b, o)
                    /\ ReadSoFar(u, list, b, o, j + 1)
      BY <3>4, <3>6, ReadEntryIs, Zenon
    <3>8. P(k)
      BY <3>2, <3>4, <3>5, <3>7
    <3> QED
      BY <2>2, <3>8
  <2> QED
    BY <2>3, <2>4
<1>6. n \in 0 .. n
  BY <1>2
<1>7. P(n)
  <2> HIDE DEF P
  <2> QED
    BY <1>5, <1>6
<1>8. PICK base, out : f[n] = Reader(base, out) /\ ReadSoFar(u, list, base, out, n)
  BY <1>7
<1>9. out = RangesRead(BaseOf(u), list)
  BY <1>3, <1>8 DEF Reader
<1> QED
  BY <1>0, <1>8, <1>9

(* An entry that is for an address.                                        *)
LEMMA CoversIs ==
  ASSUME NEW u, NEW list, Fitting(u, list), NEW a \in Nat
  PROVE  EntriesFor(u, list, a) =
           {i \in 1 .. Len(Listed(list)) :
              list[i].kind # "base" /\ In(a, SpanOf(u, list, i))}
<1>1. list \in Seq(ListEntry) /\ DOMAIN Listed(list) = 1 .. Len(Listed(list))
  BY ListedIs DEF Fitting
<1>2. ASSUME NEW i \in 1 .. Len(Listed(list))
      PROVE  Covers(u.version, BaseOf(u), list, i, a) <=>
               (list[i].kind # "base" /\ In(a, SpanOf(u, list, i)))
  <2>1. list[i].kind \in {"pair", "base", "offset_pair", "start_end", "start_length"}
    BY FittingSpan
  <2>2. PICK e, b : e = list[i] /\ b = BasesAt(u.version, BaseOf(u), list)[i]
    BY Zenon
  <2>3. SpanOf(u, list, i) = EntrySpan(e, b)
    BY <2>2 DEF SpanOf
  <2> QED
    BY <2>1, <2>2, <2>3 DEF Covers, EntrySpan, In
<1> QED
  BY <1>1, <1>2 DEF EntriesFor, EntriesAt

(* A range that is put to those there are: what it is cut to goes in front *)
(* of them and behind them.                                                *)
Piece(lo, hi) == [lo |-> lo, hi |-> hi]

LEMMA CutLow ==
  ASSUME NEW r \in Range0, NEW e
  PROVE  [r EXCEPT !.lo = e] = Piece(e, r.hi) /\ [r EXCEPT !.hi = e] = Piece(r.lo, e)
BY DEF Range0, Piece

LEMMA PlacedIs ==
  ASSUME NEW out \in Seq(Range0), NEW r \in Range0, NEW e \in Nat
  PROVE  Placed(out, r, e) =
           IF r.lo = r.hi THEN out
           ELSE IF r.lo < e /\ e < r.hi
           THEN (<<Piece(e, r.hi)>> \o out) \o <<Piece(r.lo, e)>>
           ELSE IF r.lo = e /\ e < r.hi THEN <<r>> \o out
           ELSE out \o <<r>>
<1>1. r = Piece(r.lo, r.hi) /\ r.lo \in Nat /\ r.hi \in Nat
  BY DEF Range0, Piece
<1>2. [r EXCEPT !.lo = e] = Piece(e, r.hi) /\ [r EXCEPT !.hi = e] = Piece(r.lo, e)
  BY CutLow
<1>3. PICK a, b : a = Piece(e, r.hi) /\ b = Piece(r.lo, e)
  BY Zenon
<1>4. a \in Range0 /\ b \in Range0
  BY <1>1, <1>3 DEF Range0, Piece
<1>5. CASE r.lo = r.hi
  BY <1>5 DEF Placed
<1>6. CASE r.lo < e /\ e < r.hi
  <2>1. SplitAt(r, e).first = <<a>> /\ SplitAt(r, e).other = <<b>>
    <3>1. r.lo <= e /\ e < r.hi /\ r.lo < e
      BY <1>1, <1>6
    <3>2. SplitAt(r, e) = [first |-> <<[r EXCEPT !.lo = e]>>, other |-> <<[r EXCEPT !.hi = e]>>]
      BY <3>1 DEF SplitAt
    <3>3. SplitAt(r, e) = [first |-> <<a>>, other |-> <<b>>]
      BY <1>2, <1>3, <3>2, Zenon
    <3> HIDE DEF SplitAt
    <3> QED
      BY ONLY <3>3
  <2>2. Placed(out, r, e) = <<a>> \o out \o <<b>>
    BY <1>1, <1>6, <2>1 DEF Placed
  <2> QED
    BY <1>1, <1>3, <1>6, <2>2
<1>7. CASE r.lo = e /\ e < r.hi
  <2>1. a = r
    BY <1>1, <1>3, <1>7
  <2>2. SplitAt(r, e).first = <<a>> /\ SplitAt(r, e).other = <<>>
    BY <1>1, <1>2, <1>3, <1>7 DEF SplitAt
  <2>3. Placed(out, r, e) = <<r>> \o out \o <<>>
    BY <1>1, <1>7, <2>1, <2>2 DEF Placed
  <2>4. (<<r>> \o out) \o <<>> = <<r>> \o out
    OBVIOUS
  <2> QED
    BY <1>1, <1>7, <2>3, <2>4
<1>8. CASE r.lo # r.hi /\ ~(r.lo <= e /\ e < r.hi)
  <2>1. SplitAt(r, e).first = <<>> /\ SplitAt(r, e).other = <<r>>
    BY <1>1, <1>8 DEF SplitAt
  <2>2. Placed(out, r, e) = <<>> \o out \o <<r>>
    BY <1>1, <1>8, <2>1 DEF Placed
  <2>3. (<<>> \o out) \o <<r>> = out \o <<r>>
    OBVIOUS
  <2> QED
    BY <1>1, <1>8, <2>2, <2>3
<1> QED
  BY <1>1, <1>5, <1>6, <1>7, <1>8, SMTT(30)

(* Ranges that no address is in twice.                                     *)
Disjoint(rs) ==
  /\ rs \in Seq(Range0)
  /\ \A i \in 1 .. Len(rs) : rs[i].lo < rs[i].hi
  /\ \A i, j \in 1 .. Len(rs) : i # j => Apart(rs[i], rs[j])

(* One more of them, and where it is put.                                  *)
Fresh(rs, r) ==
  Disjoint(rs) /\ r \in Range0 /\ r.lo < r.hi /\ \A i \in 1 .. Len(rs) : Apart(rs[i], r)
PutFirst(more, rs, r) ==
  /\ Disjoint(more) /\ Len(more) = Len(rs) + 1 /\ more[1] = r
  /\ \A i \in 1 .. Len(rs) : more[i + 1] = rs[i]
PutLast(more, rs, r) ==
  /\ Disjoint(more) /\ Len(more) = Len(rs) + 1 /\ more[Len(rs) + 1] = r
  /\ \A i \in 1 .. Len(rs) : more[i] = rs[i]

LEMMA DisjointFront ==
  ASSUME NEW rs, NEW r, Fresh(rs, r), NEW more, more = <<r>> \o rs
  PROVE  PutFirst(more, rs, r)
<1>0. /\ Disjoint(rs) /\ r \in Range0 /\ r.lo < r.hi
      /\ \A i \in 1 .. Len(rs) : Apart(rs[i], r)
  BY DEF Fresh
<1>1. rs \in Seq(Range0) /\ Len(rs) \in Nat
  BY <1>0 DEF Disjoint
<1>2. /\ more \in Seq(Range0) /\ Len(more) = Len(rs) + 1 /\ more[1] = r
      /\ \A i \in 1 .. Len(rs) : more[i + 1] = rs[i]
  BY <1>0, <1>1
<1>3. \A i \in 1 .. Len(more) : i = 1 \/ (i - 1 \in 1 .. Len(rs) /\ more[i] = rs[i - 1])
  BY <1>1, <1>2
<1>4. \A i \in 1 .. Len(more) : more[i].lo < more[i].hi
  BY <1>0, <1>2, <1>3 DEF Disjoint
<1>5. ASSUME NEW i \in 1 .. Len(more), NEW j \in 1 .. Len(more), i # j
      PROVE  Apart(more[i], more[j])
  <2>1. CASE i = 1
    <3>1. j - 1 \in 1 .. Len(rs) /\ more[j] = rs[j - 1]
      BY <1>3, <1>5, <2>1
    <3> QED
      BY <1>0, <1>2, <2>1, <3>1 DEF Apart
  <2>2. CASE j = 1
    <3>1. i - 1 \in 1 .. Len(rs) /\ more[i] = rs[i - 1]
      BY <1>3, <1>5, <2>2
    <3> QED
      BY <1>0, <1>2, <2>2, <3>1 DEF Apart
  <2>3. CASE i # 1 /\ j # 1
    <3>1. /\ i - 1 \in 1 .. Len(rs) /\ more[i] = rs[i - 1]
          /\ j - 1 \in 1 .. Len(rs) /\ more[j] = rs[j - 1]
          /\ i - 1 # j - 1
      BY <1>3, <1>5, <2>3
    <3> QED
      BY <1>0, <3>1 DEF Disjoint
  <2> QED
    BY <2>1, <2>2, <2>3
<1> QED
  BY <1>2, <1>4, <1>5 DEF Disjoint, PutFirst

LEMMA DisjointBehind ==
  ASSUME NEW rs, NEW r, Fresh(rs, r), NEW more, more = rs \o <<r>>
  PROVE  PutLast(more, rs, r)
<1>0. /\ Disjoint(rs) /\ r \in Range0 /\ r.lo < r.hi
      /\ \A i \in 1 .. Len(rs) : Apart(rs[i], r)
  BY DEF Fresh
<1>1. rs \in Seq(Range0) /\ Len(rs) \in Nat
  BY <1>0 DEF Disjoint
<1>2. /\ more \in Seq(Range0) /\ Len(more) = Len(rs) + 1 /\ more[Len(rs) + 1] = r
      /\ \A i \in 1 .. Len(rs) : more[i] = rs[i]
  BY <1>0, <1>1
<1>3. \A i \in 1 .. Len(more) : i = Len(rs) + 1 \/ i \in 1 .. Len(rs)
  BY <1>1, <1>2
<1>4. \A i \in 1 .. Len(more) : more[i].lo < more[i].hi
  BY <1>0, <1>2, <1>3 DEF Disjoint
<1>5. ASSUME NEW i \in 1 .. Len(more), NEW j \in 1 .. Len(more), i # j
      PROVE  Apart(more[i], more[j])
  <2>1. CASE i = Len(rs) + 1
    BY <1>0, <1>2, <1>3, <1>5, <2>1 DEF Apart
  <2>2. CASE j = Len(rs) + 1
    BY <1>0, <1>2, <1>3, <1>5, <2>2 DEF Apart
  <2>3. CASE i \in 1 .. Len(rs) /\ j \in 1 .. Len(rs)
    BY <1>0, <1>2, <1>5, <2>3 DEF Disjoint
  <2> QED
    BY <1>3, <2>1, <2>2, <2>3
<1> QED
  BY <1>2, <1>4, <1>5 DEF Disjoint, PutLast

(* What has been made of the first k ranges.                               *)
OneOf(s, ranges, k) == \E m \in 1 .. k : InSpan(s, ranges[m])
Anyone(a, rs)       == \E i \in 1 .. Len(rs) : In(a, rs[i])
Entered(ranges, e, k) == \E m \in 1 .. k : In(e, ranges[m])
FirstOf(ranges, m, k) ==
  /\ m \in 1 .. k /\ ranges[m].lo < ranges[m].hi
  /\ \A i \in 1 .. m - 1 : ranges[i].lo = ranges[i].hi

Begins(rs, ranges, e, k) ==
  /\ Entered(ranges, e, k) => rs # <<>> /\ rs[1].lo = e
  /\ ~Entered(ranges, e, k) =>
       \A m : FirstOf(ranges, m, k) => rs # <<>> /\ rs[1] = ranges[m]

SplitSoFar(rs, ranges, e, k) ==
  /\ Disjoint(rs)
  /\ \A i \in 1 .. Len(rs) : OneOf(rs[i], ranges, k)
  /\ \A m \in 1 .. k : \A a \in Nat : In(a, ranges[m]) => Anyone(a, rs)
  /\ Begins(rs, ranges, e, k)

RangesOK(ranges) ==
  /\ ranges \in Seq(Range0)
  /\ \A i \in 1 .. Len(ranges) : ranges[i].lo <= ranges[i].hi
  /\ \A i, j \in 1 .. Len(ranges) : i < j => Apart(ranges[i], ranges[j])

LEMMA OneOfMore ==
  ASSUME NEW s, NEW ranges, NEW k \in Nat, OneOf(s, ranges, k)
  PROVE  OneOf(s, ranges, k + 1)
BY DEF OneOf

LEMMA EnteredMore ==
  ASSUME NEW ranges, NEW e, NEW k \in Nat
  PROVE  Entered(ranges, e, k + 1) <=> Entered(ranges, e, k) \/ In(e, ranges[k + 1])
<1>1. \A m \in 1 .. k + 1 : m \in 1 .. k \/ m = k + 1
  OBVIOUS
<1>2. k + 1 \in 1 .. k + 1 /\ \A m \in 1 .. k : m \in 1 .. k + 1
  OBVIOUS
<1> QED
  BY <1>1, <1>2 DEF Entered

(* A range that is apart from all that there are so far.                   *)
LEMMA NewApart ==
  ASSUME NEW ranges, RangesOK(ranges), NEW k \in Nat, k + 1 \in 1 .. Len(ranges),
         NEW rs, NEW e, SplitSoFar(rs, ranges, e, k),
         NEW s \in Range0, s.lo <= s.hi, InSpan(s, ranges[k + 1])
  PROVE  \A i \in 1 .. Len(rs) : Apart(rs[i], s)
<1> SUFFICES ASSUME NEW i \in 1 .. Len(rs) PROVE Apart(rs[i], s)
  OBVIOUS
<1>1. PICK m \in 1 .. k : InSpan(rs[i], ranges[m])
  BY DEF SplitSoFar, OneOf
<1>2. PICK n : n = k + 1
  BY Zenon
<1>3. m \in 1 .. Len(ranges) /\ n \in 1 .. Len(ranges) /\ m < n
  BY <1>2
<1>4. Apart(ranges[m], ranges[n])
  BY <1>3 DEF RangesOK
<1>5. ranges[m] \in Range0 /\ ranges[n] \in Range0 /\ rs[i] \in Range0
  BY <1>3 DEF RangesOK, SplitSoFar, Disjoint
<1>6. InSpan(s, ranges[n])
  BY <1>2
<1> QED
  BY <1>1, <1>4, <1>5, <1>6, SMTT(30) DEF InSpan, Apart, Range0

LEMMA SplitStep ==
  ASSUME NEW ranges, RangesOK(ranges), NEW k \in Nat, k + 1 \in 1 .. Len(ranges),
         NEW rs, NEW e \in Nat, SplitSoFar(rs, ranges, e, k)
  PROVE  SplitSoFar(Placed(rs, ranges[k + 1], e), ranges, e, k + 1)
<1>1. PICK r : r = ranges[k + 1]
  BY Zenon
<1>2. r \in Range0 /\ r.lo \in Nat /\ r.hi \in Nat /\ r.lo <= r.hi
  <2>1. PICK n : n = k + 1
    BY Zenon
  <2>2. n \in 1 .. Len(ranges) /\ r = ranges[n]
    BY <1>1, <2>1
  <2>3. r \in Range0 /\ r.lo <= r.hi
    BY <2>2 DEF RangesOK
  <2> QED
    BY <2>3 DEF Range0
<1>3. rs \in Seq(Range0) /\ Len(rs) \in Nat /\ Disjoint(rs)
  BY DEF SplitSoFar, Disjoint
<1>4. \A i \in 1 .. Len(rs) : OneOf(rs[i], ranges, k + 1)
  BY OneOfMore DEF SplitSoFar
<1>5. \A m \in 1 .. k + 1 : m \in 1 .. k \/ ranges[m] = r
  BY <1>1
<1>6. \A s : InSpan(s, r) => OneOf(s, ranges, k + 1)
  BY <1>1 DEF OneOf
<1>7. \A s \in Range0 : s.lo <= s.hi /\ InSpan(s, r) =>
        \A i \in 1 .. Len(rs) : Apart(rs[i], s)
  BY <1>1, NewApart
<1>8. Entered(ranges, e, k + 1) <=> Entered(ranges, e, k) \/ In(e, r)
  BY <1>1, EnteredMore
<1>9. InSpan(r, r)
  BY <1>2 DEF InSpan
<1>10. \A m : FirstOf(ranges, m, k + 1) => FirstOf(ranges, m, k) \/ (m = k + 1 /\ r.lo < r.hi)
  BY <1>1 DEF FirstOf
<1>11. CASE r.lo = r.hi
  <2>1. Placed(rs, r, e) = rs
    BY <1>2, <1>3, <1>11, PlacedIs, Zenon
  <2>2. ~In(e, r) /\ \A a \in Nat : ~In(a, r)
    BY <1>2, <1>11 DEF In
  <2>3. \A m : FirstOf(ranges, m, k + 1) => FirstOf(ranges, m, k)
    BY <1>2, <1>10, <1>11
  <2>4. Begins(rs, ranges, e, k + 1)
    BY <1>8, <2>2, <2>3 DEF SplitSoFar, Begins
  <2>5. \A m \in 1 .. k + 1 : \A a \in Nat : In(a, ranges[m]) => Anyone(a, rs)
    BY <1>5, <2>2 DEF SplitSoFar
  <2> QED
    BY <1>1, <1>3, <1>4, <2>1, <2>4, <2>5 DEF SplitSoFar
<1>12. CASE r.lo < e /\ e < r.hi
  <2>1. PICK a, b : a = Piece(e, r.hi) /\ b = Piece(r.lo, e)
    BY Zenon
  <2>2. /\ a \in Range0 /\ b \in Range0 /\ a.lo = e /\ a.hi = r.hi /\ b.lo = r.lo /\ b.hi = e
        /\ InSpan(a, r) /\ InSpan(b, r) /\ a.lo < a.hi /\ b.lo < b.hi
    BY <1>2, <1>12, <2>1 DEF Piece, Range0, InSpan
  <2>3. PICK front, all : front = <<a>> \o rs /\ all = front \o <<b>>
    BY Zenon
  <2>4. Placed(rs, r, e) = all
    <3>1. PICK placed : placed = Placed(rs, r, e)
      BY Zenon
    <3>2. placed = IF r.lo = r.hi THEN rs
                   ELSE IF r.lo < e /\ e < r.hi THEN all
                   ELSE IF r.lo = e /\ e < r.hi THEN <<r>> \o rs
                   ELSE rs \o <<r>>
      BY <1>2, <1>3, <2>1, <2>3, <3>1, PlacedIs, Zenon
    <3> QED
      BY <1>2, <1>12, <3>1, <3>2
  <2>5. \A i \in 1 .. Len(rs) : Apart(rs[i], a) /\ Apart(rs[i], b)
    <3>1. a.lo <= a.hi /\ b.lo <= b.hi
      BY <2>2 DEF Range0
    <3> QED
      BY <1>7, <2>2, <3>1, Zenon
  <2>6. /\ Disjoint(front) /\ Len(front) = Len(rs) + 1 /\ front[1] = a
        /\ \A i \in 1 .. Len(rs) : front[i + 1] = rs[i]
    <3>1. Fresh(rs, a)
      BY <1>3, <2>2, <2>5 DEF Fresh
    <3>2. PutFirst(front, rs, a)
      BY <2>3, <3>1, DisjointFront, Zenon
    <3> QED
      BY <3>2 DEF PutFirst
  <2>7. \A i \in 1 .. Len(front) : i = 1 \/ (i - 1 \in 1 .. Len(rs) /\ front[i] = rs[i - 1])
    BY <1>3, <2>6
  <2>8. \A i \in 1 .. Len(front) : Apart(front[i], b)
    <3> SUFFICES ASSUME NEW i \in 1 .. Len(front) PROVE Apart(front[i], b)
      OBVIOUS
    <3>1. CASE i = 1
      <4>1. front[i] = a /\ b.hi <= a.lo
        BY <2>2, <2>6, <3>1
      <4> QED
        BY <4>1 DEF Apart
    <3>2. CASE i # 1
      BY <2>5, <2>7, <3>2
    <3> QED
      BY <3>1, <3>2
  <2>9. /\ Disjoint(all) /\ Len(all) = Len(front) + 1 /\ all[Len(front) + 1] = b
        /\ \A i \in 1 .. Len(front) : all[i] = front[i]
    <3>1. Fresh(front, b)
      BY <2>2, <2>6, <2>8 DEF Fresh
    <3>2. PutLast(all, front, b)
      BY <2>3, <3>1, DisjointBehind, Zenon
    <3> QED
      BY <3>2 DEF PutLast
  <2>10. \A i \in 1 .. Len(all) : i \in 1 .. Len(front) \/ i = Len(front) + 1
    BY <1>3, <2>6, <2>9
  <2>11. \A i \in 1 .. Len(all) : OneOf(all[i], ranges, k + 1)
    BY <1>4, <1>6, <2>2, <2>6, <2>7, <2>9, <2>10
  <2>12. all[1] = a /\ 1 \in 1 .. Len(all) /\ Len(front) + 1 \in 1 .. Len(all) /\ all # <<>>
    <3>1. 1 \in 1 .. Len(front) /\ Len(front) + 1 \in 1 .. Len(all) /\ 1 \in 1 .. Len(all)
      BY <1>3, <2>6, <2>9
    <3>2. all # <<>>
      BY <1>3, <2>6, <2>9
    <3> QED
      BY <2>6, <2>9, <3>1, <3>2
  <2>13. \A x \in Nat : In(x, r) => Anyone(x, all)
    <3> SUFFICES ASSUME NEW x \in Nat, In(x, r) PROVE Anyone(x, all)
      OBVIOUS
    <3>1. In(x, a) \/ In(x, b)
      BY <1>2, <2>2 DEF In
    <3> QED
      BY <2>9, <2>12, <3>1 DEF Anyone
  <2>14. \A x : Anyone(x, rs) => Anyone(x, all)
    <3> SUFFICES ASSUME NEW x, NEW i \in 1 .. Len(rs), In(x, rs[i]) PROVE Anyone(x, all)
      BY DEF Anyone
    <3>1. i + 1 \in 1 .. Len(front) /\ i + 1 \in 1 .. Len(all) /\ all[i + 1] = rs[i]
      BY <1>3, <2>6, <2>9
    <3> QED
      BY <3>1 DEF Anyone
  <2>15. \A m \in 1 .. k + 1 : \A x \in Nat : In(x, ranges[m]) => Anyone(x, all)
    BY <1>5, <2>13, <2>14 DEF SplitSoFar
  <2>16. In(e, r)
    BY <1>2, <1>12 DEF In
  <2>17. Begins(all, ranges, e, k + 1)
    BY <1>8, <2>2, <2>12, <2>16 DEF Begins
  <2> QED
    BY <1>1, <2>4, <2>9, <2>11, <2>15, <2>17 DEF SplitSoFar
<1>13. CASE r.lo = e /\ e < r.hi
  <2>1. PICK all : all = <<r>> \o rs
    BY Zenon
  <2>2. Placed(rs, r, e) = all
    <3>1. PICK placed, other, behind :
            /\ placed = Placed(rs, r, e) /\ behind = rs \o <<r>>
            /\ other = (<<Piece(e, r.hi)>> \o rs) \o <<Piece(r.lo, e)>>
      BY Zenon
    <3>2. placed = IF r.lo = r.hi THEN rs
                   ELSE IF r.lo < e /\ e < r.hi THEN other
                   ELSE IF r.lo = e /\ e < r.hi THEN all
                   ELSE behind
      BY <1>2, <1>3, <2>1, <3>1, PlacedIs, Zenon
    <3> QED
      BY <1>2, <1>13, <3>1, <3>2
  <2>3. /\ Disjoint(all) /\ Len(all) = Len(rs) + 1 /\ all[1] = r
        /\ \A i \in 1 .. Len(rs) : all[i + 1] = rs[i]
    <3>1. r.lo < r.hi /\ \A i \in 1 .. Len(rs) : Apart(rs[i], r)
      BY <1>2, <1>7, <1>9, <1>13
    <3> QED
      <4>1. Fresh(rs, r)
        BY <1>2, <1>3, <3>1 DEF Fresh
      <4>2. PutFirst(all, rs, r)
        BY <2>1, <4>1, DisjointFront, Zenon
      <4> QED
        BY <4>2 DEF PutFirst
  <2>4. \A i \in 1 .. Len(all) : i = 1 \/ (i - 1 \in 1 .. Len(rs) /\ all[i] = rs[i - 1])
    BY <1>3, <2>3
  <2>5. \A i \in 1 .. Len(all) : OneOf(all[i], ranges, k + 1)
    BY <1>4, <1>6, <1>9, <2>3, <2>4
  <2>6. 1 \in 1 .. Len(all) /\ all # <<>>
    BY <1>3, <2>3
  <2>7. \A x : In(x, r) => Anyone(x, all)
    BY <2>3, <2>6 DEF Anyone
  <2>8. \A x : Anyone(x, rs) => Anyone(x, all)
    <3> SUFFICES ASSUME NEW x, NEW i \in 1 .. Len(rs), In(x, rs[i]) PROVE Anyone(x, all)
      BY DEF Anyone
    <3>1. i + 1 \in 1 .. Len(all) /\ all[i + 1] = rs[i]
      BY <1>3, <2>3
    <3> QED
      BY <3>1 DEF Anyone
  <2>9. \A m \in 1 .. k + 1 : \A x \in Nat : In(x, ranges[m]) => Anyone(x, all)
    BY <1>5, <2>7, <2>8 DEF SplitSoFar
  <2>10. In(e, r)
    BY <1>2, <1>13 DEF In
  <2>11. Begins(all, ranges, e, k + 1)
    BY <1>8, <1>13, <2>3, <2>6, <2>10 DEF Begins
  <2> QED
    BY <1>1, <2>2, <2>3, <2>5, <2>9, <2>11 DEF SplitSoFar
<1>14. CASE r.lo # r.hi /\ ~(r.lo <= e /\ e < r.hi)
  <2>1. PICK all : all = rs \o <<r>>
    BY Zenon
  <2>2. Placed(rs, r, e) = all
    <3>1. PICK placed, other, front :
            /\ placed = Placed(rs, r, e) /\ front = <<r>> \o rs
            /\ other = (<<Piece(e, r.hi)>> \o rs) \o <<Piece(r.lo, e)>>
      BY Zenon
    <3>2. placed = IF r.lo = r.hi THEN rs
                   ELSE IF r.lo < e /\ e < r.hi THEN other
                   ELSE IF r.lo = e /\ e < r.hi THEN front
                   ELSE all
      BY <1>2, <1>3, <2>1, <3>1, PlacedIs, Zenon
    <3> QED
      BY <1>2, <1>14, <3>1, <3>2
  <2>3. /\ Disjoint(all) /\ Len(all) = Len(rs) + 1 /\ all[Len(rs) + 1] = r
        /\ \A i \in 1 .. Len(rs) : all[i] = rs[i]
    <3>1. r.lo < r.hi /\ \A i \in 1 .. Len(rs) : Apart(rs[i], r)
      BY <1>2, <1>7, <1>9, <1>14
    <3> QED
      <4>1. Fresh(rs, r)
        BY <1>2, <1>3, <3>1 DEF Fresh
      <4>2. PutLast(all, rs, r)
        BY <2>1, <4>1, DisjointBehind, Zenon
      <4> QED
        BY <4>2 DEF PutLast
  <2>4. \A i \in 1 .. Len(all) : i = Len(rs) + 1 \/ i \in 1 .. Len(rs)
    BY <1>3, <2>3
  <2>5. \A i \in 1 .. Len(all) : OneOf(all[i], ranges, k + 1)
    BY <1>4, <1>6, <1>9, <2>3, <2>4
  <2>6. Len(rs) + 1 \in 1 .. Len(all) /\ all # <<>>
    BY <1>3, <2>3
  <2>7. \A x : In(x, r) => Anyone(x, all)
    BY <2>3, <2>6 DEF Anyone
  <2>8. \A x : Anyone(x, rs) => Anyone(x, all)
    <3> SUFFICES ASSUME NEW x, NEW i \in 1 .. Len(rs), In(x, rs[i]) PROVE Anyone(x, all)
      BY DEF Anyone
    <3>1. i \in 1 .. Len(all) /\ all[i] = rs[i]
      BY <1>3, <2>3
    <3> QED
      BY <3>1 DEF Anyone
  <2>9. \A m \in 1 .. k + 1 : \A x \in Nat : In(x, ranges[m]) => Anyone(x, all)
    BY <1>5, <2>7, <2>8 DEF SplitSoFar
  <2>10. ~In(e, r)
    BY <1>2, <1>14 DEF In
  <2>11. rs # <<>> => all[1] = rs[1]
    BY <1>3, <2>3
  <2>12. Begins(all, ranges, e, k + 1)
    <3>1. CASE Entered(ranges, e, k)
      BY <1>8, <2>6, <2>10, <2>11, <3>1 DEF SplitSoFar, Begins
    <3>2. ASSUME ~Entered(ranges, e, k), NEW m, FirstOf(ranges, m, k + 1)
          PROVE  all[1] = ranges[m]
      <4>1. CASE FirstOf(ranges, m, k)
        BY <2>11, <3>2, <4>1 DEF SplitSoFar, Begins
      <4>2. CASE m = k + 1 /\ ~FirstOf(ranges, m, k)
        <5>1. \A i \in 1 .. k : ranges[i].lo = ranges[i].hi
          BY <3>2, <4>2 DEF FirstOf
        <5>2. rs = <<>>
          <6> SUFFICES ASSUME rs # <<>> PROVE FALSE
            OBVIOUS
          <6>1. 1 \in 1 .. Len(rs) /\ rs[1] \in Range0 /\ rs[1].lo < rs[1].hi
            BY <1>3 DEF Disjoint
          <6>2. PICK i \in 1 .. k : InSpan(rs[1], ranges[i])
            BY <6>1 DEF SplitSoFar, OneOf
          <6>3. i \in 1 .. Len(ranges) /\ ranges[i] \in Range0
            BY <6>2 DEF RangesOK
          <6> QED
            BY <5>1, <6>1, <6>2, <6>3 DEF InSpan, Range0
        <5>3. all[1] = r
          BY <2>3, <5>2
        <5> QED
          BY <1>1, <4>2, <5>3
      <4> QED
        BY <1>10, <3>2, <4>1, <4>2
    <3> QED
      BY <1>8, <2>6, <2>10, <3>1, <3>2 DEF Begins
  <2> QED
    BY <1>1, <2>2, <2>3, <2>5, <2>9, <2>12 DEF SplitSoFar
<1> QED
  BY <1>2, <1>11, <1>12, <1>13, <1>14

LEMMA SplittingNext ==
  ASSUME NEW f, NEW ranges, NEW entry, NEW n \in Nat, Splitting(f, ranges, entry, n)
  PROVE  f[0] = <<>> /\ \A k \in 1 .. n : f[k] = Placed(f[k - 1], ranges[k], entry)
<1> DEFINE G(j) == IF j = 0 THEN <<>> ELSE Placed(f[j - 1], ranges[j], entry)
<1>1. f = [j \in 0 .. n |-> G(j)]
  BY Zenon DEF Splitting
<1> HIDE DEF G
<1>2. \A k \in 0 .. n : f[k] = G(k)
  BY <1>1
<1>3. \A k \in 1 .. n : k \in 0 .. n /\ k # 0
  OBVIOUS
<1>4. 0 \in 0 .. n
  OBVIOUS
<1> QED
  BY <1>2, <1>3, <1>4 DEF G

LEMMA SplitRangesIs ==
  ASSUME NEW ranges, RangesOK(ranges), NEW e \in Nat
  PROVE  SplitSoFar(SplitRanges(ranges, e), ranges, e, Len(ranges))
<1>1. PICK n : n = Len(ranges)
  BY Zenon
<1>2. n \in Nat
  BY <1>1 DEF RangesOK
<1>3. PICK f : Splitting(f, ranges, e, n) /\ SplitRanges(ranges, e) = f[n]
  BY <1>1, <1>2, SplittingIs
<1>4. f[0] = <<>> /\ \A k \in 1 .. n : f[k] = Placed(f[k - 1], ranges[k], e)
  BY <1>2, <1>3, SplittingNext
<1> DEFINE S == {k \in 0 .. n : ~SplitSoFar(f[k], ranges, e, k)}
<1>5. ASSUME S # {} PROVE FALSE
  <2>1. PICK k \in S : \A j \in S : k <= j
    <3>1. S \in SUBSET Nat
      BY <1>2
    <3> QED
      BY <1>5, <3>1, NatLeast
  <2>2. k # 0
    <3>1. SplitSoFar(<<>>, ranges, e, 0)
      <4>1. Disjoint(<<>>)
        BY DEF Disjoint
      <4>2. Begins(<<>>, ranges, e, 0)
        BY DEF Begins, Entered, FirstOf
      <4> QED
        BY <4>1, <4>2 DEF SplitSoFar
    <3> QED
      BY <1>4, <2>1, <3>1
  <2>3. PICK j : j = k - 1
    BY Zenon
  <2>4. j \in Nat /\ j + 1 = k /\ k \in 1 .. n /\ j \in 0 .. n
    BY <1>2, <2>1, <2>2, <2>3
  <2>5. SplitSoFar(f[j], ranges, e, j)
    BY <2>1, <2>4
  <2>6. SplitSoFar(Placed(f[j], ranges[j + 1], e), ranges, e, j + 1)
    BY <1>1, <2>4, <2>5, SplitStep
  <2>7. f[k] = Placed(f[j], ranges[j + 1], e)
    BY <1>4, <2>3, <2>4
  <2> QED
    BY <2>1, <2>4, <2>6, <2>7
<1> QED
  BY <1>1, <1>2, <1>3, <1>5


(* The entry point of a DIE of a unit.                                     *)
EntryIn(u, die) ==
  IF die.pcentry # 0 THEN die.pcentry
  ELSE IF die.pclo # 0 THEN die.pclo
  ELSE LET read == RangesRead(BaseOf(u), ListIn(u, die.ranges))
       IN  read[Min({i \in DOMAIN read : read[i].lo < read[i].hi})].lo

LEMMA SplitNone ==
  ASSUME NEW ranges, NEW e
  PROVE  SplitSoFar(<<>>, ranges, e, 0)
<1>1. Disjoint(<<>>)
  BY DEF Disjoint
<1>2. Begins(<<>>, ranges, e, 0)
  BY DEF Begins, Entered, FirstOf
<1> QED
  BY <1>1, <1>2 DEF SplitSoFar

(* Ranges that have the code of a DIE.                                     *)
Ranged(R, u, die) ==
  /\ RangesOK(R)
  /\ \A i \in 1 .. Len(R) : codeSegOff <= R[i].lo
  /\ \A a \in Nat : a \in CodeIn(u, die) <=> Anyone(a, R)
  /\ die.pcentry = 0 =>
       \A m : FirstOf(R, m, Len(R)) => R[m].lo = EntryIn(u, die)

(* What getRanges must return: all of the DIE's code, once, from its entry *)
(* point on.                                                               *)
Coded(u, die, rs) ==
  /\ Disjoint(rs)
  /\ \A i \in 1 .. Len(rs) : codeSegOff <= rs[i].lo
  /\ \A a \in Nat : a \in CodeIn(u, die) <=> Anyone(a, rs)
  /\ rs # <<>> => rs[1].lo = EntryIn(u, die)

LEMMA FirstIn ==
  ASSUME NEW R, RangesOK(R), NEW i \in 1 .. Len(R), R[i].lo < R[i].hi
  PROVE  \E m : FirstOf(R, m, Len(R))
<1> DEFINE S == {j \in 1 .. Len(R) : R[j].lo < R[j].hi}
<1>1. S \in SUBSET Nat /\ S # {}
  OBVIOUS
<1>2. PICK m \in S : \A j \in S : m <= j
  BY <1>1, NatLeast
<1>3. m \in 1 .. Len(R) /\ R[m].lo < R[m].hi /\ Len(R) \in Nat
  BY DEF RangesOK
<1>4. ASSUME NEW j \in 1 .. m - 1 PROVE R[j].lo = R[j].hi
  <2>1. j \in 1 .. Len(R) /\ ~(m <= j)
    BY <1>3
  <2>2. R[j] \in Range0 /\ R[j].lo <= R[j].hi /\ ~(R[j].lo < R[j].hi)
    BY <1>2, <2>1 DEF RangesOK
  <2> QED
    BY <2>2 DEF Range0
<1> QED
  BY <1>3, <1>4 DEF FirstOf

LEMMA SplitIsCode ==
  ASSUME NEW u, NEW die, die.pcentry \in Nat, NEW R, Ranged(R, u, die),
         die.pcentry # 0 => die.pcentry \in CodeIn(u, die),
         codeSegOff \in Nat \ {0},
         NEW rs, SplitSoFar(rs, R, die.pcentry, Len(R))
  PROVE  Coded(u, die, rs)
<1>1. /\ RangesOK(R) /\ Disjoint(rs) /\ Len(R) \in Nat /\ Len(rs) \in Nat
      /\ rs \in Seq(Range0)
  BY DEF Ranged, SplitSoFar, RangesOK, Disjoint
<1>2. \A i \in 1 .. Len(R) : R[i] \in Range0 /\ codeSegOff <= R[i].lo
  BY <1>1 DEF RangesOK, Ranged
<1>3. \A i \in 1 .. Len(rs) : rs[i] \in Range0 /\ rs[i].lo < rs[i].hi
  BY <1>1 DEF Disjoint
<1>4. \A i \in 1 .. Len(rs) : \E m \in 1 .. Len(R) : InSpan(rs[i], R[m])
  BY DEF SplitSoFar, OneOf
<1>5. ASSUME NEW i \in 1 .. Len(rs) PROVE codeSegOff <= rs[i].lo
  <2>1. PICK m \in 1 .. Len(R) : InSpan(rs[i], R[m])
    BY <1>4
  <2>2. R[m].lo <= rs[i].lo /\ codeSegOff <= R[m].lo
    BY <1>2, <2>1 DEF InSpan
  <2>3. R[m].lo \in Nat /\ rs[i].lo \in Nat
    BY <1>2, <1>3 DEF Range0
  <2> QED
    BY <2>2, <2>3
<1>6. ASSUME NEW a \in Nat PROVE a \in CodeIn(u, die) <=> Anyone(a, rs)
  <2>1. ASSUME Anyone(a, R) PROVE Anyone(a, rs)
    <3>1. PICK m \in 1 .. Len(R) : In(a, R[m])
      BY <2>1 DEF Anyone
    <3> QED
      BY <3>1 DEF SplitSoFar
  <2>2. ASSUME NEW i \in 1 .. Len(rs), In(a, rs[i]) PROVE Anyone(a, R)
    <3>1. PICK m \in 1 .. Len(R) : InSpan(rs[i], R[m])
      BY <1>4
    <3>2. rs[i] \in Range0 /\ R[m] \in Range0
      BY <1>2, <1>3
    <3>3. In(a, R[m])
      BY <2>2, <3>1, <3>2 DEF In, InSpan, Range0
    <3> QED
      BY <3>3 DEF Anyone
  <2>3. a \in CodeIn(u, die) <=> Anyone(a, R)
    BY DEF Ranged
  <2> QED
    BY <2>1, <2>2, <2>3 DEF Anyone
<1>7. ASSUME rs # <<>> PROVE rs[1].lo = EntryIn(u, die)
  <2>0. 1 \in 1 .. Len(rs)
    BY <1>1, <1>7
  <2>1. CASE die.pcentry # 0
    <3>1. Anyone(die.pcentry, R)
      BY <2>1 DEF Ranged
    <3>2. Entered(R, die.pcentry, Len(R))
      BY <3>1 DEF Anyone, Entered
    <3>3. rs[1].lo = die.pcentry
      BY <3>2 DEF SplitSoFar, Begins
    <3> QED
      BY <2>1, <3>3 DEF EntryIn
  <2>2. CASE die.pcentry = 0
    <3>1. ~Entered(R, die.pcentry, Len(R))
      <4> SUFFICES ASSUME NEW m \in 1 .. Len(R), In(die.pcentry, R[m]) PROVE FALSE
        BY DEF Entered
      <4>1. R[m].lo \in Nat /\ codeSegOff <= R[m].lo /\ R[m].lo <= 0
        BY <1>2, <2>2 DEF In, Range0
      <4> QED
        BY <4>1
    <3>2. PICK j \in 1 .. Len(R) : InSpan(rs[1], R[j])
      BY <1>4, <2>0
    <3>3. R[j].lo < R[j].hi
      <4>1. rs[1] \in Range0 /\ R[j] \in Range0 /\ rs[1].lo < rs[1].hi
        BY <1>2, <1>3, <2>0
      <4> QED
        BY <3>2, <4>1 DEF InSpan, Range0
    <3>4. PICK m : FirstOf(R, m, Len(R))
      BY <1>1, <3>3, FirstIn
    <3>5. rs[1] = R[m]
      BY <3>1, <3>4 DEF SplitSoFar, Begins
    <3>6. R[m].lo = EntryIn(u, die)
      BY <2>2, <3>4 DEF Ranged
    <3> QED
      BY <3>5, <3>6
  <2> QED
    BY <2>1, <2>2
<1> QED
  BY <1>1, <1>5, <1>6, <1>7 DEF Coded

LEMMA SpanType ==
  ASSUME NEW u, NEW list, Fitting(u, list), NEW i \in 1 .. Len(Listed(list)),
         list[i].kind # "base"
  PROVE  SpanOf(u, list, i) \in Range0
<1>1. list[i] \in ListEntry /\ i \in 1 .. Len(list) /\ list \in Seq(ListEntry)
  BY FittingSpan DEF Fitting
<1>2. InForce(u, list, i) \in Nat
  <2>1. CASE Earlier(u, list, i) = {}
    BY <2>1, BaseType DEF InForce, Fitting
  <2>2. CASE Earlier(u, list, i) # {}
    <3>1. PICK S, m : S = Earlier(u, list, i) /\ m = LastOf(S)
      BY Zenon
    <3>2. S \in SUBSET (0 .. i) /\ S # {}
      BY <2>2, <3>1 DEF Earlier
    <3>3. \E j \in S : \A k \in S : k <= j
      <4>1. i \in Nat
        BY <1>1
      <4> QED
        BY <3>2, <4>1, MaxIs
    <3>4. m \in S
      BY <3>1, <3>3, Zenon DEF LastOf
    <3>5. m \in 1 .. Len(list) /\ list[m] \in ListEntry
      BY <1>1, <3>1, <3>4 DEF Earlier
    <3>6. list[m].a \in Nat
      BY <3>5 DEF ListEntry
    <3> QED
      BY <2>2, <3>1, <3>6 DEF InForce
  <2> QED
    BY <2>1, <2>2
<1>3. list[i].a \in Nat /\ list[i].b \in Nat
  BY <1>1 DEF ListEntry
<1>4. PICK e, b : e = list[i] /\ b = InForce(u, list, i)
  BY Zenon
<1>5. SpanOf(u, list, i) = EntrySpan(e, b)
  BY <1>4, FittingSpan
<1>6. e.kind \in {"pair", "offset_pair", "start_end", "start_length"}
  BY <1>4, FittingSpan
<1>7. PICK v, w : v = e.a /\ w = e.b
  BY Zenon
<1>11. v \in Nat /\ w \in Nat /\ b \in Nat
  BY <1>2, <1>3, <1>4, <1>7, Zenon
<1>12. PICK x, y, z : x = b + v /\ y = b + w /\ z = v + w
  BY Zenon
<1>8. x \in Nat /\ y \in Nat /\ z \in Nat
  BY <1>11, <1>12
<1>9. EntrySpan(e, b) \in {Piece(x, y), Piece(v, w), Piece(v, z)}
  BY <1>6, <1>7, <1>12 DEF EntrySpan, Piece
<1>10. \A m, n \in Nat : Piece(m, n) \in Range0
  BY DEF Piece, Range0
<1> QED
  BY <1>5, <1>8, <1>9, <1>10, <1>11

LEMMA ListRanged ==
  ASSUME NEW u \in Units, NEW die, die.pclo = 0, NEW list,
         list = ListIn(u, die.ranges), Fitting(u, list), codeSegOff \in Nat \ {0},
         NEW R, R = RangesRead(BaseOf(u), list)
  PROVE  Ranged(R, u, die)
<1>1. PICK base : ReadSoFar(u, list, base, R, Len(Listed(list)))
  BY RangesReadIs
<1>2. R \in Seq(Range0) /\ Len(R) \in Nat /\ DOMAIN R = 1 .. Len(R)
  BY <1>1 DEF ReadSoFar
<1>3. ASSUME NEW j \in 1 .. Len(R)
      PROVE  \E i \in 1 .. Len(Listed(list)) :
               list[i].kind # "base" /\ R[j] = SpanOf(u, list, i)
  BY <1>1 DEF ReadSoFar, SpanRead
<1>4. ASSUME NEW j \in 1 .. Len(R)
      PROVE  /\ codeSegOff <= R[j].lo /\ R[j].lo <= R[j].hi
             /\ R[j].lo .. R[j].hi - 1 \subseteq Addresses
  <2>1. PICK i \in 1 .. Len(Listed(list)) :
               list[i].kind # "base" /\ R[j] = SpanOf(u, list, i)
    BY <1>3
  <2> QED
    BY <2>1, FittingSpan
<1>5. RangesOK(R)
  <2>1. \A i, j \in 1 .. Len(R) : i < j => Apart(R[i], R[j])
    BY <1>1 DEF ReadSoFar
  <2> QED
    BY <1>2, <1>4, <2>1 DEF RangesOK
<1>6. ASSUME NEW a \in Nat PROVE a \in CodeIn(u, die) <=> Anyone(a, R)
  <2>1. CodeIn(u, die) = {x \in Addresses : EntriesFor(u, list, x) # {}}
    BY DEF CodeIn
  <2>2. EntriesFor(u, list, a) =
           {i \in 1 .. Len(Listed(list)) : list[i].kind # "base" /\ In(a, SpanOf(u, list, i))}
    BY CoversIs
  <2>3. ASSUME a \in CodeIn(u, die) PROVE Anyone(a, R)
    <3>1. PICK i \in 1 .. Len(Listed(list)) :
                 list[i].kind # "base" /\ In(a, SpanOf(u, list, i))
      BY <2>1, <2>2, <2>3
    <3>2. PICK s : s = SpanOf(u, list, i)
      BY Zenon
    <3>4. \E j \in 1 .. Len(R) : In(a, R[j])
      <4>1. s.lo < s.hi => \E j \in 1 .. Len(R) : R[j] = s
        BY <1>1, <3>1, <3>2 DEF ReadSoFar
      <4>2. s = EntrySpan(list[i], InForce(u, list, i)) /\ list[i] \in ListEntry
        BY <3>2, FittingSpan
      <4>3. In(a, s)
        BY <3>1, <3>2
      <4>4. s.lo <= s.hi => s.lo < s.hi
        <5> SUFFICES ASSUME s.lo = s.hi PROVE FALSE
          BY <3>1, <3>2, SpanType DEF Range0
        <5>1. s.lo <= a /\ a < s.lo
          BY <4>3 DEF In
        <5>2. s.lo \in Nat
          BY <3>1, <3>2, SpanType DEF Range0
        <5> QED
          BY <5>1, <5>2
      <4>5. s.lo <= s.hi
        BY <3>1, <3>2, FittingSpan
      <4> QED
        BY <4>1, <4>3, <4>4, <4>5
    <3> QED
      BY <3>4 DEF Anyone
  <2>4. ASSUME NEW j \in 1 .. Len(R), In(a, R[j]) PROVE a \in CodeIn(u, die)
    <3>1. PICK i \in 1 .. Len(Listed(list)) :
               list[i].kind # "base" /\ R[j] = SpanOf(u, list, i)
      BY <1>3
    <3>2. i \in EntriesFor(u, list, a)
      BY <2>2, <2>4, <3>1
    <3>3. R[j] \in Range0
      BY <1>2
    <3>4. a \in R[j].lo .. R[j].hi - 1
      BY <2>4, <3>3 DEF In, Range0
    <3>5. a \in Addresses
      BY <1>4, <3>4
    <3> QED
      BY <2>1, <3>2, <3>5
  <2> QED
    BY <2>3, <2>4 DEF Anyone
<1>7. ASSUME die.pcentry = 0, NEW m, FirstOf(R, m, Len(R)) PROVE R[m].lo = EntryIn(u, die)
  <2> DEFINE S == {i \in DOMAIN R : R[i].lo < R[i].hi}
  <2>1. S \subseteq Nat /\ m \in S
    BY <1>2, <1>7 DEF FirstOf
  <2>2. Min(S) \in S /\ \A i \in S : Min(S) <= i
    <3> HIDE DEF S
    <3> QED
      BY <2>1, MinIs
  <2>3. PICK x : x = Min(S)
    BY Zenon
  <2>4. x \in 1 .. Len(R) /\ x <= m /\ R[x].lo < R[x].hi
    BY <1>2, <2>1, <2>2, <2>3
  <2>5. x = m
    <3> SUFFICES ASSUME x # m PROVE FALSE
      OBVIOUS
    <3>1. m \in 1 .. Len(R) /\ \A i \in 1 .. m - 1 : R[i].lo = R[i].hi
      BY <1>7 DEF FirstOf
    <3>2. x \in 1 .. m - 1
      BY <2>4, <3>1
    <3>3. R[x].lo = R[x].hi /\ R[x] \in Range0
      BY <1>2, <2>4, <3>1, <3>2
    <3> QED
      BY <2>4, <3>3 DEF Range0
  <2>6. EntryIn(u, die) = R[Min(S)].lo
    BY <1>7 DEF EntryIn
  <2> QED
    <3> HIDE DEF S
    <3> QED
      BY <2>3, <2>5, <2>6
<1> QED
  BY <1>4, <1>5, <1>6, <1>7 DEF Ranged

LEMMA SpanRanged ==
  ASSUME NEW u, NEW die, die.pclo \in Nat \ {0}, die.pchi \in Nat, die.pclo < die.pchi,
         codeSegOff <= die.pclo,
         NEW R, R = <<Piece(die.pclo, die.pchi)>>
  PROVE  Ranged(R, u, die)
<1>1. PICK r : r = Piece(die.pclo, die.pchi)
  BY Zenon
<1>2. /\ r \in Range0 /\ r.lo = die.pclo /\ r.hi = die.pchi
  BY <1>1 DEF Piece, Range0
<1>3. R \in Seq(Range0) /\ Len(R) = 1 /\ R[1] = r
  BY <1>1, <1>2
<1>4. RangesOK(R)
  BY <1>2, <1>3 DEF RangesOK
<1>5. ASSUME NEW a \in Nat PROVE a \in CodeIn(u, die) <=> Anyone(a, R)
  <2>1. CodeIn(u, die) = die.pclo .. die.pchi - 1
    BY DEF CodeIn
  <2>2. Anyone(a, R) <=> In(a, r)
    BY <1>3 DEF Anyone
  <2> QED
    BY <1>2, <2>1, <2>2 DEF In
<1>6. die.pcentry = 0 => \A m : FirstOf(R, m, Len(R)) => R[m].lo = EntryIn(u, die)
  BY <1>2, <1>3 DEF FirstOf, EntryIn
<1> QED
  BY <1>2, <1>3, <1>4, <1>5, <1>6 DEF Ranged

(* getRanges returns all of a DIE's code, each address once, and the part  *)
(* from the entry point on first.                                          *)
THEOREM RangesCoverCode ==
  ASSUME NEW u \in Units, NEW i \in 1 .. Len(u.dies),
         NEW die, die = u.dies[i], CodeFits(u, die)
  PROVE  Coded(u, die, getRanges(BaseOf(u), die, ListIn(u, die.ranges)))
<1>1. /\ die.pclo \in Nat /\ die.pchi \in Nat /\ die.pcentry \in Nat
  BY DieIs DEF Die
<1>2. codeSegOff \in Nat \ {0}
  BY UnitsAssumption
<1>3. PICK list : list = ListIn(u, die.ranges)
  BY Zenon
<1>4. Fitting(u, list)
  <2>1. die.ranges \in {0} \cup DOMAIN u.lists /\ RangesFit(u, list)
    BY <1>3 DEF CodeFits
  <2> QED
    BY <1>3, <2>1, ListIs DEF Fitting
<1>5. die.pcentry # 0 => die.pcentry \in CodeIn(u, die)
  BY DEF CodeFits
<1>6. CASE die.pclo = 0
  <2>1. PICK R : R = RangesRead(BaseOf(u), list)
    BY Zenon
  <2>2. Ranged(R, u, die)
    BY <1>2, <1>3, <1>4, <1>6, <2>1, ListRanged
  <2>3. SplitSoFar(SplitRanges(R, die.pcentry), R, die.pcentry, Len(R))
    BY <1>1, <2>2, SplitRangesIs DEF Ranged
  <2>4. getRanges(BaseOf(u), die, list) = SplitRanges(R, die.pcentry)
    BY <1>6, <2>1 DEF getRanges
  <2> QED
    BY <1>1, <1>2, <1>3, <1>5, <2>2, <2>3, <2>4, SplitIsCode
<1>7. CASE die.pclo # 0 /\ die.pchi \notin {0, die.pclo}
  <2>1. PICK R : R = <<Piece(die.pclo, die.pchi)>>
    BY Zenon
  <2>2. codeSegOff <= die.pclo /\ die.pclo < die.pchi
    BY <1>1, <1>7 DEF CodeFits
  <2>3. Ranged(R, u, die)
    BY <1>1, <1>2, <1>7, <2>1, <2>2, SpanRanged
  <2>4. SplitSoFar(SplitRanges(R, die.pcentry), R, die.pcentry, Len(R))
    BY <1>1, <2>3, SplitRangesIs DEF Ranged
  <2>5. getRanges(BaseOf(u), die, list) = SplitRanges(R, die.pcentry)
    BY <1>7, <2>1 DEF getRanges, Piece
  <2> QED
    BY <1>1, <1>2, <1>3, <1>5, <2>3, <2>4, <2>5, SplitIsCode
<1>8. CASE die.pclo # 0 /\ die.pchi \in {0, die.pclo}
  <2>1. getRanges(BaseOf(u), die, list) = <<>>
    BY <1>8 DEF getRanges
  <2>2. CodeIn(u, die) = {}
    BY <1>1, <1>8 DEF CodeIn
  <2>3. Disjoint(<<>>) /\ \A a : ~Anyone(a, <<>>)
    BY SplitNone DEF SplitSoFar, Anyone
  <2> QED
    BY <1>3, <2>1, <2>2, <2>3 DEF Coded
<1> QED
  BY <1>6, <1>7, <1>8

(* The range of a block: all its code is in it.                            *)
BlockIn(u, die) ==
  LET read == RangesRead(BaseOf(u), ListIn(u, die.ranges))
  IN  IF die.ranges = 0 THEN [lo |-> die.pclo, hi |-> die.pchi]
      ELSE IF read = <<>> THEN [lo |-> 0, hi |-> 0]
      ELSE [lo |-> Min({read[i].lo : i \in DOMAIN read}),
            hi |-> Max({read[i].hi : i \in DOMAIN read})]

Blocked(u, die, r) ==
  /\ r \in Range0
  /\ r.lo < r.hi => codeSegOff <= r.lo
  /\ \A a \in CodeIn(u, die) : a \in Nat => In(a, r)

LEMMA SpannedIs ==
  ASSUME NEW R \in Seq(Range0), R # <<>>,
         NEW lo, lo = Min({R[i].lo : i \in DOMAIN R}),
         NEW hi, hi = Max({R[i].hi : i \in DOMAIN R})
  PROVE  /\ lo \in Nat /\ hi \in Nat
         /\ \E i \in 1 .. Len(R) : lo = R[i].lo
         /\ \A i \in 1 .. Len(R) : lo <= R[i].lo /\ R[i].hi <= hi
<1> DEFINE los == {R[i].lo : i \in DOMAIN R}
           his == {R[i].hi : i \in DOMAIN R}
           f == [i \in 1 .. Len(R) |-> R[i].hi]
<1>1. Len(R) \in Nat /\ DOMAIN R = 1 .. Len(R) /\ 1 \in 1 .. Len(R)
  OBVIOUS
<1>2. \A i \in 1 .. Len(R) : R[i].lo \in Nat /\ R[i].hi \in Nat
  <2>1. \A i \in 1 .. Len(R) : R[i] \in Range0
    BY <1>1
  <2>2. \A r \in Range0 : r.lo \in Nat /\ r.hi \in Nat
    BY DEF Range0
  <2> QED
    BY <2>1, <2>2, Zenon
<1>3. los \in SUBSET Nat /\ los # {} /\ R[1].hi \in his
  BY <1>1, <1>2
<1>4. lo \in los /\ \A x \in los : lo <= x
  <2> HIDE DEF los
  <2>1. lo = Min(los)
    BY DEF los
  <2>2. Min(los) \in los /\ \A x \in los : Min(los) <= x
    BY ONLY <1>3, MinIs
  <2> QED
    BY ONLY <2>1, <2>2
<1>5. PICK b \in Nat : \A i \in 1 .. Len(R) : R[i].hi <= b
  <2>1. \A i \in 1 .. Len(R) : f[i] = R[i].hi /\ f[i] \in Nat
    BY <1>2
  <2> HIDE DEF f
  <2>2. \E b \in Nat : \A i \in 1 .. Len(R) : f[i] <= b
    BY <1>1, <2>1, Bounded
  <2> QED
    BY <2>1, <2>2
<1>6. his \in SUBSET (0 .. b)
  BY <1>1, <1>2, <1>5
<1>7. hi \in his /\ \A x \in his : x <= hi
  <2> HIDE DEF his
  <2>1. hi = Max(his) /\ his # {}
    BY <1>3 DEF his
  <2> QED
    BY <1>5, <1>6, <2>1, MaxIs
<1>8. hi \in Nat
  <2>1. hi \in 0 .. b
    BY <1>6, <1>7
  <2> QED
    BY <2>1
<1> QED
  BY <1>1, <1>3, <1>4, <1>7, <1>8

LEMMA BlockIs ==
  ASSUME NEW u \in Units, NEW i \in 1 .. Len(u.dies),
         NEW die, die = u.dies[i], CodeFits(u, die)
  PROVE  Blocked(u, die, BlockIn(u, die))
<1>1. /\ die.pclo \in Nat /\ die.pchi \in Nat /\ die.ranges \in Nat
  BY DieIs DEF Die
<1>2. codeSegOff \in Nat \ {0}
  BY UnitsAssumption
<1>3. PICK list, R : list = ListIn(u, die.ranges) /\ R = RangesRead(BaseOf(u), list)
  BY Zenon
<1>4. Fitting(u, list)
  <2>1. die.ranges \in {0} \cup DOMAIN u.lists /\ RangesFit(u, list)
    BY <1>3 DEF CodeFits
  <2> QED
    BY <1>3, <2>1, ListIs DEF Fitting
<1>5. CASE die.pclo # 0
  <2>1. die.ranges = 0 /\ codeSegOff <= die.pclo
    BY <1>5 DEF CodeFits
  <2>2. PICK r : r = BlockIn(u, die)
    BY Zenon
  <2>3. r = Piece(die.pclo, die.pchi)
    BY <2>1, <2>2 DEF BlockIn, Piece
  <2>4. r \in Range0 /\ r.lo = die.pclo /\ r.hi = die.pchi
    BY <1>1, <2>3 DEF Piece, Range0
  <2>5. CodeIn(u, die) = die.pclo .. die.pchi - 1
    BY <1>5 DEF CodeIn
  <2>6. \A a \in CodeIn(u, die) : a \in Nat => In(a, r)
    BY <1>1, <2>4, <2>5 DEF In
  <2> QED
    BY <2>1, <2>2, <2>4, <2>6 DEF Blocked
<1>6. CASE die.pclo = 0
  <2>0. Ranged(R, u, die)
    BY <1>2, <1>3, <1>4, <1>6, ListRanged
  <2>1. R \in Seq(Range0) /\ Len(R) \in Nat
    BY <2>0 DEF Ranged, RangesOK
  <2>2. die.pchi = 0
    BY <1>6 DEF CodeFits
  <2>3. CASE R = <<>>
    <3>1. BlockIn(u, die) = Piece(0, 0)
      BY <1>3, <1>6, <2>2, <2>3 DEF BlockIn, Piece
    <3>2. PICK r : r = Piece(0, 0)
      BY Zenon
    <3>3. r \in Range0 /\ r.lo = 0 /\ r.hi = 0
      BY <3>2 DEF Piece, Range0
    <3>4. \A a \in Nat : a \notin CodeIn(u, die)
      <4>1. \A a \in Nat : ~Anyone(a, R)
        BY <2>3 DEF Anyone
      <4> QED
        BY <2>0, <4>1 DEF Ranged
    <3> QED
      BY <3>1, <3>2, <3>3, <3>4 DEF Blocked
  <2>4. CASE R # <<>>
    <3>1. PICK lo, hi : lo = Min({R[j].lo : j \in DOMAIN R}) /\ hi = Max({R[j].hi : j \in DOMAIN R})
      BY Zenon
    <3>2. /\ lo \in Nat /\ hi \in Nat
          /\ \E j \in 1 .. Len(R) : lo = R[j].lo
          /\ \A j \in 1 .. Len(R) : lo <= R[j].lo /\ R[j].hi <= hi
      BY <2>1, <2>4, <3>1, SpannedIs
    <3>3. die.ranges # 0
      <4> SUFFICES ASSUME die.ranges = 0 PROVE FALSE
        OBVIOUS
      <4>1. list = <<>>
        BY <1>3 DEF ListIn
      <4>2. PICK base : ReadSoFar(u, list, base, R, Len(Listed(list)))
        BY <1>3, <1>4, RangesReadIs
      <4>3. Len(Listed(list)) = 0
        <5>1. list \in Seq(ListEntry) /\ Len(list) = 0
          BY <1>4, <4>1 DEF Fitting
        <5>2. Len(Listed(list)) \in 0 .. 0
          BY <5>1, ListedIs
        <5> QED
          BY <5>2
      <4>4. 1 \in 1 .. Len(R)
        BY <2>1, <2>4
      <4>5. SpanRead(u, list, R[1], Len(Listed(list)))
        BY <4>2, <4>4 DEF ReadSoFar
      <4> QED
        BY <4>3, <4>5 DEF SpanRead
    <3>4. BlockIn(u, die) = Piece(lo, hi)
      BY <1>3, <2>4, <3>1, <3>3 DEF BlockIn, Piece
    <3>5. PICK r : r = Piece(lo, hi)
      BY Zenon
    <3>6. r \in Range0 /\ r.lo = lo /\ r.hi = hi
      BY <3>2, <3>5 DEF Piece, Range0
    <3>7. codeSegOff <= r.lo
      BY <2>0, <3>2, <3>6 DEF Ranged
    <3>8. ASSUME NEW a \in Nat, a \in CodeIn(u, die) PROVE In(a, r)
      <4>1. PICK j \in 1 .. Len(R) : In(a, R[j])
        BY <2>0, <3>8 DEF Ranged, Anyone
      <4>2. R[j] \in Range0 /\ lo <= R[j].lo /\ R[j].hi <= hi
        BY <2>1, <3>2
      <4> QED
        BY <3>2, <3>6, <4>1, <4>2 DEF In, Range0
    <3> QED
      BY <3>4, <3>5, <3>6, <3>7, <3>8 DEF Blocked
  <2> QED
    BY <2>3, <2>4
<1> QED
  BY <1>1, <1>5, <1>6
-----------------------------------------------------------------------------
(***************************************************************************)
(* The cursors.  Whatever cursor reads on, over null entries or not: it    *)
(* comes to a DIE of the unit that is not before it, or to none, and stays *)
(* in the unit or at its end.                                              *)
(***************************************************************************)

Place(u, c) == c \in Cursor /\ c.ptr \in 1 .. Len(u) + 1

LEMMA RestIs ==
  ASSUME NEW u, IsUnit(u), NEW c, Place(u, c), NEW at, at = AfterNulls(u, c)
  PROVE  /\ at \in c.ptr .. Len(u) + 1
         /\ at = Len(u) + 1 \/ ~IsNull(u[at]) \/ LevelOf(c) - (at - c.ptr) = -1
         /\ \A i \in c.ptr .. at - 1 : IsNull(u[i]) /\ LevelOf(c) - (i - c.ptr) # -1
<1> DEFINE S == {i \in c.ptr .. Len(u) + 1 :
                   \/ i = Len(u) + 1 \/ ~IsNull(u[i])
                   \/ LevelOf(c) - (i - c.ptr) = -1}
<1>1. Len(u) \in Nat
  BY UnitIsTree
<1>2. c.ptr \in Nat /\ c.ptr \in 1 .. Len(u) + 1
  BY DEF Place, Cursor
<1>3. Len(u) + 1 \in S /\ S \subseteq Nat
  BY <1>1, <1>2
<1>4. at = Min(S)
  BY DEF AfterNulls
<1>5. at \in S /\ \A i \in S : at <= i
  <2> HIDE DEF S
  <2>1. S # {}
    BY <1>3
  <2> QED
    BY <1>3, <1>4, <2>1, MinIs
<1>6. \A i \in c.ptr .. at - 1 : i \notin S /\ i \in c.ptr .. Len(u) + 1
  BY <1>1, <1>2, <1>5
<1> QED
  BY <1>5, <1>6

(* What readNext returns, from a level that is Int.                        *)
Comes(u, c, r) ==
  /\ Place(u, r.cursor)
  /\ r.die # 0 =>
       /\ r.die \in c.ptr .. Len(u) /\ ~IsNull(u[r.die])
       /\ \E l \in Int : r.cursor = Having(u, r.die, l)

LEMMA LevelType ==
  ASSUME NEW c \in Cursor
  PROVE  LevelOf(c) \in Int
<1>1. c.level \in Int
  BY DEF Cursor
<1> QED
  BY <1>1 DEF LevelOf

Moved(m, n, p) == m \in Cursor /\ m.ptr = p /\ n \in Cursor /\ n.ptr = p + 1

LEMMA MovedIs ==
  ASSUME NEW c \in Cursor, NEW p \in Nat, NEW l \in Int, NEW k \in Int, NEW b, b = FALSE,
         NEW m, m = [c EXCEPT !.ptr = p, !.level = l],
         NEW n, n = [m EXCEPT !.ptr = p + 1, !.level = k, !.prevHasChild = b]
  PROVE  Moved(m, n, p)
<1>1. PICK q : q = p + 1
  BY Zenon
<1>2. q \in Nat
  BY <1>1
<1>3. b \in BOOLEAN
  BY Zenon
<1>4. m \in Cursor /\ m.ptr = p
  BY DEF Cursor
<1>5. n \in Cursor /\ n.ptr = q
  BY <1>1, <1>2, <1>3, <1>4 DEF Cursor
<1> QED
  BY <1>1, <1>4, <1>5 DEF Moved

LEMMA ReadComes ==
  ASSUME NEW u, IsUnit(u), NEW c, Place(u, c), NEW stop \in BOOLEAN,
         NEW r, r = readNext(u, c, stop)
  PROVE  Comes(u, c, r)
<1> DEFINE at == IF stop THEN c.ptr ELSE AfterNulls(u, c)
<1>1. PICK t : t = at
  BY Zenon
<1>2. Len(u) \in Nat /\ c \in Cursor /\ c.ptr \in 1 .. Len(u) + 1 /\ c.ptr \in Nat
  BY UnitIsTree DEF Place, Cursor
<1>3. t \in c.ptr .. Len(u) + 1
  <2>1. AfterNulls(u, c) \in c.ptr .. Len(u) + 1
    BY RestIs
  <2> QED
    BY <1>1, <1>2, <2>1
<1>4. PICK l : l = LevelOf(c) - (t - c.ptr)
  BY Zenon
<1>5. l \in Int /\ t \in Nat /\ t \in 1 .. Len(u) + 1
  BY <1>2, <1>3, <1>4, LevelType
<1>6. PICK b, m, k, n :
        /\ b = FALSE /\ m = [c EXCEPT !.ptr = t, !.level = l] /\ k = l - 1
        /\ n = [m EXCEPT !.ptr = t + 1, !.level = k, !.prevHasChild = b]
  BY Zenon
<1>7. k \in Int
  BY <1>5, <1>6
<1>8. r = IF l = -1 \/ t > Len(u) THEN [cursor |-> m, die |-> 0]
          ELSE IF IsNull(u[t])
          THEN [cursor |-> n, die |-> 0]
          ELSE [cursor |-> [ptr |-> t + 1, level |-> l, prevHasChild |-> u[t].hasChild,
                            sibling |-> u[t].sibling],
                die |-> t]
  BY <1>1, <1>4, <1>6 DEF readNext
<1>9. m \in Cursor /\ m.ptr = t /\ n \in Cursor /\ n.ptr = t + 1
  <2>1. Moved(m, n, t)
    BY <1>2, <1>5, <1>6, <1>7, MovedIs, Zenon
  <2> QED
    BY <2>1 DEF Moved
<1>10. CASE l = -1 \/ t > Len(u)
  <2>1. r.cursor = m /\ r.die = 0
    BY <1>8, <1>10
  <2> QED
    BY <1>5, <1>9, <2>1 DEF Comes, Place
<1>11. CASE ~(l = -1 \/ t > Len(u)) /\ IsNull(u[t])
  <2>1. r.cursor = n /\ r.die = 0
    BY <1>8, <1>11
  <2>2. t + 1 \in 1 .. Len(u) + 1
    BY <1>2, <1>5, <1>11
  <2> QED
    BY <1>9, <2>1, <2>2 DEF Comes, Place
<1>12. CASE ~(l = -1 \/ t > Len(u)) /\ ~IsNull(u[t])
  <2>1. r.cursor = Having(u, t, l) /\ r.die = t
    BY <1>8, <1>12 DEF Having
  <2>2. t \in 1 .. Len(u) /\ t \in c.ptr .. Len(u)
    BY <1>2, <1>3, <1>5, <1>12
  <2>3. Having(u, t, l) \in Cursor
    BY <1>5, <2>2, HavingType
  <2>4. r.cursor.ptr = t + 1
    BY <2>1 DEF Having
  <2>5. t + 1 \in 1 .. Len(u) + 1
    BY <1>2, <2>2
  <2> QED
    BY <1>5, <1>12, <2>1, <2>2, <2>3, <2>4, <2>5 DEF Comes, Place
<1> QED
  BY <1>10, <1>11, <1>12

(* A DIE's sibling, and the subtree of a DIE.                              *)
LEMMA SiblingPlace ==
  ASSUME NEW u, IsUnit(u), NEW p \in 1 .. Len(u), NEW l \in Int
  PROVE  Place(u, gotoSibling(u, Having(u, p, l)))
<1>1. PICK c : c = gotoSibling(u, Having(u, p, l))
  BY Zenon
<1>2. c \in Cursor /\ c.ptr = NextSibling(u, p)
  BY <1>1, GoesToSibling
<1>3. Len(u) \in Nat
  BY UnitIsTree
<1>4. CASE u[p].hasChild
  <2>1. EndOfLevel(u, p + 1) \in p + 2 .. Len(u)
    BY <1>4, LevelsEnd
  <2> QED
    BY <1>1, <1>2, <1>3, <1>4, <2>1 DEF NextSibling, Place
<1>5. CASE ~u[p].hasChild
  BY <1>1, <1>2, <1>3, <1>5 DEF NextSibling, Place
<1> QED
  BY <1>4, <1>5

LEMMA SubtreePlace ==
  ASSUME NEW u, NEW c, Place(u, c)
  PROVE  Place(u, Subtree(c)) /\ Subtree(c).ptr = c.ptr
<1>1. PICK b, l : b = FALSE /\ l = IF c.prevHasChild THEN 0 ELSE -1
  BY Zenon
<1>2. l \in Int
  BY <1>1
<1>6. b \in BOOLEAN
  BY <1>1, Zenon
<1>3. Subtree(c) = [c EXCEPT !.level = l, !.prevHasChild = b]
  BY <1>1 DEF Subtree
<1>4. [c EXCEPT !.level = l, !.prevHasChild = b] \in Cursor
  BY <1>2, <1>6 DEF Cursor, Place
<1>5. [c EXCEPT !.level = l, !.prevHasChild = b].ptr = c.ptr
  BY DEF Cursor, Place
<1> QED
  BY <1>3, <1>4, <1>5 DEF Place

(* The levels that an entry of a unit is in: those that have begun before  *)
(* it, and do not end before it.                                           *)
Open(u, i)  == {p \in 1 .. i - 1 : u[p].hasChild /\ i <= EndOfLevel(u, p + 1)}
Level(u, i) == Cardinality(Open(u, i))

LEMMA OpenFinite ==
  ASSUME NEW u, NEW i \in Nat
  PROVE  IsFiniteSet(Open(u, i)) /\ Level(u, i) \in Nat
<1>1. i - 1 \in Int
  OBVIOUS
<1>2. IsFiniteSet(1 .. i - 1)
  BY <1>1, FS_Interval
<1>3. Open(u, i) \in SUBSET (1 .. i - 1)
  BY DEF Open
<1>4. IsFiniteSet(Open(u, i))
  BY <1>2, <1>3, FS_Subset
<1> QED
  BY <1>4, FS_CardinalityType DEF Level

LEMMA OpenFirst ==
  ASSUME NEW u, IsUnit(u)
  PROVE  Level(u, 1) = 0 /\ \A i \in 2 .. Len(u) : Level(u, i) >= 1
<1>1. Open(u, 1) = {}
  BY DEF Open
<1>2. Level(u, 1) = 0
  BY <1>1, FS_EmptySet DEF Level
<1>3. ASSUME NEW i \in 2 .. Len(u) PROVE Level(u, i) >= 1
  <2>1. u[1].hasChild /\ EndOfLevel(u, 2) = Len(u) /\ Len(u) \in Nat
    BY DEF IsUnit, WellNested
  <2>2. 1 \in Open(u, i)
    BY <2>1 DEF Open
  <2>3. IsFiniteSet(Open(u, i)) /\ Level(u, i) \in Nat
    BY <2>1, OpenFinite
  <2>4. Level(u, i) # 0
    BY <2>2, <2>3, FS_EmptySet DEF Level
  <2> QED
    BY <2>3, <2>4
<1> QED
  BY <1>2, <1>3

(* Behind a DIE the levels are the same, or there is that of its children. *)
LEMMA OpenBehind ==
  ASSUME NEW u, IsUnit(u), NEW i \in 1 .. Len(u), ~IsNull(u[i])
  PROVE  Level(u, i + 1) = IF u[i].hasChild THEN Level(u, i) + 1 ELSE Level(u, i)
<1>1. Len(u) \in Nat
  BY UnitIsTree
<1>2. ASSUME NEW p \in 1 .. i - 1, u[p].hasChild
      PROVE  i <= EndOfLevel(u, p + 1) <=> i + 1 <= EndOfLevel(u, p + 1)
  <2>1. p \in 1 .. Len(u)
    BY <1>1
  <2>2. EndOfLevel(u, p + 1) \in p + 2 .. Len(u) /\ IsNull(u[EndOfLevel(u, p + 1)])
    BY <1>2, <2>1, LevelsEnd
  <2>3. i # EndOfLevel(u, p + 1)
    BY <2>2
  <2> QED
    BY <2>2, <2>3
<1>3. u[i].hasChild => i + 1 <= EndOfLevel(u, i + 1)
  <2> SUFFICES ASSUME u[i].hasChild PROVE i + 1 <= EndOfLevel(u, i + 1)
    OBVIOUS
  <2>1. EndOfLevel(u, i + 1) \in i + 2 .. Len(u)
    BY LevelsEnd
  <2> QED
    BY <1>1, <2>1
<1>4. Open(u, i + 1) = IF u[i].hasChild THEN Open(u, i) \cup {i} ELSE Open(u, i)
  <2>1. \A p \in 1 .. (i + 1) - 1 : p = i \/ p \in 1 .. i - 1
    BY <1>1
  <2>2. i \in 1 .. (i + 1) - 1 /\ \A p \in 1 .. i - 1 : p \in 1 .. (i + 1) - 1
    BY <1>1
  <2> QED
    BY <1>2, <1>3, <2>1, <2>2 DEF Open
<1>5. i \notin Open(u, i) /\ IsFiniteSet(Open(u, i))
  <2>1. i \notin Open(u, i)
    BY <1>1 DEF Open
  <2>2. i \in Nat
    BY <1>1
  <2> QED
    BY <2>1, <2>2, OpenFinite, Zenon
<1>6. Cardinality(Open(u, i) \cup {i}) = Cardinality(Open(u, i)) + 1
  BY <1>5, FS_AddElement
<1> QED
  BY <1>4, <1>6 DEF Level

(* A null entry ends exactly one level.                                    *)
LEMMA OneEnds ==
  ASSUME NEW u, IsUnit(u), NEW i \in 1 .. Len(u), IsNull(u[i])
  PROVE  \E p \in Open(u, i) : \A q \in Open(u, i) : EndOfLevel(u, q + 1) = i <=> q = p
<1>1. Len(u) \in Nat /\ IsTree(u)
  BY UnitIsTree
<1>2. u[1].hasChild /\ EndOfLevel(u, 2) = Len(u)
  BY DEF IsUnit, WellNested
<1>3. 1 \in Open(u, i)
  <2>1. ~u[i].hasChild
    BY <1>1 DEF IsTree
  <2>2. i # 1
    BY <1>2, <2>1
  <2> QED
    BY <1>1, <1>2, <2>2 DEF Open
<1> DEFINE S == {q \in Open(u, i) : EndOfLevel(u, q + 1) = i}
<1>4. \E p \in Open(u, i) : EndOfLevel(u, p + 1) = i
  <2>1. CASE i = Len(u)
    BY <1>2, <1>3, <2>1
  <2>2. CASE i # Len(u)
    <3>1. Encloses(u, 2)
      BY <1>1, <1>2, LevelsEnclose
    <3>2. i \in 2 .. EndOfLevel(u, 2) - 1
      BY <1>1, <1>2, <1>3, <2>2 DEF Open
    <3>3. PICK q \in 2 .. i - 1 : u[q].hasChild /\ EndOfLevel(u, q + 1) = i
      BY <3>1, <3>2 DEF Encloses
    <3>4. q \in Open(u, i)
      BY <1>1, <3>3 DEF Open
    <3> QED
      BY <3>3, <3>4
  <2> QED
    BY <2>1, <2>2
<1>5. ASSUME NEW p \in Open(u, i), NEW q \in Open(u, i), p < q,
             EndOfLevel(u, p + 1) = i, EndOfLevel(u, q + 1) = i
      PROVE  FALSE
  <2>1. p \in 1 .. i - 1 /\ q \in 1 .. i - 1 /\ u[q].hasChild
    BY DEF Open
  <2>2. Encloses(u, p + 1)
    BY <1>1, <1>5, <2>1, LevelsEnclose
  <2>3. q \in p + 1 .. EndOfLevel(u, p + 1) - 1
    BY <1>1, <1>5, <2>1
  <2>4. EndOfLevel(u, q + 1) < EndOfLevel(u, p + 1)
    BY <2>1, <2>2, <2>3 DEF Encloses
  <2> QED
    BY <1>5, <2>4
<1>6. PICK p \in Open(u, i) : EndOfLevel(u, p + 1) = i
  BY <1>4
<1>7. ASSUME NEW q \in Open(u, i), EndOfLevel(u, q + 1) = i PROVE q = p
  <2>1. p \in 1 .. i - 1 /\ q \in 1 .. i - 1
    BY DEF Open
  <2>2. ~(p < q) /\ ~(q < p)
    BY <1>5, <1>6, <1>7
  <2> QED
    BY <1>1, <2>1, <2>2
<1> QED
  BY <1>6, <1>7

LEMMA OpenAfterNull ==
  ASSUME NEW u, IsUnit(u), NEW i \in 1 .. Len(u), IsNull(u[i])
  PROVE  Level(u, i + 1) = Level(u, i) - 1
<1>1. Len(u) \in Nat /\ ~u[i].hasChild
  BY UnitIsTree DEF IsTree
<1>2. PICK p \in Open(u, i) : \A q \in Open(u, i) : EndOfLevel(u, q + 1) = i <=> q = p
  BY OneEnds
<1>3. \A q \in 1 .. i - 1 : u[q].hasChild => EndOfLevel(u, q + 1) \in q + 2 .. Len(u)
  <2> SUFFICES ASSUME NEW q \in 1 .. i - 1, u[q].hasChild
               PROVE  EndOfLevel(u, q + 1) \in q + 2 .. Len(u)
    OBVIOUS
  <2>1. q \in 1 .. Len(u)
    BY <1>1
  <2> QED
    BY <2>1, LevelsEnd
<1>4. Open(u, i + 1) = Open(u, i) \ {p}
  <2>1. ASSUME NEW q \in Open(u, i + 1) PROVE q \in Open(u, i) \ {p}
    <3>1. q \in 1 .. i /\ u[q].hasChild /\ i + 1 <= EndOfLevel(u, q + 1)
      BY <1>1 DEF Open
    <3>2. q # i
      BY <1>1, <3>1
    <3>3. q \in 1 .. i - 1 /\ EndOfLevel(u, q + 1) \in q + 2 .. Len(u)
      BY <1>1, <1>3, <3>1, <3>2
    <3>4. q \in Open(u, i) /\ EndOfLevel(u, q + 1) # i
      BY <1>1, <3>1, <3>3 DEF Open
    <3> QED
      BY <1>2, <3>4
  <2>2. ASSUME NEW q \in Open(u, i), q # p PROVE q \in Open(u, i + 1)
    <3>1. q \in 1 .. i - 1 /\ u[q].hasChild /\ i <= EndOfLevel(u, q + 1)
      BY DEF Open
    <3>2. EndOfLevel(u, q + 1) # i /\ EndOfLevel(u, q + 1) \in q + 2 .. Len(u)
      BY <1>2, <1>3, <2>2, <3>1
    <3>3. q \in 1 .. (i + 1) - 1 /\ i + 1 <= EndOfLevel(u, q + 1)
      BY <1>1, <3>1, <3>2
    <3> QED
      BY <3>1, <3>3 DEF Open
  <2> QED
    BY <2>1, <2>2
<1>5. IsFiniteSet(Open(u, i))
  BY <1>1, OpenFinite
<1>6. Cardinality(Open(u, i) \ {p}) = Cardinality(Open(u, i)) - 1
  BY <1>5, FS_RemoveElement
<1> QED
  BY <1>4, <1>6 DEF Level

LEMMA OpenAfterNulls ==
  ASSUME NEW u, IsUnit(u), NEW p \in 1 .. Len(u) + 1, NEW t \in p .. Len(u) + 1,
         \A i \in p .. t - 1 : IsNull(u[i])
  PROVE  Level(u, t) = Level(u, p) - (t - p)
<1>1. Len(u) \in Nat
  BY UnitIsTree
<1> DEFINE S == {k \in p .. t : Level(u, k) # Level(u, p) - (k - p)}
<1>2. ASSUME S # {} PROVE FALSE
  <2>1. PICK k \in S : \A j \in S : k <= j
    <3>1. S \in SUBSET Nat
      BY <1>1
    <3> QED
      BY <1>2, <3>1, NatLeast
  <2>2. Level(u, p) \in Nat
    BY <1>1, OpenFinite
  <2>3. k # p
    BY <1>1, <2>1, <2>2
  <2>4. PICK j : j = k - 1
    BY Zenon
  <2>5. j \in p .. t - 1 /\ j \in 1 .. Len(u) /\ j + 1 = k /\ j \in p .. t /\ j < k
    BY <1>1, <2>3, <2>4
  <2>6. Level(u, j) = Level(u, p) - (j - p)
    BY <2>1, <2>5
  <2>7. Level(u, j + 1) = Level(u, j) - 1
    BY <2>5, OpenAfterNull
  <2>8. Level(u, k) = Level(u, p) - (k - p)
    BY <1>1, <2>2, <2>5, <2>6, <2>7
  <2> QED
    BY <2>8
<1>3. t \in p .. t
  BY <1>1
<1> QED
  BY <1>2, <1>3

LEMMA HavingIs ==
  ASSUME NEW u, NEW p, NEW l, NEW h, h = Having(u, p, l)
  PROVE  h.ptr = p + 1 /\ h.level = l /\ h.prevHasChild = u[p].hasChild
<1>1. PICK q, b, s : q = p + 1 /\ b = u[p].hasChild /\ s = u[p].sibling
  BY Zenon
<1>2. h = [ptr |-> q, level |-> l, prevHasChild |-> b, sibling |-> s]
  BY <1>1, Zenon DEF Having
<1>3. h.ptr = q /\ h.level = l
  BY <1>2
<1>4. h.prevHasChild = b
  BY <1>2
<1> QED
  BY <1>1, <1>3, <1>4, Zenon

(* A cursor that counts the levels it is in reads every DIE: it passes     *)
(* over null entries only, and comes to none at the end of the unit.       *)
AtLevel(u, c) == Place(u, c) /\ LevelOf(c) = Level(u, c.ptr)

ReadsOn(u, c, r) ==
  /\ Comes(u, c, r)
  /\ r.die # 0 => /\ AtLevel(u, r.cursor) /\ r.cursor.ptr = r.die + 1
                  /\ \A i \in c.ptr .. r.die - 1 : IsNull(u[i])
  /\ r.die = 0 => \A i \in c.ptr .. Len(u) : IsNull(u[i])

THEOREM ReadNextReadsAll ==
  ASSUME NEW u, IsUnit(u), NEW c, AtLevel(u, c), NEW r, r = readNext(u, c, FALSE)
  PROVE  ReadsOn(u, c, r)
<1>1. Len(u) \in Nat /\ Place(u, c) /\ c.ptr \in 1 .. Len(u) + 1 /\ LevelOf(c) \in Int
  BY UnitIsTree, LevelType DEF AtLevel, Place
<1>2. Comes(u, c, r)
  BY <1>1, ReadComes
<1>3. PICK t, l : t = AfterNulls(u, c) /\ l = LevelOf(c) - (t - c.ptr)
  BY Zenon
<1>4. /\ t \in c.ptr .. Len(u) + 1
      /\ t = Len(u) + 1 \/ ~IsNull(u[t]) \/ l = -1
      /\ \A i \in c.ptr .. t - 1 : IsNull(u[i])
  BY <1>1, <1>3, RestIs
<1>5. l = Level(u, t)
  BY <1>1, <1>3, <1>4, OpenAfterNulls, SMTT(30) DEF AtLevel
<1>6. l \in Nat /\ t \in 1 .. Len(u) + 1
  BY <1>1, <1>4, <1>5, OpenFinite
<1>10. PICK h : h = Having(u, t, l)
  BY Zenon
<1>7. IF t > Len(u) THEN r.die = 0 ELSE r.die = t /\ r.cursor = h
  <2>1. PICK m, n : /\ m = [c EXCEPT !.ptr = t, !.level = l]
                    /\ n = [m EXCEPT !.ptr = t + 1, !.level = l - 1, !.prevHasChild = FALSE]
    BY Zenon
  <2>2. r = IF l = -1 \/ t > Len(u) THEN [cursor |-> m, die |-> 0]
            ELSE IF IsNull(u[t]) THEN [cursor |-> n, die |-> 0]
            ELSE [cursor |-> h, die |-> t]
    BY <1>3, <1>10, <2>1 DEF readNext, Having
  <2>3. l # -1
    BY <1>6
  <2>4. t > Len(u) \/ ~IsNull(u[t])
    <3>1. t = Len(u) + 1 => t > Len(u)
      BY <1>1
    <3> QED
      BY <1>4, <2>3, <3>1
  <2>5. CASE t > Len(u)
    <3>1. r = [cursor |-> m, die |-> 0]
      BY <2>2, <2>5, Zenon
    <3>2. r.die = 0
      BY ONLY <3>1
    <3> QED
      BY <2>5, <3>2, Zenon
  <2>6. CASE ~(t > Len(u))
    <3>1. r = [cursor |-> h, die |-> t]
      BY <2>2, <2>3, <2>4, <2>6, Zenon
    <3>2. r.die = t /\ r.cursor = h
      BY ONLY <3>1
    <3> QED
      BY <2>6, <3>2, Zenon
  <2> QED
    BY <2>5, <2>6
<1>8. CASE t > Len(u)
  <2>1. t = Len(u) + 1
    BY <1>1, <1>6, <1>8
  <2>3. r.die = 0
    BY <1>7, <1>8
  <2>2. \A i \in c.ptr .. Len(u) : IsNull(u[i])
    BY <1>1, <1>4, <2>1
  <2> QED
    BY <1>2, <2>2, <2>3 DEF ReadsOn
<1>9. CASE ~(t > Len(u))
  <2>1. r.die = t /\ t # 0 /\ t \in 1 .. Len(u)
    <3>1. t # 0 /\ t \in 1 .. Len(u)
      BY <1>1, <1>6, <1>9
    <3> QED
      BY <1>7, <1>9, <3>1
  <2>2. ~IsNull(u[t]) /\ Place(u, r.cursor)
    BY <1>2, <2>1 DEF Comes
  <2>4. /\ r.cursor.ptr = t + 1 /\ r.cursor.prevHasChild = u[t].hasChild
        /\ r.cursor.level = l
    <3>1. r.cursor = h
      BY <1>7, <1>9, Zenon
    <3>2. h.ptr = t + 1 /\ h.level = l /\ h.prevHasChild = u[t].hasChild
      BY ONLY <1>10, HavingIs
    <3> QED
      BY <3>1, <3>2, Zenon
  <2>6. LevelOf(r.cursor) = IF u[t].hasChild THEN l + 1 ELSE l
    BY <2>4 DEF LevelOf
  <2>7. Level(u, t + 1) = IF u[t].hasChild THEN l + 1 ELSE l
    BY <1>5, <2>1, <2>2, OpenBehind
  <2>8. AtLevel(u, r.cursor)
    BY <2>2, <2>4, <2>6, <2>7 DEF AtLevel
  <2> QED
    BY <1>2, <1>4, <2>1, <2>4, <2>8 DEF ReadsOn
<1> QED
  BY <1>8, <1>9
-----------------------------------------------------------------------------
(***************************************************************************)
(* The symbols that are made.  A list that grows keeps what is in it.      *)
(***************************************************************************)

IsList(s) == \E T : s \in Seq(T)
Kept(s, more) ==
  /\ IsList(more) /\ Len(s) \in Nat /\ Len(more) \in Nat /\ Len(s) <= Len(more)
  /\ \A k \in 1 .. Len(s) : more[k] = s[k]

LEMMA ListLen ==
  ASSUME NEW s, IsList(s)
  PROVE  Len(s) \in Nat /\ DOMAIN s = 1 .. Len(s)
<1>1. PICK T : s \in Seq(T)
  BY DEF IsList
<1> QED
  BY <1>1

LEMMA ListIn1 ==
  ASSUME NEW s, NEW T, s \in Seq(T), NEW U, T \subseteq U
  PROVE  s \in Seq(U)
<1>1. s \in [1 .. Len(s) -> U] /\ Len(s) \in Nat
  OBVIOUS
<1> QED
  BY <1>1, SeqOfFunction

Behind(more, s, t) ==
  /\ Kept(s, more) /\ Len(t) \in Nat /\ Len(more) = Len(s) + Len(t)
  /\ \A k \in 1 .. Len(t) : more[Len(s) + k] = t[k]

LEMMA ListJoin ==
  ASSUME NEW s, IsList(s), NEW t, IsList(t), NEW more, more = s \o t
  PROVE  Behind(more, s, t)
<1>1. PICK T, U : s \in Seq(T) /\ t \in Seq(U)
  BY DEF IsList
<1>2. PICK V : V = T \cup U
  BY Zenon
<1>3. T \subseteq V /\ U \subseteq V
  BY <1>2
<1>4. s \in Seq(V) /\ t \in Seq(V)
  BY <1>1, <1>3, ListIn1
<1>5. /\ more \in Seq(V) /\ Len(more) = Len(s) + Len(t)
      /\ Len(s) \in Nat /\ Len(t) \in Nat
      /\ \A k \in 1 .. Len(s) : more[k] = s[k]
  BY <1>4
<1>6. \A k \in 1 .. Len(t) : more[Len(s) + k] = t[k]
  BY <1>4, <1>5
<1>7. IsList(more)
  BY <1>5 DEF IsList
<1> QED
  BY <1>5, <1>6, <1>7 DEF Behind, Kept

LEMMA ListOne ==
  ASSUME NEW x
  PROVE  IsList(<<x>>) /\ Len(<<x>>) = 1 /\ <<x>>[1] = x
<1>1. <<x>> \in Seq({x})
  OBVIOUS
<1> QED
  BY <1>1 DEF IsList

Grew(more, s, x) == Kept(s, more) /\ Len(more) = Len(s) + 1 /\ more[Len(s) + 1] = x

LEMMA ListAppend ==
  ASSUME NEW s, IsList(s), NEW x, NEW more, more = Append(s, x)
  PROVE  Grew(more, s, x)
<1>1. PICK T : s \in Seq(T)
  BY DEF IsList
<1>2. PICK V : V = T \cup {x}
  BY Zenon
<1>3. T \subseteq V /\ x \in V
  BY <1>2
<1>4. s \in Seq(V)
  BY <1>1, <1>3, ListIn1
<1>5. /\ more \in Seq(V) /\ Len(more) = Len(s) + 1 /\ Len(s) \in Nat
      /\ \A k \in 1 .. Len(s) : more[k] = s[k]
      /\ more[Len(s) + 1] = x
  BY <1>3, <1>4
<1>6. IsList(more)
  BY <1>5 DEF IsList
<1> QED
  BY <1>5, <1>6 DEF Kept, Grew

LEMMA ListEmpty == IsList(<<>>) /\ Len(<<>>) = 0
<1>1. <<>> \in Seq({})
  OBVIOUS
<1> QED
  BY <1>1 DEF IsList

(* The symbols of code.                                                    *)
ProcKinds == {"S_GPROC", "S_SEPCODE"}
Parts(u, d) == getRanges(BaseOf(u), u.dies[d], ListIn(u, u.dies[d].ranges))

IsPart(s, r) == s.lo = r.lo - codeSegOff /\ s.hi = r.hi - codeSegOff
SymbolFor(s, u, d, i) ==
  /\ s.kind = IF i = 1 THEN "S_GPROC" ELSE "S_SEPCODE"
  /\ s.die = d /\ IsPart(s, Parts(u, d)[i])

(* Of the DIEs before ptr, each that has code has a symbol for every part  *)
(* of it, except that for the one in progress there is only the first; no  *)
(* part has two, and there are no others.                                  *)
OfParts(u, ss, ptr, busy) ==
  \A k \in 1 .. Len(ss) : ss[k].kind \in ProcKinds =>
    \E d \in 1 .. ptr - 1 : \E i \in 1 .. Len(Parts(u, d)) :
      DefinedIn(u, d) /\ SymbolFor(ss[k], u, d, i) /\ (d = busy => i = 1)
OneForPart(ss) ==
  \A j, k \in 1 .. Len(ss) :
    /\ ss[j].kind \in ProcKinds /\ ss[k].kind \in ProcKinds
    /\ ss[j].die = ss[k].die /\ ss[j].lo = ss[k].lo
    => j = k
HasSymbol(u, ss, d, i) == \E k \in 1 .. Len(ss) : SymbolFor(ss[k], u, d, i)
AllParts(u, ss, ptr, busy) ==
  \A d \in 1 .. ptr - 1 : DefinedIn(u, d) =>
    \A i \in 1 .. Len(Parts(u, d)) : (d = busy /\ i # 1) \/ HasSymbol(u, ss, d, i)
OfBlocks(u, ss) ==
  \A k \in 1 .. Len(ss) : ss[k].kind = "S_BLOCK" =>
    \E d \in 1 .. Len(u.dies) :
      /\ u.dies[d].tag = "lexical_block" /\ ss[k].die = d
      /\ IsPart(ss[k], BlockIn(u, u.dies[d]))
      /\ BlockIn(u, u.dies[d]).lo < BlockIn(u, u.dies[d]).hi

CodeSymbols(u, ss, ptr, busy) ==
  /\ IsList(ss) /\ OfParts(u, ss, ptr, busy) /\ OneForPart(ss)
  /\ AllParts(u, ss, ptr, busy) /\ OfBlocks(u, ss)

Placeless(more, n) ==
  \A k \in n + 1 .. Len(more) : more[k].kind \notin ProcKinds \cup {"S_BLOCK"}

(* Symbols of other kinds change nothing of that.                          *)
LEMMA OthersKeep ==
  ASSUME NEW u, NEW ss, NEW ptr, NEW busy, CodeSymbols(u, ss, ptr, busy),
         NEW more, Kept(ss, more), Placeless(more, Len(ss))
  PROVE  CodeSymbols(u, more, ptr, busy)
<1>1. /\ IsList(more) /\ Len(ss) \in Nat /\ Len(more) \in Nat /\ Len(ss) <= Len(more)
      /\ \A k \in 1 .. Len(ss) : more[k] = ss[k]
  BY DEF Kept
<1>2. ASSUME NEW k \in 1 .. Len(more), more[k].kind \in ProcKinds \cup {"S_BLOCK"}
      PROVE  k \in 1 .. Len(ss) /\ more[k] = ss[k]
  <2>1. k \notin Len(ss) + 1 .. Len(more)
    BY <1>2 DEF Placeless
  <2> QED
    BY <1>1, <2>1
<1>3. OfParts(u, more, ptr, busy)
  <2> SUFFICES ASSUME NEW k \in 1 .. Len(more), more[k].kind \in ProcKinds
               PROVE  \E d \in 1 .. ptr - 1 : \E i \in 1 .. Len(Parts(u, d)) :
                        DefinedIn(u, d) /\ SymbolFor(more[k], u, d, i) /\ (d = busy => i = 1)
    BY Zenon DEF OfParts
  <2>1. k \in 1 .. Len(ss) /\ more[k] = ss[k]
    BY <1>2
  <2>2. ss[k].kind \in ProcKinds
    BY <2>1
  <2>3. \E d \in 1 .. ptr - 1 : \E i \in 1 .. Len(Parts(u, d)) :
          DefinedIn(u, d) /\ SymbolFor(ss[k], u, d, i) /\ (d = busy => i = 1)
    BY <2>1, <2>2, Zenon DEF CodeSymbols, OfParts
  <2> QED
    BY <2>1, <2>3, Zenon
<1>4. OneForPart(more)
  <2> SUFFICES ASSUME NEW j \in 1 .. Len(more), NEW k \in 1 .. Len(more),
                      more[j].kind \in ProcKinds, more[k].kind \in ProcKinds,
                      more[j].die = more[k].die, more[j].lo = more[k].lo
               PROVE  j = k
    BY Zenon DEF OneForPart
  <2>1. j \in 1 .. Len(ss) /\ more[j] = ss[j] /\ k \in 1 .. Len(ss) /\ more[k] = ss[k]
    BY <1>2
  <2> QED
    BY <2>1 DEF CodeSymbols, OneForPart
<1>5. AllParts(u, more, ptr, busy)
  <2>1. ASSUME NEW d, NEW i, HasSymbol(u, ss, d, i) PROVE HasSymbol(u, more, d, i)
    <3>1. PICK k \in 1 .. Len(ss) : SymbolFor(ss[k], u, d, i)
      BY <2>1 DEF HasSymbol
    <3>2. k \in 1 .. Len(more) /\ more[k] = ss[k]
      BY <1>1
    <3>3. SymbolFor(more[k], u, d, i)
      BY <3>1, <3>2
    <3> QED
      BY <3>2, <3>3 DEF HasSymbol
  <2> QED
    BY <2>1, Zenon DEF CodeSymbols, AllParts
<1>6. OfBlocks(u, more)
  <2> SUFFICES ASSUME NEW k \in 1 .. Len(more), more[k].kind = "S_BLOCK"
               PROVE  \E d \in 1 .. Len(u.dies) :
                        /\ u.dies[d].tag = "lexical_block" /\ more[k].die = d
                        /\ IsPart(more[k], BlockIn(u, u.dies[d]))
                        /\ BlockIn(u, u.dies[d]).lo < BlockIn(u, u.dies[d]).hi
    BY Zenon DEF OfBlocks
  <2>1. k \in 1 .. Len(ss) /\ more[k] = ss[k]
    BY <1>2
  <2>2. \E d \in 1 .. Len(u.dies) :
          /\ u.dies[d].tag = "lexical_block" /\ ss[k].die = d
          /\ IsPart(ss[k], BlockIn(u, u.dies[d]))
          /\ BlockIn(u, u.dies[d]).lo < BlockIn(u, u.dies[d]).hi
    BY <2>1 DEF CodeSymbols, OfBlocks
  <2> QED
    BY <2>1, <2>2
<1> QED
  BY <1>1, <1>3, <1>4, <1>5, <1>6 DEF CodeSymbols

(* Nor do DIEs that have no code.                                          *)
LEMMA PassedKeep ==
  ASSUME NEW u, NEW ss, NEW ptr \in Nat, NEW busy, CodeSymbols(u, ss, ptr, busy),
         NEW next \in Nat, ptr <= next, \A d \in ptr .. next - 1 : ~DefinedIn(u, d)
  PROVE  CodeSymbols(u, ss, next, busy)
<1>1. \A d \in 1 .. ptr - 1 : d \in 1 .. next - 1
  OBVIOUS
<1>2. \A d \in 1 .. next - 1 : d \in 1 .. ptr - 1 \/ ~DefinedIn(u, d)
  OBVIOUS
<1>3. OfParts(u, ss, next, busy)
  BY <1>1, Zenon DEF CodeSymbols, OfParts
<1>4. AllParts(u, ss, next, busy)
  BY <1>2, Zenon DEF CodeSymbols, AllParts
<1> QED
  BY <1>3, <1>4 DEF CodeSymbols

(* The symbol of a procedure that begins.                                  *)
LEMMA ProcBegins ==
  ASSUME NEW u, NEW ss, NEW ptr \in Nat, CodeSymbols(u, ss, ptr, 0),
         NEW d \in Nat, ptr >= 1, ptr <= d, \A j \in ptr .. d - 1 : ~DefinedIn(u, j),
         DefinedIn(u, d), Len(Parts(u, d)) \in Nat \ {0},
         NEW s, s = Proc(d, Parts(u, d)[1]), NEW more, more = Append(ss, s)
  PROVE  CodeSymbols(u, more, d + 1, d)
<1>1. CodeSymbols(u, ss, d, 0)
  BY PassedKeep
<1>2. IsList(ss) /\ Len(ss) \in Nat
  BY <1>1, ListLen DEF CodeSymbols
<1>3. /\ IsList(more) /\ Len(more) = Len(ss) + 1 /\ more[Len(ss) + 1] = s
      /\ \A k \in 1 .. Len(ss) : more[k] = ss[k]
  <2>1. Grew(more, ss, s)
    BY <1>2, ListAppend, Zenon
  <2> QED
    BY <2>1 DEF Grew, Kept
<1>4. s.kind = "S_GPROC" /\ s.die = d /\ IsPart(s, Parts(u, d)[1])
  BY DEF Proc, IsPart
<1>5. SymbolFor(s, u, d, 1)
  BY <1>4 DEF SymbolFor
<1>6. \A k \in 1 .. Len(more) : k = Len(ss) + 1 \/ k \in 1 .. Len(ss)
  BY <1>2, <1>3
<1>7. d \in 1 .. (d + 1) - 1 /\ 1 \in 1 .. Len(Parts(u, d)) /\ d # 0
  OBVIOUS
<1>8. \A k \in 1 .. Len(ss) : ss[k].kind \in ProcKinds =>
        \E e \in 1 .. d - 1 : \E i \in 1 .. Len(Parts(u, e)) :
          DefinedIn(u, e) /\ SymbolFor(ss[k], u, e, i)
  BY <1>1, Zenon DEF CodeSymbols, OfParts
<1>9. \A e \in 1 .. d - 1 : e \in 1 .. (d + 1) - 1 /\ e # d
  OBVIOUS
<1>10. OfParts(u, more, d + 1, d)
  <2> SUFFICES ASSUME NEW k \in 1 .. Len(more), more[k].kind \in ProcKinds
               PROVE  \E e \in 1 .. (d + 1) - 1 : \E i \in 1 .. Len(Parts(u, e)) :
                        DefinedIn(u, e) /\ SymbolFor(more[k], u, e, i) /\ (e = d => i = 1)
    BY Zenon DEF OfParts
  <2>1. CASE k = Len(ss) + 1
    BY <1>3, <1>5, <1>7, <2>1, Zenon
  <2>2. CASE k \in 1 .. Len(ss)
    <3>1. more[k] = ss[k]
      BY <1>3, <2>2
    <3>2. PICK e \in 1 .. d - 1 : \E i \in 1 .. Len(Parts(u, e)) :
                 DefinedIn(u, e) /\ SymbolFor(more[k], u, e, i)
      BY <1>8, <2>2, <3>1
    <3> QED
      BY <1>9, <3>2, Zenon
  <2> QED
    BY <1>6, <2>1, <2>2
<1>11. \A k \in 1 .. Len(ss) : ss[k].kind \in ProcKinds => ss[k].die # d
  <2> SUFFICES ASSUME NEW k \in 1 .. Len(ss), ss[k].kind \in ProcKinds PROVE ss[k].die # d
    OBVIOUS
  <2>1. PICK e \in 1 .. d - 1 : \E i \in 1 .. Len(Parts(u, e)) : SymbolFor(ss[k], u, e, i)
    BY <1>8, Zenon
  <2>2. ss[k].die = e
    BY <2>1 DEF SymbolFor
  <2> QED
    BY <1>9, <2>2
<1>12. OneForPart(more)
  <2> SUFFICES ASSUME NEW j \in 1 .. Len(more), NEW k \in 1 .. Len(more),
                      more[j].kind \in ProcKinds, more[k].kind \in ProcKinds,
                      more[j].die = more[k].die, more[j].lo = more[k].lo
               PROVE  j = k
    BY DEF OneForPart
  <2>1. CASE j \in 1 .. Len(ss) /\ k \in 1 .. Len(ss)
    BY <1>1, <1>3, <2>1 DEF CodeSymbols, OneForPart
  <2>2. CASE j = Len(ss) + 1 /\ k \in 1 .. Len(ss)
    BY <1>3, <1>4, <1>11, <2>2
  <2>3. CASE j \in 1 .. Len(ss) /\ k = Len(ss) + 1
    BY <1>3, <1>4, <1>11, <2>3
  <2> QED
    BY <1>6, <2>1, <2>2, <2>3
<1>13. ASSUME NEW e, NEW i, HasSymbol(u, ss, e, i) PROVE HasSymbol(u, more, e, i)
  <2>1. PICK k \in 1 .. Len(ss) : SymbolFor(ss[k], u, e, i)
    BY <1>13 DEF HasSymbol
  <2>2. k \in 1 .. Len(more) /\ more[k] = ss[k]
    BY <1>2, <1>3
  <2>3. SymbolFor(more[k], u, e, i)
    BY <2>1, <2>2
  <2> QED
    BY <2>2, <2>3 DEF HasSymbol
<1>14. HasSymbol(u, more, d, 1)
  <2>1. Len(ss) + 1 \in 1 .. Len(more) /\ SymbolFor(more[Len(ss) + 1], u, d, 1)
    BY <1>2, <1>3, <1>5
  <2> QED
    BY <2>1 DEF HasSymbol
<1>15. AllParts(u, more, d + 1, d)
  <2> SUFFICES ASSUME NEW e \in 1 .. (d + 1) - 1, DefinedIn(u, e),
                      NEW i \in 1 .. Len(Parts(u, e))
               PROVE  (e = d /\ i # 1) \/ HasSymbol(u, more, e, i)
    BY Zenon DEF AllParts
  <2>1. CASE e = d
    BY <1>14, <2>1
  <2>2. CASE e # d
    <3>1. e \in 1 .. d - 1 /\ e # 0
      BY <2>2
    <3>2. HasSymbol(u, ss, e, i)
      BY <1>1, <3>1, Zenon DEF CodeSymbols, AllParts
    <3> QED
      BY <1>13, <3>2
  <2> QED
    BY <2>1, <2>2
<1>16. OfBlocks(u, more)
  <2> SUFFICES ASSUME NEW k \in 1 .. Len(more), more[k].kind = "S_BLOCK"
               PROVE  \E e \in 1 .. Len(u.dies) :
                        /\ u.dies[e].tag = "lexical_block" /\ more[k].die = e
                        /\ IsPart(more[k], BlockIn(u, u.dies[e]))
                        /\ BlockIn(u, u.dies[e]).lo < BlockIn(u, u.dies[e]).hi
    BY Zenon DEF OfBlocks
  <2>1. k \in 1 .. Len(ss) /\ more[k] = ss[k]
    BY <1>3, <1>4, <1>6
  <2>2. OfBlocks(u, ss) /\ ss[k].kind = "S_BLOCK"
    BY <1>1, <2>1 DEF CodeSymbols
  <2> QED
    BY <2>1, <2>2 DEF OfBlocks
<1> QED
  BY <1>3, <1>10, <1>12, <1>15, <1>16 DEF CodeSymbols

(* The symbol of a block.                                                  *)
LEMMA BlockBegins ==
  ASSUME NEW u, NEW ss, NEW ptr, NEW busy, CodeSymbols(u, ss, ptr, busy),
         NEW d \in 1 .. Len(u.dies), u.dies[d].tag = "lexical_block",
         BlockIn(u, u.dies[d]).lo < BlockIn(u, u.dies[d]).hi,
         NEW s, s = Block(d, BlockIn(u, u.dies[d])), NEW more, more = Append(ss, s)
  PROVE  CodeSymbols(u, more, ptr, busy)
<1>1. IsList(ss) /\ Len(ss) \in Nat
  BY ListLen DEF CodeSymbols
<1>2. Grew(more, ss, s)
  BY <1>1, ListAppend, Zenon
<1>3. /\ IsList(more) /\ Len(more) = Len(ss) + 1 /\ more[Len(ss) + 1] = s
      /\ \A k \in 1 .. Len(ss) : more[k] = ss[k]
  BY <1>2 DEF Grew, Kept
<1>4. s.kind = "S_BLOCK" /\ s.die = d /\ IsPart(s, BlockIn(u, u.dies[d]))
  BY DEF Block, IsPart
<1>5. \A k \in 1 .. Len(more) : k = Len(ss) + 1 \/ k \in 1 .. Len(ss)
  BY <1>1, <1>3
<1>6. ASSUME NEW k \in 1 .. Len(more), more[k].kind \in ProcKinds
      PROVE  k \in 1 .. Len(ss) /\ more[k] = ss[k]
  BY <1>3, <1>4, <1>5, <1>6 DEF ProcKinds
<1>7. OfParts(u, more, ptr, busy)
  <2> SUFFICES ASSUME NEW k \in 1 .. Len(more), more[k].kind \in ProcKinds
               PROVE  \E e \in 1 .. ptr - 1 : \E i \in 1 .. Len(Parts(u, e)) :
                        DefinedIn(u, e) /\ SymbolFor(more[k], u, e, i) /\ (e = busy => i = 1)
    BY Zenon DEF OfParts
  <2>1. k \in 1 .. Len(ss) /\ more[k] = ss[k]
    BY <1>6
  <2>2. ss[k].kind \in ProcKinds
    BY <2>1
  <2>3. \E e \in 1 .. ptr - 1 : \E i \in 1 .. Len(Parts(u, e)) :
          DefinedIn(u, e) /\ SymbolFor(ss[k], u, e, i) /\ (e = busy => i = 1)
    BY <2>1, <2>2, Zenon DEF CodeSymbols, OfParts
  <2> QED
    BY <2>1, <2>3, Zenon
<1>8. OneForPart(more)
  <2> SUFFICES ASSUME NEW j \in 1 .. Len(more), NEW k \in 1 .. Len(more),
                      more[j].kind \in ProcKinds, more[k].kind \in ProcKinds,
                      more[j].die = more[k].die, more[j].lo = more[k].lo
               PROVE  j = k
    BY DEF OneForPart
  <2>1. j \in 1 .. Len(ss) /\ more[j] = ss[j] /\ k \in 1 .. Len(ss) /\ more[k] = ss[k]
    BY <1>6
  <2> QED
    BY <2>1 DEF CodeSymbols, OneForPart
<1>9. AllParts(u, more, ptr, busy)
  <2>1. ASSUME NEW e, NEW i, HasSymbol(u, ss, e, i) PROVE HasSymbol(u, more, e, i)
    <3>1. PICK k \in 1 .. Len(ss) : SymbolFor(ss[k], u, e, i)
      BY <2>1 DEF HasSymbol
    <3>2. k \in 1 .. Len(more) /\ more[k] = ss[k]
      BY <1>1, <1>3
    <3>3. SymbolFor(more[k], u, e, i)
      BY <3>1, <3>2
    <3> QED
      BY <3>2, <3>3 DEF HasSymbol
  <2> QED
    BY <2>1, Zenon DEF CodeSymbols, AllParts
<1>10. OfBlocks(u, more)
  <2> SUFFICES ASSUME NEW k \in 1 .. Len(more), more[k].kind = "S_BLOCK"
               PROVE  \E e \in 1 .. Len(u.dies) :
                        /\ u.dies[e].tag = "lexical_block" /\ more[k].die = e
                        /\ IsPart(more[k], BlockIn(u, u.dies[e]))
                        /\ BlockIn(u, u.dies[e]).lo < BlockIn(u, u.dies[e]).hi
    BY Zenon DEF OfBlocks
  <2>1. CASE k = Len(ss) + 1
    BY <1>3, <1>4, <2>1
  <2>2. CASE k \in 1 .. Len(ss)
    <3>1. OfBlocks(u, ss) /\ more[k] = ss[k]
      BY <1>3, <2>2 DEF CodeSymbols
    <3> QED
      BY <2>2, <3>1 DEF OfBlocks
  <2> QED
    BY <1>5, <2>1, <2>2
<1> QED
  BY <1>3, <1>7, <1>8, <1>9, <1>10 DEF CodeSymbols

(* The parts that follow the first one.                                    *)
IsSepCodes(t, d, rs) ==
  /\ IsList(t) /\ Len(t) \in Nat
  /\ \A k \in 1 .. Len(t) :
       t[k] = End \/ \E i \in 2 .. Len(rs) : k = 2 * i - 3 /\ t[k] = SepCode(d, rs[i])
  /\ \A i \in 2 .. Len(rs) : 2 * i - 3 \in 1 .. Len(t) /\ t[2 * i - 3] = SepCode(d, rs[i])

LEMMA SepCodesAre ==
  ASSUME NEW d, NEW rs \in Seq(Range0), rs # <<>>, NEW t, t = SepCodes(d, Others(rs))
  PROVE  IsSepCodes(t, d, rs)
<1>1. PICK rest : rest = Tail(rs)
  BY Zenon
<1>2. PICK n : n = Len(rest)
  BY Zenon
<1>3. /\ rest \in Seq(Range0) /\ n \in Nat /\ Len(rs) = n + 1
      /\ \A i \in 1 .. n : rest[i] = rs[i + 1]
  BY <1>1, <1>2
<1> DEFINE F(k) == IF k % 2 = 1 THEN SepCode(d, rest[(k + 1) \div 2]) ELSE End
<1>4. t = [k \in 1 .. 2 * n |-> F(k)]
  BY <1>1, <1>2 DEF SepCodes, Others
<1>5. PICK m : m = 2 * n
  BY Zenon
<1>6. m \in Nat
  BY <1>3, <1>5
<1>7. \A k \in 1 .. m : t[k] = F(k)
  <2> HIDE DEF F
  <2> QED
    BY <1>4, <1>5
<1>8. IsList(t) /\ Len(t) = m
  <2>1. PICK T : T = {F(k) : k \in 1 .. m}
    BY Zenon
  <2>2. t \in [1 .. m -> T]
    <3> HIDE DEF F
    <3> QED
      BY <1>4, <1>5, <2>1
  <2>3. t \in Seq(T) /\ Len(t) = m
    BY <1>6, <2>2, SeqOfFunction
  <2> QED
    BY <2>3 DEF IsList
<1>9. ASSUME NEW i \in 2 .. Len(rs), NEW k, k = 2 * i - 3
      PROVE  k \in 1 .. m /\ k % 2 = 1 /\ (k + 1) \div 2 = i - 1 /\ F(k) = SepCode(d, rs[i])
  <2>1. i \in 2 .. n + 1 /\ i \in Int
    BY <1>3
  <2>2. k \in 1 .. m
    BY <1>3, <1>5, <1>9, <2>1
  <2>3. (k % 2) = 1 /\ ((k + 1) \div 2) = i - 1
    BY ONLY <1>9, <2>1, Z3
  <2>4. i - 1 \in 1 .. n /\ (i - 1) + 1 = i
    BY <1>3, <2>1
  <2>5. rest[i - 1] = rs[i]
    BY <1>3, <2>4
  <2> QED
    BY <2>2, <2>3, <2>5
<1>10. ASSUME NEW k \in 1 .. m
       PROVE  F(k) = End \/ \E i \in 2 .. Len(rs) : k = 2 * i - 3
  <2>1. CASE (k % 2) = 1
    <3>1. PICK i : i = ((k + 1) \div 2) + 1
      BY Zenon
    <3>2. i \in 2 .. n + 1 /\ k = 2 * i - 3
      BY ONLY <1>3, <1>5, <2>1, <3>1, k \in 1 .. m, Z3
    <3>3. i \in 2 .. Len(rs)
      BY <1>3, <3>2
    <3> QED
      BY <3>2, <3>3
  <2> QED
    BY <2>1
<1>11. \A k \in 1 .. Len(t) :
         t[k] = End \/ \E i \in 2 .. Len(rs) : k = 2 * i - 3 /\ t[k] = SepCode(d, rs[i])
  <2> SUFFICES ASSUME NEW k \in 1 .. m
               PROVE  t[k] = End \/ \E i \in 2 .. Len(rs) : k = 2 * i - 3 /\ t[k] = SepCode(d, rs[i])
    BY <1>8
  <2> HIDE DEF F
  <2>1. t[k] = F(k)
    BY <1>7
  <2>2. CASE F(k) = End
    BY <2>1, <2>2
  <2>3. CASE \E i \in 2 .. Len(rs) : k = 2 * i - 3
    <3>1. PICK i \in 2 .. Len(rs) : k = 2 * i - 3
      BY <2>3
    <3>2. F(k) = SepCode(d, rs[i])
      BY <1>9, <3>1
    <3> QED
      BY <2>1, <3>1, <3>2
  <2> QED
    BY <1>10, <2>2, <2>3
<1>12. \A i \in 2 .. Len(rs) : 2 * i - 3 \in 1 .. Len(t) /\ t[2 * i - 3] = SepCode(d, rs[i])
  <2> SUFFICES ASSUME NEW i \in 2 .. Len(rs)
               PROVE  2 * i - 3 \in 1 .. Len(t) /\ t[2 * i - 3] = SepCode(d, rs[i])
    OBVIOUS
  <2> HIDE DEF F
  <2>1. PICK k : k = 2 * i - 3
    BY Zenon
  <2>2. k \in 1 .. m /\ F(k) = SepCode(d, rs[i])
    BY <1>9, <2>1
  <2> QED
    BY <1>7, <1>8, <2>1, <2>2
<1> QED
  BY <1>6, <1>8, <1>11, <1>12 DEF IsSepCodes

LEMMA ProcEnds ==
  ASSUME NEW u, NEW ss, NEW ptr, NEW d, CodeSymbols(u, ss, ptr, d),
         Disjoint(Parts(u, d)), Parts(u, d) # <<>>, d \in 1 .. ptr - 1, DefinedIn(u, d),
         codeSegOff \in Nat,
         NEW t, t = SepCodes(d, Others(Parts(u, d))), NEW more, more = ss \o t
  PROVE  CodeSymbols(u, more, ptr, 0)
<1>1. IsList(ss) /\ Len(ss) \in Nat
  BY ListLen DEF CodeSymbols
<1>2. PICK rs : rs = Parts(u, d)
  BY Zenon
<1>3. rs \in Seq(Range0) /\ Len(rs) \in Nat /\ Disjoint(rs) /\ rs # <<>>
  BY <1>2 DEF Disjoint
<1>4. IsSepCodes(t, d, rs)
  BY <1>2, <1>3, SepCodesAre
<1>5. IsList(t) /\ Len(t) \in Nat
  BY <1>4 DEF IsSepCodes
<1>6. Behind(more, ss, t)
  BY <1>1, <1>5, ListJoin, Zenon
<1>7. /\ IsList(more) /\ Len(more) = Len(ss) + Len(t)
      /\ \A k \in 1 .. Len(ss) : more[k] = ss[k]
      /\ \A k \in 1 .. Len(t) : more[Len(ss) + k] = t[k]
  BY <1>6 DEF Behind, Kept
<1>8. ASSUME NEW k \in 1 .. Len(more), more[k] # End
      PROVE  \/ k \in 1 .. Len(ss) /\ more[k] = ss[k]
             \/ \E i \in 2 .. Len(rs) : k = Len(ss) + (2 * i - 3) /\ more[k] = SepCode(d, rs[i])
  <2>1. CASE k \in 1 .. Len(ss)
    BY <1>7, <2>1
  <2>2. CASE k \notin 1 .. Len(ss)
    <3>1. PICK j : j = k - Len(ss)
      BY Zenon
    <3>2. j \in 1 .. Len(t) /\ k = Len(ss) + j
      BY <1>1, <1>5, <1>7, <2>2, <3>1
    <3>3. more[k] = t[j]
      BY <1>7, <3>2
    <3>4. PICK i \in 2 .. Len(rs) : j = 2 * i - 3 /\ t[j] = SepCode(d, rs[i])
      BY <1>4, <1>8, <3>2, <3>3 DEF IsSepCodes
    <3> QED
      BY <3>2, <3>3, <3>4
  <2> QED
    BY <2>1, <2>2
<1>9. \A i \in 2 .. Len(rs) :
        /\ SepCode(d, rs[i]).kind = "S_SEPCODE" /\ SepCode(d, rs[i]).die = d
        /\ IsPart(SepCode(d, rs[i]), rs[i])
  BY DEF SepCode, IsPart
<1>10. End.kind \notin ProcKinds \cup {"S_BLOCK"}
  BY DEF End, ProcKinds
<1>11. \A i \in 2 .. Len(rs) : i \in 1 .. Len(rs) /\ i # 1 /\ SymbolFor(SepCode(d, rs[i]), u, d, i)
  BY <1>2, <1>3, <1>9 DEF SymbolFor
<1>12. OfParts(u, more, ptr, 0)
  <2> SUFFICES ASSUME NEW k \in 1 .. Len(more), more[k].kind \in ProcKinds
               PROVE  \E e \in 1 .. ptr - 1 : \E i \in 1 .. Len(Parts(u, e)) :
                        DefinedIn(u, e) /\ SymbolFor(more[k], u, e, i) /\ (e = 0 => i = 1)
    BY Zenon DEF OfParts
  <2>0. more[k] # End /\ \A e \in 1 .. ptr - 1 : e # 0
    BY <1>10
  <2>1. CASE k \in 1 .. Len(ss) /\ more[k] = ss[k]
    <3>1. \E e \in 1 .. ptr - 1 : \E i \in 1 .. Len(Parts(u, e)) :
            DefinedIn(u, e) /\ SymbolFor(ss[k], u, e, i)
      BY <2>1, Zenon DEF CodeSymbols, OfParts
    <3> QED
      BY <2>0, <2>1, <3>1, Zenon
  <2>2. CASE \E i \in 2 .. Len(rs) : more[k] = SepCode(d, rs[i])
    <3>1. PICK i \in 2 .. Len(rs) : more[k] = SepCode(d, rs[i])
      BY <2>2
    <3>2. i \in 1 .. Len(Parts(u, d)) /\ SymbolFor(more[k], u, d, i)
      BY <1>2, <1>11, <3>1
    <3> QED
      BY <2>0, <3>2, Zenon
  <2> QED
    BY <1>8, <2>0, <2>1, <2>2
<1>13. \A k \in 1 .. Len(ss) : ss[k].kind \in ProcKinds /\ ss[k].die = d =>
         IsPart(ss[k], rs[1])
  <2> SUFFICES ASSUME NEW k \in 1 .. Len(ss), ss[k].kind \in ProcKinds, ss[k].die = d
               PROVE  IsPart(ss[k], rs[1])
    OBVIOUS
  <2>1. PICK e \in 1 .. ptr - 1 : \E i \in 1 .. Len(Parts(u, e)) :
               SymbolFor(ss[k], u, e, i) /\ (e = d => i = 1)
    BY Zenon DEF CodeSymbols, OfParts
  <2>2. PICK i \in 1 .. Len(Parts(u, e)) : SymbolFor(ss[k], u, e, i) /\ (e = d => i = 1)
    BY <2>1
  <2>3. e = d
    BY <2>2 DEF SymbolFor
  <2> QED
    BY <1>2, <2>2, <2>3 DEF SymbolFor
<1>14. ASSUME NEW i \in 1 .. Len(rs), NEW j \in 1 .. Len(rs), NEW s, NEW r,
              IsPart(s, rs[i]), IsPart(r, rs[j]), s.lo = r.lo
       PROVE  i = j
  <2>1. rs[i] \in Range0 /\ rs[j] \in Range0
    BY <1>3
  <2>2. rs[i].lo = rs[j].lo
    BY <1>14, <2>1 DEF IsPart, Range0
  <2>3. rs[i].lo < rs[i].hi /\ rs[j].lo < rs[j].hi /\ (i # j => Apart(rs[i], rs[j]))
    BY <1>3 DEF Disjoint
  <2> QED
    BY <2>1, <2>2, <2>3 DEF Apart, Range0
<1>15. OneForPart(more)
  <2> SUFFICES ASSUME NEW j \in 1 .. Len(more), NEW k \in 1 .. Len(more),
                      more[j].kind \in ProcKinds, more[k].kind \in ProcKinds,
                      more[j].die = more[k].die, more[j].lo = more[k].lo
               PROVE  j = k
    BY DEF OneForPart
  <2>0. more[j] # End /\ more[k] # End /\ 1 \in 1 .. Len(rs)
    BY <1>3, <1>10
  <2>1. CASE j \in 1 .. Len(ss) /\ more[j] = ss[j] /\ k \in 1 .. Len(ss) /\ more[k] = ss[k]
    BY <2>1 DEF CodeSymbols, OneForPart
  <2>2. ASSUME NEW a \in 1 .. Len(more), NEW b \in 1 .. Len(ss), NEW c \in 1 .. Len(more),
               more[c] = ss[b], more[c].kind \in ProcKinds, more[a].die = more[c].die,
               more[a].lo = more[c].lo,
               NEW i \in 2 .. Len(rs), more[a] = SepCode(d, rs[i])
        PROVE  FALSE
    <3>1. IsPart(more[c], rs[1])
      BY <1>9, <1>13, <2>2
    <3>2. IsPart(more[a], rs[i]) /\ i \in 1 .. Len(rs) /\ i # 1
      BY <1>9, <1>11, <2>2
    <3> QED
      BY <1>14, <2>0, <2>2, <3>1, <3>2
  <2>3. ASSUME NEW i \in 2 .. Len(rs), j = Len(ss) + (2 * i - 3), more[j] = SepCode(d, rs[i]),
               NEW m \in 2 .. Len(rs), k = Len(ss) + (2 * m - 3), more[k] = SepCode(d, rs[m])
        PROVE  j = k
    <3>1. IsPart(more[j], rs[i]) /\ IsPart(more[k], rs[m])
      BY <1>9, <2>3
    <3>2. i = m
      BY <1>11, <1>14, <3>1
    <3> QED
      BY <2>3, <3>2
  <2> QED
    BY <1>8, <2>0, <2>1, <2>2, <2>3
<1>16. ASSUME NEW e, NEW i, HasSymbol(u, ss, e, i) PROVE HasSymbol(u, more, e, i)
  <2>1. PICK k \in 1 .. Len(ss) : SymbolFor(ss[k], u, e, i)
    BY <1>16 DEF HasSymbol
  <2>2. k \in 1 .. Len(more) /\ more[k] = ss[k]
    BY <1>1, <1>5, <1>7
  <2>3. SymbolFor(more[k], u, e, i)
    BY <2>1, <2>2
  <2> QED
    BY <2>2, <2>3 DEF HasSymbol
<1>17. ASSUME NEW i \in 2 .. Len(rs) PROVE HasSymbol(u, more, d, i)
  <2>1. PICK k : k = 2 * i - 3
    BY Zenon
  <2>2. k \in 1 .. Len(t) /\ t[k] = SepCode(d, rs[i])
    BY <1>4, <2>1 DEF IsSepCodes
  <2>3. Len(ss) + k \in 1 .. Len(more) /\ more[Len(ss) + k] = SepCode(d, rs[i])
    BY <1>1, <1>5, <1>7, <2>2
  <2>4. SymbolFor(more[Len(ss) + k], u, d, i)
    BY <1>11, <2>3
  <2> QED
    BY <2>3, <2>4 DEF HasSymbol
<1>18. AllParts(u, more, ptr, 0)
  <2> SUFFICES ASSUME NEW e \in 1 .. ptr - 1, DefinedIn(u, e), NEW i \in 1 .. Len(Parts(u, e))
               PROVE  HasSymbol(u, more, e, i)
    BY Zenon DEF AllParts
  <2>1. (e = d /\ i # 1) \/ HasSymbol(u, ss, e, i)
    BY Zenon DEF CodeSymbols, AllParts
  <2>2. CASE e = d /\ i # 1
    <3>1. i \in 2 .. Len(rs)
      BY <1>2, <1>3, <2>2
    <3> QED
      BY <1>17, <2>2, <3>1
  <2> QED
    BY <1>16, <2>1, <2>2
<1>19. OfBlocks(u, more)
  <2> SUFFICES ASSUME NEW k \in 1 .. Len(more), more[k].kind = "S_BLOCK"
               PROVE  \E e \in 1 .. Len(u.dies) :
                        /\ u.dies[e].tag = "lexical_block" /\ more[k].die = e
                        /\ IsPart(more[k], BlockIn(u, u.dies[e]))
                        /\ BlockIn(u, u.dies[e]).lo < BlockIn(u, u.dies[e]).hi
    BY Zenon DEF OfBlocks
  <2>1. more[k] # End
    BY <1>10
  <2>2. k \in 1 .. Len(ss) /\ more[k] = ss[k]
    BY <1>8, <1>9, <2>1
  <2>3. OfBlocks(u, ss) /\ ss[k].kind = "S_BLOCK"
    BY <2>2 DEF CodeSymbols
  <2> QED
    BY <2>2, <2>3 DEF OfBlocks
<1> QED
  BY <1>7, <1>12, <1>15, <1>18, <1>19 DEF CodeSymbols

(* A function on 1 .. n is a list.                                         *)
LEMMA FunctionList ==
  ASSUME NEW n \in Nat, NEW f, NEW g, f = [i \in 1 .. n |-> g[i]]
  PROVE  IsList(f) /\ Len(f) = n
<1>1. PICK T : T = {g[i] : i \in 1 .. n}
  BY Zenon
<1>2. f \in [1 .. n -> T]
  BY <1>1
<1>3. f \in Seq(T) /\ Len(f) = n
  BY <1>2, SeqOfFunction
<1> QED
  BY <1>3 DEF IsList

(* Where a global variable is.                                             *)
Offsets(at) == IsList(at) /\ \A i \in 1 .. Len(at) : at[i].off \in Nat

LEMMA SymbolFound ==
  ASSUME NEW u \in Units, unit = u, NEW name, NEW s, s = FindSymbol(name)
  PROVE  /\ DOMAIN s = 1 .. Len(s) /\ Len(s) \in Nat
         /\ \A i \in 1 .. Len(s) : s[i] \in Symbol
<1> DEFINE ks == {k \in DOMAIN Spellings : Spelled(name, k) # {}}
<1>1. CASE ks = {}
  <2>1. s = <<>>
    BY <1>1 DEF FindSymbol
  <2> QED
    BY <2>1
<1>2. CASE ks # {}
  <2>1. ks \subseteq Nat
    BY DEF Spellings
  <2>2. Min(ks) \in ks
    <3> HIDE DEF ks
    <3> QED
      BY <1>2, <2>1, MinIs
  <2>3. PICK S, m : S = Spelled(name, Min(ks)) /\ m = Max(S)
    BY Zenon
  <2>4. S # {}
    BY <2>2, <2>3
  <2>5. u.symtable \in Seq(Symbol)
    BY UnitIs DEF Unit
  <2>6. Len(u.symtable) \in Nat /\ DOMAIN u.symtable = 1 .. Len(u.symtable)
    BY <2>5
  <2>7. S \in SUBSET (0 .. Len(u.symtable)) /\ S \subseteq 1 .. Len(u.symtable)
    BY <2>3, <2>6 DEF Spelled
  <2>8. m \in S
    BY <2>3, <2>4, <2>6, <2>7, MaxIs
  <2>9. m \in 1 .. Len(u.symtable)
    BY <2>7, <2>8
  <2>10. u.symtable[m] \in Symbol
    BY <2>5, <2>9
  <2>11. PICK x : x = u.symtable[m]
    BY Zenon
  <2>12. s = <<x>>
    BY <1>2, <2>3, <2>11 DEF FindSymbol
  <2> QED
    BY <2>10, <2>11, <2>12
<1> QED
  BY <1>1, <1>2

LEMMA LocationType ==
  ASSUME NEW u \in Units, NEW d \in 1 .. Len(u.dies),
         NEW loc, loc = decodeLocation(u.dies[d].location, Unusable)
  PROVE  loc \in Location
<1>1. PICK attr : attr = u.dies[d].location
  BY Zenon
<1>2. attr \in Attribute
  BY <1>1, DieIs DEF Die
<1>3. CASE attr.form = "expr"
  <2>1. attr.expr \in Seq(Operation) /\ HasValue(attr.expr)
    BY <1>1, <1>2, <1>3, DieIs DEF Attribute, ExpressionsFit
  <2>2. loc = Evaluate(attr.expr, Unusable)[1]
    BY <1>1, <1>3 DEF decodeLocation
  <2> QED
    BY <2>1, <2>2, EvaluateType
<1>4. CASE attr.form = "const"
  <2>1. attr.n \in Int
    BY <1>2 DEF Attribute
  <2>2. loc = mkAbs(attr.n)
    BY <1>1, <1>4 DEF decodeLocation
  <2> QED
    BY <2>1, <2>2 DEF mkAbs, Location
<1>5. CASE attr.form \notin {"expr", "const"}
  <2>1. loc = Unusable
    BY <1>1, <1>5 DEF decodeLocation
  <2> QED
    BY <2>1 DEF Unusable, Location
<1> QED
  BY <1>3, <1>4, <1>5

LEMMA GlobalIs ==
  ASSUME NEW u \in Units, unit = u, NEW d \in 1 .. Len(u.dies),
         NEW at, at = GlobalAt(u.dies[d])
  PROVE  Offsets(at)
<1>1. PICK loc, in, name :
        /\ loc = decodeLocation(u.dies[d].location, Unusable)
        /\ in = SectionAt(loc.off) /\ name = u.dies[d].name
  BY Zenon
<1>2. CASE u.dies[d].location.form = "none" /\ u.dies[d].external
  <2>1. PICK s : s = FindSymbol(name)
    BY Zenon
  <2>2. /\ DOMAIN s = 1 .. Len(s) /\ Len(s) \in Nat
        /\ \A i \in 1 .. Len(s) : s[i] \in Symbol
    BY <2>1, SymbolFound
  <2>3. PICK g : g = [i \in 1 .. Len(s) |-> [seg |-> s[i].seg, off |-> s[i].off]]
    BY Zenon
  <2>4. at = [i \in 1 .. Len(s) |-> [seg |-> s[i].seg, off |-> s[i].off]]
    BY <1>1, <1>2, <2>1, <2>2 DEF GlobalAt
  <2>5. \A i \in 1 .. Len(s) : at[i] = g[i] /\ at[i].off = s[i].off
    BY <2>3, <2>4
  <2>6. at = [i \in 1 .. Len(s) |-> g[i]]
    BY <2>3, <2>4
  <2>7. IsList(at) /\ Len(at) = Len(s)
    BY <2>2, <2>6, FunctionList
  <2>8. \A i \in 1 .. Len(s) : s[i].off \in Nat
    BY <2>2 DEF Symbol
  <2> QED
    BY <2>5, <2>7, <2>8 DEF Offsets
<1>3. CASE /\ ~(u.dies[d].location.form = "none" /\ u.dies[d].external)
           /\ IsAbs(loc) /\ in # {}
  <2>1. loc \in Location
    BY <1>1, LocationType
  <2>2. loc.off \in Int
    BY <2>1 DEF Location
  <2>3. /\ Sections \in Seq([lo : Nat, hi : Nat]) /\ DOMAIN Sections = 1 .. Len(Sections)
        /\ Len(Sections) \in Nat
    <3>1. Sections \in Seq([lo : Nat, hi : Nat])
      BY UnitsAssumption
    <3> QED
      BY <3>1
  <2>4. in \subseteq Nat
    BY <1>1, <2>3 DEF SectionAt
  <2>5. Min(in) \in in
    BY <1>3, <2>4, MinIs
  <2>6. PICK m, k : m = Min(in) /\ k = OffsetIn(m, loc.off)
    BY Zenon
  <2>7. m \in 1 .. Len(Sections) /\ Sections[m].lo <= loc.off
    BY <1>1, <2>3, <2>5, <2>6 DEF SectionAt
  <2>8. Sections[m] \in [lo : Nat, hi : Nat]
    <3>1. PICK T : T = [lo : Nat, hi : Nat]
      BY Zenon
    <3>2. Sections \in Seq(T)
      BY <2>3, <3>1
    <3>3. Sections[m] \in T
      BY ONLY <2>3, <2>7, <3>2
    <3> QED
      BY <3>1, <3>3
  <2>9. Sections[m].lo \in Nat
    BY <2>8
  <2>10. k \in Nat
    BY <2>2, <2>6, <2>7, <2>9 DEF OffsetIn
  <2>11. PICK x : x = [seg |-> m, off |-> k]
    BY Zenon
  <2>12. at = <<x>>
    BY <1>1, <1>3, <2>6, <2>11 DEF GlobalAt
  <2>13. x.off = k
    BY <2>11
  <2>14. IsList(at) /\ Len(at) = 1 /\ at[1] = x
    BY <2>12, ListOne
  <2> QED
    BY <2>10, <2>13, <2>14 DEF Offsets
<1>4. CASE /\ ~(u.dies[d].location.form = "none" /\ u.dies[d].external)
           /\ ~(IsAbs(loc) /\ in # {})
  <2>1. at = <<>>
    BY <1>1, <1>4 DEF GlobalAt
  <2> QED
    BY <2>1, ListEmpty DEF Offsets
<1> QED
  BY <1>2, <1>3, <1>4
-----------------------------------------------------------------------------
(***************************************************************************)
(* The inductive invariant.  The cursor of createTypes is at the level it  *)
(* is in, and the other cursors are in the unit; the base address is the   *)
(* unit's once its first DIE is read; the procedure in progress is before  *)
(* the cursor and has all its ranges; the symbols of code are those of the *)
(* DIEs before the cursor.                                                 *)
(***************************************************************************)
Inside == {"params", "blocks", "sepcode"}

Cursors(u, c, sc, lb) ==
  /\ AtLevel(u.dies, c) /\ Place(u.dies, sc)
  /\ IsList(lb) /\ \A k \in 1 .. Len(lb) : Place(u.dies, lb[k])

Based(u, c, b) == b \in Nat /\ (c.ptr # 1 => b = BaseOf(u))

InProc(u, c, pr) ==
  /\ pr.die \in 1 .. c.ptr - 1 /\ DefinedIn(u, pr.die) /\ pr.ranges = Parts(u, pr.die)
  /\ pr.frameBase \in Location /\ pr.cfa \in Location

Busy(p, pr) == IF p \in Inside THEN pr.die ELSE 0

PublicIn(u, s) ==
  /\ s.off \in Nat
  /\ u.dies[s.die].tag = "subprogram" => s.off = EntryIn(u, u.dies[s.die]) - codeSegOff
Publics(u, ps) == IsList(ps) /\ \A k \in 1 .. Len(ps) : PublicIn(u, ps[k])

Finished(u, c) == \A i \in c.ptr .. Len(u.dies) : IsNull(u.dies[i])

Consistent(u, p, c, b, pr, sc, lb, ss, ps) ==
  /\ u \in Units /\ p \in Inside \cup {"scan", "done"}
  /\ Cursors(u, c, sc, lb) /\ Based(u, c, b)
  /\ pr.die \in 0 .. Len(u.dies) /\ (p \in Inside => InProc(u, c, pr))
  /\ CodeSymbols(u, ss, c.ptr, Busy(p, pr)) /\ Publics(u, ps)
  /\ p = "done" => Finished(u, c)

Inv == Consistent(unit, pc, cursor, base_address, proc, scan, lexicalBlocks, symbols, publics)

LEMMA InitKeeps ==
  ASSUME Init
  PROVE  Inv
<1>1. /\ unit \in Units /\ pc = "scan" /\ cursor = Start /\ base_address = 0 /\ proc = NoProc
      /\ scan = Start /\ lexicalBlocks = <<>> /\ symbols = <<>> /\ publics = <<>>
  BY DEF Init
<1>2. PICK u : u = unit
  BY Zenon
<1>3. IsUnit(u.dies) /\ Len(u.dies) \in Nat /\ Len(u.dies) >= 1
  BY <1>1, <1>2, UnitIs, UnitIsTree
<1>4. PICK b : b = FALSE
  BY Zenon
<1>5. b \in BOOLEAN
  BY <1>4, Zenon
<1>6. Start = [ptr |-> 1, level |-> 0, prevHasChild |-> b, sibling |-> 0]
  BY <1>4 DEF Start
<1>7. Start \in Cursor /\ Start.ptr = 1 /\ Start.level = 0 /\ Start.prevHasChild = b
  BY <1>5, <1>6 DEF Cursor
<1>8. Place(u.dies, Start)
  BY <1>3, <1>7 DEF Place
<1>9. LevelOf(Start) = 0
  <2>1. ~Start.prevHasChild
    BY <1>4, <1>7, Zenon
  <2> QED
    BY <1>7, <2>1 DEF LevelOf
<1>10. AtLevel(u.dies, Start)
  BY <1>3, <1>7, <1>8, <1>9, OpenFirst DEF AtLevel
<1>11. Cursors(u, Start, Start, <<>>)
  BY <1>8, <1>10, ListEmpty DEF Cursors
<1>12. Based(u, Start, 0)
  BY <1>7 DEF Based
<1>13. CodeSymbols(u, <<>>, 1, 0)
  BY ListEmpty DEF CodeSymbols, OfParts, OneForPart, AllParts, OfBlocks
<1>14. Publics(u, <<>>)
  BY ListEmpty DEF Publics
<1>15. NoProc.die \in 0 .. Len(u.dies)
  BY <1>3 DEF NoProc
<1>16. Busy("scan", NoProc) = 0 /\ "scan" \notin Inside
  BY DEF Busy, Inside
<1>17. Consistent(u, "scan", Start, 0, NoProc, Start, <<>>, <<>>, <<>>)
  BY <1>1, <1>2, <1>7, <1>11, <1>12, <1>13, <1>14, <1>15, <1>16 DEF Consistent
<1> QED
  BY <1>1, <1>2, <1>17 DEF Inv

(* The DIE that createTypes comes to, from cursor to its next one.         *)
Scanned(u, c, r) ==
  /\ r.die \in 1 .. Len(u.dies) /\ c.ptr \in 1 .. r.die
  /\ AtLevel(u.dies, r.cursor) /\ r.cursor.ptr = r.die + 1
  /\ \A d \in c.ptr .. r.die - 1 : ~DefinedIn(u, d)
  /\ c.ptr = 1 => r.die = 1

LEMMA ScanIs ==
  ASSUME NEW u \in Units, NEW c, AtLevel(u.dies, c),
         NEW r, r = readNext(u.dies, c, FALSE)
  PROVE  IF r.die = 0 THEN Finished(u, c) ELSE Scanned(u, c, r)
<1>1. IsUnit(u.dies) /\ Len(u.dies) \in Nat /\ c.ptr \in 1 .. Len(u.dies) + 1
  BY UnitIs DEF AtLevel, Place
<1>2. ReadsOn(u.dies, c, r)
  BY <1>1, ReadNextReadsAll, Zenon
<1>3. CASE r.die = 0
  BY <1>2, <1>3 DEF ReadsOn, Finished
<1>4. CASE r.die # 0
  <2>1. /\ AtLevel(u.dies, r.cursor) /\ r.cursor.ptr = r.die + 1
        /\ \A i \in c.ptr .. r.die - 1 : IsNull(u.dies[i])
        /\ r.die \in c.ptr .. Len(u.dies)
    BY <1>2, <1>4 DEF ReadsOn, Comes
  <2>2. r.die \in 1 .. Len(u.dies) /\ c.ptr \in 1 .. r.die
    BY ONLY <1>1, <2>1
  <2>3. \A d \in c.ptr .. r.die - 1 : ~DefinedIn(u, d)
    BY <2>1 DEF IsNull, DefinedIn
  <2>4. ASSUME c.ptr = 1, r.die # 1 PROVE FALSE
    <3>1. 1 \in c.ptr .. r.die - 1 /\ 1 \in 1 .. Len(u.dies)
      BY ONLY <1>1, <2>2, <2>4
    <3>2. u.dies[1].tag = "null"
      BY <2>1, <3>1 DEF IsNull
    <3>3. u.dies[1].tag = "compile_unit"
      BY <3>1, DieIs
    <3> QED
      BY <3>2, <3>3
  <2> QED
    BY <1>4, <2>1, <2>2, <2>3, <2>4 DEF Scanned
<1> QED
  BY <1>3, <1>4

(* The DIEs up to the one that was read, when that one has no code.        *)
LEMMA ScanPasses ==
  ASSUME NEW u, NEW c, NEW r, Scanned(u, c, r), ~DefinedIn(u, r.die),
         NEW ss, CodeSymbols(u, ss, c.ptr, 0)
  PROVE  CodeSymbols(u, ss, r.cursor.ptr, 0)
<1>1. PICK next, d : next = r.cursor.ptr /\ d = r.die
  BY Zenon
<1>2. c.ptr \in Nat /\ next \in Nat /\ c.ptr <= next /\ next = d + 1 /\ d \in Nat
  BY <1>1 DEF Scanned
<1>3. \A j \in c.ptr .. next - 1 : ~DefinedIn(u, j)
  <2> SUFFICES ASSUME NEW j \in c.ptr .. next - 1 PROVE ~DefinedIn(u, j)
    OBVIOUS
  <2>1. j = d \/ j \in c.ptr .. d - 1
    BY <1>2
  <2> QED
    BY <1>1, <2>1 DEF Scanned
<1> QED
  BY <1>1, <1>2, <1>3, PassedKeep

(* The state of createTypes.                                               *)
LEMMA Scanning ==
  ASSUME Inv, pc = "scan"
  PROVE  /\ unit \in Units
         /\ AtLevel(unit.dies, cursor) /\ Place(unit.dies, scan)
         /\ Based(unit, cursor, base_address)
         /\ CodeSymbols(unit, symbols, cursor.ptr, 0)
         /\ Publics(unit, publics) /\ IsList(lexicalBlocks)
         /\ \A k \in 1 .. Len(lexicalBlocks) : Place(unit.dies, lexicalBlocks[k])
         /\ proc.die \in 0 .. Len(unit.dies)
         /\ Read.die = 0 => Finished(unit, cursor)
         /\ Read.die # 0 => Scanned(unit, cursor, Read)
<1>1. /\ unit \in Units /\ AtLevel(unit.dies, cursor) /\ Place(unit.dies, scan)
      /\ Based(unit, cursor, base_address)
      /\ CodeSymbols(unit, symbols, cursor.ptr, Busy(pc, proc)) /\ Publics(unit, publics)
      /\ IsList(lexicalBlocks)
      /\ \A k \in 1 .. Len(lexicalBlocks) : Place(unit.dies, lexicalBlocks[k])
      /\ proc.die \in 0 .. Len(unit.dies)
  BY Zenon DEF Inv, Consistent, Cursors
<1>2. Busy(pc, proc) = 0
  BY DEF Busy, Inside
<1>3. Read = readNext(unit.dies, cursor, FALSE)
  BY DEF Read, dies
<1>4. PICK r : r = Read
  BY Zenon
<1>5. IF r.die = 0 THEN Finished(unit, cursor) ELSE Scanned(unit, cursor, r)
  BY <1>1, <1>3, <1>4, ScanIs, Zenon
<1>6. CodeSymbols(unit, symbols, cursor.ptr, 0)
  BY <1>1, <1>2
<1> QED
  BY <1>1, <1>4, <1>5, <1>6

(* Going on in createTypes.                                                *)
LEMMA ScanKeeps ==
  ASSUME NEW u \in Units, NEW c, NEW b, NEW pr, NEW sc, NEW lb, NEW ss, NEW ps,
         AtLevel(u.dies, c), Place(u.dies, sc), IsList(lb),
         \A k \in 1 .. Len(lb) : Place(u.dies, lb[k]), Based(u, c, b),
         pr.die \in 0 .. Len(u.dies), CodeSymbols(u, ss, c.ptr, 0), Publics(u, ps)
  PROVE  Consistent(u, "scan", c, b, pr, sc, lb, ss, ps)
<1>1. Busy("scan", pr) = 0 /\ "scan" \notin Inside
  BY DEF Busy, Inside
<1>2. Cursors(u, c, sc, lb)
  BY DEF Cursors
<1> QED
  BY <1>1, <1>2 DEF Consistent

(* Each step keeps the invariant.  First those of createTypes.             *)
LEMMA ReadCompileUnitKeeps ==
  ASSUME Inv, ReadCompileUnit
  PROVE  Inv'
<1> DEFINE r == Read
<1>1. /\ pc = "scan" /\ r.die # 0 /\ unit.dies[r.die].tag = "compile_unit"
      /\ cursor' = r.cursor /\ base_address' = unit.dies[r.die].pclo
  BY DEF ReadCompileUnit, Null, dies
<1>2. /\ unit' = unit /\ pc' = pc /\ proc' = proc /\ scan' = scan
      /\ lexicalBlocks' = lexicalBlocks /\ symbols' = symbols /\ publics' = publics
  BY DEF ReadCompileUnit
<1> HIDE DEF r
<1>3. PICK q : q = r
  BY Zenon
<1>4. Scanned(unit, cursor, q) /\ unit \in Units
  BY <1>1, <1>3, Scanning DEF r
<1>5. q.die = 1 /\ q.die \in 1 .. Len(unit.dies) /\ q.cursor.ptr = q.die + 1
  BY <1>1, <1>3, <1>4, DieIs DEF Scanned
<1>6. ~DefinedIn(unit, q.die)
  BY <1>1, <1>3 DEF DefinedIn
<1>7. CodeSymbols(unit, symbols, q.cursor.ptr, 0)
  BY <1>1, <1>4, <1>6, Scanning, ScanPasses
<1>8. Based(unit, q.cursor, unit.dies[q.die].pclo)
  <2>1. unit.dies[1].pclo \in Nat
    BY <1>4, <1>5, DieIs DEF Die
  <2> QED
    BY <1>5, <2>1 DEF Based, BaseOf
<1>9. AtLevel(unit.dies, q.cursor)
  BY <1>4 DEF Scanned
<1>10. Consistent(unit, "scan", q.cursor, unit.dies[q.die].pclo, proc, scan,
                  lexicalBlocks, symbols, publics)
  BY <1>1, <1>4, <1>7, <1>8, <1>9, Scanning, ScanKeeps, Zenon
<1> QED
  BY <1>1, <1>2, <1>3, <1>10 DEF Inv

LEMMA BaseKept ==
  ASSUME NEW u, NEW c, NEW b, Based(u, c, b), NEW r, Scanned(u, c, r), r.die # 1
  PROVE  Based(u, r.cursor, b) /\ b = BaseOf(u)
<1>1. c.ptr # 1
  BY DEF Scanned
<1> QED
  BY <1>1 DEF Based

LEMMA ReadOtherKeeps ==
  ASSUME Inv, ReadOther
  PROVE  Inv'
<1> DEFINE r == Read
<1>1. /\ pc = "scan" /\ r.die # 0 /\ cursor' = r.cursor
      /\ unit.dies[r.die].tag \notin {"compile_unit", "subprogram", "variable"}
  BY DEF ReadOther, Null, dies
<1>2. /\ unit' = unit /\ pc' = pc /\ base_address' = base_address /\ proc' = proc /\ scan' = scan
      /\ lexicalBlocks' = lexicalBlocks /\ symbols' = symbols /\ publics' = publics
  BY DEF ReadOther
<1> HIDE DEF r
<1>3. PICK q : q = r
  BY Zenon
<1>4. Scanned(unit, cursor, q) /\ unit \in Units
  BY <1>1, <1>3, Scanning DEF r
<1>5. q.die # 1
  BY <1>1, <1>3, <1>4, DieIs DEF Scanned
<1>6. ~DefinedIn(unit, q.die)
  BY <1>1, <1>3 DEF DefinedIn
<1>7. CodeSymbols(unit, symbols, q.cursor.ptr, 0)
  BY <1>1, <1>4, <1>6, Scanning, ScanPasses
<1>8. Based(unit, q.cursor, base_address)
  BY <1>1, <1>4, <1>5, Scanning, BaseKept
<1>9. AtLevel(unit.dies, q.cursor)
  BY <1>4 DEF Scanned
<1>10. Consistent(unit, "scan", q.cursor, base_address, proc, scan, lexicalBlocks, symbols, publics)
  BY <1>1, <1>4, <1>7, <1>8, <1>9, Scanning, ScanKeeps, Zenon
<1> QED
  BY <1>1, <1>2, <1>3, <1>10 DEF Inv

GlobalsOf(d, at) == [i \in DOMAIN at |->
  [kind |-> "S_GDATA", die |-> d, seg |-> at[i].seg, off |-> at[i].off]]
PublicsOf(d, at) == [i \in DOMAIN at |-> [die |-> d, off |-> at[i].off]]

(* A global variable adds no code.                                         *)
LEMMA Globals ==
  ASSUME NEW at, Offsets(at), NEW u, NEW d, u.dies[d].tag = "variable",
         NEW ss, NEW ptr, CodeSymbols(u, ss, ptr, 0), NEW ps, Publics(u, ps),
         NEW more, more = ss \o GlobalsOf(d, at), NEW qs, qs = ps \o PublicsOf(d, at)
  PROVE  CodeSymbols(u, more, ptr, 0) /\ Publics(u, qs)
<1>1. DOMAIN at = 1 .. Len(at) /\ Len(at) \in Nat
  BY ListLen DEF Offsets
<1>2. PICK n : n = Len(at)
  BY Zenon
<1> DEFINE G(i) == [kind |-> "S_GDATA", die |-> d, seg |-> at[i].seg, off |-> at[i].off]
           P(i) == [die |-> d, off |-> at[i].off]
<1>3. \A i \in 1 .. n : G(i).kind = "S_GDATA"
  OBVIOUS
<1>4. \A i \in 1 .. n : PublicIn(u, P(i))
  <2>1. \A i \in 1 .. n : P(i).off = at[i].off /\ P(i).die = d
    OBVIOUS
  <2>2. \A i \in 1 .. n : at[i].off \in Nat
    BY <1>2 DEF Offsets
  <2> HIDE DEF P
  <2> QED
    BY <2>1, <2>2 DEF PublicIn
<1>5. more = ss \o [i \in 1 .. n |-> G(i)] /\ qs = ps \o [i \in 1 .. n |-> P(i)]
  BY <1>1, <1>2 DEF GlobalsOf, PublicsOf
<1> HIDE DEF G, P
<1>6. PICK g, p : g = [i \in 1 .. n |-> G(i)] /\ p = [i \in 1 .. n |-> P(i)]
  BY Zenon
<1>7. \A i \in 1 .. n : g[i] = G(i) /\ p[i] = P(i)
  BY <1>6
<1>8. g = [i \in 1 .. n |-> g[i]] /\ p = [i \in 1 .. n |-> p[i]]
  BY <1>6
<1>9. n \in Nat
  BY <1>1, <1>2
<1>10. IsList(g) /\ Len(g) = n /\ IsList(p) /\ Len(p) = n
  BY <1>8, <1>9, FunctionList
<1>11. IsList(ss) /\ IsList(ps)
  BY DEF CodeSymbols, Publics
<1>12. Behind(more, ss, g) /\ Behind(qs, ps, p)
  BY <1>5, <1>6, <1>10, <1>11, ListJoin, Zenon
<1>13. /\ Kept(ss, more) /\ Len(more) = Len(ss) + n /\ Len(ss) \in Nat
       /\ \A k \in 1 .. n : more[Len(ss) + k] = G(k)
  BY <1>7, <1>10, <1>12 DEF Behind, Kept
<1>14. Placeless(more, Len(ss))
  <2> SUFFICES ASSUME NEW k \in Len(ss) + 1 .. Len(more)
               PROVE  more[k].kind \notin ProcKinds \cup {"S_BLOCK"}
    BY DEF Placeless
  <2>1. PICK j : j = k - Len(ss)
    BY Zenon
  <2>2. j \in 1 .. n /\ k = Len(ss) + j
    BY <1>9, <1>13, <2>1
  <2>3. more[k] = G(j)
    BY <1>13, <2>2
  <2>4. more[k].kind = "S_GDATA"
    BY <1>3, <2>2, <2>3
  <2> QED
    BY <2>4 DEF ProcKinds
<1>15. CodeSymbols(u, more, ptr, 0)
  BY <1>13, <1>14, OthersKeep, Zenon
<1>16. Publics(u, qs)
  <2>1. /\ IsList(qs) /\ Len(qs) = Len(ps) + n /\ Len(ps) \in Nat
        /\ \A k \in 1 .. Len(ps) : qs[k] = ps[k]
        /\ \A k \in 1 .. n : qs[Len(ps) + k] = P(k)
    BY <1>7, <1>10, <1>12 DEF Behind, Kept
  <2>2. ASSUME NEW k \in 1 .. Len(qs) PROVE PublicIn(u, qs[k])
    <3>1. CASE k \in 1 .. Len(ps)
      BY <2>1, <3>1 DEF Publics
    <3>2. CASE k \notin 1 .. Len(ps)
      <4>1. PICK j : j = k - Len(ps)
        BY Zenon
      <4>2. j \in 1 .. n /\ k = Len(ps) + j
        BY <1>9, <2>1, <3>2, <4>1
      <4> QED
        BY <1>4, <2>1, <4>2
    <3> QED
      BY <3>1, <3>2
  <2> QED
    BY <2>1, <2>2 DEF Publics
<1> QED
  BY <1>15, <1>16

LEMMA ReadVariableKeeps ==
  ASSUME Inv, ReadVariable
  PROVE  Inv'
<1> DEFINE r == Read
           at == IF unit.dies[r.die].name = "" THEN <<>> ELSE GlobalAt(unit.dies[r.die])
<1>1. /\ pc = "scan" /\ r.die # 0 /\ unit.dies[r.die].tag = "variable" /\ cursor' = r.cursor
      /\ symbols' = symbols \o GlobalsOf(r.die, at)
      /\ publics' = publics \o PublicsOf(r.die, at)
  BY DEF ReadVariable, Null, dies, GlobalsOf, PublicsOf
<1>2. /\ unit' = unit /\ pc' = pc /\ base_address' = base_address /\ proc' = proc /\ scan' = scan
      /\ lexicalBlocks' = lexicalBlocks
  BY DEF ReadVariable
<1>3. PICK q, g : q = r /\ g = at
  BY Zenon
<1>4. Scanned(unit, cursor, q) /\ unit \in Units
  <2> HIDE DEF at
  <2> QED
    BY <1>1, <1>3, Scanning
<1>5. q.die # 1 /\ q.die \in 1 .. Len(unit.dies)
  <2>1. unit.dies[q.die].tag = "variable"
    BY <1>1, <1>3
  <2> HIDE DEF at, r
  <2> QED
    BY <1>4, <2>1, DieIs DEF Scanned
<1>6. Offsets(g)
  <2>1. CASE unit.dies[q.die].name = ""
    <3>1. g = <<>>
      BY <1>3, <2>1
    <3> QED
      BY <3>1, ListEmpty DEF Offsets
  <2>2. CASE unit.dies[q.die].name # ""
    <3>1. g = GlobalAt(unit.dies[q.die])
      BY <1>3, <2>2
    <3> QED
      BY <1>4, <1>5, <3>1, GlobalIs, Zenon
  <2> QED
    BY <2>1, <2>2
<1>11. symbols' = symbols \o GlobalsOf(q.die, g)
  BY <1>1, <1>3, Zenon
<1>12. publics' = publics \o PublicsOf(q.die, g)
  BY <1>1, <1>3, Zenon
<1>13. unit.dies[q.die].tag = "variable" /\ cursor' = q.cursor /\ pc = "scan" /\ Read.die # 0
       /\ q = Read
  BY <1>1, <1>3, Zenon
<1> HIDE DEF r, at
<1>7. PICK ss, ps : ss = symbols' /\ ps = publics'
  BY Zenon
<1>14. ~DefinedIn(unit, q.die)
  BY <1>13 DEF DefinedIn
<1>15. CodeSymbols(unit, symbols, q.cursor.ptr, 0) /\ Publics(unit, publics)
  BY <1>4, <1>13, <1>14, Scanning, ScanPasses
<1>16. CodeSymbols(unit, ss, q.cursor.ptr, 0) /\ Publics(unit, ps)
  <2>1. ss = symbols \o GlobalsOf(q.die, g) /\ ps = publics \o PublicsOf(q.die, g)
    BY ONLY <1>7, <1>11, <1>12
  <2>2. PICK n, d : n = q.cursor.ptr /\ d = q.die
    BY Zenon
  <2>3. CodeSymbols(unit, ss, n, 0) /\ Publics(unit, ps)
    <3>1. unit.dies[d].tag = "variable"
      BY <1>13, <2>2
    <3>2. CodeSymbols(unit, symbols, n, 0) /\ Publics(unit, publics)
      BY <1>15, <2>2
    <3>3. ss = symbols \o GlobalsOf(d, g) /\ ps = publics \o PublicsOf(d, g)
      BY <2>1, <2>2
    <3> QED
      BY ONLY <1>6, <3>1, <3>2, <3>3, Globals
  <2> QED
    BY <2>2, <2>3
<1>8. Based(unit, q.cursor, base_address)
  BY <1>4, <1>5, <1>13, Scanning, BaseKept
<1>9. AtLevel(unit.dies, q.cursor)
  BY <1>4 DEF Scanned
<1>10. Consistent(unit, "scan", q.cursor, base_address, proc, scan, lexicalBlocks, ss, ps)
  BY <1>4, <1>8, <1>9, <1>13, <1>16, Scanning, ScanKeeps, Zenon
<1> QED
  BY <1>2, <1>7, <1>10, <1>13 DEF Inv

LEMMA EndUnitKeeps ==
  ASSUME Inv, EndUnit
  PROVE  Inv'
<1>1. pc = "scan" /\ Read.die = 0 /\ pc' = "done"
  BY DEF EndUnit, Null
<1>2. /\ unit' = unit /\ cursor' = cursor /\ base_address' = base_address /\ proc' = proc
      /\ scan' = scan /\ lexicalBlocks' = lexicalBlocks /\ symbols' = symbols /\ publics' = publics
  BY DEF EndUnit
<1>3. Busy("done", proc) = 0 /\ Busy("scan", proc) = 0 /\ "done" \notin Inside
  BY DEF Busy, Inside
<1>4. Finished(unit, cursor)
  BY <1>1, Scanning
<1>5. Consistent(unit, "scan", cursor, base_address, proc, scan, lexicalBlocks, symbols, publics)
  BY <1>1 DEF Inv
<1>6. Consistent(unit, "done", cursor, base_address, proc, scan, lexicalBlocks, symbols, publics)
  BY <1>3, <1>4, <1>5 DEF Consistent
<1> QED
  BY <1>1, <1>2, <1>6 DEF Inv

(* The parts of a subprogram, of which there are any if it has code.       *)
LEMMA CodeType ==
  ASSUME NEW u \in Units, NEW d \in 1 .. Len(u.dies)
  PROVE  CodeIn(u, u.dies[d]) \subseteq Nat
<1>1. u.dies[d].pclo \in Nat /\ u.dies[d].pchi \in Nat
  BY DieIs DEF Die
<1>2. PICK m, n : m = u.dies[d].pclo /\ n = u.dies[d].pchi
  BY Zenon
<1>3. m .. n - 1 \subseteq Nat
  BY <1>1, <1>2
<1>4. CodeIn(u, u.dies[d]) = m .. n - 1 \/ CodeIn(u, u.dies[d]) \subseteq Addresses
  BY <1>2 DEF CodeIn
<1> QED
  BY <1>3, <1>4, AddressType

LEMMA PartsAre ==
  ASSUME NEW u \in Units, NEW d \in 1 .. Len(u.dies), u.dies[d].tag = "subprogram",
         NEW rs, rs = Parts(u, d)
  PROVE  /\ Coded(u, u.dies[d], rs) /\ rs \in Seq(Range0) /\ Len(rs) \in Nat
         /\ rs # <<>> <=> CodeIn(u, u.dies[d]) # {}
<1>1. CodeFits(u, u.dies[d])
  BY DieIs
<1>2. Coded(u, u.dies[d], rs)
  BY <1>1, RangesCoverCode DEF Parts
<1>3. rs \in Seq(Range0) /\ Len(rs) \in Nat
  BY <1>2 DEF Coded, Disjoint
<1>4. ASSUME rs # <<>> PROVE CodeIn(u, u.dies[d]) # {}
  <2>1. 1 \in 1 .. Len(rs)
    BY <1>3, <1>4
  <2>2. rs[1] \in Range0
    BY <1>3, <2>1
  <2>3. rs[1].lo < rs[1].hi
    BY <1>2, <2>1 DEF Coded, Disjoint
  <2>4. rs[1].lo \in Nat /\ In(rs[1].lo, rs[1])
    BY <2>2, <2>3 DEF In, Range0
  <2>5. Anyone(rs[1].lo, rs)
    BY <2>1, <2>4 DEF Anyone
  <2> QED
    BY <1>2, <2>4, <2>5 DEF Coded
<1>5. ASSUME NEW a \in CodeIn(u, u.dies[d]), rs = <<>> PROVE FALSE
  <2>1. a \in Nat
    BY CodeType
  <2>2. Anyone(a, rs)
    BY <1>2, <2>1 DEF Coded
  <2> QED
    BY <1>5, <2>2 DEF Anyone
<1> QED
  BY <1>2, <1>3, <1>4, <1>5

LEMMA PublicAppended ==
  ASSUME NEW u, NEW ps, Publics(u, ps), NEW s, PublicIn(u, s), NEW qs, qs = Append(ps, s)
  PROVE  Publics(u, qs)
<1>1. IsList(ps)
  BY DEF Publics
<1>2. Grew(qs, ps, s)
  BY <1>1, ListAppend, Zenon
<1>3. /\ IsList(qs) /\ Len(qs) = Len(ps) + 1 /\ qs[Len(ps) + 1] = s /\ Len(ps) \in Nat
      /\ \A k \in 1 .. Len(ps) : qs[k] = ps[k]
  BY <1>2 DEF Grew, Kept
<1>4. \A k \in 1 .. Len(qs) : k = Len(ps) + 1 \/ k \in 1 .. Len(ps)
  BY <1>3
<1>5. ASSUME NEW k \in 1 .. Len(qs) PROVE PublicIn(u, qs[k])
  <2>1. CASE k = Len(ps) + 1
    BY <1>3, <2>1
  <2>2. CASE k \in 1 .. Len(ps)
    BY <1>3, <2>2 DEF Publics
  <2> QED
    BY <1>4, <2>1, <2>2
<1> QED
  BY <1>3, <1>5 DEF Publics

(* The public symbol of a procedure is at its entry point.                 *)
LEMMA EntryPublic ==
  ASSUME NEW u \in Units, NEW d \in 1 .. Len(u.dies), u.dies[d].tag = "subprogram",
         NEW rs, rs = Parts(u, d), rs # <<>>,
         NEW s, s = [die |-> d, off |-> rs[1].lo - codeSegOff]
  PROVE  PublicIn(u, s)
<1>1. Coded(u, u.dies[d], rs) /\ rs \in Seq(Range0) /\ Len(rs) \in Nat /\ codeSegOff \in Nat
  BY PartsAre, UnitsAssumption
<1>2. 1 \in 1 .. Len(rs)
  BY <1>1
<1>3. rs[1] \in Range0 /\ codeSegOff <= rs[1].lo /\ rs[1].lo = EntryIn(u, u.dies[d])
  BY <1>1, <1>2 DEF Coded
<1>4. rs[1].lo \in Nat
  BY <1>3 DEF Range0
<1>5. s.off = rs[1].lo - codeSegOff /\ s.die = d
  OBVIOUS
<1> QED
  BY <1>1, <1>3, <1>4, <1>5 DEF PublicIn

(* What is done for a subprogram that has code: a public symbol, and the   *)
(* start of the procedure.                                                 *)
LEMMA ReadSubprogramKeeps ==
  ASSUME Inv, ReadSubprogram
  PROVE  Inv'
<1>1. PICK q, d, rs : q = Read /\ d = q.die /\ rs = Code(d)
  BY Zenon
<1> DEFINE has == unit.dies[d].name # "" /\ rs # <<>>
           made == has /\ ~unit.dies[d].isDecl
           s == [die |-> d, off |-> rs[1].lo - codeSegOff]
           p == [die |-> d, ranges |-> rs, frameBase |-> FrameBaseOf(unit.dies[d]),
                 cfa |-> findBestCFA(unit.x64, unit.frames, unit.dies[d].pclo, unit.dies[d].pchi)]
<1>2. pc = "scan" /\ d # 0 /\ unit.dies[d].tag = "subprogram" /\ cursor' = q.cursor
  BY <1>1 DEF ReadSubprogram, Null, dies
<1>3. unit' = unit /\ base_address' = base_address /\ lexicalBlocks' = lexicalBlocks
  BY DEF ReadSubprogram
<1>4. publics' = IF has /\ ~unit.dies[d].is_artificial THEN Append(publics, s) ELSE publics
  BY <1>1 DEF ReadSubprogram, dies
<1>5. ASSUME made
      PROVE  pc' = "params" /\ proc' = p /\ scan' = q.cursor
             /\ symbols' = Append(symbols, Proc(d, rs[1]))
  BY <1>1, <1>5 DEF ReadSubprogram, dies
<1>6. ASSUME ~made
      PROVE  pc' = pc /\ proc' = proc /\ scan' = scan /\ symbols' = symbols
  BY <1>1, <1>6 DEF ReadSubprogram, dies
<1> HIDE DEF s, p
<1>7. Scanned(unit, cursor, q) /\ unit \in Units
  BY <1>1, <1>2, Scanning
<1>8. d \in 1 .. Len(unit.dies) /\ d # 1 /\ d \in Nat
  <2>1. d \in 1 .. Len(unit.dies) /\ Len(unit.dies) \in Nat
    BY <1>1, <1>7, UnitIs DEF Scanned
  <2>2. unit.dies[d].tag = "compile_unit" <=> d = 1
    BY <1>7, <2>1, DieIs
  <2> QED
    BY <1>2, <2>1, <2>2
<1>9. Based(unit, q.cursor, base_address) /\ base_address = BaseOf(unit)
  BY <1>1, <1>2, <1>7, <1>8, Scanning, BaseKept
<1>10. rs = Parts(unit, d)
  BY <1>1, <1>9 DEF Code, Parts, dies, ListOf
<1>11. /\ Coded(unit, unit.dies[d], rs) /\ rs \in Seq(Range0) /\ Len(rs) \in Nat
       /\ rs # <<>> <=> CodeIn(unit, unit.dies[d]) # {}
  BY <1>2, <1>7, <1>8, <1>10, PartsAre
<1>12. made <=> DefinedIn(unit, d)
  BY <1>2, <1>11 DEF DefinedIn
<1>13. /\ Place(unit.dies, scan) /\ CodeSymbols(unit, symbols, cursor.ptr, 0)
       /\ Publics(unit, publics) /\ IsList(lexicalBlocks)
       /\ \A k \in 1 .. Len(lexicalBlocks) : Place(unit.dies, lexicalBlocks[k])
       /\ proc.die \in 0 .. Len(unit.dies)
  BY <1>2, Scanning
<1>14. AtLevel(unit.dies, q.cursor) /\ Place(unit.dies, q.cursor) /\ q.cursor.ptr = d + 1
  BY <1>1, <1>7 DEF Scanned, AtLevel
<1>15. PICK qs : qs = publics'
  BY Zenon
<1>16. Publics(unit, qs)
  <2>1. CASE has /\ ~unit.dies[d].is_artificial
    <3>1. PublicIn(unit, s)
      BY <1>2, <1>7, <1>8, <1>10, <2>1, EntryPublic DEF s
    <3>2. qs = Append(publics, s)
      BY <1>4, <1>15, <2>1
    <3> QED
      BY <1>13, <3>1, <3>2, PublicAppended
  <2>2. CASE ~(has /\ ~unit.dies[d].is_artificial)
    BY <1>4, <1>13, <1>15, <2>2
  <2> QED
    BY <2>1, <2>2
<1>17. CASE ~made
  <2>1. CodeSymbols(unit, symbols, q.cursor.ptr, 0)
    BY <1>1, <1>7, <1>12, <1>13, <1>17, ScanPasses, Zenon
  <2>2. Consistent(unit, "scan", q.cursor, base_address, proc, scan, lexicalBlocks, symbols, qs)
    BY <1>7, <1>9, <1>13, <1>14, <1>16, <2>1, ScanKeeps, Zenon
  <2> QED
    BY <1>2, <1>3, <1>6, <1>15, <1>17, <2>2 DEF Inv
<1>18. CASE made
  <2>1. PICK ss : ss = Append(symbols, Proc(d, rs[1]))
    BY Zenon
  <2>2. Len(rs) \in Nat \ {0}
    <3>1. rs # <<>>
      BY <1>18
    <3> QED
      BY ONLY <1>11, <3>1
  <2>3. cursor.ptr \in Nat /\ cursor.ptr >= 1 /\ cursor.ptr <= d
        /\ \A j \in cursor.ptr .. d - 1 : ~DefinedIn(unit, j)
    BY <1>1, <1>7, <1>8 DEF Scanned
  <2>4. CodeSymbols(unit, ss, d + 1, d)
    BY <1>8, <1>10, <1>12, <1>13, <1>18, <2>1, <2>2, <2>3, ProcBegins
  <2>5. p.die = d /\ p.ranges = rs
    BY DEF p
  <2>6. p.frameBase \in Location /\ p.cfa \in Location
    <3>1. FrameBaseOf(unit.dies[d]) \in Location
      BY <1>7, <1>8, FrameBaseType
    <3>2. findBestCFA(unit.x64, unit.frames, unit.dies[d].pclo, unit.dies[d].pchi) \in Location
      BY <1>7, BestCFAType
    <3> QED
      BY <3>1, <3>2 DEF p
  <2>7. InProc(unit, q.cursor, p)
    <3>1. DefinedIn(unit, d)
      BY <1>12, <1>18
    <3>2. d \in 1 .. (d + 1) - 1
      BY <1>8
    <3> QED
      BY ONLY <1>10, <1>14, <2>5, <2>6, <3>1, <3>2 DEF InProc
  <2>8. Busy("params", p) = d /\ "params" \in Inside
    BY <2>5 DEF Busy, Inside
  <2>9. Cursors(unit, q.cursor, q.cursor, lexicalBlocks)
    BY <1>13, <1>14 DEF Cursors
  <2>10. p.die \in 0 .. Len(unit.dies)
    BY <1>8, <2>5
  <2>11. Consistent(unit, "params", q.cursor, base_address, p, q.cursor, lexicalBlocks, ss, qs)
    BY <1>7, <1>9, <1>14, <1>16, <2>4, <2>7, <2>8, <2>9, <2>10 DEF Consistent
  <2>12. pc' = "params" /\ proc' = p /\ scan' = q.cursor /\ symbols' = ss
    BY <1>5, <1>18, <2>1
  <2> QED
    BY <1>2, <1>3, <1>15, <2>11, <2>12 DEF Inv
<1> QED
  BY <1>17, <1>18

(* The state of addDWARFProc.                                              *)
LEMMA Within ==
  ASSUME Inv, pc \in Inside
  PROVE  /\ unit \in Units /\ IsUnit(unit.dies)
         /\ AtLevel(unit.dies, cursor) /\ Place(unit.dies, scan)
         /\ Based(unit, cursor, base_address) /\ InProc(unit, cursor, proc)
         /\ CodeSymbols(unit, symbols, cursor.ptr, proc.die)
         /\ Publics(unit, publics) /\ IsList(lexicalBlocks)
         /\ \A k \in 1 .. Len(lexicalBlocks) : Place(unit.dies, lexicalBlocks[k])
         /\ proc.die \in 0 .. Len(unit.dies)
<1>1. /\ unit \in Units /\ AtLevel(unit.dies, cursor) /\ Place(unit.dies, scan)
      /\ Based(unit, cursor, base_address) /\ InProc(unit, cursor, proc)
      /\ CodeSymbols(unit, symbols, cursor.ptr, Busy(pc, proc)) /\ Publics(unit, publics)
      /\ IsList(lexicalBlocks)
      /\ \A k \in 1 .. Len(lexicalBlocks) : Place(unit.dies, lexicalBlocks[k])
      /\ proc.die \in 0 .. Len(unit.dies)
  BY Zenon DEF Inv, Consistent, Cursors
<1>2. Busy(pc, proc) = proc.die
  BY DEF Busy
<1>3. CodeSymbols(unit, symbols, cursor.ptr, proc.die)
  BY <1>1, <1>2
<1> QED
  BY <1>1, <1>3, UnitIs

LEMMA InsideKeeps ==
  ASSUME NEW u \in Units, NEW p \in Inside, NEW c, NEW b, NEW pr, NEW sc, NEW lb, NEW ss, NEW ps,
         AtLevel(u.dies, c), Place(u.dies, sc), IsList(lb),
         \A k \in 1 .. Len(lb) : Place(u.dies, lb[k]), Based(u, c, b), InProc(u, c, pr),
         pr.die \in 0 .. Len(u.dies), CodeSymbols(u, ss, c.ptr, pr.die), Publics(u, ps)
  PROVE  Consistent(u, p, c, b, pr, sc, lb, ss, ps)
<1>1. Busy(p, pr) = pr.die /\ p # "done"
  BY DEF Busy, Inside
<1>2. Cursors(u, c, sc, lb)
  BY DEF Cursors
<1> QED
  BY <1>1, <1>2 DEF Consistent

LEMMA VariableKeeps ==
  ASSUME NEW u, NEW ss, NEW ptr, NEW busy, CodeSymbols(u, ss, ptr, busy),
         NEW d, NEW p, NEW more, more = ss \o VarOf(d, p)
  PROVE  CodeSymbols(u, more, ptr, busy)
<1>1. PICK t : t = VarOf(d, p)
  BY Zenon
<1>2. t = <<>> \/ \E x : t = <<x>> /\ x.kind \in {"S_BPREL", "S_REGREL"}
  <2>1. PICK loc : loc = PlaceOf(dies[d], p.frameBase)
    BY Zenon
  <2>2. t = <<>> \/ t = StackVar(d, loc, p.cfa)
    BY <1>1, <2>1 DEF VarOf
  <2>3. PICK at : at = OnFrame(loc, p.cfa)
    BY Zenon
  <2>4. PICK kind : kind = IF CvReg(at.reg) = 22 THEN "S_BPREL" ELSE "S_REGREL"
    BY Zenon
  <2>5. PICK x : x = [kind |-> kind, die |-> d, reg |-> CvReg(at.reg), off |-> at.off]
    BY Zenon
  <2>6. x.kind \in {"S_BPREL", "S_REGREL"}
    BY <2>4, <2>5
  <2>7. StackVar(d, loc, p.cfa) = <<>> \/ StackVar(d, loc, p.cfa) = <<x>>
    BY <2>3, <2>4, <2>5 DEF StackVar
  <2> QED
    BY <2>2, <2>6, <2>7
<1>3. IsList(ss)
  BY DEF CodeSymbols
<1>4. IsList(t) /\ \A k \in 1 .. Len(t) : t[k].kind \notin ProcKinds \cup {"S_BLOCK"}
  <2>1. CASE t = <<>>
    BY <2>1, ListEmpty
  <2>2. CASE t # <<>>
    <3>1. PICK x : t = <<x>> /\ x.kind \in {"S_BPREL", "S_REGREL"}
      BY <1>2, <2>2
    <3>2. IsList(t) /\ Len(t) = 1 /\ t[1] = x
      BY <3>1, ListOne
    <3>3. x.kind \notin ProcKinds \cup {"S_BLOCK"}
      BY <3>1 DEF ProcKinds
    <3>4. \A k \in 1 .. Len(t) : k = 1
      BY <3>2
    <3> QED
      BY <3>2, <3>3, <3>4, Zenon
  <2> QED
    BY <2>1, <2>2
<1>5. Behind(more, ss, t)
  BY <1>1, <1>3, <1>4, ListJoin, Zenon
<1>6. /\ Kept(ss, more) /\ Len(more) = Len(ss) + Len(t) /\ Len(ss) \in Nat /\ Len(t) \in Nat
      /\ \A k \in 1 .. Len(t) : more[Len(ss) + k] = t[k]
  BY <1>5 DEF Behind, Kept
<1>7. Placeless(more, Len(ss))
  <2> SUFFICES ASSUME NEW k \in Len(ss) + 1 .. Len(more)
               PROVE  more[k].kind \notin ProcKinds \cup {"S_BLOCK"}
    BY DEF Placeless
  <2>1. PICK j : j = k - Len(ss)
    BY Zenon
  <2>2. j \in 1 .. Len(t) /\ k = Len(ss) + j
    BY <1>6, <2>1
  <2>3. more[k] = t[j]
    BY <1>6, <2>2
  <2> QED
    BY <1>4, <2>2, <2>3
<1> QED
  BY <1>6, <1>7, OthersKeep, Zenon

LEMMA MarkKeeps ==
  ASSUME NEW u, NEW ss, NEW ptr, NEW busy, CodeSymbols(u, ss, ptr, busy),
         NEW x \in {EndArg, End}, NEW more, more = Append(ss, x)
  PROVE  CodeSymbols(u, more, ptr, busy)
<1>1. x.kind \notin ProcKinds \cup {"S_BLOCK"}
  BY DEF EndArg, End, ProcKinds
<1>2. IsList(ss)
  BY DEF CodeSymbols
<1>3. Grew(more, ss, x)
  BY <1>2, ListAppend, Zenon
<1>4. Kept(ss, more) /\ Len(more) = Len(ss) + 1 /\ more[Len(ss) + 1] = x /\ Len(ss) \in Nat
  BY <1>3 DEF Grew, Kept
<1>5. \A k \in Len(ss) + 1 .. Len(more) : k = Len(ss) + 1
  BY <1>4
<1>6. Placeless(more, Len(ss))
  BY <1>1, <1>4, <1>5 DEF Placeless
<1> QED
  BY <1>4, <1>6, OthersKeep, Zenon

LEMMA ReadParameterKeeps ==
  ASSUME Inv, ReadParameter
  PROVE  Inv'
<1>1. PICK q, t : t = TRUE /\ q = readNext(unit.dies, scan, t)
  BY Zenon
<1>2. /\ pc = "params" /\ scan' = q.cursor
      /\ symbols' = symbols \/ symbols' = symbols \o VarOf(q.die, proc)
  BY <1>1 DEF ReadParameter, dies
<1>3. /\ unit' = unit /\ pc' = pc /\ cursor' = cursor /\ base_address' = base_address
      /\ proc' = proc /\ lexicalBlocks' = lexicalBlocks /\ publics' = publics
  BY DEF ReadParameter
<1>4. pc \in Inside
  BY <1>2 DEF Inside
<1>5. t \in BOOLEAN
  BY <1>1, Zenon
<1>6. Comes(unit.dies, scan, q)
  BY <1>1, <1>4, <1>5, Within, ReadComes, Zenon
<1>7. Place(unit.dies, q.cursor)
  BY <1>6 DEF Comes
<1>8. PICK ss : ss = symbols'
  BY Zenon
<1>9. CodeSymbols(unit, ss, cursor.ptr, proc.die)
  BY <1>2, <1>4, <1>8, Within, VariableKeeps
<1>10. Consistent(unit, pc, cursor, base_address, proc, q.cursor, lexicalBlocks, ss, publics)
  BY <1>4, <1>7, <1>9, Within, InsideKeeps, Zenon
<1> QED
  BY <1>2, <1>3, <1>8, <1>10 DEF Inv

LEMMA EndParametersKeeps ==
  ASSUME Inv, EndParameters
  PROVE  Inv'
<1>1. /\ pc = "params" /\ pc' = "blocks" /\ scan' = cursor /\ lexicalBlocks' = <<>>
      /\ symbols' = Append(symbols, EndArg)
  BY DEF EndParameters
<1>2. /\ unit' = unit /\ cursor' = cursor /\ base_address' = base_address
      /\ proc' = proc /\ publics' = publics
  BY DEF EndParameters
<1>3. pc \in Inside /\ "blocks" \in Inside
  BY <1>1 DEF Inside
<1>4. PICK ss : ss = Append(symbols, EndArg)
  BY Zenon
<1>5. CodeSymbols(unit, ss, cursor.ptr, proc.die)
  BY <1>3, <1>4, Within, MarkKeeps
<1>6. Place(unit.dies, cursor)
  BY <1>3, Within DEF AtLevel
<1>7. IsList(<<>>) /\ \A k \in 1 .. Len(<<>>) : Place(unit.dies, <<>>[k])
  BY ListEmpty
<1>8. Consistent(unit, "blocks", cursor, base_address, proc, cursor, <<>>, ss, publics)
  BY <1>3, <1>5, <1>6, <1>7, Within, InsideKeeps
<1> QED
  BY <1>1, <1>2, <1>4, <1>8 DEF Inv

(* Where a cursor goes on: behind a block, or the next of those it left.   *)
LEMMA PushPlace ==
  ASSUME NEW u, NEW c, Place(u, c), NEW lb, IsList(lb),
         \A k \in 1 .. Len(lb) : Place(u, lb[k]), NEW more, more = <<c>> \o lb
  PROVE  IsList(more) /\ \A k \in 1 .. Len(more) : Place(u, more[k])
<1>1. PICK t : t = <<c>>
  BY Zenon
<1>2. IsList(t) /\ Len(t) = 1 /\ t[1] = c
  BY <1>1, ListOne
<1>3. Behind(more, t, lb)
  BY <1>1, <1>2, ListJoin, Zenon
<1>4. /\ IsList(more) /\ Len(more) = 1 + Len(lb) /\ Len(lb) \in Nat /\ more[1] = c
      /\ \A k \in 1 .. Len(lb) : more[1 + k] = lb[k]
  BY <1>2, <1>3 DEF Behind, Kept
<1>5. ASSUME NEW k \in 1 .. Len(more) PROVE Place(u, more[k])
  <2>1. CASE k = 1
    BY <1>4, <2>1
  <2>2. CASE k # 1
    <3>1. PICK j : j = k - 1
      BY Zenon
    <3>2. j \in 1 .. Len(lb) /\ k = 1 + j
      BY <1>4, <2>2, <3>1
    <3> QED
      BY <1>4, <3>2
  <2> QED
    BY <2>1, <2>2
<1> QED
  BY <1>4, <1>5

LEMMA PopPlace ==
  ASSUME NEW u, NEW lb, IsList(lb), lb # <<>>, \A k \in 1 .. Len(lb) : Place(u, lb[k]),
         NEW rest, rest = Tail(lb)
  PROVE  Place(u, lb[1]) /\ IsList(rest) /\ \A k \in 1 .. Len(rest) : Place(u, rest[k])
<1>1. PICK T : lb \in Seq(T)
  BY DEF IsList
<1>2. /\ rest \in Seq(T) /\ Len(lb) \in Nat /\ Len(rest) = Len(lb) - 1 /\ 1 \in 1 .. Len(lb)
      /\ \A k \in 1 .. Len(rest) : rest[k] = lb[k + 1]
  BY <1>1
<1>3. \A k \in 1 .. Len(rest) : k + 1 \in 1 .. Len(lb)
  BY <1>2
<1> QED
  BY <1>2, <1>3 DEF IsList

(* The DIE that the cursor in the blocks comes to.                         *)
LEMMA BlocksRead ==
  ASSUME Inv, pc = "blocks", NEW q, q = InBlocks
  PROVE  /\ Place(unit.dies, q.cursor)
         /\ q.die # 0 => /\ q.die \in 1 .. Len(unit.dies)
                         /\ Place(unit.dies, gotoSibling(unit.dies, q.cursor))
<1>1. pc \in Inside
  BY DEF Inside
<1>2. PICK t : t = FALSE
  BY Zenon
<1>3. t \in BOOLEAN
  BY <1>2, Zenon
<1>4. q = readNext(unit.dies, scan, t)
  BY <1>2 DEF InBlocks, dies
<1>5. IsUnit(unit.dies) /\ Place(unit.dies, scan)
  BY <1>1, Within
<1>6. Comes(unit.dies, scan, q)
  BY <1>3, <1>4, <1>5, ReadComes, Zenon
<1>7. ASSUME q.die # 0
      PROVE  q.die \in 1 .. Len(unit.dies) /\ Place(unit.dies, gotoSibling(unit.dies, q.cursor))
  <2>1. PICK d : d = q.die
    BY Zenon
  <2>2. d \in scan.ptr .. Len(unit.dies) /\ scan.ptr \in 1 .. Len(unit.dies) + 1
        /\ Len(unit.dies) \in Nat
    BY ONLY <1>5, <1>6, <1>7, <2>1, UnitIsTree DEF Comes, Place
  <2>3. d \in 1 .. Len(unit.dies)
    BY ONLY <2>2
  <2>4. PICK l \in Int : q.cursor = Having(unit.dies, d, l)
    BY <1>6, <1>7, <2>1 DEF Comes
  <2>5. Place(unit.dies, gotoSibling(unit.dies, Having(unit.dies, d, l)))
    BY <1>5, <2>3, SiblingPlace
  <2> QED
    BY <2>1, <2>3, <2>4, <2>5
<1> QED
  BY <1>6, <1>7 DEF Comes

LEMMA EnterBlockKeeps ==
  ASSUME Inv, EnterBlock
  PROVE  Inv'
<1>1. PICK q, d : q = InBlocks /\ d = q.die
  BY Zenon
<1>2. /\ pc = "blocks" /\ d # 0 /\ IsScope(unit.dies[d])
      /\ symbols' = Append(symbols, Block(d, BlockRange(unit.dies[d])))
      /\ lexicalBlocks' = <<gotoSibling(unit.dies, q.cursor)>> \o lexicalBlocks
      /\ scan' = Subtree(q.cursor)
  BY <1>1 DEF EnterBlock, Null, dies, AfterBlock
<1>3. /\ unit' = unit /\ pc' = pc /\ cursor' = cursor /\ base_address' = base_address
      /\ proc' = proc /\ publics' = publics
  BY DEF EnterBlock
<1>4. pc \in Inside
  BY <1>2 DEF Inside
<1>5. /\ Place(unit.dies, q.cursor) /\ d \in 1 .. Len(unit.dies)
      /\ Place(unit.dies, gotoSibling(unit.dies, q.cursor))
  BY <1>1, <1>2, BlocksRead
<1>6. PICK lb, sc, ss : /\ lb = <<gotoSibling(unit.dies, q.cursor)>> \o lexicalBlocks
                        /\ sc = Subtree(q.cursor)
                        /\ ss = Append(symbols, Block(d, BlockRange(unit.dies[d])))
  BY Zenon
<1>7. IsList(lb) /\ \A k \in 1 .. Len(lb) : Place(unit.dies, lb[k])
  BY <1>4, <1>5, <1>6, Within, PushPlace, Zenon
<1>8. Place(unit.dies, sc)
  BY <1>5, <1>6, SubtreePlace
<1>9. base_address = BaseOf(unit)
  <2>1. proc.die \in 1 .. cursor.ptr - 1
    BY <1>4, Within DEF InProc
  <2>2. cursor.ptr # 1
    BY <2>1
  <2> QED
    BY <1>4, <2>2, Within DEF Based
<1>10. BlockRange(unit.dies[d]) = BlockIn(unit, unit.dies[d])
  BY <1>9 DEF BlockRange, BlockIn, ListOf
<1>11. unit.dies[d].tag = "lexical_block" /\ BlockIn(unit, unit.dies[d]).hi > BlockIn(unit, unit.dies[d]).lo
  BY <1>2, <1>10 DEF IsScope
<1>12. PICK b : b = BlockIn(unit, unit.dies[d])
  BY Zenon
<1>13. b \in Range0
  BY <1>4, <1>5, <1>11, <1>12, Within, DieIs, BlockIs DEF Blocked
<1>14. b.lo < b.hi
  BY <1>11, <1>12, <1>13 DEF Range0
<1>15. CodeSymbols(unit, ss, cursor.ptr, proc.die)
  BY <1>4, <1>5, <1>6, <1>10, <1>11, <1>12, <1>14, Within, BlockBegins
<1>16. Consistent(unit, pc, cursor, base_address, proc, sc, lb, ss, publics)
  BY <1>4, <1>7, <1>8, <1>15, Within, InsideKeeps, Zenon
<1> QED
  BY <1>2, <1>3, <1>6, <1>16 DEF Inv

LEMMA ReadLocalKeeps ==
  ASSUME Inv, ReadLocal
  PROVE  Inv'
<1>1. PICK q, d : q = InBlocks /\ d = q.die
  BY Zenon
<1>2. /\ pc = "blocks" /\ d # 0 /\ scan' = gotoSibling(unit.dies, q.cursor)
      /\ symbols' = symbols \/ symbols' = symbols \o VarOf(d, proc)
  BY <1>1 DEF ReadLocal, Null, dies
<1>3. /\ unit' = unit /\ pc' = pc /\ cursor' = cursor /\ base_address' = base_address
      /\ proc' = proc /\ lexicalBlocks' = lexicalBlocks /\ publics' = publics
  BY DEF ReadLocal
<1>4. pc \in Inside
  BY <1>2 DEF Inside
<1>5. PICK sc, ss : sc = scan' /\ ss = symbols'
  BY Zenon
<1>6. Place(unit.dies, sc)
  BY <1>1, <1>2, <1>5, BlocksRead
<1>7. CodeSymbols(unit, ss, cursor.ptr, proc.die)
  BY <1>2, <1>4, <1>5, Within, VariableKeeps
<1>8. Consistent(unit, pc, cursor, base_address, proc, sc, lexicalBlocks, ss, publics)
  BY <1>4, <1>6, <1>7, Within, InsideKeeps, Zenon
<1> QED
  BY <1>3, <1>5, <1>8 DEF Inv

LEMMA EndScopeKeeps ==
  ASSUME Inv, EndScope
  PROVE  Inv'
<1>1. /\ pc = "blocks" /\ symbols' = Append(symbols, End)
      /\ IF lexicalBlocks = <<>>
         THEN pc' = "sepcode" /\ scan' = scan /\ lexicalBlocks' = lexicalBlocks
         ELSE scan' = lexicalBlocks[1] /\ lexicalBlocks' = Tail(lexicalBlocks) /\ pc' = pc
  BY DEF EndScope
<1>2. /\ unit' = unit /\ cursor' = cursor /\ base_address' = base_address
      /\ proc' = proc /\ publics' = publics
  BY DEF EndScope
<1>3. pc \in Inside /\ "sepcode" \in Inside
  BY <1>1 DEF Inside
<1>4. PICK ss : ss = Append(symbols, End)
  BY Zenon
<1>5. CodeSymbols(unit, ss, cursor.ptr, proc.die)
  BY <1>3, <1>4, Within, MarkKeeps
<1>6. CASE lexicalBlocks = <<>>
  <2>1. Consistent(unit, "sepcode", cursor, base_address, proc, scan, lexicalBlocks, ss, publics)
    BY <1>3, <1>5, Within, InsideKeeps, Zenon
  <2> QED
    BY <1>1, <1>2, <1>4, <1>6, <2>1 DEF Inv
<1>7. CASE lexicalBlocks # <<>>
  <2>1. PICK sc, lb : sc = lexicalBlocks[1] /\ lb = Tail(lexicalBlocks)
    BY Zenon
  <2>2. /\ Place(unit.dies, sc) /\ IsList(lb)
        /\ \A k \in 1 .. Len(lb) : Place(unit.dies, lb[k])
    BY <1>3, <1>7, <2>1, Within, PopPlace
  <2>3. Consistent(unit, pc, cursor, base_address, proc, sc, lb, ss, publics)
    BY <1>3, <1>5, <2>2, Within, InsideKeeps, Zenon
  <2> QED
    BY <1>1, <1>2, <1>4, <1>7, <2>1, <2>3 DEF Inv
<1> QED
  BY <1>6, <1>7

LEMMA EndProcKeeps ==
  ASSUME Inv, EndProc
  PROVE  Inv'
<1>1. /\ pc = "sepcode" /\ pc' = "scan"
      /\ symbols' = symbols \o SepCodes(proc.die, Others(proc.ranges))
  BY DEF EndProc
<1>2. /\ unit' = unit /\ cursor' = cursor /\ base_address' = base_address /\ proc' = proc
      /\ scan' = scan /\ lexicalBlocks' = lexicalBlocks /\ publics' = publics
  BY DEF EndProc
<1>3. pc \in Inside
  BY <1>1 DEF Inside
<1>4. PICK d, ss : d = proc.die /\ ss = symbols \o SepCodes(proc.die, Others(proc.ranges))
  BY Zenon
<1>5. d \in 1 .. cursor.ptr - 1 /\ DefinedIn(unit, d) /\ proc.ranges = Parts(unit, d)
  BY <1>3, <1>4, Within DEF InProc
<1>6. d \in 1 .. Len(unit.dies)
  <2>1. cursor.ptr \in 1 .. Len(unit.dies) + 1 /\ Len(unit.dies) \in Nat
    BY <1>3, Within, UnitIsTree DEF AtLevel, Place
  <2> QED
    BY <1>5, <2>1
<1>7. Disjoint(Parts(unit, d)) /\ Parts(unit, d) # <<>>
  BY <1>3, <1>5, <1>6, Within, PartsAre DEF DefinedIn, Coded
<1>8. PICK t, ptr : t = SepCodes(d, Others(Parts(unit, d))) /\ ptr = cursor.ptr
  BY Zenon
<1>9. ss = symbols \o t
  BY <1>4, <1>5, <1>8
<1>10. CodeSymbols(unit, symbols, ptr, d)
  BY <1>3, <1>4, <1>8, Within
<1>11. codeSegOff \in Nat /\ d \in 1 .. ptr - 1
  BY <1>5, <1>8, UnitsAssumption
<1>12. CodeSymbols(unit, ss, cursor.ptr, 0)
  <2>1. CodeSymbols(unit, ss, ptr, 0)
    BY <1>5, <1>7, <1>8, <1>9, <1>10, <1>11, ProcEnds
  <2> QED
    BY <1>8, <2>1
<1>13. Consistent(unit, "scan", cursor, base_address, proc, scan, lexicalBlocks, ss, publics)
  BY <1>3, <1>12, Within, ScanKeeps, Zenon
<1> QED
  BY <1>1, <1>2, <1>4, <1>13 DEF Inv

LEMMA NextKeeps ==
  ASSUME Inv, [Next]_vars
  PROVE  Inv'
<1>1. CASE Next
  BY <1>1, ReadCompileUnitKeeps, ReadSubprogramKeeps, ReadVariableKeeps, ReadOtherKeeps,
     EndUnitKeeps, ReadParameterKeeps, EndParametersKeeps, EnterBlockKeeps, ReadLocalKeeps,
     EndScopeKeeps, EndProcKeeps, Zenon DEF Next
<1>2. CASE UNCHANGED vars
  BY <1>2 DEF vars, Inv
<1> QED
  BY <1>1, <1>2

(* The invariant holds in every state.                                     *)
THEOREM Invariance == Spec => []Inv
<1>1. Init => Inv
  BY InitKeeps
<1>2. Inv /\ [Next]_vars => Inv'
  BY NextKeeps
<1> QED
  BY <1>1, <1>2, PTL DEF Spec
-----------------------------------------------------------------------------
(***************************************************************************)
(* What the invariant says of the symbols.                                 *)
(***************************************************************************)
LEMMA PartTypes ==
  ASSUME NEW s, NEW r \in Range0, r.lo < r.hi, codeSegOff <= r.lo, codeSegOff \in Nat,
         IsPart(s, r)
  PROVE  /\ s.lo \in Nat /\ s.hi \in Nat /\ s.lo < s.hi
         /\ \A a \in Nat : (s.lo + codeSegOff <= a /\ a < s.hi + codeSegOff) <=> In(a, r)
<1>1. r.lo \in Nat /\ r.hi \in Nat
  BY DEF Range0
<1>2. s.lo = r.lo - codeSegOff /\ s.hi = r.hi - codeSegOff
  BY DEF IsPart
<1> QED
  BY <1>1, <1>2 DEF In

(* The symbol of a part of a procedure.                                    *)
LEMMA SymbolParts ==
  ASSUME NEW u \in Units, NEW d \in 1 .. Len(u.dies), DefinedIn(u, d),
         NEW i \in 1 .. Len(Parts(u, d)), NEW s, SymbolFor(s, u, d, i)
  PROVE  /\ s.lo \in Nat /\ s.hi \in Nat /\ s.lo < s.hi
         /\ \A a \in Nat : (s.lo + codeSegOff <= a /\ a < s.hi + codeSegOff)
                             <=> In(a, Parts(u, d)[i])
<1>1. PICK rs : rs = Parts(u, d)
  BY Zenon
<1>2. Coded(u, u.dies[d], rs)
  BY <1>1, PartsAre DEF DefinedIn
<1>3. rs \in Seq(Range0) /\ i \in 1 .. Len(rs)
  BY <1>1, <1>2 DEF Coded, Disjoint
<1>4. rs[i] \in Range0
  BY <1>3
<1>5. rs[i].lo < rs[i].hi /\ codeSegOff <= rs[i].lo
  BY <1>2, <1>3 DEF Coded, Disjoint
<1>6. codeSegOff \in Nat /\ IsPart(s, rs[i])
  BY <1>1, UnitsAssumption DEF SymbolFor
<1> QED
  BY <1>1, <1>4, <1>5, <1>6, PartTypes

LEMMA BlockSymbol ==
  ASSUME NEW u \in Units, NEW ss, OfBlocks(u, ss), NEW k \in 1 .. Len(ss),
         ss[k].kind = "S_BLOCK"
  PROVE  /\ ss[k].lo \in Nat /\ ss[k].hi \in Nat /\ ss[k].lo < ss[k].hi
         /\ ss[k].die \in 1 .. Len(u.dies)
         /\ CodeIn(u, u.dies[ss[k].die]) \subseteq
              ss[k].lo + codeSegOff .. ss[k].hi + codeSegOff - 1
<1>1. PICK d \in 1 .. Len(u.dies) :
        /\ u.dies[d].tag = "lexical_block" /\ ss[k].die = d
        /\ IsPart(ss[k], BlockIn(u, u.dies[d]))
        /\ BlockIn(u, u.dies[d]).lo < BlockIn(u, u.dies[d]).hi
  BY DEF OfBlocks
<1>2. CodeFits(u, u.dies[d])
  BY <1>1, DieIs
<1>3. PICK r : r = BlockIn(u, u.dies[d])
  BY Zenon
<1>4. Blocked(u, u.dies[d], r)
  BY <1>2, <1>3, BlockIs
<1>5. r \in Range0 /\ r.lo < r.hi /\ codeSegOff <= r.lo
  BY <1>1, <1>3, <1>4 DEF Blocked
<1>6. codeSegOff \in Nat /\ IsPart(ss[k], r)
  BY <1>1, <1>3, UnitsAssumption
<1>7. /\ ss[k].lo \in Nat /\ ss[k].hi \in Nat /\ ss[k].lo < ss[k].hi
      /\ \A a \in Nat : (ss[k].lo + codeSegOff <= a /\ a < ss[k].hi + codeSegOff) <=> In(a, r)
  BY <1>5, <1>6, PartTypes
<1>8. ASSUME NEW a \in CodeIn(u, u.dies[d])
      PROVE  a \in ss[k].lo + codeSegOff .. ss[k].hi + codeSegOff - 1
  <2>1. a \in Nat
    BY CodeType
  <2>2. In(a, r)
    BY <1>4, <2>1 DEF Blocked
  <2> QED
    BY <1>6, <1>7, <2>1, <2>2
<1> QED
  BY <1>1, <1>7, <1>8

(* All the code there is has its symbols.                                  *)
Complete(u, ss) ==
  /\ OfParts(u, ss, Len(u.dies) + 1, 0) /\ OneForPart(ss)
  /\ AllParts(u, ss, Len(u.dies) + 1, 0) /\ OfBlocks(u, ss)

LEMMA DoneComplete ==
  ASSUME NEW u \in Units, NEW c, AtLevel(u.dies, c), Finished(u, c),
         NEW ss, CodeSymbols(u, ss, c.ptr, 0)
  PROVE  Complete(u, ss)
<1>1. c.ptr \in 1 .. Len(u.dies) + 1 /\ c.ptr \in Nat /\ Len(u.dies) \in Nat
  BY UnitIs DEF AtLevel, Place, Cursor
<1>2. \A d \in c.ptr .. (Len(u.dies) + 1) - 1 : ~DefinedIn(u, d)
  <2>1. \A d \in c.ptr .. (Len(u.dies) + 1) - 1 : d \in c.ptr .. Len(u.dies)
    BY <1>1
  <2> QED
    BY <2>1 DEF Finished, IsNull, DefinedIn
<1>3. PICK p, next : p = c.ptr /\ next = Len(u.dies) + 1
  BY Zenon
<1>4. /\ p \in Nat /\ next \in Nat /\ p <= next /\ \A d \in p .. next - 1 : ~DefinedIn(u, d)
      /\ CodeSymbols(u, ss, p, 0)
  BY <1>1, <1>2, <1>3
<1>5. CodeSymbols(u, ss, next, 0)
  BY <1>4, PassedKeep
<1> QED
  BY <1>3, <1>5 DEF CodeSymbols, Complete

LEMMA Single ==
  ASSUME NEW S, NEW x \in S, \A y \in S : y = x
  PROVE  Cardinality(S) = 1
<1>1. S = {x}
  OBVIOUS
<1> QED
  BY <1>1, FS_Singleton

LEMMA CompletePart ==
  ASSUME NEW u \in Units, NEW ss, Complete(u, ss), NEW k \in 1 .. Len(ss),
         ss[k].kind \in ProcKinds,
         NEW d, ss[k].die = d
  PROVE  /\ d \in 1 .. Len(u.dies) /\ DefinedIn(u, d)
         /\ \E i \in 1 .. Len(Parts(u, d)) : SymbolFor(ss[k], u, d, i)
<1>1. PICK e \in 1 .. (Len(u.dies) + 1) - 1 : \E i \in 1 .. Len(Parts(u, e)) :
             DefinedIn(u, e) /\ SymbolFor(ss[k], u, e, i)
  BY Zenon DEF Complete, OfParts
<1>2. e = d
  BY <1>1 DEF SymbolFor
<1>4. Len(u.dies) \in Nat
  BY UnitIs
<1>3. d \in 1 .. Len(u.dies)
  BY <1>1, <1>2, <1>4
<1> QED
  BY <1>1, <1>2, <1>3

ProcsOf(ss, d) == {k \in 1 .. Len(ss) : ss[k].kind = "S_GPROC" /\ ss[k].die = d}

LEMMA OneProc ==
  ASSUME NEW u \in Units, NEW ss, Complete(u, ss), NEW d \in 1 .. Len(u.dies)
  PROVE  Cardinality(ProcsOf(ss, d)) = IF DefinedIn(u, d) THEN 1 ELSE 0
<1>1. ASSUME NEW k \in ProcsOf(ss, d)
      PROVE  /\ k \in 1 .. Len(ss) /\ ss[k].kind \in ProcKinds /\ ss[k].die = d
             /\ DefinedIn(u, d) /\ SymbolFor(ss[k], u, d, 1)
  <2>1. k \in 1 .. Len(ss) /\ ss[k].kind = "S_GPROC" /\ ss[k].kind \in ProcKinds /\ ss[k].die = d
    BY DEF ProcsOf, ProcKinds
  <2>2. DefinedIn(u, d) /\ \E i \in 1 .. Len(Parts(u, d)) : SymbolFor(ss[k], u, d, i)
    BY <2>1, CompletePart, Zenon
  <2>3. PICK i \in 1 .. Len(Parts(u, d)) : SymbolFor(ss[k], u, d, i)
    BY <2>2
  <2>4. i = 1
    BY <2>1, <2>3 DEF SymbolFor
  <2> QED
    BY <2>1, <2>2, <2>3, <2>4
<1>2. CASE ~DefinedIn(u, d)
  <2>1. ProcsOf(ss, d) = {}
    BY <1>1, <1>2
  <2> QED
    BY <1>2, <2>1, FS_EmptySet
<1>3. CASE DefinedIn(u, d)
  <2>1. Len(Parts(u, d)) \in Nat /\ Parts(u, d) # <<>> /\ Parts(u, d) \in Seq(Range0)
    BY <1>3, PartsAre DEF DefinedIn
  <2>2. 1 \in 1 .. Len(Parts(u, d)) /\ d \in 1 .. (Len(u.dies) + 1) - 1 /\ d # 0
    <3>1. 1 \in 1 .. Len(Parts(u, d))
      BY <2>1
    <3>2. Len(u.dies) \in Nat
      BY UnitIs
    <3> QED
      BY <3>1, <3>2
  <2>3. HasSymbol(u, ss, d, 1)
    BY <1>3, <2>2, Zenon DEF Complete, AllParts
  <2>4. PICK k \in 1 .. Len(ss) : SymbolFor(ss[k], u, d, 1)
    BY <2>3 DEF HasSymbol
  <2>5. k \in ProcsOf(ss, d)
    BY <2>4 DEF SymbolFor, ProcsOf
  <2>6. ASSUME NEW j \in ProcsOf(ss, d) PROVE j = k
    <3>1. SymbolFor(ss[j], u, d, 1) /\ j \in 1 .. Len(ss) /\ ss[j].kind \in ProcKinds
      BY <1>1
    <3>2. ss[j].die = ss[k].die /\ ss[j].lo = ss[k].lo /\ ss[k].kind \in ProcKinds
      BY <2>4, <3>1 DEF SymbolFor, IsPart, ProcKinds
    <3> QED
      BY <3>1, <3>2, Zenon DEF Complete, OneForPart
  <2>7. Cardinality(ProcsOf(ss, d)) = 1
    BY <2>5, <2>6, Single, Zenon
  <2> QED
    BY <1>3, <2>7
<1> QED
  BY <1>2, <1>3

CoversAt(ss, d, a) ==
  {k \in 1 .. Len(ss) : /\ ss[k].kind \in ProcKinds /\ ss[k].die = d
                        /\ ss[k].lo + codeSegOff <= a /\ a < ss[k].hi + codeSegOff}

LEMMA OneCovers ==
  ASSUME NEW u \in Units, NEW ss, Complete(u, ss), NEW d \in 1 .. Len(u.dies),
         DefinedIn(u, d), NEW a \in Nat
  PROVE  Cardinality(CoversAt(ss, d, a)) = IF a \in CodeIn(u, u.dies[d]) THEN 1 ELSE 0
<1>1. PICK rs : rs = Parts(u, d)
  BY Zenon
<1>2. Coded(u, u.dies[d], rs) /\ Len(rs) \in Nat /\ rs \in Seq(Range0)
  BY <1>1, PartsAre DEF DefinedIn
<1>3. ASSUME NEW k \in CoversAt(ss, d, a)
      PROVE  /\ k \in 1 .. Len(ss) /\ ss[k].kind \in ProcKinds /\ ss[k].die = d
             /\ \E i \in 1 .. Len(rs) : SymbolFor(ss[k], u, d, i) /\ In(a, rs[i])
  <2>1. /\ k \in 1 .. Len(ss) /\ ss[k].kind \in ProcKinds /\ ss[k].die = d
        /\ ss[k].lo + codeSegOff <= a /\ a < ss[k].hi + codeSegOff
    BY DEF CoversAt
  <2>2. PICK i \in 1 .. Len(Parts(u, d)) : SymbolFor(ss[k], u, d, i)
    BY <2>1, CompletePart, Zenon
  <2>3. In(a, Parts(u, d)[i])
    BY <2>1, <2>2, SymbolParts
  <2> QED
    BY <1>1, <2>1, <2>2, <2>3
<1>4. CASE a \notin CodeIn(u, u.dies[d])
  <2>1. ~Anyone(a, rs)
    BY <1>2, <1>4 DEF Coded
  <2>2. CoversAt(ss, d, a) = {}
    BY <1>3, <2>1 DEF Anyone
  <2> QED
    BY <1>4, <2>2, FS_EmptySet
<1>5. CASE a \in CodeIn(u, u.dies[d])
  <2>1. PICK i \in 1 .. Len(rs) : In(a, rs[i])
    BY <1>2, <1>5 DEF Coded, Anyone
  <2>2. d \in 1 .. (Len(u.dies) + 1) - 1 /\ d # 0
    <3>1. Len(u.dies) \in Nat
      BY UnitIs
    <3> QED
      BY <3>1
  <2>3. HasSymbol(u, ss, d, i)
    BY <1>1, <2>2, Zenon DEF Complete, AllParts
  <2>4. PICK k \in 1 .. Len(ss) : SymbolFor(ss[k], u, d, i)
    BY <2>3 DEF HasSymbol
  <2>5. ss[k].lo + codeSegOff <= a /\ a < ss[k].hi + codeSegOff
    BY <1>1, <2>1, <2>4, SymbolParts
  <2>6. ss[k].kind \in ProcKinds /\ ss[k].die = d
    BY <2>4 DEF SymbolFor, ProcKinds
  <2>7. k \in CoversAt(ss, d, a)
    BY <2>5, <2>6 DEF CoversAt
  <2>8. ASSUME NEW j \in CoversAt(ss, d, a) PROVE j = k
    <3>1. PICK m \in 1 .. Len(rs) : SymbolFor(ss[j], u, d, m) /\ In(a, rs[m])
      BY <1>3
    <3>2. m = i
      <4>1. rs[m] \in Range0 /\ rs[i] \in Range0
        BY <1>2
      <4>2. m # i => Apart(rs[m], rs[i])
        BY <1>2 DEF Coded, Disjoint
      <4> QED
        BY <2>1, <3>1, <4>1, <4>2 DEF In, Apart, Range0
    <3>3. /\ j \in 1 .. Len(ss) /\ ss[j].kind \in ProcKinds
          /\ ss[j].die = ss[k].die /\ ss[j].lo = ss[k].lo
      BY <1>3, <2>4, <3>1, <3>2 DEF SymbolFor, IsPart
    <3> QED
      BY <2>6, <3>3, Zenon DEF Complete, OneForPart
  <2>9. Cardinality(CoversAt(ss, d, a)) = 1
    BY <2>7, <2>8, Single, Zenon
  <2> QED
    BY <1>5, <2>9
<1> QED
  BY <1>4, <1>5

(* The symbol of a procedure is at its entry point.                        *)
LEMMA AtEntry ==
  ASSUME NEW u \in Units, NEW d \in 1 .. Len(u.dies), DefinedIn(u, d),
         NEW s, SymbolFor(s, u, d, 1)
  PROVE  s.lo = EntryIn(u, u.dies[d]) - codeSegOff
<1>1. PICK rs : rs = Parts(u, d)
  BY Zenon
<1>2. Coded(u, u.dies[d], rs) /\ rs # <<>>
  BY <1>1, PartsAre DEF DefinedIn
<1>3. s.lo = rs[1].lo - codeSegOff
  BY <1>1 DEF SymbolFor, IsPart
<1> QED
  BY <1>2, <1>3 DEF Coded

LEMMA InvTypes ==
  ASSUME Inv
  PROVE  TypeOK
<1>1. /\ unit \in Units /\ pc \in Inside \cup {"scan", "done"}
      /\ AtLevel(unit.dies, cursor) /\ Place(unit.dies, scan) /\ IsList(lexicalBlocks)
      /\ \A k \in 1 .. Len(lexicalBlocks) : Place(unit.dies, lexicalBlocks[k])
      /\ base_address \in Nat /\ proc.die \in 0 .. Len(unit.dies)
      /\ IsList(symbols) /\ OfParts(unit, symbols, cursor.ptr, Busy(pc, proc))
      /\ OfBlocks(unit, symbols) /\ Publics(unit, publics)
  BY Zenon DEF Inv, Consistent, Cursors, Based, CodeSymbols
<1>2. /\ pc \in {"scan", "params", "blocks", "sepcode", "done"}
      /\ cursor \in Cursor /\ scan \in Cursor /\ base_address \in Nat
      /\ proc.die \in 0 .. Len(dies)
  BY <1>1 DEF Inside, AtLevel, Place, dies
<1>3. cursor.ptr \in 1 .. Len(unit.dies) + 1 /\ Len(unit.dies) \in Nat
  BY <1>1, UnitIs DEF AtLevel, Place
<1>4. ASSUME pc \in Inside
      PROVE  proc.ranges # <<>> /\ proc.frameBase \in Location /\ proc.cfa \in Location
  <2>1. /\ proc.die \in 1 .. cursor.ptr - 1 /\ DefinedIn(unit, proc.die)
        /\ proc.ranges = Parts(unit, proc.die)
        /\ proc.frameBase \in Location /\ proc.cfa \in Location
    BY <1>4, Within DEF InProc
  <2>2. PICK d : d = proc.die
    BY Zenon
  <2>3. d \in 1 .. Len(unit.dies)
    BY <1>3, <2>1, <2>2
  <2>4. Parts(unit, d) # <<>>
    BY <1>1, <2>1, <2>2, <2>3, PartsAre DEF DefinedIn
  <2> QED
    BY <2>1, <2>2, <2>4
<1>5. \A k \in DOMAIN lexicalBlocks : lexicalBlocks[k] \in Cursor
  BY <1>1, ListLen DEF Place
<1>6. ASSUME NEW k \in OfKind({"S_GPROC", "S_BLOCK", "S_SEPCODE"})
      PROVE  symbols[k].lo \in Nat /\ symbols[k].hi \in Nat /\ symbols[k].lo < symbols[k].hi
  <2>1. k \in 1 .. Len(symbols) /\ (symbols[k].kind \in ProcKinds \/ symbols[k].kind = "S_BLOCK")
    BY <1>1, ListLen DEF OfKind, ProcKinds
  <2>2. CASE symbols[k].kind \in ProcKinds
    <3>1. PICK d \in 1 .. cursor.ptr - 1 : \E i \in 1 .. Len(Parts(unit, d)) :
                 DefinedIn(unit, d) /\ SymbolFor(symbols[k], unit, d, i)
      BY <1>1, <2>1, <2>2, Zenon DEF OfParts
    <3>2. d \in 1 .. Len(unit.dies)
      BY <1>3
    <3> QED
      BY <1>1, <3>1, <3>2, SymbolParts
  <2>3. CASE symbols[k].kind = "S_BLOCK"
    BY <1>1, <2>1, <2>3, BlockSymbol
  <2> QED
    BY <2>1, <2>2, <2>3
<1>7. \A k \in DOMAIN publics : publics[k].off \in Nat
  BY <1>1, ListLen DEF Publics, PublicIn
<1>8. pc \in {"params", "blocks", "sepcode"} =>
        proc.ranges # <<>> /\ {proc.frameBase, proc.cfa} \subseteq Location
  BY <1>4 DEF Inside
<1> QED
  BY <1>2, <1>5, <1>6, <1>7, <1>8 DEF TypeOK

(* TypeOK holds: the cursors are in the unit, the procedure in progress    *)
(* has ranges and places, and every symbol of code has a range that is not *)
(* empty and not before the code.                                          *)
THEOREM TypeCorrect == Spec => []TypeOK
<1>1. Inv => TypeOK
  BY InvTypes
<1> QED
  BY <1>1, Invariance, PTL

(* Once the unit is done.                                                  *)
LEMMA WhenDone ==
  ASSUME Inv, pc = "done"
  PROVE  /\ unit \in Units /\ Complete(unit, symbols)
         /\ IsList(symbols) /\ Publics(unit, publics)
<1>1. /\ unit \in Units /\ AtLevel(unit.dies, cursor) /\ Finished(unit, cursor)
      /\ CodeSymbols(unit, symbols, cursor.ptr, Busy(pc, proc)) /\ Publics(unit, publics)
  BY Zenon DEF Inv, Consistent, Cursors
<1>2. Busy(pc, proc) = 0
  BY DEF Busy, Inside
<1>3. CodeSymbols(unit, symbols, cursor.ptr, 0)
  BY <1>1, <1>2
<1> QED
  BY <1>1, <1>3, DoneComplete DEF CodeSymbols

LEMMA InvCovers ==
  ASSUME Inv
  PROVE  CodeCovered
<1> SUFFICES ASSUME pc = "done" PROVE
      /\ \A d \in DOMAIN dies :
           Cardinality(For(d, {"S_GPROC"})) = Truth(DefinedIn(unit, d))
      /\ \A k \in OfKind({"S_GPROC"}) :
           /\ symbols[k].lo = EntryOf(dies[symbols[k].die]) - codeSegOff
           /\ \A a \in Addresses :
                Cardinality({j \in For(symbols[k].die, {"S_GPROC", "S_SEPCODE"}) :
                               symbols[j].lo + codeSegOff <= a /\ a < symbols[j].hi + codeSegOff})
                  = Truth(a \in CodeOf(dies[symbols[k].die]))
      /\ \A k \in DOMAIN publics :
           dies[publics[k].die].tag = "subprogram" =>
             publics[k].off = EntryOf(dies[publics[k].die]) - codeSegOff
      /\ \A k \in OfKind({"S_BLOCK"}) :
           CodeOf(dies[symbols[k].die]) \subseteq
             symbols[k].lo + codeSegOff .. symbols[k].hi + codeSegOff - 1
  BY Zenon DEF CodeCovered
<1>1. /\ unit \in Units /\ Complete(unit, symbols) /\ Publics(unit, publics)
      /\ DOMAIN symbols = 1 .. Len(symbols) /\ DOMAIN publics = 1 .. Len(publics)
      /\ DOMAIN unit.dies = 1 .. Len(unit.dies)
  <2>1. unit.dies \in Seq(Die)
    BY WhenDone, UnitIs
  <2> QED
    BY <2>1, WhenDone, ListLen DEF Publics
<1>2. dies = unit.dies
  BY DEF dies
<1>3. \A die : CodeOf(die) = CodeIn(unit, die) /\ EntryOf(die) = EntryIn(unit, die)
  BY DEF CodeOf, EntryOf, EntryIn, ListOf
<1>5. ASSUME NEW d \in DOMAIN dies
      PROVE  Cardinality(For(d, {"S_GPROC"})) = Truth(DefinedIn(unit, d))
  <2>1. For(d, {"S_GPROC"}) = ProcsOf(symbols, d)
    BY <1>1 DEF For, OfKind, ProcsOf
  <2>2. d \in 1 .. Len(unit.dies)
    BY <1>1, <1>2
  <2>3. Cardinality(ProcsOf(symbols, d)) = IF DefinedIn(unit, d) THEN 1 ELSE 0
    BY <1>1, <2>2, OneProc, Zenon
  <2> QED
    BY <2>1, <2>3, Zenon DEF Truth
<1>6. ASSUME NEW k \in OfKind({"S_GPROC"})
      PROVE  /\ symbols[k].lo = EntryOf(dies[symbols[k].die]) - codeSegOff
             /\ \A a \in Addresses :
                  Cardinality({j \in For(symbols[k].die, {"S_GPROC", "S_SEPCODE"}) :
                                 symbols[j].lo + codeSegOff <= a /\ a < symbols[j].hi + codeSegOff})
                    = Truth(a \in CodeOf(dies[symbols[k].die]))
  <2>1. PICK d : d = symbols[k].die
    BY Zenon
  <2>2. k \in 1 .. Len(symbols) /\ symbols[k].kind = "S_GPROC" /\ symbols[k].kind \in ProcKinds
    BY <1>1 DEF OfKind, ProcKinds
  <2>3. /\ d \in 1 .. Len(unit.dies) /\ DefinedIn(unit, d)
        /\ \E i \in 1 .. Len(Parts(unit, d)) : SymbolFor(symbols[k], unit, d, i)
    BY <1>1, <2>1, <2>2, CompletePart, Zenon
  <2>4. SymbolFor(symbols[k], unit, d, 1)
    <3>1. PICK i \in 1 .. Len(Parts(unit, d)) : SymbolFor(symbols[k], unit, d, i)
      BY <2>3
    <3>2. i = 1
      BY <2>2, <3>1 DEF SymbolFor
    <3> QED
      BY <3>1, <3>2
  <2>5. symbols[k].lo = EntryIn(unit, unit.dies[d]) - codeSegOff
    BY <1>1, <2>3, <2>4, AtEntry
  <2>6. ASSUME NEW a \in Addresses
        PROVE  Cardinality({j \in For(d, {"S_GPROC", "S_SEPCODE"}) :
                              symbols[j].lo + codeSegOff <= a /\ a < symbols[j].hi + codeSegOff})
                 = Truth(a \in CodeOf(dies[d]))
    <3>1. {j \in For(d, {"S_GPROC", "S_SEPCODE"}) :
             symbols[j].lo + codeSegOff <= a /\ a < symbols[j].hi + codeSegOff}
            = CoversAt(symbols, d, a)
      BY <1>1 DEF For, OfKind, CoversAt, ProcKinds
    <3>2. a \in Nat
      BY AddressType
    <3>3. Cardinality(CoversAt(symbols, d, a))
            = IF a \in CodeIn(unit, unit.dies[d]) THEN 1 ELSE 0
      BY <1>1, <2>3, <3>2, OneCovers, ZenonT(40)
    <3> QED
      BY <1>2, <1>3, <3>1, <3>3, Zenon DEF Truth
  <2> QED
    BY <1>2, <1>3, <2>1, <2>5, <2>6
<1>7. ASSUME NEW k \in DOMAIN publics, dies[publics[k].die].tag = "subprogram"
      PROVE  publics[k].off = EntryOf(dies[publics[k].die]) - codeSegOff
  BY <1>1, <1>2, <1>3, <1>7 DEF Publics, PublicIn
<1>8. ASSUME NEW k \in OfKind({"S_BLOCK"})
      PROVE  CodeOf(dies[symbols[k].die]) \subseteq
               symbols[k].lo + codeSegOff .. symbols[k].hi + codeSegOff - 1
  <2>1. k \in 1 .. Len(symbols) /\ symbols[k].kind = "S_BLOCK"
    BY <1>1 DEF OfKind
  <2>2. OfBlocks(unit, symbols)
    BY <1>1 DEF Complete
  <2> QED
    BY <1>1, <1>2, <1>3, <2>1, <2>2, BlockSymbol
<1> QED
  BY <1>5, <1>6, <1>7, <1>8

(* CodeCovered holds: in the symbols of a unit every procedure with code   *)
(* has one symbol, that starts at its entry point, and with the parts that *)
(* follow it each address of its code once; no other DIE has one; public   *)
(* symbols are at entry points, and blocks have all their code.            *)
THEOREM CodeAlwaysCovered == Spec => []CodeCovered
<1>1. Inv => CodeCovered
  BY InvCovers
<1> QED
  BY <1>1, Invariance, PTL
-----------------------------------------------------------------------------
(***************************************************************************)
(* The rule of the frame address.  In a procedure whose frame stands, the  *)
(* one that findBestCFA takes is the one that is for the address.          *)
(***************************************************************************)

Begun(frame) == [loc |-> frame.lo, cfa |-> mkRegRel(DW_REG_CFA, 0), saved |-> <<>>]

(* What has been executed after each instruction.                           *)
Executing(f, frame, pcx, n) ==
  f = [k \in 0 .. n |-> IF k = 0 THEN Begun(frame)
                       ELSE Execute(f[k - 1], Instructions(frame)[k], pcx)]

LEMMA ExecutingAt ==
  ASSUME NEW f, NEW frame, NEW pcx, NEW n \in Nat, Executing(f, frame, pcx, n),
         NEW k \in 0 .. n
  PROVE  f[k] = IF k = 0 THEN Begun(frame)
                ELSE Execute(f[k - 1], Instructions(frame)[k], pcx)
<1> DEFINE G(j) == IF j = 0 THEN Begun(frame) ELSE Execute(f[j - 1], Instructions(frame)[j], pcx)
<1>1. f = [j \in 0 .. n |-> G(j)]
  BY Zenon DEF Executing
<1> HIDE DEF G
<1>2. f[k] = G(k)
  BY <1>1
<1> QED
  BY <1>2 DEF G

LEMMA ExecutingExists ==
  ASSUME NEW frame, NEW pcx, NEW n \in Nat
  PROVE  \E f : Executing(f, frame, pcx, n)
<1> DEFINE S == {k \in Nat : ~\E f : Executing(f, frame, pcx, k)}
           G(f, j) == IF j = 0 THEN Begun(frame) ELSE Execute(f[j - 1], Instructions(frame)[j], pcx)
<1> SUFFICES ASSUME S # {} PROVE FALSE
  OBVIOUS
<1>1. PICK m \in S : \A k \in S : m <= k
  BY NatLeast
<1>2. PICK f : m # 0 => Executing(f, frame, pcx, m - 1)
  BY <1>1
<1> DEFINE g == [j \in 0 .. m |-> G(f, j)]
<1>3. \A j \in 0 .. m : G(g, j) = G(f, j)
  <2> SUFFICES ASSUME NEW j \in 0 .. m PROVE G(g, j) = G(f, j)
    OBVIOUS
  <2> SUFFICES ASSUME j # 0 PROVE g[j - 1] = f[j - 1]
    <3> HIDE DEF g
    <3> QED
      BY Zenon
  <2>1. j - 1 \in 0 .. m /\ j - 1 \in 0 .. m - 1 /\ m - 1 \in Nat
    BY <1>1
  <2>2. g[j - 1] = G(f, j - 1)
    <3> HIDE DEF G
    <3> QED
      BY <2>1
  <2>3. f[j - 1] = G(f, j - 1)
    BY <1>1, <1>2, <2>1, ExecutingAt
  <2> QED
    BY <2>2, <2>3, Zenon
<1>4. g = [j \in 0 .. m |-> G(g, j)]
  <2> DEFINE h == [j \in 0 .. m |-> G(g, j)]
  <2>1. \A j \in 0 .. m : g[j] = G(f, j) /\ h[j] = G(g, j)
    <3> HIDE DEF G
    <3> QED
      OBVIOUS
  <2>2. \A j \in 0 .. m : g[j] = h[j]
    <3> HIDE DEF G, g, h
    <3> QED
      BY <1>3, <2>1
  <2>3. g = [j \in 0 .. m |-> g[j]] /\ h = [j \in 0 .. m |-> h[j]]
    <3> HIDE DEF G
    <3> QED
      OBVIOUS
  <2> HIDE DEF g, h
  <2>4. g = h
    BY <2>2, <2>3
  <2> QED
    BY <2>4 DEF h
<1>5. Executing(g, frame, pcx, m)
  <2> HIDE DEF g
  <2> QED
    BY <1>4, Zenon DEF Executing
<1> QED
  BY <1>1, <1>5

LEMMA ExecutingIs ==
  ASSUME NEW frame, NEW pcx, Len(Instructions(frame)) \in Nat
  PROVE  Executing(RulesAt(frame, pcx), frame, pcx, Len(Instructions(frame)))
<1> DEFINE F(f) == f = [k \in 0 .. Len(Instructions(frame)) |->
                        IF k = 0 THEN Begun(frame)
                        ELSE Execute(f[k - 1], Instructions(frame)[k], pcx)]
           c == CHOOSE f : F(f)
<1>1. \E f : F(f)
  <2>1. PICK f : Executing(f, frame, pcx, Len(Instructions(frame)))
    BY ExecutingExists, Zenon
  <2>2. F(f)
    BY <2>1, Zenon DEF Executing
  <2> QED
    BY <2>2, Zenon
<1>2. F(c)
  BY <1>1, Zenon
<1>3. RulesAt(frame, pcx) = c
  BY Zenon DEF RulesAt, Begun
<1> QED
  BY <1>2, <1>3, Zenon DEF Executing

(* Induction from m to n.                                                  *)
LEMMA Upwards ==
  ASSUME NEW m \in Nat, NEW n \in Nat, NEW S, m \in S,
         \A k \in m .. n - 1 : k \in S => k + 1 \in S
  PROVE  \A k \in m .. n : k \in S
<1> DEFINE T == {k \in m .. n : k \notin S}
<1> SUFFICES ASSUME T # {} PROVE FALSE
  OBVIOUS
<1>1. T \in SUBSET Nat
  OBVIOUS
<1>2. PICK k \in T : \A j \in T : k <= j
  BY <1>1, NatLeast
<1>3. k \in m .. n /\ k \notin S /\ k # m
  BY <1>2
<1>4. k - 1 \in m .. n - 1 /\ k - 1 \in m .. n /\ k - 1 < k /\ (k - 1) + 1 = k
  BY <1>3
<1>5. k - 1 \notin T
  BY <1>2, <1>4
<1>6. k - 1 \in S
  BY <1>4, <1>5
<1>7. (k - 1) + 1 \in S
  BY <1>4, <1>6
<1> QED
  BY <1>3, <1>4, <1>7

(* The state of the execution, and one instruction.                        *)
Rules(l, c, s) == [loc |-> l, cfa |-> c, saved |-> s]

Executes(m, l, c, i, pcx, x) ==
  /\ i.op # "restore_state" => \E y, z, w : y \in Int /\ x = Rules(y, z, w)
  /\ l <= pcx /\ i.op \notin {"expression", "restore_state"} => x.cfa = ProcessInstruction(c, i)
  /\ l <= pcx /\ x.loc # l => x.cfa = c

LEMMA ExecuteIs ==
  ASSUME NEW l \in Int, NEW c, NEW s, NEW m, m = Rules(l, c, s),
         NEW i, i.n \in Int, NEW pcx \in Int
  PROVE  Executes(m, l, c, i, pcx, Execute(m, i, pcx))
<1>1. m.loc = l /\ m.cfa = c /\ m.saved = s
  BY DEF Rules
<1>2. \A x : /\ [m EXCEPT !.loc = x] = Rules(x, c, s)
             /\ [m EXCEPT !.saved = x] = Rules(l, c, x)
             /\ [m EXCEPT !.cfa = x] = Rules(l, x, s)
  BY DEF Rules
<1>3. i.op = "restore_state" => Execute(m, i, pcx).loc = l
  <2>1. PICK x, y : x = m.saved[1] /\ y = Tail(m.saved)
    BY Zenon
  <2>2. [m EXCEPT !.cfa = x, !.saved = y].loc = l
    BY ONLY <1>1
  <2>3. i.op = "restore_state" /\ ~(l > pcx) =>
          Execute(m, i, pcx) = [m EXCEPT !.cfa = x, !.saved = y]
    BY <1>1, <2>1 DEF Execute
  <2>4. l > pcx => Execute(m, i, pcx) = m
    BY <1>1 DEF Execute
  <2> HIDE DEF Execute
  <2> QED
    BY <1>1, <2>2, <2>3, <2>4, Zenon
<1>4. \A x, y, z : Rules(x, y, z).loc = x /\ Rules(x, y, z).cfa = y
  BY DEF Rules
<1>5. PICK a, b, g : a = l + i.n /\ b = <<c>> \o s /\ g = ProcessInstruction(c, i)
  BY Zenon
<1>6. i.op # "restore_state" => Execute(m, i, pcx) =
        IF l > pcx THEN m
        ELSE CASE i.op = "advance" -> Rules(a, c, s)
               [] i.op = "remember_state" -> Rules(l, c, b)
               [] i.op = "expression" -> Rules(l, c, s)
               [] OTHER -> Rules(l, g, s)
  <2>1. [m EXCEPT !.loc = @ + i.n] = Rules(a, c, s)
    BY <1>1, <1>2, <1>5, Zenon
  <2>2. [m EXCEPT !.saved = <<m.cfa>> \o @] = Rules(l, c, b)
    BY <1>1, <1>2, <1>5, Zenon
  <2>4. [m EXCEPT !.cfa = ProcessInstruction(@, i)] = Rules(l, g, s)
    BY <1>1, <1>2, <1>5, Zenon
  <2> QED
    BY <1>1, <2>1, <2>2, <2>4 DEF Execute
<1>7. i.op \in {"advance", "remember_state"} => g = c
  BY <1>5 DEF ProcessInstruction
<1>0. a \in Int /\ (l <= pcx <=> ~(l > pcx))
  BY <1>5
<1> HIDE DEF Execute, ProcessInstruction
<1>8. PICK x : x = Execute(m, i, pcx)
  BY Zenon
<1>9. CASE l > pcx
  <2>1. x = m
    BY <1>1, <1>8, <1>9 DEF Execute
  <2> QED
    BY <1>0, <1>8, <1>9, <2>1 DEF Executes
<1>10. CASE l <= pcx /\ i.op = "restore_state"
  BY <1>3, <1>8, <1>10 DEF Executes
<1>11. CASE l <= pcx /\ i.op # "restore_state"
  <2>1. PICK y, z, w : y \in Int /\ x = Rules(y, z, w)
    BY <1>0, <1>6, <1>8, <1>11
  <2>2. x.loc = y /\ x.cfa = z
    BY <1>4, <2>1
  <2>3. i.op # "expression" => z = g
    BY <1>0, <1>4, <1>6, <1>7, <1>8, <1>11, <2>1, <2>2
  <2>4. y # l => z = c
    BY <1>0, <1>4, <1>6, <1>7, <1>8, <1>11, <2>1, <2>2
  <2> QED
    BY <1>5, <1>8, <1>11, <2>1, <2>2, <2>3, <2>4 DEF Executes
<1> QED
  BY <1>0, <1>9, <1>10, <1>11

(* An execution of instructions.                                           *)
Executed(f, frame, pcx) ==
  LET program == Instructions(frame)
  IN  /\ Len(program) \in Nat /\ frame.lo \in Int /\ pcx \in Int
      /\ \A k \in 1 .. Len(program) : program[k].n \in Int
      /\ Executing(f, frame, pcx, Len(program))

LEMMA ExecutedStep ==
  ASSUME NEW f, NEW frame, NEW pcx, Executed(f, frame, pcx),
         NEW k \in 0 .. Len(Instructions(frame)) - 1
  PROVE  f[k + 1] = Execute(f[k], Instructions(frame)[k + 1], pcx)
<1>1. PICK n : n = Len(Instructions(frame))
  BY Zenon
<1>2. n \in Nat /\ Executing(f, frame, pcx, n)
  BY <1>1 DEF Executed
<1>3. PICK j : j = k + 1
  BY Zenon
<1>4. j \in 0 .. n /\ j # 0 /\ j - 1 = k
  BY <1>1, <1>2, <1>3
<1>5. f[j] = Execute(f[j - 1], Instructions(frame)[j], pcx)
  BY <1>2, <1>4, ExecutingAt
<1> QED
  BY <1>3, <1>4, <1>5

(* Behind an address beyond the one asked for, nothing is executed.        *)
LEMMA Frozen ==
  ASSUME NEW f, NEW frame, NEW pcx, Executed(f, frame, pcx),
         NEW j \in 0 .. Len(Instructions(frame)), f[j].loc > pcx
  PROVE  \A k \in j .. Len(Instructions(frame)) : f[k] = f[j]
<1>1. PICK program, n : program = Instructions(frame) /\ n = Len(program)
  BY Zenon
<1>2. n \in Nat /\ j \in 0 .. n /\ Executing(f, frame, pcx, n)
  BY <1>1 DEF Executed
<1> DEFINE S == {k \in j .. n : f[k] = f[j]}
<1>3. j \in S
  BY <1>2
<1>4. ASSUME NEW k \in j .. n - 1, k \in S PROVE k + 1 \in S
  <2>1. k + 1 \in 0 .. n /\ k + 1 # 0 /\ (k + 1) - 1 = k /\ k + 1 \in j .. n
    BY <1>2
  <2>2. f[k + 1] = Execute(f[k], Instructions(frame)[k + 1], pcx)
    <3>1. k \in 0 .. Len(Instructions(frame)) - 1
      BY <1>1, <1>2
    <3> QED
      BY <3>1, ExecutedStep, Zenon
  <2>3. f[k + 1] = Execute(f[j], Instructions(frame)[k + 1], pcx)
    BY <1>4, <2>1, <2>2
  <2>4. \A i : Execute(f[j], i, pcx) = f[j]
    BY DEF Execute
  <2>5. f[k + 1] = f[j]
    BY <2>3, <2>4, Zenon
  <2> QED
    BY <2>1, <2>5
<1>6. j \in Nat
  BY <1>2
<1> HIDE DEF S
<1>5. \A k \in j .. n : k \in S
  BY <1>2, <1>6, <1>3, <1>4, Upwards
<1> QED
  BY <1>1, <1>5 DEF S

(* Up to a restore, the rule is that of the instructions alone.            *)
Alike(f, g, k) == \E l, c, s : l \in Int /\ f[k] = Rules(l, c, s) /\ g[k] = c

LEMMA RulesAlike ==
  ASSUME NEW f, NEW frame, NEW pcx, Executed(f, frame, pcx),
         NEW n \in 0 .. Len(Instructions(frame)), f[n].loc <= pcx,
         \A k \in 1 .. n : Instructions(frame)[k].op \notin {"expression", "restore_state"},
         NEW g, NEW other, NEW m \in Nat, n <= m, Ruling(g, other, m),
         \A k \in 1 .. n : other[k] = Instructions(frame)[k]
  PROVE  \A k \in 0 .. n : Alike(f, g, k)
<1>1. PICK program, z : program = Instructions(frame) /\ z = Len(program)
  BY Zenon
<1>2. /\ z \in Nat /\ n \in 0 .. z /\ Executing(f, frame, pcx, z) /\ frame.lo \in Int
      /\ pcx \in Int /\ \A k \in 1 .. z : program[k].n \in Int
  BY <1>1 DEF Executed
<1> DEFINE S == {k \in 0 .. n : Alike(f, g, k)}
<1>4. 0 \in S
  <2>1. f[0] = Begun(frame)
    BY <1>2, ExecutingAt
  <2>2. f[0] = Rules(frame.lo, mkRegRel(DW_REG_CFA, 0), <<>>)
    BY <2>1 DEF Begun, Rules
  <2>3. g[0] = mkRegRel(DW_REG_CFA, 0)
    <3>1. 0 \in 0 .. m
      OBVIOUS
    <3> HIDE DEF S
    <3> QED
      BY ONLY <3>1, m \in Nat, Ruling(g, other, m), RulingAt
  <2>4. Alike(f, g, 0)
    BY <1>2, <2>2, <2>3 DEF Alike
  <2> QED
    BY <1>2, <2>4
<1>5. ASSUME NEW k \in 0 .. n - 1, k \in S PROVE k + 1 \in S
  <2>1. /\ k + 1 \in 0 .. z /\ k + 1 # 0 /\ (k + 1) - 1 = k /\ k + 1 \in 1 .. n
        /\ k + 1 \in 0 .. m /\ k \in 0 .. n /\ k + 1 \in 0 .. n /\ k + 1 \in 1 .. z
    BY <1>2
  <2>2. PICK i : i = program[k + 1]
    BY Zenon
  <2>3. f[k + 1] = Execute(f[k], i, pcx)
    <3>1. k \in 0 .. Len(Instructions(frame)) - 1
      BY <1>1, <1>2
    <3> HIDE DEF S
    <3>2. f[k + 1] = Execute(f[k], Instructions(frame)[k + 1], pcx)
      BY ONLY Executed(f, frame, pcx), <3>1, ExecutedStep
    <3> QED
      BY <1>1, <2>2, <3>2
  <2>4. g[k + 1] = ProcessInstruction(g[k], i)
    <3>1. g[k + 1] = ProcessInstruction(g[(k + 1) - 1], other[k + 1])
      BY <2>1, RulingAt, ZenonT(40)
    <3> QED
      BY <1>1, <2>1, <2>2, <3>1
  <2>5. PICK l, c, s : l \in Int /\ f[k] = Rules(l, c, s) /\ g[k] = c
    BY <1>5 DEF Alike
  <2>6. i.op \notin {"expression", "restore_state"} /\ i.n \in Int
    BY <1>1, <1>2, <2>1, <2>2
  <2>7. l <= pcx
    <3> SUFFICES ASSUME l > pcx PROVE FALSE
      BY <1>2, <2>5
    <3>1. f[k].loc = l
      BY <2>5 DEF Rules
    <3>2. k \in 0 .. Len(Instructions(frame)) /\ n \in k .. Len(Instructions(frame))
      BY <1>1, <1>2
    <3>3. f[n] = f[k]
      BY <3>1, <3>2, Frozen
    <3> QED
      BY <1>2, <2>5, <3>1, <3>3
  <2>8. PICK e : e = f[k] /\ Executes(e, l, c, i, pcx, Execute(e, i, pcx))
    BY <1>2, <2>5, <2>6, ExecuteIs
  <2>9. PICK x, y, w : x \in Int /\ f[k + 1] = Rules(x, y, w)
    BY <2>3, <2>6, <2>8 DEF Executes
  <2>10. f[k + 1].cfa = y
    BY <2>9 DEF Rules
  <2>11. g[k + 1] = y
    <3>1. f[k + 1].cfa = ProcessInstruction(c, i)
      BY <2>3, <2>6, <2>7, <2>8 DEF Executes
    <3> QED
      BY <2>4, <2>5, <2>10, <3>1
  <2>12. Alike(f, g, k + 1)
    BY <2>9, <2>11 DEF Alike
  <2> QED
    BY <2>1, <2>12
<1> HIDE DEF S
<1>6. n \in Nat
  BY <1>2
<1>7. \A k \in 0 .. n : k \in S
  BY <1>4, <1>5, <1>6, Upwards
<1> QED
  BY <1>7 DEF S

(* Instructions that do not change the rule leave it.                      *)
LEMMA RuleStays ==
  ASSUME NEW g, NEW program, NEW m \in Nat, Ruling(g, program, m), NEW n \in 0 .. m,
         \A k \in n + 1 .. m : ~ChangesCfa(program[k])
  PROVE  g[m] = g[n]
<1> DEFINE S == {k \in n .. m : g[k] = g[n]}
<1>1. n \in S /\ n \in Nat
  OBVIOUS
<1>2. ASSUME NEW k \in n .. m - 1, k \in S PROVE k + 1 \in S
  <2>1. k + 1 \in 0 .. m /\ k + 1 # 0 /\ (k + 1) - 1 = k /\ k + 1 \in n + 1 .. m /\ k + 1 \in n .. m
    BY <1>1
  <2>2. g[k + 1] = ProcessInstruction(g[(k + 1) - 1], program[k + 1])
    BY <2>1, RulingAt, ZenonT(40)
  <2>3. g[k + 1] = ProcessInstruction(g[n], program[k + 1])
    BY <1>2, <2>1, <2>2
  <2>4. ~ChangesCfa(program[k + 1])
    BY <2>1
  <2>5. PICK i, c : i = program[k + 1] /\ c = g[n]
    BY Zenon
  <2>6. ProcessInstruction(c, i) = c
    BY <2>4, <2>5 DEF ProcessInstruction, ChangesCfa
  <2> QED
    BY <2>1, <2>3, <2>5, <2>6
<1> HIDE DEF S
<1>3. \A k \in n .. m : k \in S
  BY <1>1, <1>2, Upwards
<1>4. m \in n .. m
  OBVIOUS
<1> QED
  BY <1>3, <1>4 DEF S

(* What is run of a program: all in front of the first restore.            *)
LEMMA UpToRestoreIs ==
  ASSUME NEW program \in Seq(Instruction), NEW q, q = UpToRestore(program)
  PROVE  /\ q \in Seq(Instruction) /\ Len(q) \in Nat /\ Len(q) <= Len(program)
         /\ \A k \in 1 .. Len(q) : q[k] = program[k] /\ ~Restores(program[k])
         /\ Len(q) < Len(program) => Restores(program[Len(q) + 1])
<1> DEFINE restores == {i \in DOMAIN program : program[i].op \in {"restore", "restore_state"}}
<1>1. \A i \in 1 .. Len(program) : i \in restores <=> Restores(program[i])
  BY DEF Restores
<1>2. restores \in SUBSET Nat /\ \A i \in restores : i \in 1 .. Len(program)
  OBVIOUS
<1>3. CASE restores = {}
  <2>1. q = program
    BY <1>3 DEF UpToRestore
  <2> QED
    BY <1>1, <1>3, <2>1
<1>4. CASE restores # {}
  <2>1. PICK e : e = CHOOSE i \in restores : \A j \in restores : i <= j
    BY Zenon
  <2>2. q = SubSeq(program, 1, e - 1)
    BY <1>4, <2>1 DEF UpToRestore
  <2> HIDE DEF restores
  <2>3. e \in restores /\ \A j \in restores : e <= j
    <3>1. \E i \in restores : \A j \in restores : i <= j
      BY <1>2, <1>4, NatLeast
    <3> QED
      BY <2>1, <3>1
  <2>4. e \in 1 .. Len(program)
    BY <1>2, <2>3
  <2>5. /\ q \in Seq(Instruction) /\ Len(q) = e - 1 /\ \A k \in 1 .. Len(q) : q[k] = program[k]
    BY <2>2, <2>4
  <2>6. ASSUME NEW k \in 1 .. Len(q) PROVE ~Restores(program[k])
    BY <1>1, <2>3, <2>4, <2>5
  <2>7. Restores(program[Len(q) + 1])
    <3>1. Len(q) + 1 = e
      BY <2>4, <2>5
    <3> QED
      BY <1>1, <2>3, <2>4, <3>1
  <2> QED
    BY <2>4, <2>5, <2>6, <2>7
<1> QED
  BY <1>3, <1>4

(* The rule that is taken for a procedure is that for the address.         *)
LEMMA RuleStands ==
  ASSUME NEW frame \in Frame, NEW pcx \in Int, FrameStands(frame, pcx)
  PROVE  RuleAt(frame, pcx) = RuleBehind(frame.initial \o UpToRestore(frame.program))
<1>1. PICK a, b, q : a = frame.initial /\ b = frame.program /\ q = UpToRestore(b)
  BY Zenon
<1>2. a \in Seq(Instruction) /\ b \in Seq(Instruction) /\ frame.lo \in Nat
  BY <1>1 DEF Frame
<1>3. /\ q \in Seq(Instruction) /\ Len(q) \in Nat /\ Len(q) <= Len(b)
      /\ \A k \in 1 .. Len(q) : q[k] = b[k] /\ ~Restores(b[k])
      /\ Len(q) < Len(b) => Restores(b[Len(q) + 1])
  BY <1>1, <1>2, UpToRestoreIs
<1>4. PICK p, r, N, m, A : /\ p = a \o b /\ r = a \o q /\ N = Len(p) /\ m = Len(r)
                           /\ A = Len(a)
  BY Zenon
<1>5. /\ p \in Seq(Instruction) /\ r \in Seq(Instruction) /\ A \in Nat /\ N \in Nat
      /\ m \in Nat /\ N = A + Len(b) /\ m = A + Len(q) /\ m <= N
      /\ \A k \in 1 .. A : p[k] = a[k] /\ r[k] = a[k]
      /\ \A k \in 1 .. Len(b) : p[A + k] = b[k]
      /\ \A k \in 1 .. Len(q) : r[A + k] = q[k]
  BY <1>2, <1>3, <1>4
<1>6. \A k \in 1 .. m : r[k] = p[k] /\ (k > A => ~Restores(p[k]))
  <2> SUFFICES ASSUME NEW k \in 1 .. m PROVE r[k] = p[k] /\ (k > A => ~Restores(p[k]))
    OBVIOUS
  <2>1. CASE k <= A
    BY <1>5, <2>1
  <2>2. CASE k > A
    <3>1. PICK j : j = k - A
      BY Zenon
    <3>2. j \in 1 .. Len(q) /\ j \in 1 .. Len(b) /\ k = A + j
      BY <1>3, <1>5, <2>2, <3>1
    <3>3. r[k] = q[j] /\ p[k] = b[j]
      BY <1>5, <3>2
    <3> QED
      BY <1>3, <3>2, <3>3
  <2> QED
    BY <1>5, <2>1, <2>2
<1>7. m < N => Restores(p[m + 1])
  <2> SUFFICES ASSUME m < N PROVE Restores(p[m + 1])
    OBVIOUS
  <2>1. Len(q) < Len(b) /\ Len(q) + 1 \in 1 .. Len(b) /\ m + 1 = A + (Len(q) + 1)
    BY <1>3, <1>5
  <2>2. p[m + 1] = b[Len(q) + 1]
    BY <1>5, <2>1
  <2> QED
    BY <1>3, <2>1, <2>2
<1>8. p = Instructions(frame) /\ N = Len(Instructions(frame))
  BY <1>1, <1>4 DEF Instructions
<1>9. PICK at : at = RulesAt(frame, pcx)
  BY Zenon
<1>10. Executed(at, frame, pcx)
  <2>1. Len(Instructions(frame)) \in Nat
    BY <1>5, <1>8
  <2>2. Executing(at, frame, pcx, Len(Instructions(frame)))
    BY <1>9, <2>1, ExecutingIs
  <2>3. \A k \in 1 .. N : p[k].n \in Int
    <3>1. \A k \in 1 .. N : p[k] \in Instruction
      BY <1>4, <1>5
    <3>2. \A i \in Instruction : i.n \in Int
      BY DEF Instruction
    <3> QED
      BY <3>1, <3>2, Zenon
  <2> QED
    BY <1>2, <1>8, <2>1, <2>2, <2>3 DEF Executed
<1>22. PICK n \in DOMAIN p : /\ LastBefore(at, n, N, pcx)
                              /\ \A k \in 1 .. n : Plainly(p, k, A + 1)
                              /\ \A j \in n + 1 .. N : InEpilogue(p, j, A + 1)
  <2>1. A = Len(frame.initial)
    BY <1>1, <1>4
  <2> QED
    BY <1>8, <1>9, <2>1 DEF FrameStands
<1>11. /\ n \in 1 .. N /\ at[n].loc <= pcx /\ (n = N \/ at[n + 1].loc > pcx)
       /\ \A k \in 1 .. n : Plainly(p, k, A + 1)
       /\ \A k \in n + 1 .. N : InEpilogue(p, k, A + 1)
  <2>1. DOMAIN p = 1 .. N
    BY <1>4, <1>5
  <2> QED
    BY <1>22, <2>1 DEF LastBefore
<1>20. \A k \in 1 .. n : p[k].op \notin {"expression", "restore_state"}
  BY <1>11, Zenon DEF Plainly
<1>21. \A k \in A + 1 .. n : ~Restores(p[k])
  <2> SUFFICES ASSUME NEW k \in A + 1 .. n PROVE ~Restores(p[k])
    OBVIOUS
  <2>1. k \in 1 .. n /\ k >= A + 1
    BY <1>5, <1>11
  <2>2. Plainly(p, k, A + 1)
    BY <1>11, <2>1
  <2> QED
    BY <2>1, <2>2 DEF Plainly
<1>12. n <= m /\ n \in Nat
  <2> SUFFICES ASSUME n > m PROVE FALSE
    BY <1>5, <1>11
  <2>1. m < N /\ m + 1 \in A + 1 .. n
    BY <1>3, <1>5, <1>11, SMTT(30)
  <2> QED
    BY <1>7, <1>21, <2>1
<1>13. PICK g : Ruling(g, r, m) /\ RuleBehind(r) = g[m]
  <2>1. m = Len(r)
    BY <1>4
  <2>2. Len(r) \in Nat
    BY <1>5, <2>1
  <2>3. \E f : Ruling(f, r, Len(r)) /\ RuleBehind(r) = f[Len(r)]
    BY <2>2, RulingIs, ZenonT(40)
  <2> QED
    BY <2>1, <2>3, ZenonT(40)
<1>14. Alike(at, g, n)
  <2>1. n \in 0 .. Len(Instructions(frame)) /\ n \in 0 .. n
    BY <1>5, <1>8, <1>12
  <2>2. \A k \in 1 .. n : r[k] = Instructions(frame)[k]
    BY <1>5, <1>6, <1>8, <1>12
  <2>3. \A k \in 1 .. n : Instructions(frame)[k].op \notin {"expression", "restore_state"}
    BY <1>8, <1>20
  <2>4. \A k \in 0 .. n : Alike(at, g, k)
    <3>1. at[n].loc <= pcx
      BY <1>11
    <3>2. n <= m /\ m \in Nat
      BY <1>5, <1>12
    <3>3. Ruling(g, r, m)
      BY <1>13
    <3> HIDE DEF Ruling, Executed, Alike
    <3> QED
      BY ONLY <1>10, <2>1, <2>2, <2>3, <3>1, <3>2, <3>3, RulesAlike
  <2> QED
    BY <2>1, <2>4
<1>15. PICK l, c, s : l \in Int /\ at[n] = Rules(l, c, s) /\ g[n] = c
  BY <1>14 DEF Alike
<1>16. at[n].loc = l /\ at[n].cfa = c /\ l <= pcx
  BY <1>11, <1>15 DEF Rules
<1>17. g[m] = c
  <2>1. ASSUME NEW k \in n + 1 .. m, ChangesCfa(r[k]) PROVE FALSE
    <3>1. k \in 1 .. m /\ k \in n + 1 .. N
      BY <1>5, <1>12
    <3>2. ChangesCfa(p[k])
      BY <1>6, <2>1, <3>1
    <3>3. PICK j \in A + 1 .. k - 1 : Restores(p[j])
      BY <1>11, <3>1, <3>2 DEF InEpilogue
    <3>4. j \in 1 .. m /\ j > A
      BY <1>5, <3>1
    <3> QED
      BY <1>6, <3>3, <3>4
  <2>2. n \in 0 .. m
    BY <1>5, <1>12
  <2>3. g[m] = g[n]
    BY <1>5, <1>13, <2>1, <2>2, RuleStays
  <2> QED
    BY <1>15, <2>3
<1>18. at[N].cfa = c
  <2>1. CASE n = N
    BY <1>16, <2>1
  <2>2. CASE n # N
    <3>1. PICK i : i = Instructions(frame)[n + 1]
      BY Zenon
    <3>2. n \in 0 .. N - 1 /\ n + 1 \in 0 .. N /\ n + 1 \in 1 .. N /\ N \in n + 1 .. N
      BY <1>5, <1>12, <2>2
    <3>3. at[n + 1] = Execute(at[n], i, pcx)
      BY <1>8, <1>10, <3>1, <3>2, ExecutedStep
    <3>4. at[n + 1].loc > pcx
      BY <1>11, <2>2
    <3>5. at[N] = at[n + 1]
      BY <1>8, <1>10, <3>2, <3>4, Frozen
    <3>6. i.n \in Int
      BY <1>8, <1>10, <3>1, <3>2 DEF Executed
    <3>7. at[n + 1].loc # l
      BY <1>15, <1>16, <3>4
    <3>8. Execute(at[n], i, pcx).cfa = c
      <4>1. PICK e, x : e = at[n] /\ x = Execute(e, i, pcx)
        BY Zenon
      <4>2. Executes(e, l, c, i, pcx, x)
        BY <1>15, <3>6, <4>1, ExecuteIs
      <4>3. x.loc # l
        BY <3>3, <3>7, <4>1
      <4> QED
        BY <1>16, <4>1, <4>2, <4>3 DEF Executes
    <3> QED
      BY <3>3, <3>5, <3>8
  <2> QED
    BY <2>1, <2>2
<1>19. RuleAt(frame, pcx) = at[N].cfa
  BY <1>8, <1>9 DEF RuleAt
<1> QED
  BY <1>1, <1>4, <1>13, <1>17, <1>18, <1>19

(* The frames of a unit: none is empty, and no address is in two.          *)
Apart2(e, f) == e.hi <= f.lo \/ f.hi <= e.lo
Framing(u) ==
  /\ \A f \in u.frames : f.lo < f.hi
  /\ \A e, f \in u.frames : e # f => Apart2(e, f)

FrameFrom(u, pclo, pchi, pcx) ==
  \A f \in FramesAt(u, pcx) : f.lo = pclo /\ pchi <= f.hi /\ FrameStands(f, pcx)

(* The frame that is found for a procedure is the one at the address.      *)
LEMMA LookupIs ==
  ASSUME NEW u \in Units, Framing(u), NEW pclo \in Nat, NEW pchi \in Nat,
         NEW pcx \in pclo .. pchi - 1, FrameFrom(u, pclo, pchi, pcx)
  PROVE  /\ Lookup(u.frames, pclo, pchi) = FramesAt(u, pcx)
         /\ \A e, f \in FramesAt(u, pcx) : e = f
<1>1. \A f \in u.frames : f.lo \in Nat /\ f.hi \in Nat
  <2>1. \A f \in u.frames : f \in Frame
    BY UnitIs
  <2>2. \A f \in Frame : f.lo \in Nat /\ f.hi \in Nat
    BY DEF Frame
  <2> QED
    BY <2>1, <2>2, Zenon
<1>2. \A f \in u.frames : f.lo < f.hi
  BY DEF Framing
<1>3. ASSUME NEW e \in u.frames, NEW f \in u.frames, e.lo = f.lo PROVE e = f
  <2> SUFFICES ASSUME e # f PROVE FALSE
    OBVIOUS
  <2>1. Apart2(e, f)
    BY Zenon DEF Framing
  <2> QED
    BY <1>1, <1>2, <1>3, <2>1 DEF Apart2
<1>4. \A f : f \in FramesAt(u, pcx) <=> f \in u.frames /\ f.lo <= pcx /\ pcx < f.hi
  BY DEF FramesAt
<1>5. \A f \in FramesAt(u, pcx) : f \in u.frames /\ f.lo = pclo /\ pchi <= f.hi
  BY <1>4 DEF FrameFrom
<1>6. \A e, f \in FramesAt(u, pcx) : e = f
  BY <1>3, <1>5
<1> DEFINE begin == [lo |-> pclo, hi |-> pclo]
           from == {e \in u.frames : ~Before(e, begin)}
<1>7. \A e \in u.frames : e \in from <=> pclo <= e.lo
  <2> SUFFICES ASSUME NEW e \in u.frames PROVE ~Before(e, begin) <=> pclo <= e.lo
    OBVIOUS
  <2>1. begin.lo = pclo /\ begin.hi = pclo
    OBVIOUS
  <2>2. e.lo \in Nat /\ e.hi \in Nat /\ e.lo < e.hi
    BY <1>1, <1>2
  <2> HIDE DEF begin
  <2> QED
    BY <2>1, <2>2 DEF Before
<1>8. \A e : e \in Lookup(u.frames, pclo, pchi) <=>
               /\ e \in from /\ \A f \in from : ~Before(f, e)
               /\ e.lo <= pclo /\ pchi <= e.hi
  BY DEF Lookup
<1>9. \A f \in from : f \in u.frames
  OBVIOUS
<1> HIDE DEF from
<1>10. ASSUME NEW f \in FramesAt(u, pcx) PROVE f \in Lookup(u.frames, pclo, pchi)
  <2>1. f \in u.frames /\ f.lo = pclo /\ pchi <= f.hi
    BY <1>5
  <2>2. f \in from /\ f.lo <= pclo
    BY <1>1, <1>7, <2>1
  <2>3. ASSUME NEW e \in from, Before(e, f) PROVE FALSE
    <3>1. e \in u.frames /\ pclo <= e.lo /\ e.lo \in Nat /\ e.hi \in Nat
      BY <1>1, <1>7, <1>9
    <3>2. e.lo = f.lo => e = f
      BY <1>3, <2>1, <3>1
    <3> QED
      BY <1>1, <2>1, <2>3, <3>1, <3>2 DEF Before
  <2> QED
    BY <1>8, <2>1, <2>2, <2>3
<1>11. ASSUME NEW e \in Lookup(u.frames, pclo, pchi) PROVE e \in FramesAt(u, pcx)
  <2>1. e \in u.frames /\ pclo <= e.lo /\ e.lo <= pclo /\ pchi <= e.hi
    BY <1>7, <1>8, <1>9
  <2>2. e.lo \in Nat /\ e.hi \in Nat
    BY <1>1, <2>1
  <2>3. e.lo <= pcx /\ pcx < e.hi
    BY <2>1, <2>2
  <2> QED
    BY <1>4, <2>1, <2>3
<1> QED
  BY <1>6, <1>10, <1>11

(* The register and offset that are taken for the frame address give it.   *)
LEMMA CfaStands ==
  ASSUME NEW u \in Units, Framing(u), NEW pclo \in Nat, NEW pchi \in Nat,
         NEW pcx \in pclo .. pchi - 1, FrameFrom(u, pclo, pchi, pcx),
         NEW process, NEW rule, rule = findBestCFA(u.x64, u.frames, pclo, pchi)
  PROVE  /\ IsRegRel(rule) /\ rule.reg \in 0 .. 63 /\ rule.off \in Int
         /\ CfaAt(u, pcx, process) = process[rule.reg] + rule.off
<1>1. PICK at : at = FramesAt(u, pcx)
  BY Zenon
<1>2. Lookup(u.frames, pclo, pchi) = at /\ \A e, f \in at : e = f
  BY <1>1, LookupIs
<1>3. rule \in Location
  BY BestCFAType
<1>4. rule.off \in Int
  BY <1>3 DEF Location
<1>5. CASE at = {}
  <2>1. rule = DefaultCFA(u.x64)
    BY <1>2, <1>5 DEF findBestCFA
  <2>2. CfaAt(u, pcx, process) = process[rule.reg] + rule.off
    BY <1>1, <1>5, <2>1 DEF CfaAt
  <2>3. IsRegRel(rule) /\ rule.reg \in 0 .. 63
    BY <2>1 DEF DefaultCFA, mkRegRel, IsRegRel
  <2> QED
    BY <1>4, <2>2, <2>3
<1>6. CASE at # {}
  <2>1. PICK f : f = CHOOSE g \in at : TRUE
    BY Zenon
  <2>2. f \in at
    BY <1>6, <2>1
  <2>3. f \in u.frames /\ FrameStands(f, pcx)
    BY <1>1, <2>2 DEF FramesAt, FrameFrom
  <2>4. f \in Frame /\ pcx \in Int
    BY <2>3, UnitIs
  <2>5. RuleAt(f, pcx) = RuleBehind(f.initial \o UpToRestore(f.program))
    BY <2>3, <2>4, RuleStands
  <2>6. rule = RuleBehind(f.initial \o UpToRestore(f.program))
    BY <1>2, <1>6, <2>1 DEF findBestCFA
  <2>7. CfaAt(u, pcx, process) = process[RuleAt(f, pcx).reg] + RuleAt(f, pcx).off
    BY <1>1, <1>6, <2>1 DEF CfaAt
  <2>8. IsRegRel(rule) /\ rule.reg \in 0 .. 63
    <3>1. RuleAt(f, pcx).type = "RegRel" /\ RuleAt(f, pcx).reg \in 0 .. 63
      BY <2>3 DEF FrameStands, RuleAt
    <3> QED
      BY <2>5, <2>6, <3>1 DEF IsRegRel
  <2> QED
    BY <1>4, <2>5, <2>6, <2>7, <2>8
<1> QED
  BY <1>5, <1>6

(* What an operation that is plain leaves in a process is values.          *)
LEMMA ValueBelow ==
  ASSUME NEW t \in Seq(Value), NEW n \in Nat, n <= Len(t), NEW k \in 0 .. n - 1
  PROVE  Below(t, k) \in Value /\ Below(t, k).v \in Int
<1>1. Len(t) - k \in 1 .. Len(t)
  OBVIOUS
<1>2. Below(t, k) \in Value
  BY <1>1 DEF Below
<1>3. \A x \in Value : x.v \in Int
  BY DEF Value
<1> QED
  BY <1>2, <1>3

LEMMA ValueMade ==
  ASSUME NEW n \in Int
  PROVE  /\ Num(n) \in Value /\ Adr(n) \in Value
         /\ \A b \in BOOLEAN : [v |-> n, addr |-> b] \in Value
BY DEF Num, Adr, Value

LEMMA MeansType ==
  ASSUME NEW o \in Operation, NEW env \in Env, NEW t \in Seq(Value), Plain(o, t)
  PROVE  Means(o, t, env) \in Seq(Value)
<1>1. o.reg \in 0 .. 63 /\ o.n \in Int
  BY DEF Operation
<1>2. /\ env.reg[o.reg] \in Int /\ env.frameBase \in Int /\ env.cfa \in Int
      /\ env.memory \in Int
  BY <1>1 DEF Env
<1>3. Len(t) >= Needs(o) /\ Len(t) \in Nat
  BY DEF Plain, Defined
<1>4. \A x \in Value : <<x>> \in Seq(Value)
  OBVIOUS
<1>5. \A n \in Int : <<Num(n)>> \in Seq(Value) /\ <<Adr(n)>> \in Seq(Value)
  BY <1>4, ValueMade
<1>6. CASE o.op = "breg"
  <2>1. Means(o, t, env) = <<Adr(env.reg[o.reg] + o.n)>>
    BY <1>6 DEF Means, BinaryOps
  <2>2. env.reg[o.reg] + o.n \in Int
    BY <1>1, <1>2
  <2> QED
    BY <1>5, <2>1, <2>2
<1>7. CASE o.op \in {"const", "lit", "addr"}
  <2>1. Means(o, t, env) = <<Num(o.n)>>
    BY <1>7 DEF Means, BinaryOps
  <2> QED
    BY <1>1, <1>5, <2>1
<1>8. CASE o.op = "fbreg"
  <2>1. Means(o, t, env) = <<Adr(env.frameBase + o.n)>>
    BY <1>8 DEF Means, BinaryOps
  <2>2. env.frameBase + o.n \in Int
    BY <1>1, <1>2
  <2> QED
    BY <1>5, <2>1, <2>2
<1>9. CASE o.op = "call_frame_cfa"
  <2>1. Means(o, t, env) = <<Adr(env.cfa)>>
    BY <1>9 DEF Means, BinaryOps
  <2> QED
    BY <1>2, <1>5, <2>1
<1>10. CASE o.op \in {"deref", "abs", "neg", "not", "plus_uconst", "dup"}
  <2>1. Needs(o) = 1
    BY <1>10 DEF Needs, BinaryOps
  <2>2. PICK x : x = Below(t, 0)
    BY Zenon
  <2>3. x \in Value /\ x.v \in Int
    <3>1. 0 \in 0 .. 1 - 1 /\ 1 <= Len(t) /\ 1 \in Nat
      BY <1>3, <2>1
    <3> QED
      BY <2>2, <3>1, ValueBelow
  <2>4. CASE o.op = "deref"
    <3>1. Means(o, t, env) = <<Adr(env.memory + x.v)>>
      BY <2>2, <2>4 DEF Means, BinaryOps
    <3>2. env.memory + x.v \in Int
      BY <1>2, <2>3
    <3> QED
      BY <1>5, <3>1, <3>2
  <2>5. CASE o.op \in {"abs", "neg", "not"}
    <3>1. Means(o, t, env) = <<Num(Unary(o.op, x.v))>>
      BY <2>2, <2>5 DEF Means, BinaryOps
    <3>2. Unary(o.op, x.v) \in Int
      BY <2>3, <2>5 DEF Unary
    <3> QED
      BY <1>5, <3>1, <3>2
  <2>6. CASE o.op = "plus_uconst"
    <3>1. Means(o, t, env) = <<[x EXCEPT !.v = @ + o.n]>>
      BY <2>2, <2>6 DEF Means, BinaryOps
    <3>2. PICK n \in Int, b \in BOOLEAN : x = [v |-> n, addr |-> b]
      BY <2>3 DEF Value
    <3>3. [x EXCEPT !.v = @ + o.n] = [v |-> n + o.n, addr |-> b]
      BY <3>2, AddedValue
    <3>4. n + o.n \in Int
      BY <1>1
    <3>5. [v |-> n + o.n, addr |-> b] \in Value
      BY <3>4, ValueMade, Zenon
    <3> QED
      BY <1>4, <3>1, <3>3, <3>5, Zenon
  <2>7. CASE o.op = "dup"
    <3>1. Means(o, t, env) = <<x, x>>
      BY <2>2, <2>7 DEF Means, BinaryOps
    <3> QED
      BY <2>3, <3>1
  <2> QED
    BY <1>10, <2>4, <2>5, <2>6, <2>7
<1>11. CASE o.op \in BinaryOps
  <2>1. Needs(o) = 2
    BY <1>11 DEF Needs, BinaryOps
  <2>2. PICK x, y : x = Below(t, 1) /\ y = Below(t, 0)
    BY Zenon
  <2>3. x \in Value /\ x.v \in Int /\ y \in Value /\ y.v \in Int
    <3>1. 0 \in 0 .. 2 - 1 /\ 1 \in 0 .. 2 - 1 /\ 2 <= Len(t) /\ 2 \in Nat
      BY <1>3, <2>1
    <3> QED
      BY <2>2, <3>1, ValueBelow
  <2>4. PICK b \in BOOLEAN : b = (o.op \in {"plus", "minus"} /\ x.addr # y.addr)
    BY Zenon
  <2>5. Means(o, t, env) = <<[v |-> Arithmetic(o.op, x.v, y.v), addr |-> b]>>
    <3>1. Means(o, t, env) = <<[v |-> Arithmetic(o.op, x.v, y.v),
                                addr |-> o.op \in {"plus", "minus"} /\ x.addr # y.addr]>>
      BY <1>11, <2>2 DEF Means, BinaryOps
    <3> QED
      BY <2>4, <3>1, Zenon
  <2>6. /\ o.op \in {"div", "mod"} => y.v # 0
        /\ o.op \in {"shl", "shr", "shra"} => y.v \in 0 .. 15
    BY <2>2 DEF Plain, Defined
  <2>7. Arithmetic(o.op, x.v, y.v) \in Int
    BY <1>11, <2>3, <2>6, ArithmeticType
  <2>8. [v |-> Arithmetic(o.op, x.v, y.v), addr |-> b] \in Value
    BY <2>7, ValueMade, Zenon
  <2> QED
    BY <1>4, <2>5, <2>8, Zenon
<1>12. CASE o.op \in {"over", "swap"}
  <2>1. Needs(o) = 2
    BY <1>12 DEF Needs, BinaryOps
  <2>2. PICK x, y : x = Below(t, 1) /\ y = Below(t, 0)
    BY Zenon
  <2>3. x \in Value /\ y \in Value
    <3>1. 0 \in 0 .. 2 - 1 /\ 1 \in 0 .. 2 - 1 /\ 2 <= Len(t) /\ 2 \in Nat
      BY <1>3, <2>1
    <3> QED
      BY <2>2, <3>1, ValueBelow
  <2>4. Means(o, t, env) = <<x, y, x>> \/ Means(o, t, env) = <<y, x>>
    BY <1>12, <2>2 DEF Means, BinaryOps
  <2>5. <<x, y, x>> \in Seq(Value) /\ <<y, x>> \in Seq(Value)
    BY <2>3
  <2> QED
    BY <2>4, <2>5, Zenon
<1>13. CASE o.op = "rot"
  <2>1. Needs(o) = 3
    BY <1>13 DEF Needs, BinaryOps
  <2>2. PICK x, y, z : x = Below(t, 0) /\ y = Below(t, 2) /\ z = Below(t, 1)
    BY Zenon
  <2>3. x \in Value /\ y \in Value /\ z \in Value
    <3>1. /\ 0 \in 0 .. 3 - 1 /\ 1 \in 0 .. 3 - 1 /\ 2 \in 0 .. 3 - 1
          /\ 3 <= Len(t) /\ 3 \in Nat
      BY <1>3, <2>1
    <3> QED
      BY <2>2, <3>1, ValueBelow
  <2>4. Means(o, t, env) = <<x, y, z>>
    BY <1>13, <2>2 DEF Means, BinaryOps
  <2> QED
    BY <2>3, <2>4
<1>14. CASE o.op \notin PushOps \cup BinaryOps
             \cup {"deref", "abs", "neg", "not", "plus_uconst", "dup", "over", "swap", "rot"}
  <2>1. o.op # "pick"
    BY DEF Plain, Departure
  <2>2. Means(o, t, env) = <<>>
    BY <1>14, <2>1 DEF Means, PushOps
  <2> QED
    BY <2>2
<1> QED
  BY <1>6, <1>7, <1>8, <1>9, <1>10, <1>11, <1>12, <1>13, <1>14 DEF PushOps

(* A process that has come somewhere, if only by plain operations.         *)
Goes(r) == Left(r) \/ \E t \in Seq(Value), n \in Int : r = Done(t, n, TRUE)

LEMMA PerformGoes ==
  ASSUME NEW r, Goes(r), NEW o \in Operation, NEW env \in Env
  PROVE  Goes(Perform(r, o, env))
<1>1. CASE Left(r)
  BY <1>1, LeftStays, Zenon DEF Goes
<1>2. ASSUME NEW t \in Seq(Value), NEW n \in Int, r = Done(t, n, TRUE)
      PROVE  Goes(Perform(r, o, env))
  <2>1. r.ok /\ r.skip = n /\ r.stack = t
    BY <1>2 DEF Done
  <2>2. CASE n > 0
    <3>1. Perform(r, o, env) = [r EXCEPT !.skip = @ - 1]
      BY <2>1, <2>2 DEF Perform
    <3>2. PICK b : b = TRUE
      BY Zenon
    <3>3. r = Done(t, n, b)
      BY <1>2, <3>2, Zenon
    <3>4. [r EXCEPT !.skip = @ - 1] = Done(t, n - 1, b)
      BY <3>3, SkippedToo
    <3>5. n - 1 \in Int
      OBVIOUS
    <3>6. Perform(r, o, env) = Done(t, n - 1, TRUE)
      BY <3>1, <3>2, <3>4, Zenon
    <3> QED
      BY <3>5, <3>6, Zenon DEF Goes
  <2>3. CASE ~(n > 0) /\ ~Plain(o, t)
    <3>1. Left(Perform(r, o, env))
      BY <1>2, <2>3, PerformLeaves
    <3> QED
      BY <3>1, Zenon DEF Goes
  <2>4. CASE ~(n > 0) /\ Plain(o, t)
    <3>1. PICK skip : skip = IF o.op \in {"skip", "bra"} THEN o.n ELSE 0
      BY Zenon
    <3>2. skip \in Int
      BY <3>1 DEF Operation
    <3>3. PICK rest : rest = Dropped(t, Needs(o)) \o Means(o, t, env)
      BY Zenon
    <3>4. Perform(r, o, env) = Done(rest, skip, TRUE)
      <4>1. r = Came(t, n)
        BY <1>2, Zenon DEF Came
      <4>2. Perform(r, o, env) = Performed(o, t, env)
        BY <2>4, <4>1, PerformPlain
      <4> QED
        BY <3>1, <3>3, <4>2, Zenon DEF Performed, Came
    <3>5. Needs(o) \in Nat /\ Len(t) >= Needs(o)
      BY <2>4 DEF Plain, Defined, Needs
    <3>6. Dropped(t, Needs(o)) \in Seq(Value)
      BY <3>5 DEF Dropped
    <3>7. Means(o, t, env) \in Seq(Value)
      BY <2>4, MeansType
    <3>8. rest \in Seq(Value)
      BY <3>3, <3>6, <3>7
    <3> QED
      BY <3>2, <3>4, <3>8, Zenon DEF Goes
  <2> QED
    BY <2>2, <2>3, <2>4
<1> QED
  BY <1>1, <1>2, Zenon DEF Goes

LEMMA RunningNext ==
  ASSUME NEW g, NEW expr, NEW env, NEW n \in Nat, Running(g, expr, env, n)
  PROVE  \A k \in 1 .. n : g[k] = Perform(g[k - 1], expr[k], env)
<1> SUFFICES ASSUME NEW k \in 1 .. n PROVE g[k] = Perform(g[k - 1], expr[k], env)
  OBVIOUS
<1>1. k \in 0 .. n /\ k # 0
  OBVIOUS
<1> QED
  BY <1>1, RunningAt, ZenonT(30)

(* The meaning of an expression is a number, and one that has a meaning is *)
(* not for a register.                                                     *)
LEMMA RunGoes ==
  ASSUME NEW expr \in Seq(Operation), NEW env \in Env,
         NEW g, Running(g, expr, env, Len(expr))
  PROVE  Goes(g[Len(expr)])
<1> DEFINE S == {k \in Nat : Goes(g[k])}
<1>1. PICK n : n = Len(expr)
  BY Zenon
<1>2. n \in Nat
  BY <1>1
<1>3. g[0] = Done(<<>>, 0, TRUE)
  BY <1>1, <1>2, RunningAt DEF Done
<1>4. <<>> \in Seq(Value) /\ 0 \in Int
  OBVIOUS
<1>5. Goes(g[0])
  BY <1>3, <1>4, Zenon DEF Goes
<1>6. ASSUME NEW k \in 0 .. n - 1, Goes(g[k]) PROVE Goes(g[k + 1])
  <2>1. k + 1 \in 0 .. n /\ (k + 1) - 1 = k /\ k + 1 \in 1 .. Len(expr)
    BY <1>1, <1>2
  <2>2. expr[k + 1] \in Operation
    BY <2>1
  <2>3. g[k + 1] = Perform(g[(k + 1) - 1], expr[k + 1], env)
    BY <1>1, <1>2, <2>1, RunningNext
  <2>4. g[k + 1] = Perform(g[k], expr[k + 1], env)
    BY <2>1, <2>3
  <2> QED
    BY <1>6, <2>2, <2>4, PerformGoes, Zenon
<1>7. 0 \in S /\ \A k \in 0 .. n - 1 : k \in S => k + 1 \in S
  BY <1>2, <1>5, <1>6
<1>8. n \in 0 .. n
  BY <1>2
<1>9. n \in S
  <2> HIDE DEF S
  <2> QED
    BY <1>2, <1>7, <1>8, Upwards, Zenon
<1> QED
  BY <1>1, <1>9

LEMMA MeaningType ==
  ASSUME NEW expr \in Seq(Operation), NEW env \in Env, Decodable(expr, env)
  PROVE  Meaning(expr, env) \in Int
<1>1. PICK g : Running(g, expr, env, Len(expr)) /\ Run(expr, env) = g[Len(expr)]
  BY RunningIs
<1>2. Goes(Run(expr, env))
  BY <1>1, RunGoes
<1>3. PICK t \in Seq(Value), n \in Int : Run(expr, env) = Done(t, n, TRUE)
  <2>1. Run(expr, env).ok /\ Run(expr, env).exact
    BY DEF Decodable, HasMeaning, Departs
  <2>2. ~Left(Run(expr, env))
    BY <2>1 DEF Left, Done
  <2> QED
    BY <1>2, <2>2, Zenon DEF Goes
<1>4. Run(expr, env).stack = t
  BY <1>3 DEF Done
<1>5. Len(t) = 1
  BY <1>4 DEF Decodable, Departs
<1>6. t[1] \in Value
  <2>1. 1 \in 1 .. Len(t)
    BY <1>5
  <2> QED
    BY <2>1
<1>7. t[1].v \in Int
  BY <1>6 DEF Value
<1> QED
  BY <1>4, <1>5, <1>7 DEF Meaning, Leaves, Last

LEMMA MeaningStarts ==
  ASSUME NEW expr \in Seq(Operation), NEW env \in Env, HasMeaning(expr, env)
  PROVE  Len(expr) >= 1 /\ expr[1].op # "reg"
<1>1. PICK g : Running(g, expr, env, Len(expr)) /\ Run(expr, env) = g[Len(expr)]
  BY RunningIs
<1>2. PICK n : n = Len(expr)
  BY Zenon
<1>3. n \in Nat
  BY <1>2
<1>4. g[0] = Done(<<>>, 0, TRUE)
  BY <1>1, <1>2, <1>3, RunningAt DEF Done
<1>5. g[n].ok /\ g[n].stack # <<>>
  BY <1>1, <1>2 DEF HasMeaning
<1>6. n # 0
  <2> SUFFICES ASSUME n = 0 PROVE FALSE
    OBVIOUS
  <2> QED
    BY <1>4, <1>5 DEF Done
<1>7. n >= 1
  BY <1>3, <1>6
<1> SUFFICES ASSUME expr[1].op = "reg" PROVE FALSE
  BY <1>2, <1>7
<1>8. 1 - 1 = 0
  OBVIOUS
<1>9. g[1] = Perform(g[0], expr[1], env)
  <2>1. g[1] = Perform(g[1 - 1], expr[1], env)
    <3>1. 1 \in 1 .. Len(expr)
      BY <1>2, <1>3, <1>7
    <3> QED
      BY <1>1, <1>2, <1>3, <3>1, RunningNext
  <2> QED
    BY <1>8, <2>1
<1>10. ~g[1].ok
  <2>1. g[0].ok /\ g[0].skip = 0
    BY <1>4 DEF Done
  <2>2. ~Defined(expr[1], g[0].stack)
    BY DEF Defined
  <2>3. g[1] = [g[0] EXCEPT !.ok = FALSE]
    BY <1>9, <2>1, <2>2 DEF Perform
  <2>4. ~[g[0] EXCEPT !.ok = FALSE].ok
    BY <1>4 DEF Done
  <2> QED
    BY <2>3, <2>4
<1> DEFINE S == {k \in Nat : ~g[k].ok}
<1>11. \A k \in 1 .. n - 1 : k \in S => k + 1 \in S
  <2> SUFFICES ASSUME NEW k \in 1 .. n - 1, ~g[k].ok PROVE ~g[k + 1].ok /\ k + 1 \in Nat
    OBVIOUS
  <2>1. k + 1 \in 1 .. Len(expr) /\ (k + 1) - 1 = k
    BY <1>2, <1>3
  <2>2. g[k + 1] = Perform(g[(k + 1) - 1], expr[k + 1], env)
    BY <1>1, <1>2, <1>3, <2>1, RunningNext
  <2>3. g[k + 1] = g[k]
    BY <2>1, <2>2 DEF Perform
  <2> QED
    BY <2>1, <2>3
<1>12. 1 \in S /\ n \in 1 .. n
  BY <1>3, <1>7, <1>10
<1>13. n \in S
  <2> HIDE DEF S
  <2> QED
    BY <1>3, <1>11, <1>12, Upwards, Zenon
<1> QED
  BY <1>5, <1>13
(* Where an attribute stands at an address, one expression is for it.      *)
Stood(expr, env) == IsRegister(expr) \/ Decodable(expr, env)

Fits1(u, attr) ==
  /\ attr \in Attribute
  /\ attr.form \in {"const", "sec_offset"} => LocationsFit(u, attr.n)

TakenFrom(u, attr, expr) ==
  IF attr.form = "expr" THEN expr = attr.expr
  ELSE findBestFBLoc(u.x64, ListIn(u, attr.n)) = Evaluate(expr, Unusable)[1]

LEMMA AttributeIs ==
  ASSUME NEW u \in Units, NEW attr, Fits1(u, attr), attr.form # "none", NEW pcx, NEW env,
         AttributeStands(u, attr, pcx, env)
  PROVE  \E expr \in Seq(Operation) :
           /\ ExprsAt(u, attr, pcx) = {expr}
           /\ Stood(expr, env) /\ TakenFrom(u, attr, expr)
<1>1. attr.expr \in Seq(Operation)
  BY DEF Fits1, Attribute
<1>2. CASE attr.form = "expr"
  <2>1. ExprsAt(u, attr, pcx) = {attr.expr}
    BY <1>2 DEF ExprsAt
  <2>2. Stood(attr.expr, env)
    BY <1>2 DEF AttributeStands, Stood
  <2>3. TakenFrom(u, attr, attr.expr)
    BY <1>2 DEF TakenFrom
  <2> QED
    BY <1>1, <2>1, <2>2, <2>3, Zenon
<1>3. CASE attr.form # "expr"
  <2>1. attr.form \in {"const", "sec_offset"}
    BY <1>3 DEF Fits1, Attribute
  <2>2. LocationsFit(u, attr.n)
    BY <2>1 DEF Fits1
  <2>3. PICK list : list = ListIn(u, attr.n)
    BY Zenon
  <2>4. list \in Seq(ListEntry)
    BY <2>2, <2>3, ListIs DEF LocationsFit
  <2>5. PICK best : best = BestEntry(u.x64, list)
    BY Zenon
  <2>6. best # 0 /\ ExprsAt(u, attr, pcx) = {list[best].expr} /\ Stood(list[best].expr, env)
    BY <1>3, <2>3, <2>5 DEF AttributeStands, Stood
  <2>7. list[best].expr \in Seq(Operation)
    BY <2>4, <2>5, <2>6, BestEntryIs
  <2>8. findBestFBLoc(u.x64, list) = Evaluate(list[best].expr, Unusable)[1]
    BY <2>5, <2>6 DEF findBestFBLoc, LocationIn
  <2>9. TakenFrom(u, attr, list[best].expr)
    BY <1>3, <2>3, <2>8 DEF TakenFrom
  <2> QED
    BY <2>6, <2>7, <2>9, Zenon
<1> QED
  BY <1>2, <1>3

(* The location of the frame base, decoded without a process, is where the *)
(* frame base is.                                                          *)
LEMMA WithBase ==
  ASSUME NEW bare \in Env, NEW base \in Int, NEW env, env = [bare EXCEPT !.frameBase = base]
  PROVE  /\ env \in Env /\ env.frameBase = base
         /\ env.reg = bare.reg /\ env.cfa = bare.cfa
         /\ \A r : Held(r, env) = Held(r, bare)
BY DEF Env, Held

LEMMA BaseStands ==
  ASSUME NEW expr \in Seq(Operation), NEW bare \in Env, Stood(expr, bare),
         NEW loc, loc = Evaluate(expr, Unusable)[1],
         NEW base, base = IF expr[1].op = "reg" THEN bare.reg[expr[1].reg]
                          ELSE Meaning(expr, bare),
         NEW env, env = [bare EXCEPT !.frameBase = base]
  PROVE  base \in Int /\ FrameBaseStands(loc, env)
<1>1. CASE IsRegister(expr)
  <2>1. loc = mkInReg(expr[1].reg)
    BY <1>1, RegisterIs
  <2>2. expr[1].reg \in 0 .. 63
    <3>1. 1 \in 1 .. Len(expr)
      BY <1>1 DEF IsRegister
    <3>2. expr[1] \in Operation
      BY <3>1
    <3> QED
      BY <3>2 DEF Operation
  <2>3. PICK r : r = expr[1].reg
    BY Zenon
  <2>4. base = bare.reg[r] /\ base \in Int
    BY <1>1, <2>2, <2>3 DEF IsRegister, Env
  <2>5. env.frameBase = base /\ Held(r, env) = Held(r, bare)
    BY <2>4, WithBase
  <2>6. Held(r, bare) = base
    <3>1. r \in 0 .. 63
      BY <2>2, <2>3, Zenon
    <3>2. r # DW_REG_CFA
      BY ONLY <3>1 DEF DW_REG_CFA
    <3> QED
      BY <2>4, <3>2, Zenon DEF Held
  <2>7. r \in Regs
    BY <2>2, <2>3 DEF Regs
  <2>8. loc.reg = r /\ loc.off = 0
    BY <2>1, <2>3 DEF mkInReg
  <2>9. env.frameBase = Held(loc.reg, env) + loc.off
    BY <2>4, <2>5, <2>6, <2>8
  <2> QED
    BY <2>4, <2>7, <2>8, <2>9 DEF FrameBaseStands
<1>2. CASE ~IsRegister(expr)
  <2>1. Decodable(expr, bare) /\ HasMeaning(expr, bare)
    BY <1>2 DEF Stood, Decodable
  <2>2. base = Meaning(expr, bare) /\ base \in Int
    BY <2>1, MeaningStarts, MeaningType
  <2>3. PICK v : v = Leaves(expr, bare)
    BY Zenon
  <2>4. v.v = base
    BY <2>2, <2>3 DEF Meaning
  <2>5. FrameBaseStands(Unusable, bare)
    BY DEF FrameBaseStands, Unusable, IsInReg, IsRegRel
  <2>6. loc = Unusable \/ Stands(loc, v, bare)
    BY <2>1, <2>3, <2>5, DecodeSound DEF DecodesTo, Decodable
  <2>7. CASE loc = Unusable \/ \E n \in Int : loc = mkAbs(n)
    <3>1. ~(IsInReg(loc) \/ IsRegRel(loc))
      BY ONLY <2>7 DEF Unusable, mkAbs, IsInReg, IsRegRel
    <3> QED
      BY <2>2, <3>1, Zenon DEF FrameBaseStands
  <2>8. ASSUME NEW r \in Regs, NEW n \in Int, loc = mkRegRel(r, n),
               v = Adr(Held(r, bare) + n)
        PROVE  FrameBaseStands(loc, env)
    <3>1. base = Held(r, bare) + n
      BY <2>4, <2>8 DEF Adr
    <3>2. env.frameBase = base /\ Held(r, env) = Held(r, bare)
      BY <2>2, WithBase
    <3>3. loc.reg = r /\ loc.off = n
      BY <2>8 DEF mkRegRel
    <3> QED
      BY <3>1, <3>2, <3>3 DEF FrameBaseStands
  <2> QED
    BY <2>2, <2>6, <2>7, <2>8 DEF Stands
<1> QED
  BY <1>1, <1>2

FrameBaseIn(u, die) ==
  LET loc == decodeLocation(die.frame_base, Unusable)
  IN  IF IsAbs(loc) THEN findBestFBLoc(u.x64, ListIn(u, loc.off)) ELSE loc

LEMMA FrameBaseInUnit ==
  ASSUME NEW u, unit = u, NEW die
  PROVE  FrameBaseOf(die) = FrameBaseIn(u, die)
BY DEF FrameBaseOf, FrameBaseIn, ListOf

LEMMA ProcessType ==
  ASSUME NEW process \in Processes
  PROVE  process \in [0 .. 63 -> Int]
<1>1. CASE process = [r \in 0 .. 63 |-> 1000 + 17 * r]
  BY <1>1
<1>2. CASE process = [r \in 0 .. 63 |-> 3000 + 41 * r]
  BY <1>2
<1> QED
  BY <1>1, <1>2 DEF Processes

EnvIs(u, p, pcx, process) ==
  LET env == EnvAt(u, p, pcx, process)
  IN  /\ env \in Env /\ env.reg = process /\ env.cfa = CfaAt(u, pcx, process)
      /\ FrameBaseStands(FrameBaseIn(u, u.dies[p]), env)

LEMMA FrameBaseIs ==
  ASSUME NEW u \in Units, NEW p \in 1 .. Len(u.dies), NEW pcx, NEW process \in Processes,
         CfaAt(u, pcx, process) \in Int,
         AttributeStands(u, u.dies[p].frame_base, pcx, BareEnvAt(u, pcx, process))
  PROVE  EnvIs(u, p, pcx, process)
<1>1. PICK attr : attr = u.dies[p].frame_base
  BY Zenon
<1>2. PICK bare : bare = BareEnvAt(u, pcx, process)
  BY Zenon
<1>3. bare \in Env /\ bare.reg = process /\ bare.cfa = CfaAt(u, pcx, process)
  <2>1. process \in [0 .. 63 -> Int]
    BY ProcessType
  <2> QED
    BY <1>2, <2>1 DEF BareEnvAt, Env
<1>4. Fits1(u, attr)
  <2>1. attr \in Attribute
    BY <1>1, DieIs DEF Die
  <2>2. attr.form \in {"const", "sec_offset"} => LocationsFit(u, attr.n)
    BY <1>1, DieIs DEF ExpressionsFit
  <2> QED
    BY <2>1, <2>2 DEF Fits1
<1>5. PICK base : base = FrameBaseAt(u, p, pcx, process)
  BY Zenon
<1>6. PICK env : env = EnvAt(u, p, pcx, process) /\ env = [bare EXCEPT !.frameBase = base]
  BY <1>2, <1>5 DEF EnvAt
<1>7. PICK loc : loc = FrameBaseIn(u, u.dies[p])
  BY Zenon
<1>8. SUFFICES base \in Int /\ FrameBaseStands(loc, env)
  <2>1. env \in Env /\ env.reg = bare.reg /\ env.cfa = bare.cfa
    BY <1>3, <1>6, <1>8, WithBase
  <2> QED
    BY <1>3, <1>6, <1>7, <1>8, <2>1 DEF EnvIs
<1>9. CASE attr.form = "none"
  <2>1. base = 0
    BY <1>1, <1>5, <1>9 DEF FrameBaseAt, ExprsAt
  <2>2. loc = Unusable
    BY <1>1, <1>7, <1>9 DEF FrameBaseIn, decodeLocation, Unusable, IsAbs
  <2> QED
    BY <2>1, <2>2 DEF FrameBaseStands, Unusable, IsInReg, IsRegRel
<1>10. CASE attr.form # "none"
  <2>1. PICK expr \in Seq(Operation) :
          /\ ExprsAt(u, attr, pcx) = {expr}
          /\ Stood(expr, bare) /\ TakenFrom(u, attr, expr)
    BY <1>1, <1>2, <1>4, <1>10, AttributeIs, Zenon
  <2>2. base = IF expr[1].op = "reg" THEN bare.reg[expr[1].reg] ELSE Meaning(expr, bare)
    BY <1>1, <1>2, <1>3, <1>5, <2>1 DEF FrameBaseAt
  <2>3. base \in Int /\ FrameBaseStands(Evaluate(expr, Unusable)[1], env)
    BY <1>3, <1>6, <2>1, <2>2, BaseStands
  <2>4. loc = Evaluate(expr, Unusable)[1] \/ loc = Unusable
    <3>1. PICK at : at = decodeLocation(attr, Unusable)
      BY Zenon
    <3>2. loc = IF IsAbs(at) THEN findBestFBLoc(u.x64, ListIn(u, at.off)) ELSE at
      BY <1>1, <1>7, <3>1 DEF FrameBaseIn
    <3>3. CASE attr.form = "expr"
      <4>1. HasAddress(attr.expr) /\ expr = attr.expr
        BY <1>1, <2>1, <3>3, DieIs DEF ExpressionsFit, TakenFrom
      <4>2. at = Evaluate(expr, Unusable)[1]
        BY <3>1, <3>3, <4>1 DEF decodeLocation
      <4>3. ~IsAbs(at)
        BY <4>1, <4>2, EvaluateType
      <4> QED
        BY <3>2, <4>2, <4>3
    <3>4. CASE attr.form = "const"
      <4>1. at = mkAbs(attr.n)
        BY <3>1, <3>4 DEF decodeLocation
      <4>2. IsAbs(at) /\ at.off = attr.n
        BY <4>1 DEF IsAbs, mkAbs
      <4> QED
        BY <2>1, <3>2, <3>4, <4>2 DEF TakenFrom
    <3>5. CASE attr.form \notin {"expr", "const"}
      <4>1. at = Unusable
        BY <3>1, <3>5 DEF decodeLocation
      <4> QED
        BY <3>2, <4>1 DEF Unusable, IsAbs
    <3> QED
      BY <3>3, <3>4, <3>5
  <2>5. FrameBaseStands(Unusable, env)
    BY DEF FrameBaseStands, Unusable, IsInReg, IsRegRel
  <2> QED
    BY <2>3, <2>4, <2>5
<1> QED
  BY <1>9, <1>10
(* No two registers have one CodeView number.                              *)
CvIn(x64, r) == IF x64 THEN dwarf_to_amd64_reg(r) ELSE dwarf_to_x86_reg(r)

Dwarf86(n) ==
  CASE n \in 17 .. 24   -> n - 17
    [] n \in 33 .. 34   -> n - 25
    [] n = 26 -> 10
    [] n = 27 -> 11
    [] n = 28 -> 12
    [] n = 25 -> 13
    [] n = 29 -> 14
    [] n = 30 -> 15
    [] n \in 128 .. 135 -> n - 112
    [] n \in 154 .. 161 -> n - 122
    [] OTHER -> 0

Dwarf64(n) ==
  CASE n = 328 -> 0
    [] n = 331 -> 1
    [] n = 330 -> 2
    [] n = 329 -> 3
    [] n \in 332 .. 335 -> n - 328
    [] n \in 336 .. 343 -> n - 328
    [] n = 31 -> 16
    [] n = 34 -> 49
    [] n \in 25 .. 30   -> n + 25
    [] n \in 154 .. 161 -> n - 137
    [] n \in 252 .. 259 -> n - 227
    [] n \in 128 .. 135 -> n - 95
    [] OTHER -> 0

LEMMA Numbered86 ==
  ASSUME NEW r \in 0 .. 63, dwarf_to_x86_reg(r) # 0
  PROVE  Dwarf86(dwarf_to_x86_reg(r)) = r
<1>1. CASE r \in 10 .. 15
  <2>1. dwarf_to_x86_reg(r) = <<26, 27, 28, 25, 29, 30>>[r - 9]
    BY <1>1 DEF dwarf_to_x86_reg
  <2>2. r = 10 \/ r = 11 \/ r = 12 \/ r = 13 \/ r = 14 \/ r = 15
    BY <1>1
  <2>3. CASE r = 10
    BY <2>1, <2>3 DEF Dwarf86
  <2>4. CASE r = 11
    BY <2>1, <2>4 DEF Dwarf86
  <2>5. CASE r = 12
    BY <2>1, <2>5 DEF Dwarf86
  <2>6. CASE r = 13
    BY <2>1, <2>6 DEF Dwarf86
  <2>7. CASE r = 14
    BY <2>1, <2>7 DEF Dwarf86
  <2>8. CASE r = 15
    BY <2>1, <2>8 DEF Dwarf86
  <2> QED
    BY <2>2, <2>3, <2>4, <2>5, <2>6, <2>7, <2>8
<1>2. CASE r \notin 10 .. 15
  <2>1. dwarf_to_x86_reg(r) = CASE r \in 0 .. 7   -> 17 + r
                                [] r \in 8 .. 9   -> 25 + r
                                [] r \in 16 .. 23 -> 112 + r
                                [] r \in 32 .. 39 -> 122 + r
                                [] OTHER -> 0
    BY <1>2 DEF dwarf_to_x86_reg
  <2> QED
    BY <2>1 DEF Dwarf86
<1> QED
  BY <1>1, <1>2

LEMMA Numbered64 ==
  ASSUME NEW r \in 0 .. 63, dwarf_to_amd64_reg(r) # 0
  PROVE  Dwarf64(dwarf_to_amd64_reg(r)) = r
<1>1. CASE r \in 0 .. 7
  <2>1. dwarf_to_amd64_reg(r) = <<328, 331, 330, 329, 332, 333, 334, 335>>[r + 1]
    BY <1>1 DEF dwarf_to_amd64_reg
  <2>2. r = 0 \/ r = 1 \/ r = 2 \/ r = 3 \/ r = 4 \/ r = 5 \/ r = 6 \/ r = 7
    BY <1>1
  <2>3. CASE r = 0
    BY <2>1, <2>3 DEF Dwarf64
  <2>4. CASE r = 1
    BY <2>1, <2>4 DEF Dwarf64
  <2>5. CASE r = 2
    BY <2>1, <2>5 DEF Dwarf64
  <2>6. CASE r = 3
    BY <2>1, <2>6 DEF Dwarf64
  <2>7. CASE r = 4
    BY <2>1, <2>7 DEF Dwarf64
  <2>8. CASE r = 5
    BY <2>1, <2>8 DEF Dwarf64
  <2>9. CASE r = 6
    BY <2>1, <2>9 DEF Dwarf64
  <2>10. CASE r = 7
    BY <2>1, <2>10 DEF Dwarf64
  <2> QED
    BY <2>2, <2>3, <2>4, <2>5, <2>6, <2>7, <2>8, <2>9, <2>10
<1>2. CASE r \in 50 .. 55
  <2>1. dwarf_to_amd64_reg(r) = <<25, 26, 27, 28, 29, 30>>[r - 49]
    BY <1>2 DEF dwarf_to_amd64_reg
  <2>2. r = 50 \/ r = 51 \/ r = 52 \/ r = 53 \/ r = 54 \/ r = 55
    BY <1>2
  <2>3. CASE r = 50
    BY <2>1, <2>3 DEF Dwarf64
  <2>4. CASE r = 51
    BY <2>1, <2>4 DEF Dwarf64
  <2>5. CASE r = 52
    BY <2>1, <2>5 DEF Dwarf64
  <2>6. CASE r = 53
    BY <2>1, <2>6 DEF Dwarf64
  <2>7. CASE r = 54
    BY <2>1, <2>7 DEF Dwarf64
  <2>8. CASE r = 55
    BY <2>1, <2>8 DEF Dwarf64
  <2> QED
    BY <2>2, <2>3, <2>4, <2>5, <2>6, <2>7, <2>8
<1>3. CASE r \notin 0 .. 7 /\ r \notin 50 .. 55
  <2>1. dwarf_to_amd64_reg(r) = CASE r \in 8 .. 15 -> 328 + r
                                  [] r = 16 -> 31
                                  [] r = 49 -> 34
                                  [] r \in 17 .. 24 -> 137 + r
                                  [] r \in 25 .. 32 -> 227 + r
                                  [] r \in 33 .. 40 -> 95 + r
                                  [] OTHER -> 0
    BY <1>3 DEF dwarf_to_amd64_reg
  <2>2. CASE r \in 8 .. 15
    <3>1. PICK n : n = dwarf_to_amd64_reg(r)
      BY Zenon
    <3>2. n = 328 + r
      BY <2>1, <2>2, <3>1
    <3>3. n \in 336 .. 343
      BY <2>2, <3>2
    <3>4. Dwarf64(n) = n - 328
      BY <3>3 DEF Dwarf64
    <3> QED
      BY <3>1, <3>2, <3>4
  <2>3. CASE r = 16
    <3>1. dwarf_to_amd64_reg(r) = 31
      BY <2>1, <2>3
    <3> QED
      BY <2>3, <3>1 DEF Dwarf64
  <2>8. CASE r = 49
    <3>1. dwarf_to_amd64_reg(r) = 34
      BY <2>1, <2>8
    <3> QED
      BY <2>8, <3>1 DEF Dwarf64
  <2>4. CASE r \in 17 .. 24
    <3>1. PICK n : n = dwarf_to_amd64_reg(r)
      BY Zenon
    <3>2. n = 137 + r
      BY <2>1, <2>4, <3>1
    <3>3. n \in 154 .. 161
      BY <2>4, <3>2
    <3>4. Dwarf64(n) = n - 137
      BY <3>3 DEF Dwarf64
    <3> QED
      BY <3>1, <3>2, <3>4
  <2>5. CASE r \in 25 .. 32
    <3>1. PICK n : n = dwarf_to_amd64_reg(r)
      BY Zenon
    <3>2. n = 227 + r
      BY <2>1, <2>5, <3>1
    <3>3. n \in 252 .. 259
      BY <2>5, <3>2
    <3>4. Dwarf64(n) = n - 227
      BY <3>3 DEF Dwarf64
    <3> QED
      BY <3>1, <3>2, <3>4
  <2>6. CASE r \in 33 .. 40
    <3>1. PICK n : n = dwarf_to_amd64_reg(r)
      BY Zenon
    <3>2. n = 95 + r
      BY <2>1, <2>6, <3>1
    <3>3. n \in 128 .. 135
      BY <2>6, <3>2
    <3>4. Dwarf64(n) = n - 95
      BY <3>3 DEF Dwarf64
    <3> QED
      BY <3>1, <3>2, <3>4
  <2>7. CASE r \notin 8 .. 40 /\ r # 49
    BY <2>1, <2>7
  <2> QED
    BY <2>2, <2>3, <2>4, <2>5, <2>6, <2>7, <2>8
<1> QED
  BY <1>1, <1>2, <1>3

LEMMA CvIs ==
  ASSUME NEW x64, NEW r \in 0 .. 63, CvIn(x64, r) # 0,
         NEW q, q = CHOOSE i \in 0 .. 63 : CvIn(x64, i) = CvIn(x64, r)
  PROVE  q = r
<1>1. q \in 0 .. 63 /\ CvIn(x64, q) = CvIn(x64, r)
  <2>1. \E i \in 0 .. 63 : CvIn(x64, i) = CvIn(x64, r)
    BY Zenon
  <2> QED
    BY <2>1, Zenon
<1>2. CASE x64
  BY <1>1, <1>2, Numbered64 DEF CvIn
<1>3. CASE ~x64
  BY <1>1, <1>3, Numbered86 DEF CvIn
<1> QED
  BY <1>2, <1>3

LEMMA CvInUnit ==
  ASSUME NEW u, unit = u, NEW r
  PROVE  CvReg(r) = CvIn(u.x64, r)
BY DEF CvReg, CvIn

(* The symbol of a variable, and the variable that it is for.              *)
PlaceIn(u, die, frameBase) ==
  IF die.location.form = "sec_offset"
    THEN findBestFBLoc(u.x64, ListIn(u, die.location.n))
    ELSE decodeLocation(die.location, frameBase)

VarFrom(u, s, d, frameBase, cfa) ==
  LET loc == PlaceIn(u, u.dies[d], frameBase)
      at  == OnFrame(loc, cfa)
  IN  /\ IsRegRel(loc) /\ s.die = d
      /\ s.reg = CvIn(u.x64, at.reg) /\ s.reg # 0 /\ s.off = at.off

LEMMA VarOfIs ==
  ASSUME NEW u, unit = u, NEW d, NEW p, NEW v, v = VarOf(d, p)
  PROVE  /\ IsList(v)
         /\ \A i \in 1 .. Len(v) : VarFrom(u, v[i], d, p.frameBase, p.cfa)
<1>1. PICK loc : loc = PlaceIn(u, u.dies[d], p.frameBase)
  BY Zenon
<1>2. PICK at : at = OnFrame(loc, p.cfa)
  BY Zenon
<1>3. v = IF IsRegRel(loc) THEN StackVar(d, loc, p.cfa) ELSE <<>>
  BY <1>1 DEF VarOf, PlaceOf, PlaceIn, ListOf, dies
<1>4. CASE IsRegRel(loc) /\ CvReg(at.reg) # 0
  <2>1. PICK x : x = [kind |-> IF CvReg(at.reg) = 22 THEN "S_BPREL" ELSE "S_REGREL",
                      die |-> d, reg |-> CvReg(at.reg), off |-> at.off]
    BY Zenon
  <2>2. v = <<x>>
    BY <1>2, <1>3, <1>4, <2>1 DEF StackVar
  <2>3. x.die = d /\ x.reg = CvReg(at.reg) /\ x.off = at.off
    BY <2>1
  <2>4. CvReg(at.reg) = CvIn(u.x64, at.reg)
    BY CvInUnit
  <2>5. VarFrom(u, x, d, p.frameBase, p.cfa)
    BY <1>1, <1>2, <1>4, <2>3, <2>4 DEF VarFrom
  <2>6. IsList(v) /\ Len(v) = 1 /\ v[1] = x
    BY <2>2, ListOne
  <2> QED
    BY <2>5, <2>6
<1>5. CASE ~(IsRegRel(loc) /\ CvReg(at.reg) # 0)
  <2>1. v = <<>>
    BY <1>2, <1>3, <1>5 DEF StackVar
  <2> QED
    BY <2>1, ListEmpty
<1> QED
  BY <1>4, <1>5

(* Register and offset of a variable's symbol are its address.             *)
OfFrame(u, pcx, process, cfa) ==
  /\ IsRegRel(cfa) /\ cfa.reg \in 0 .. 63 /\ cfa.off \in Int
  /\ CfaAt(u, pcx, process) = process[cfa.reg] + cfa.off

Located(u, s, d, env, pcx) ==
  LET reg == CHOOSE r \in 0 .. 63 : CvIn(u.x64, r) = s.reg
  IN  \E expr \in ExprsAt(u, u.dies[d].location, pcx) :
        HasMeaning(expr, env) /\ env.reg[reg] + s.off = Meaning(expr, env)

LEMMA HeldOnFrame ==
  ASSUME NEW env \in Env, NEW cfa, IsRegRel(cfa), cfa.reg \in 0 .. 63, cfa.off \in Int,
         env.cfa = env.reg[cfa.reg] + cfa.off,
         NEW r \in Regs, NEW n \in Int, NEW at, at = OnFrame(mkRegRel(r, n), cfa)
  PROVE  /\ at.reg \in 0 .. 63 /\ at.off \in Int
         /\ env.reg[at.reg] + at.off = Held(r, env) + n
<1>1. mkRegRel(r, n).reg = r /\ mkRegRel(r, n).off = n
  BY DEF mkRegRel
<1>2. env.reg[cfa.reg] \in Int
  BY DEF Env
<1>3. CASE r = DW_REG_CFA
  <2>1. at = mkRegRel(cfa.reg, n + cfa.off)
    BY <1>1, <1>3 DEF OnFrame
  <2>2. at.reg = cfa.reg /\ at.off = n + cfa.off
    BY <2>1 DEF mkRegRel
  <2>3. Held(r, env) = env.cfa
    BY <1>3 DEF Held
  <2>4. PICK h, m : h = env.reg[cfa.reg] /\ m = cfa.off
    BY Zenon
  <2>5. h \in Int /\ m \in Int /\ Held(r, env) = h + m /\ env.reg[at.reg] = h /\ at.off = n + m
    BY <1>2, <2>2, <2>3, <2>4
  <2>6. h + (n + m) = (h + m) + n /\ n + m \in Int
    BY <2>5
  <2> QED
    BY <2>2, <2>5, <2>6
<1>4. CASE r # DW_REG_CFA
  <2>1. at.reg = r /\ at.off = n
    BY <1>1, <1>4 DEF OnFrame
  <2>2. r \in 0 .. 63
    BY <1>4 DEF Regs
  <2>3. Held(r, env) = env.reg[r]
    BY <1>4 DEF Held
  <2> QED
    BY <2>1, <2>2, <2>3
<1> QED
  BY <1>3, <1>4

LEMMA VariableStands ==
  ASSUME NEW u \in Units, NEW d \in 1 .. Len(u.dies),
         IsLocal(u.dies[d]) \/ IsParameter(u.dies[d]),
         NEW p, NEW pcx, NEW process, EnvIs(u, p, pcx, process),
         NEW env, env = EnvAt(u, p, pcx, process),
         AttributeStands(u, u.dies[d].location, pcx, env),
         NEW cfa, OfFrame(u, pcx, process, cfa),
         NEW s, VarFrom(u, s, d, FrameBaseIn(u, u.dies[p]), cfa)
  PROVE  Located(u, s, d, env, pcx)
<1>1. PICK attr : attr = u.dies[d].location
  BY Zenon
<1>2. PICK base : base = FrameBaseIn(u, u.dies[p])
  BY Zenon
<1>3. env \in Env /\ env.reg = process /\ env.cfa = CfaAt(u, pcx, process)
      /\ FrameBaseStands(base, env)
  BY <1>2 DEF EnvIs
<1>4. attr.form \in {"expr", "sec_offset"}
  BY <1>1 DEF IsLocal, IsParameter
<1>5. Fits1(u, attr)
  <2>1. attr \in Attribute
    BY <1>1, DieIs DEF Die
  <2>2. attr.form \in {"const", "sec_offset"} => LocationsFit(u, attr.n)
    BY <1>1, <1>4, DieIs DEF ExpressionsFit
  <2> QED
    BY <2>1, <2>2 DEF Fits1
<1>6. PICK expr \in Seq(Operation) :
        /\ ExprsAt(u, attr, pcx) = {expr}
        /\ Stood(expr, env) /\ TakenFrom(u, attr, expr)
  BY <1>1, <1>4, <1>5, AttributeIs
<1>7. PICK loc : loc = PlaceIn(u, u.dies[d], base)
  BY Zenon
<1>8. PICK from : from = IF attr.form = "sec_offset" THEN Unusable ELSE base
  BY Zenon
<1>9. loc = Evaluate(expr, from)[1]
  <2>1. CASE attr.form = "sec_offset"
    BY <1>1, <1>6, <1>7, <1>8, <2>1 DEF PlaceIn, TakenFrom
  <2>2. CASE attr.form = "expr"
    BY <1>1, <1>6, <1>7, <1>8, <2>2 DEF PlaceIn, TakenFrom, decodeLocation
  <2> QED
    BY <1>4, <2>1, <2>2
<1>10. FrameBaseStands(from, env)
  <2>1. FrameBaseStands(Unusable, env)
    BY DEF FrameBaseStands, Unusable, IsInReg, IsRegRel
  <2> QED
    BY <1>3, <1>8, <2>1
<1>11. PICK at : at = OnFrame(loc, cfa)
  BY Zenon
<1>12. IsRegRel(loc) /\ s.reg = CvIn(u.x64, at.reg) /\ s.reg # 0 /\ s.off = at.off
  BY <1>2, <1>7, <1>11 DEF VarFrom
<1>13. ~IsRegister(expr)
  <2> SUFFICES ASSUME IsRegister(expr) PROVE FALSE
    OBVIOUS
  <2>1. loc = mkInReg(expr[1].reg)
    BY <1>9, RegisterIs
  <2> QED
    BY <1>12, <2>1 DEF mkInReg, IsRegRel
<1>14. Decodable(expr, env) /\ HasMeaning(expr, env)
  BY <1>6, <1>13 DEF Stood, Decodable
<1>15. PICK v : v = Leaves(expr, env)
  BY Zenon
<1>16. Meaning(expr, env) = v.v
  BY <1>15 DEF Meaning
<1>17. loc = Unusable \/ Stands(loc, v, env)
  BY <1>3, <1>9, <1>10, <1>14, <1>15, DecodeSound DEF DecodesTo, Decodable
<1>18. PICK r \in Regs, n \in Int : loc = mkRegRel(r, n) /\ v = Adr(Held(r, env) + n)
  <2>1. loc # Unusable /\ \A n \in Int : loc # mkAbs(n)
    BY ONLY <1>12 DEF IsRegRel, Unusable, mkAbs
  <2> QED
    BY <1>17, <2>1, Zenon DEF Stands
<1>19. v.v = Held(r, env) + n
  BY <1>18 DEF Adr
<1>20. /\ at.reg \in 0 .. 63 /\ at.off \in Int
       /\ env.reg[at.reg] + at.off = Held(r, env) + n
  <2>1. /\ IsRegRel(cfa) /\ cfa.reg \in 0 .. 63 /\ cfa.off \in Int
        /\ env.cfa = env.reg[cfa.reg] + cfa.off
    BY <1>3 DEF OfFrame
  <2>2. at = OnFrame(mkRegRel(r, n), cfa) /\ env \in Env
    BY <1>3, <1>11, <1>18
  <2> QED
    BY ONLY <2>1, <2>2, r \in Regs, n \in Int, HeldOnFrame
<1>21. PICK reg : reg = CHOOSE i \in 0 .. 63 : CvIn(u.x64, i) = s.reg
  BY Zenon
<1>22. reg = at.reg
  <2>1. CvIn(u.x64, at.reg) # 0
    BY <1>12
  <2>2. reg = CHOOSE i \in 0 .. 63 : CvIn(u.x64, i) = CvIn(u.x64, at.reg)
    BY <1>12, <1>21
  <2> QED
    BY <1>20, <2>1, <2>2, CvIs
<1>23. env.reg[reg] + s.off = Meaning(expr, env)
  BY <1>12, <1>16, <1>19, <1>20, <1>22
<1>24. expr \in ExprsAt(u, u.dies[d].location, pcx)
  BY <1>1, <1>6
<1> QED
  BY <1>14, <1>21, <1>23, <1>24, Zenon DEF Located
-----------------------------------------------------------------------------
(***************************************************************************)
(* What is around a DIE, as the cursors of addDWARFProc move: nothing is   *)
(* added behind null entries, and behind a DIE's descendants; in front of  *)
(* its first child only the DIE itself.                                    *)
(***************************************************************************)
LEMMA AroundIs ==
  ASSUME NEW u, NEW i, NEW q
  PROVE  q \in Around(u, i) <=> /\ q \in 1 .. i - 1 /\ u[q].hasChild
                                /\ i < EndOfLevel(u, q + 1)
BY DEF Around

LEMMA EndNat ==
  ASSUME NEW u, IsUnit(u), NEW q \in 1 .. Len(u)
  PROVE  EndOfLevel(u, q + 1) \in q + 1 .. Len(u) + 1
<1>1. Len(u) \in Nat /\ q + 1 \in 1 .. Len(u) + 1
  BY UnitIsTree
<1> QED
  BY <1>1, EndOfLevelFacts

LEMMA AroundNulls ==
  ASSUME NEW u, IsUnit(u), NEW i \in 1 .. Len(u) + 1, NEW j \in i .. Len(u) + 1,
         \A k \in i .. j - 1 : IsNull(u[k])
  PROVE  Around(u, j) \subseteq Around(u, i)
<1> SUFFICES ASSUME NEW q \in Around(u, j) PROVE q \in Around(u, i)
  OBVIOUS
<1>1. Len(u) \in Nat
  BY UnitIsTree
<1>2. q \in 1 .. j - 1 /\ u[q].hasChild /\ j < EndOfLevel(u, q + 1)
  BY AroundIs
<1>3. q \in 1 .. Len(u)
  BY <1>1, <1>2
<1>4. ~IsNull(u[q])
  BY <1>2, <1>3 DEF IsUnit, WellNested
<1>5. q \notin i .. j - 1
  BY <1>4
<1>6. EndOfLevel(u, q + 1) \in Nat
  BY <1>1, <1>3, EndNat
<1>7. q \in 1 .. i - 1 /\ i < EndOfLevel(u, q + 1)
  BY <1>1, <1>2, <1>5, <1>6
<1> QED
  BY <1>2, <1>7, AroundIs

LEMMA AroundNext ==
  ASSUME NEW u, IsUnit(u), NEW d \in 1 .. Len(u)
  PROVE  Around(u, d + 1) \subseteq Around(u, d) \cup {d}
<1> SUFFICES ASSUME NEW q \in Around(u, d + 1), q # d PROVE q \in Around(u, d)
  OBVIOUS
<1>1. Len(u) \in Nat
  BY UnitIsTree
<1>2. q \in 1 .. (d + 1) - 1 /\ u[q].hasChild /\ d + 1 < EndOfLevel(u, q + 1)
  BY AroundIs
<1>3. q \in 1 .. Len(u)
  BY <1>1, <1>2
<1>4. EndOfLevel(u, q + 1) \in Nat
  BY <1>1, <1>3, EndNat
<1>5. q \in 1 .. d - 1 /\ d < EndOfLevel(u, q + 1)
  BY <1>1, <1>2, <1>4
<1> QED
  BY <1>2, <1>5, AroundIs

(* Levels are nested.                                                      *)
LEMMA LevelsNest ==
  ASSUME NEW u, IsUnit(u), NEW p \in 1 .. Len(u), NEW q \in 1 .. Len(u),
         u[p].hasChild, u[q].hasChild, p < q, q < EndOfLevel(u, p + 1)
  PROVE  EndOfLevel(u, q + 1) < EndOfLevel(u, p + 1)
<1>1. IsTree(u) /\ Len(u) \in Nat
  BY UnitIsTree
<1>2. EndOfLevel(u, p + 1) \in p + 2 .. Len(u) /\ p + 1 \in 1 .. Len(u) + 1
  BY <1>1, LevelsEnd
<1>3. EndOfLevel(u, p + 1) <= Len(u)
  BY <1>1, <1>2
<1>4. Encloses(u, p + 1)
  BY <1>1, <1>2, <1>3, LevelsEnclose
<1>5. q \in p + 1 .. EndOfLevel(u, p + 1) - 1
  BY <1>1, <1>2
<1> QED
  BY <1>4, <1>5 DEF Encloses

LEMMA AroundThrough ==
  ASSUME NEW u, IsUnit(u), NEW d \in 1 .. Len(u) + 1, NEW q \in Around(u, d),
         NEW p \in Around(u, q)
  PROVE  p \in Around(u, d)
<1>1. Len(u) \in Nat
  BY UnitIsTree
<1>2. q \in 1 .. d - 1 /\ u[q].hasChild /\ d < EndOfLevel(u, q + 1)
  BY AroundIs
<1>3. p \in 1 .. q - 1 /\ u[p].hasChild /\ q < EndOfLevel(u, p + 1)
  BY AroundIs
<1>4. p \in 1 .. Len(u) /\ q \in 1 .. Len(u) /\ p < q /\ p \in 1 .. d - 1
  BY <1>1, <1>2, <1>3
<1>5. EndOfLevel(u, q + 1) < EndOfLevel(u, p + 1)
  BY <1>2, <1>3, <1>4, LevelsNest
<1>6. EndOfLevel(u, q + 1) \in Nat /\ EndOfLevel(u, p + 1) \in Nat
  BY <1>1, <1>4, EndNat
<1>7. d < EndOfLevel(u, p + 1)
  BY <1>1, <1>2, <1>5, <1>6
<1> QED
  BY <1>3, <1>4, <1>7, AroundIs

LEMMA AroundSibling ==
  ASSUME NEW u, IsUnit(u), NEW d \in 1 .. Len(u)
  PROVE  /\ NextSibling(u, d) \in d + 1 .. Len(u) + 1
         /\ Around(u, NextSibling(u, d)) \subseteq Around(u, d)
<1>1. Len(u) \in Nat
  BY UnitIsTree
<1>2. PICK s : s = NextSibling(u, d)
  BY Zenon
<1>3. CASE u[d].hasChild
  <2>1. PICK e : e = EndOfLevel(u, d + 1)
    BY Zenon
  <2>2. s = e + 1 /\ e \in d + 2 .. Len(u) /\ IsNull(u[e])
    BY <1>2, <1>3, <2>1, LevelsEnd DEF NextSibling
  <2>3. ASSUME NEW q \in Around(u, s) PROVE q \in Around(u, d)
    <3>1. q \in 1 .. s - 1 /\ u[q].hasChild /\ s < EndOfLevel(u, q + 1)
      BY AroundIs
    <3>2. q \in 1 .. Len(u) /\ q <= e
      BY <1>1, <2>2, <3>1
    <3>3. EndOfLevel(u, q + 1) \in Nat
      BY <1>1, <3>2, EndNat
    <3>4. q # e
      <4>1. e \in 1 .. Len(u)
        BY <1>1, <2>2
      <4>2. ~u[e].hasChild
        BY <2>2, <4>1 DEF IsUnit, WellNested
      <4> QED
        BY <3>1, <4>2
    <3>5. q # d
      <4> SUFFICES ASSUME q = d PROVE FALSE
        OBVIOUS
      <4>1. s < e
        BY <2>1, <3>1
      <4> QED
        BY <1>1, <2>2, <4>1
    <3>6. ~(d < q)
      <4> SUFFICES ASSUME d < q PROVE FALSE
        OBVIOUS
      <4>1. q < e
        BY <1>1, <2>2, <3>2, <3>4
      <4>2. EndOfLevel(u, q + 1) < e
        BY <1>3, <2>1, <3>1, <3>2, <4>1, LevelsNest
      <4> QED
        BY <1>1, <2>2, <3>1, <3>3, <4>2
    <3>7. q \in 1 .. d - 1 /\ d < EndOfLevel(u, q + 1)
      BY <1>1, <2>2, <3>1, <3>2, <3>3, <3>5, <3>6
    <3> QED
      BY <3>1, <3>7, AroundIs
  <2>4. s \in d + 1 .. Len(u) + 1
    BY <1>1, <2>2
  <2> QED
    BY <1>2, <2>3, <2>4
<1>4. CASE ~u[d].hasChild
  <2>1. s = d + 1
    BY <1>2, <1>4 DEF NextSibling
  <2>2. Around(u, d + 1) \subseteq Around(u, d) \cup {d}
    BY AroundNext
  <2>3. d \notin Around(u, s)
    BY <1>4, AroundIs
  <2>4. s \in d + 1 .. Len(u) + 1
    BY <1>1, <2>1
  <2> QED
    BY <1>2, <2>1, <2>2, <2>3, <2>4
<1> QED
  BY <1>3, <1>4

(* Every DIE but the root has a parent.                                    *)
LEMMA HasParent ==
  ASSUME NEW u, IsUnit(u), NEW d \in 2 .. Len(u), ~IsNull(u[d])
  PROVE  ParentOf(u, d) \in Around(u, d)
<1>1. Len(u) \in Nat /\ 1 \in 1 .. Len(u)
  BY UnitIsTree
<1>2. u[1].hasChild /\ EndOfLevel(u, 1 + 1) = Len(u)
  BY DEF IsUnit, WellNested
<1>3. IsNull(u[EndOfLevel(u, 1 + 1)])
  BY <1>1, <1>2, LevelsEnd
<1>4. d # Len(u)
  BY <1>2, <1>3
<1>5. 1 \in 1 .. d - 1 /\ d < Len(u)
  BY <1>1, <1>4
<1>6. 1 \in Around(u, d)
  BY <1>2, <1>5, AroundIs
<1>7. d \in Nat \ {0}
  BY <1>1
<1>8. PICK x : x = ParentOf(u, d)
  BY Zenon
<1>9. x \in {0} \cup Around(u, d) /\ 1 <= x
  BY <1>6, <1>7, <1>8, ParentIs
<1>10. x # 0
  BY <1>9
<1> QED
  BY <1>8, <1>9, <1>10

(* readNext passes over null entries only.                                 *)
Passes(u, c, r) ==
  /\ r.die \in c.ptr .. Len(u) /\ ~IsNull(u[r.die])
  /\ \A i \in c.ptr .. r.die - 1 : IsNull(u[i])
  /\ \E l \in Int : r.cursor = Having(u, r.die, l)

LEMMA ReadPasses ==
  ASSUME NEW u, IsUnit(u), NEW c, Place(u, c), NEW r, r = readNext(u, c, FALSE), r.die # 0
  PROVE  Passes(u, c, r)
<1>1. PICK at : at = AfterNulls(u, c)
  BY Zenon
<1>2. \A i \in c.ptr .. at - 1 : IsNull(u[i])
  BY <1>1, RestIs
<1>3. r.die = at
  BY <1>1 DEF readNext
<1>4. PICK b : b = FALSE
  BY Zenon
<1>5. b \in BOOLEAN /\ r = readNext(u, c, b)
  BY <1>4, Zenon
<1>6. Comes(u, c, r)
  BY <1>5, ReadComes, Zenon
<1> QED
  BY <1>2, <1>3, <1>6 DEF Comes, Passes
-----------------------------------------------------------------------------
(***************************************************************************)
(* The variables of the stack: each was decoded with the frame base and    *)
(* the frame address of the procedure that it is in.                       *)
(***************************************************************************)
CfaIn(u, p) == findBestCFA(u.x64, u.frames, u.dies[p].pclo, u.dies[p].pchi)

OfProc(u, p, d) ==
  /\ DefinedIn(u, p) /\ ProcOf(u, d) = p
  /\ IsLocal(u.dies[d]) \/ IsParameter(u.dies[d])
Owned(u, s) ==
  \E p \in 1 .. Len(u.dies), d \in 1 .. Len(u.dies) :
    OfProc(u, p, d) /\ VarFrom(u, s, d, FrameBaseIn(u, u.dies[p]), CfaIn(u, p))
OwnedAll(u, ss) ==
  IsList(ss) /\ \A k \in 1 .. Len(ss) : ss[k].kind \in Stacked => Owned(u, ss[k])

LEMMA OwnedJoin ==
  ASSUME NEW u, NEW ss, OwnedAll(u, ss), NEW t, IsList(t),
         \A k \in 1 .. Len(t) : t[k].kind \in Stacked => Owned(u, t[k]),
         NEW more, more = ss \o t
  PROVE  OwnedAll(u, more)
<1>1. IsList(ss) /\ \A k \in 1 .. Len(ss) : ss[k].kind \in Stacked => Owned(u, ss[k])
  BY DEF OwnedAll
<1>2. Behind(more, ss, t)
  BY <1>1, ListJoin, Zenon
<1>3. /\ IsList(more) /\ Len(ss) \in Nat /\ Len(t) \in Nat /\ Len(more) = Len(ss) + Len(t)
      /\ \A k \in 1 .. Len(ss) : more[k] = ss[k]
      /\ \A k \in 1 .. Len(t) : more[Len(ss) + k] = t[k]
  BY <1>2 DEF Behind, Kept
<1>4. ASSUME NEW k \in 1 .. Len(more), more[k].kind \in Stacked PROVE Owned(u, more[k])
  <2>1. CASE k \in 1 .. Len(ss)
    BY <1>1, <1>3, <1>4, <2>1
  <2>2. CASE k \notin 1 .. Len(ss)
    <3>1. PICK j : j = k - Len(ss)
      BY Zenon
    <3>2. j \in 1 .. Len(t) /\ k = Len(ss) + j
      BY <1>3, <2>2, <3>1
    <3>3. more[k] = t[j]
      BY <1>3, <3>2
    <3> QED
      BY <1>4, <3>2, <3>3
  <2> QED
    BY <2>1, <2>2
<1> QED
  BY <1>3, <1>4 DEF OwnedAll

LEMMA OwnedAppend ==
  ASSUME NEW u, NEW ss, OwnedAll(u, ss), NEW x, x.kind \notin Stacked,
         NEW more, more = Append(ss, x)
  PROVE  OwnedAll(u, more)
<1>1. IsList(ss) /\ \A k \in 1 .. Len(ss) : ss[k].kind \in Stacked => Owned(u, ss[k])
  BY DEF OwnedAll
<1>2. Grew(more, ss, x)
  BY <1>1, ListAppend, Zenon
<1>3. /\ IsList(more) /\ Len(ss) \in Nat /\ Len(more) = Len(ss) + 1 /\ more[Len(ss) + 1] = x
      /\ \A k \in 1 .. Len(ss) : more[k] = ss[k]
  BY <1>2 DEF Grew, Kept
<1>4. \A k \in 1 .. Len(more) : k = Len(ss) + 1 \/ k \in 1 .. Len(ss)
  BY <1>3
<1> QED
  BY <1>1, <1>3, <1>4 DEF OwnedAll

LEMMA OwnedVar ==
  ASSUME NEW u, unit = u, NEW ss, OwnedAll(u, ss),
         NEW pr, pr.frameBase = FrameBaseIn(u, u.dies[pr.die]), pr.cfa = CfaIn(u, pr.die),
         pr.die \in 1 .. Len(u.dies), NEW d \in 1 .. Len(u.dies),
         OfProc(u, pr.die, d) \/ VarOf(d, pr) = <<>>,
         NEW more, more = ss \o VarOf(d, pr)
  PROVE  OwnedAll(u, more)
<1>1. PICK v : v = VarOf(d, pr)
  BY Zenon
<1>2. CASE v = <<>>
  <2>1. IsList(v) /\ Len(v) = 0
    BY <1>2, ListEmpty
  <2> QED
    BY <1>1, <2>1, OwnedJoin
<1>3. CASE v # <<>>
  <2>1. IsList(v) /\ \A i \in 1 .. Len(v) : VarFrom(u, v[i], d, pr.frameBase, pr.cfa)
    BY <1>1, VarOfIs
  <2>2. OfProc(u, pr.die, d)
    BY <1>1, <1>3
  <2>3. \A i \in 1 .. Len(v) : Owned(u, v[i])
    <3> SUFFICES ASSUME NEW i \in 1 .. Len(v) PROVE Owned(u, v[i])
      OBVIOUS
    <3>1. PICK p, x : p = pr.die /\ x = v[i]
      BY Zenon
    <3>2. VarFrom(u, x, d, FrameBaseIn(u, u.dies[p]), CfaIn(u, p))
      BY <2>1, <3>1
    <3>3. p \in 1 .. Len(u.dies) /\ OfProc(u, p, d)
      BY <2>2, <3>1
    <3>4. Owned(u, x)
      BY <3>2, <3>3, Zenon DEF Owned
    <3> QED
      BY <3>1, <3>4
  <2> QED
    BY <1>1, <2>1, <2>3, OwnedJoin, Zenon
<1> QED
  BY <1>2, <1>3

(* The procedure that a DIE is in.                                         *)
LEMMA ProcIs ==
  ASSUME NEW u, NEW d \in Nat \ {0}, NEW p \in Around(u.dies, d), u.dies[p].tag = "subprogram",
         \A q \in Around(u.dies, d) : q <= p \/ u.dies[q].tag # "subprogram"
  PROVE  ProcOf(u, d) = p
<1> DEFINE S == {0} \cup {q \in Around(u.dies, d) : u.dies[q].tag = "subprogram"}
<1>1. \A q \in Around(u.dies, d) : q \in 1 .. d - 1
  BY DEF Around
<1>2. S \in SUBSET (0 .. d) /\ S # {}
  BY <1>1
<1>3. Max(S) \in S /\ \A q \in S : q <= Max(S)
  <2> HIDE DEF S
  <2> QED
    BY <1>2, MaxIs
<1>4. p \in S /\ p \in Nat \ {0}
  BY <1>1
<1>5. Max(S) \in Nat /\ p <= Max(S)
  <2> HIDE DEF S
  <2>1. Max(S) \in 0 .. d
    BY <1>2, <1>3
  <2> QED
    BY <1>3, <1>4, <2>1
<1>6. Max(S) = 0 \/ Max(S) <= p
  <2>1. \A q \in S : q = 0 \/ q <= p
    OBVIOUS
  <2> HIDE DEF S
  <2> QED
    BY <1>3, <2>1
<1>7. Max(S) = p
  <2> HIDE DEF S
  <2> QED
    BY <1>4, <1>5, <1>6
<1> QED
  BY <1>7 DEF ProcOf

(* A cursor that has not left the procedure p, or not for another one.     *)
StaysAt(u, p, i) ==
  \A q \in Around(u.dies, i) :
    q <= p \/ (u.dies[q].tag # "subprogram" /\ p \in Around(u.dies, q))
Stays(u, p, c) == c.ptr \in Nat /\ c.ptr > p /\ StaysAt(u, p, c.ptr)

Reached(u, p, r) ==
  /\ r.die \in p + 1 .. Len(u.dies) /\ StaysAt(u, p, r.die) /\ ~IsNull(u.dies[r.die])
  /\ \E l \in Int : r.cursor = Having(u.dies, r.die, l)

LEMMA StaysRead ==
  ASSUME NEW u, IsUnit(u.dies), NEW p \in 1 .. Len(u.dies),
         NEW c, Place(u.dies, c), Stays(u, p, c),
         NEW r, r = readNext(u.dies, c, FALSE), r.die # 0
  PROVE  Reached(u, p, r)
<1>1. PICK d : d = r.die
  BY Zenon
<1>2. /\ d \in c.ptr .. Len(u.dies) /\ ~IsNull(u.dies[d])
      /\ \A i \in c.ptr .. d - 1 : IsNull(u.dies[i])
      /\ \E l \in Int : r.cursor = Having(u.dies, d, l)
  <2>1. Passes(u.dies, c, r)
    BY ReadPasses, Zenon
  <2> QED
    BY <1>1, <2>1 DEF Passes
<1>3. Len(u.dies) \in Nat /\ c.ptr \in 1 .. Len(u.dies) + 1 /\ c.ptr \in Nat /\ c.ptr > p
  BY UnitIsTree DEF Stays, Place
<1>4. PICK i : i = c.ptr
  BY Zenon
<1>5. i \in 1 .. Len(u.dies) + 1 /\ d \in i .. Len(u.dies) + 1 /\ d \in p + 1 .. Len(u.dies)
  BY <1>2, <1>3, <1>4
<1>6. Around(u.dies, d) \subseteq Around(u.dies, i)
  BY <1>2, <1>4, <1>5, AroundNulls
<1>7. StaysAt(u, p, d)
  BY <1>4, <1>6 DEF Stays, StaysAt
<1> QED
  BY <1>1, <1>2, <1>5, <1>7 DEF Reached

(* Of the DIEs that it comes to, those that are not in the procedure have  *)
(* a parent that is around it.                                             *)
LEMMA InOrOut ==
  ASSUME NEW u, IsUnit(u.dies), NEW p \in 1 .. Len(u.dies), u.dies[p].tag = "subprogram",
         NEW d \in p + 1 .. Len(u.dies), StaysAt(u, p, d), ~IsNull(u.dies[d])
  PROVE  \/ p \in Around(u.dies, d) /\ ProcOf(u, d) = p
         \/ ParentOf(u.dies, d) \in Around(u.dies, p)
<1>1. Len(u.dies) \in Nat /\ d \in Nat \ {0} /\ d \in 1 .. Len(u.dies) + 1
      /\ d \in 2 .. Len(u.dies)
  BY UnitIsTree
<1>2. CASE p \in Around(u.dies, d)
  <2>1. \A q \in Around(u.dies, d) : q <= p \/ u.dies[q].tag # "subprogram"
    BY DEF StaysAt
  <2> QED
    BY <1>1, <1>2, <2>1, ProcIs
<1>3. CASE p \notin Around(u.dies, d)
  <2>1. PICK q : q = ParentOf(u.dies, d)
    BY Zenon
  <2>2. q \in Around(u.dies, d)
    BY <1>1, <2>1, HasParent
  <2>3. q <= p
    <3> SUFFICES ASSUME p \in Around(u.dies, q) PROVE FALSE
      BY <2>2 DEF StaysAt
    <3>1. p \in Around(u.dies, d)
      BY <1>1, <2>2, AroundThrough
    <3> QED
      BY <1>3, <3>1
  <2>4. q \in 1 .. d - 1 /\ u.dies[q].hasChild /\ d < EndOfLevel(u.dies, q + 1)
    BY <2>2, AroundIs
  <2>5. q # p
    BY <1>3, <2>2
  <2>6. q \in 1 .. Len(u.dies)
    BY <1>1, <2>4
  <2>7. EndOfLevel(u.dies, q + 1) \in Nat
    BY <1>1, <2>6, EndNat, SMTT(30)
  <2>8. q \in 1 .. p - 1 /\ p < EndOfLevel(u.dies, q + 1)
    BY <1>1, <2>3, <2>4, <2>5, <2>7
  <2> QED
    BY <2>1, <2>4, <2>8, AroundIs
<1> QED
  BY <1>2, <1>3

LEMMA StaysSibling ==
  ASSUME NEW u, IsUnit(u.dies), NEW p \in 1 .. Len(u.dies),
         NEW d \in p + 1 .. Len(u.dies), StaysAt(u, p, d),
         NEW l \in Int, NEW c, c = gotoSibling(u.dies, Having(u.dies, d, l))
  PROVE  Stays(u, p, c)
<1>1. d \in 1 .. Len(u.dies) /\ Len(u.dies) \in Nat
  BY UnitIsTree
<1>2. c.ptr = NextSibling(u.dies, d)
  BY <1>1, GoesToSibling
<1>3. PICK i : i = c.ptr
  BY Zenon
<1>4. i \in d + 1 .. Len(u.dies) + 1 /\ Around(u.dies, i) \subseteq Around(u.dies, d)
  BY <1>1, <1>2, <1>3, AroundSibling
<1>5. i \in Nat /\ i > p
  BY <1>1, <1>4
<1>6. StaysAt(u, p, i)
  BY <1>4 DEF StaysAt
<1> QED
  BY <1>3, <1>5, <1>6 DEF Stays

LEMMA StaysBelow ==
  ASSUME NEW u, IsUnit(u.dies), NEW p \in 1 .. Len(u.dies),
         NEW d \in p + 1 .. Len(u.dies), StaysAt(u, p, d),
         u.dies[d].tag # "subprogram", p \in Around(u.dies, d),
         NEW c, c.ptr = d + 1
  PROVE  Stays(u, p, c)
<1>1. d \in 1 .. Len(u.dies) /\ Len(u.dies) \in Nat
  BY UnitIsTree
<1>2. Around(u.dies, d + 1) \subseteq Around(u.dies, d) \cup {d}
  BY <1>1, AroundNext
<1>3. PICK i : i = d + 1
  BY Zenon
<1>4. StaysAt(u, p, i)
  BY <1>2, <1>3 DEF StaysAt
<1>5. i \in Nat /\ i > p
  BY <1>1, <1>3
<1> QED
  BY <1>3, <1>4, <1>5 DEF Stays

LEMMA StaysFirst ==
  ASSUME NEW u, IsUnit(u.dies), NEW p \in 1 .. Len(u.dies), NEW c, c.ptr = p + 1
  PROVE  Stays(u, p, c)
<1>1. Len(u.dies) \in Nat
  BY UnitIsTree
<1>2. PICK i : i = p + 1
  BY Zenon
<1>3. \A q \in Around(u.dies, i) : q \in 1 .. i - 1
  BY AroundIs
<1>4. StaysAt(u, p, i)
  BY <1>1, <1>2, <1>3 DEF StaysAt
<1> QED
  BY <1>1, <1>2, <1>4 DEF Stays

(* A variable at a fixed address is none of the stack.                     *)
LEMMA FixedIs ==
  ASSUME NEW expr \in Seq(Operation), Len(expr) = 1, expr[1].op = "addr", NEW frameBase
  PROVE  ~IsRegRel(Evaluate(expr, frameBase)[1])
<1>1. PICK f : Decoding(f, expr, frameBase, Len(expr))
               /\ Evaluate(expr, frameBase) = f[Len(expr)].stack
  BY DecodingIs
<1>2. PICK o, m, x : o = expr[1] /\ m = f[0] /\ x = mkAbs(o.n)
  BY Zenon
<1>3. o \in Operation /\ o.op = "addr"
  BY <1>2
<1>4. m = [stack |-> <<>>, skip |-> 0, stop |-> FALSE]
  BY <1>1, <1>2, DecodingAt
<1>5. f[1] = Decode(m, o, frameBase)
  BY <1>1, <1>2, DecodingAt
<1>12. x # Unusable
  BY <1>2 DEF mkAbs, Unusable
<1>6. After(o, <<>>, frameBase) = Append(Dropped(<<>>, 0), x)
  BY <1>2, <1>3, <1>12 DEF After, Replaced, Pushed, BinaryOps
<1>7. Append(Dropped(<<>>, 0), x) = <<x>>
  <2>1. Dropped(<<>>, 0) = <<>>
    BY DEF Dropped
  <2>2. Append(<<>>, x) = <<x>>
    OBVIOUS
  <2> QED
    BY <2>1, <2>2, Zenon
<1>8. ~m.stop /\ m.skip = 0 /\ m.stack = <<>>
  BY <1>4
<1>9. Decode(m, o, frameBase).stack \in {<<x>>, <<Unusable>>}
  BY <1>6, <1>7, <1>8 DEF Decode, Refused
<1>10. Evaluate(expr, frameBase)[1] \in {x, Unusable}
  BY <1>1, <1>5, <1>9
<1>11. ~IsRegRel(x) /\ ~IsRegRel(Unusable)
  BY <1>2 DEF mkAbs, Unusable, IsRegRel
<1> QED
  BY <1>10, <1>11

LEMMA FixedVar ==
  ASSUME NEW u \in Units, unit = u, NEW d \in 1 .. Len(u.dies), IsLocal(u.dies[d]),
         Len(u.dies[d].location.expr) = 1, u.dies[d].location.expr[1].op = "addr", NEW p
  PROVE  VarOf(d, p) = <<>>
<1>1. PICK loc, expr : /\ loc = decodeLocation(u.dies[d].location, p.frameBase)
                       /\ expr = u.dies[d].location.expr
  BY Zenon
<1>2. expr \in Seq(Operation)
  BY <1>1, DieIs DEF Die, Attribute
<1>3. loc = Evaluate(expr, p.frameBase)[1]
  BY <1>1 DEF decodeLocation, IsLocal
<1>4. ~IsRegRel(loc)
  BY <1>1, <1>2, <1>3, FixedIs
<1>5. PlaceOf(dies[d], p.frameBase) = loc
  BY <1>1 DEF PlaceOf, IsLocal, dies
<1> QED
  BY <1>4, <1>5, Zenon DEF VarOf
-----------------------------------------------------------------------------
(***************************************************************************)
(* The second inductive invariant.  The frame base and the frame address   *)
(* are those of the procedure in progress, whose DIEs begin at the cursor  *)
(* of createTypes.  While its parameters are read, no null entry has been  *)
(* passed; while its blocks are read, scan and the cursors that wait have  *)
(* not entered another procedure.  Every variable of the stack is one that *)
(* its procedure owns.  That needs what Framed says of the units: readNext *)
(* passes over the null entry that ends a procedure, and goes on behind.   *)
(***************************************************************************)
UnitsFramed == \A u \in Units : Framed(u)

AtProc(u, c, pr) ==
  /\ c.ptr = pr.die + 1
  /\ pr.frameBase = FrameBaseIn(u, u.dies[pr.die]) /\ pr.cfa = CfaIn(u, pr.die)
AmongFirst(u, p, sc) ==
  sc.ptr \in Nat /\ sc.ptr > p /\ \A j \in p + 1 .. sc.ptr - 1 : ~IsNull(u.dies[j])
InBody(u, p, sc, lb) == Stays(u, p, sc) /\ \A k \in 1 .. Len(lb) : Stays(u, p, lb[k])

Scoping(u, p, c, pr, sc, lb, ss) ==
  /\ OwnedAll(u, ss)
  /\ p \in Inside => AtProc(u, c, pr)
  /\ p = "params" => AmongFirst(u, pr.die, sc)
  /\ p = "blocks" => InBody(u, pr.die, sc, lb)

InvScope == Scoping(unit, pc, cursor, proc, scan, lexicalBlocks, symbols)

LEMMA InitScopes ==
  ASSUME Init
  PROVE  InvScope
<1>1. pc = "scan" /\ symbols = <<>>
  BY DEF Init
<1>2. OwnedAll(unit, <<>>)
  BY ListEmpty DEF OwnedAll
<1> QED
  BY <1>1, <1>2 DEF InvScope, Scoping, Inside

(* In a procedure.                                                         *)
LEMMA InsideProc ==
  ASSUME Inv, InvScope, pc \in Inside
  PROVE  /\ unit \in Units /\ IsUnit(unit.dies) /\ Len(unit.dies) \in Nat
         /\ proc.die \in 1 .. Len(unit.dies) /\ DefinedIn(unit, proc.die)
         /\ AtProc(unit, cursor, proc) /\ Place(unit.dies, scan)
         /\ OwnedAll(unit, symbols) /\ Place(unit.dies, cursor)
<1>1. /\ unit \in Units /\ IsUnit(unit.dies) /\ InProc(unit, cursor, proc)
      /\ AtLevel(unit.dies, cursor) /\ Place(unit.dies, scan)
  BY Within
<1>2. Len(unit.dies) \in Nat /\ Place(unit.dies, cursor)
  BY <1>1, UnitIsTree DEF AtLevel
<1>3. cursor.ptr \in 1 .. Len(unit.dies) + 1 /\ proc.die \in 1 .. cursor.ptr - 1
      /\ DefinedIn(unit, proc.die)
  BY <1>1, <1>2 DEF Place, InProc
<1>4. proc.die \in 1 .. Len(unit.dies)
  BY <1>2, <1>3
<1>5. AtProc(unit, cursor, proc) /\ OwnedAll(unit, symbols)
  BY DEF InvScope, Scoping
<1> QED
  BY <1>1, <1>2, <1>3, <1>4, <1>5

LEMMA OwnIs ==
  ASSUME UnitsFramed, NEW u \in Units, NEW p \in 1 .. Len(u.dies), DefinedIn(u, p)
  PROVE  OwnDies(u, p)
<1>1. p \in DOMAIN u.dies
  BY UnitIs
<1>2. Framed(u)
  BY DEF UnitsFramed
<1> QED
  BY <1>1, <1>2, Zenon DEF Framed

(* The steps of createTypes.                                               *)
LEMMA ReadGlobalScopes ==
  ASSUME InvScope, ReadVariable, unit \in Units, Read.die # 0 => Scanned(unit, cursor, Read)
  PROVE  InvScope'
<1>1. PICK d : d = Read.die
  BY Zenon
<1>2. PICK at : at = IF unit.dies[d].name = "" THEN <<>> ELSE GlobalAt(unit.dies[d])
  BY Zenon
<1>3. PICK t : t = GlobalsOf(d, at)
  BY Zenon
<1>4. /\ pc = "scan" /\ pc' = pc /\ unit' = unit /\ d # 0
      /\ unit.dies[d].tag = "variable" /\ symbols' = symbols \o t
  BY <1>1, <1>2, <1>3 DEF ReadVariable, dies, GlobalsOf, Null
<1>5. d \in 1 .. Len(unit.dies)
  BY <1>1, <1>4 DEF Scanned
<1>6. Offsets(at)
  <2>1. CASE unit.dies[d].name = ""
    <3>1. at = <<>>
      BY <1>2, <2>1
    <3> QED
      BY <3>1, ListEmpty DEF Offsets
  <2>2. CASE unit.dies[d].name # ""
    <3>1. at = GlobalAt(unit.dies[d])
      BY <1>2, <2>2
    <3> QED
      BY <1>5, <3>1, GlobalIs, Zenon
  <2> QED
    BY <2>1, <2>2
<1>7. DOMAIN at = 1 .. Len(at) /\ Len(at) \in Nat
  BY <1>6, ListLen DEF Offsets
<1>8. PICK n : n = Len(at)
  BY Zenon
<1> DEFINE G(i) == [kind |-> "S_GDATA", die |-> d, seg |-> at[i].seg, off |-> at[i].off]
<1>9. \A i \in 1 .. n : G(i).kind = "S_GDATA"
  OBVIOUS
<1>10. t = [i \in 1 .. n |-> G(i)]
  BY <1>3, <1>7, <1>8 DEF GlobalsOf
<1> HIDE DEF G
<1>11. \A i \in 1 .. n : t[i] = G(i)
  BY <1>10
<1>12. t = [i \in 1 .. n |-> t[i]]
  BY <1>10
<1>13. IsList(t) /\ Len(t) = n
  BY <1>7, <1>8, <1>12, FunctionList
<1>14. \A i \in 1 .. Len(t) : t[i].kind \notin Stacked
  <2>1. \A i \in 1 .. Len(t) : t[i].kind = "S_GDATA"
    BY <1>9, <1>11, <1>13
  <2> QED
    BY <2>1 DEF Stacked
<1>15. PICK ss : ss = symbols \o t
  BY Zenon
<1>16. OwnedAll(unit, ss)
  <2>1. OwnedAll(unit, symbols)
    BY DEF InvScope, Scoping
  <2> QED
    BY <1>13, <1>14, <1>15, <2>1, OwnedJoin
<1>17. pc' \notin Inside /\ pc' # "params" /\ pc' # "blocks"
  BY <1>4 DEF Inside
<1>18. OwnedAll(unit, symbols')
  BY <1>4, <1>15, <1>16
<1> QED
  BY <1>4, <1>17, <1>18 DEF InvScope, Scoping

LEMMA ReadSubprogramScopes ==
  ASSUME Inv, InvScope, ReadSubprogram
  PROVE  InvScope'
<1>1. PICK q, d, rs : q = Read /\ d = q.die /\ rs = Code(d)
  BY Zenon
<1>2. pc = "scan" /\ d # 0 /\ unit' = unit /\ cursor' = q.cursor
  BY <1>1 DEF ReadSubprogram, Null
<1>3. OwnedAll(unit, symbols)
  BY DEF InvScope, Scoping
<1>4. d \in 1 .. Len(unit.dies) /\ q.cursor.ptr = d + 1 /\ Len(unit.dies) \in Nat
  BY <1>1, <1>2, Scanning, UnitIs DEF Scanned
<1>5. CASE pc' = pc /\ symbols' = symbols
  <2>1. pc' \notin Inside /\ pc' # "params" /\ pc' # "blocks"
    BY <1>2, <1>5 DEF Inside
  <2> QED
    BY <1>2, <1>3, <1>5, <2>1 DEF InvScope, Scoping
<1>6. CASE /\ pc' = "params" /\ scan' = q.cursor
           /\ proc' = [die |-> d, ranges |-> rs, frameBase |-> FrameBaseOf(unit.dies[d]),
                       cfa |-> findBestCFA(unit.x64, unit.frames, unit.dies[d].pclo,
                                           unit.dies[d].pchi)]
           /\ symbols' = Append(symbols, Proc(d, rs[1]))
  <2>1. PICK ss, x, pr : /\ x = Proc(d, rs[1]) /\ ss = Append(symbols, x)
                         /\ pr = proc'
    BY Zenon
  <2>2. x.kind \notin Stacked
    BY <2>1 DEF Proc, Stacked
  <2>3. OwnedAll(unit, ss)
    BY <1>3, <2>1, <2>2, OwnedAppend, Zenon
  <2>4. pr.die = d /\ pr.frameBase = FrameBaseOf(unit.dies[d]) /\ pr.cfa = CfaIn(unit, d)
    BY <1>6, <2>1 DEF CfaIn
  <2>5. AtProc(unit, q.cursor, pr)
    BY <1>4, <2>4, FrameBaseInUnit DEF AtProc
  <2>6. AmongFirst(unit, pr.die, q.cursor)
    BY <1>4, <2>4 DEF AmongFirst
  <2>7. Scoping(unit, "params", q.cursor, pr, q.cursor, lexicalBlocks', ss)
    BY <2>3, <2>5, <2>6 DEF Scoping
  <2> QED
    BY <1>2, <1>6, <2>1, <2>7 DEF InvScope
<1> QED
  BY <1>1, <1>5, <1>6 DEF ReadSubprogram, dies

LEMMA OutsideScopes ==
  ASSUME InvScope, ReadCompileUnit \/ ReadOther \/ EndUnit
  PROVE  InvScope'
<1>1. unit' = unit /\ symbols' = symbols /\ pc' \in {"scan", "done"}
  BY DEF ReadCompileUnit, ReadOther, EndUnit
<1>2. pc' \notin Inside /\ pc' # "params" /\ pc' # "blocks"
  BY <1>1 DEF Inside
<1> QED
  BY <1>1, <1>2 DEF InvScope, Scoping

(* The parameters.                                                         *)
LEMMA ReadParameterScopes ==
  ASSUME UnitsFramed, Inv, InvScope, ReadParameter
  PROVE  InvScope'
<1>1. PICK q, d : q = readNext(unit.dies, scan, TRUE) /\ d = q.die
  BY Zenon
<1>2. /\ pc = "params" /\ pc' = pc /\ unit' = unit /\ cursor' = cursor /\ proc' = proc
      /\ lexicalBlocks' = lexicalBlocks /\ scan' = q.cursor /\ d # 0
      /\ symbols' = IF IsParameter(unit.dies[d]) THEN symbols \o VarOf(d, proc) ELSE symbols
  BY <1>1 DEF ReadParameter, dies, Null
<1>3. pc \in Inside
  BY <1>2 DEF Inside
<1>4. /\ unit \in Units /\ IsUnit(unit.dies) /\ Len(unit.dies) \in Nat
      /\ proc.die \in 1 .. Len(unit.dies) /\ DefinedIn(unit, proc.die)
      /\ AtProc(unit, cursor, proc) /\ Place(unit.dies, scan) /\ OwnedAll(unit, symbols)
  BY <1>3, InsideProc
<1>5. AmongFirst(unit, proc.die, scan)
  BY <1>2 DEF InvScope, Scoping
<1>6. PICK p : p = proc.die
  BY Zenon
<1>7. /\ scan.ptr \in Nat /\ scan.ptr > p /\ p \in 1 .. Len(unit.dies)
      /\ \A j \in p + 1 .. scan.ptr - 1 : ~IsNull(unit.dies[j])
  BY <1>4, <1>5, <1>6 DEF AmongFirst
<1>8. scan \in Cursor /\ scan.ptr >= 1
  BY <1>4, <1>7 DEF Place
<1>9. /\ d = scan.ptr /\ d \in 1 .. Len(unit.dies) /\ ~IsNull(unit.dies[d])
      /\ \E l \in Int : q.cursor = Having(unit.dies, d, l)
  BY <1>1, <1>2, <1>4, <1>8, ReadHere, ZenonT(40)
<1>10. q.cursor.ptr = d + 1
  BY <1>9 DEF Having
<1>11. d \in p + 1 .. Len(unit.dies) /\ d \in Nat \ {0}
  BY <1>4, <1>7, <1>9
<1>12. \A j \in p + 1 .. d : ~IsNull(unit.dies[j])
  <2> SUFFICES ASSUME NEW j \in p + 1 .. d PROVE ~IsNull(unit.dies[j])
    OBVIOUS
  <2>1. j = d \/ j \in p + 1 .. scan.ptr - 1
    BY <1>9, <1>11
  <2> QED
    BY <1>7, <1>9, <2>1
<1>13. AmongFirst(unit, p, q.cursor)
  <2>1. PICK n : n = q.cursor.ptr
    BY Zenon
  <2>2. n \in Nat /\ n > p /\ n - 1 = d
    BY <1>4, <1>7, <1>10, <1>11, <2>1
  <2> QED
    BY <1>12, <2>1, <2>2 DEF AmongFirst
<1>14. ASSUME IsParameter(unit.dies[d]) PROVE OfProc(unit, p, d)
  <2>1. OwnDies(unit, p) /\ DefinedIn(unit, p)
    BY <1>4, <1>6, OwnIs
  <2>2. ParentOf(unit.dies, d) = p
    BY <1>11, <1>12, <1>14, <2>1 DEF OwnDies
  <2>3. p \in Around(unit.dies, d) /\ \A i \in Around(unit.dies, d) : i <= p
    BY <1>7, <1>11, <2>2, ParentIs
  <2>4. unit.dies[p].tag = "subprogram"
    BY <2>1 DEF DefinedIn
  <2>5. ProcOf(unit, d) = p
    BY <1>11, <2>3, <2>4, ProcIs
  <2> QED
    BY <1>14, <2>1, <2>5 DEF OfProc
<1>15. PICK ss : ss = symbols'
  BY Zenon
<1>16. OwnedAll(unit, ss)
  <2>1. CASE IsParameter(unit.dies[d])
    <3>1. ss = symbols \o VarOf(d, proc)
      BY <1>2, <1>15, <2>1
    <3>2. OfProc(unit, proc.die, d)
      BY <1>6, <1>14, <2>1
    <3>3. proc.frameBase = FrameBaseIn(unit, unit.dies[proc.die]) /\ proc.cfa = CfaIn(unit, proc.die)
      BY <1>4 DEF AtProc
    <3> QED
      BY <1>4, <1>9, <3>1, <3>2, <3>3, OwnedVar
  <2>2. CASE ~IsParameter(unit.dies[d])
    BY <1>2, <1>4, <1>15, <2>2
  <2> QED
    BY <2>1, <2>2
<1>17. Scoping(unit, "params", cursor, proc, q.cursor, lexicalBlocks, ss)
  BY <1>4, <1>6, <1>13, <1>16 DEF Scoping
<1> QED
  BY <1>2, <1>15, <1>17 DEF InvScope

LEMMA EndParametersScopes ==
  ASSUME Inv, InvScope, EndParameters
  PROVE  InvScope'
<1>1. /\ pc = "params" /\ pc' = "blocks" /\ scan' = cursor /\ lexicalBlocks' = <<>>
      /\ symbols' = Append(symbols, EndArg) /\ unit' = unit /\ cursor' = cursor /\ proc' = proc
  BY DEF EndParameters
<1>2. pc \in Inside
  BY <1>1 DEF Inside
<1>3. /\ IsUnit(unit.dies) /\ proc.die \in 1 .. Len(unit.dies)
      /\ AtProc(unit, cursor, proc) /\ OwnedAll(unit, symbols)
  BY <1>2, InsideProc
<1>4. PICK ss : ss = Append(symbols, EndArg)
  BY Zenon
<1>5. OwnedAll(unit, ss)
  <2>1. EndArg.kind \notin Stacked
    BY DEF EndArg, Stacked
  <2> QED
    BY <1>3, <1>4, <2>1, OwnedAppend, Zenon
<1>6. Stays(unit, proc.die, cursor)
  BY <1>3, StaysFirst DEF AtProc
<1>7. InBody(unit, proc.die, cursor, <<>>)
  BY <1>6, ListEmpty DEF InBody
<1>8. Scoping(unit, "blocks", cursor, proc, cursor, <<>>, ss)
  BY <1>3, <1>5, <1>7 DEF Scoping
<1> QED
  BY <1>1, <1>4, <1>8 DEF InvScope

(* The blocks.                                                             *)
LEMMA BlocksScope ==
  ASSUME UnitsFramed, Inv, InvScope, pc = "blocks",
         NEW q, q = InBlocks, NEW d, d = q.die, d # 0
  PROVE  /\ d \in proc.die + 1 .. Len(unit.dies) /\ StaysAt(unit, proc.die, d)
         /\ \E l \in Int : q.cursor = Having(unit.dies, d, l)
         /\ IsScope(unit.dies[d]) => proc.die \in Around(unit.dies, d)
         /\ IsLocal(unit.dies[d]) => OfProc(unit, proc.die, d) \/ VarOf(d, proc) = <<>>
<1>1. pc \in Inside
  BY DEF Inside
<1>2. /\ unit \in Units /\ IsUnit(unit.dies) /\ Len(unit.dies) \in Nat
      /\ proc.die \in 1 .. Len(unit.dies) /\ DefinedIn(unit, proc.die)
      /\ Place(unit.dies, scan)
  BY <1>1, InsideProc
<1>3. Stays(unit, proc.die, scan)
  BY DEF InvScope, Scoping, InBody
<1>4. PICK p : p = proc.die
  BY Zenon
<1>5. q = readNext(unit.dies, scan, FALSE)
  BY DEF InBlocks, dies
<1>6. /\ d \in p + 1 .. Len(unit.dies) /\ StaysAt(unit, p, d) /\ ~IsNull(unit.dies[d])
      /\ \E l \in Int : q.cursor = Having(unit.dies, d, l)
  <2>1. Stays(unit, p, scan) /\ p \in 1 .. Len(unit.dies) /\ q.die # 0
    BY <1>2, <1>3, <1>4
  <2>2. Reached(unit, p, q)
    BY <1>2, <1>5, <2>1, StaysRead, Zenon
  <2> QED
    BY <2>2 DEF Reached
<1>7. DefinedIn(unit, p) /\ OwnDies(unit, p) /\ p \in 1 .. Len(unit.dies)
  BY <1>2, <1>4, OwnIs
<1>8. \/ p \in Around(unit.dies, d) /\ ProcOf(unit, d) = p
      \/ ParentOf(unit.dies, d) \in Around(unit.dies, p)
  <2>1. unit.dies[p].tag = "subprogram"
    BY <1>7 DEF DefinedIn
  <2> QED
    BY <1>2, <1>6, <1>7, <2>1, InOrOut
<1>9. ASSUME ParentOf(unit.dies, d) \in Around(unit.dies, p)
      PROVE  /\ ~IsScope(unit.dies[d])
             /\ IsLocal(unit.dies[d]) =>
                  /\ Len(unit.dies[d].location.expr) = 1
                  /\ unit.dies[d].location.expr[1].op = "addr"
  BY <1>6, <1>7, <1>9 DEF OwnDies, IsScope
<1>10. ASSUME IsScope(unit.dies[d]) PROVE p \in Around(unit.dies, d)
  BY <1>8, <1>9, <1>10
<1>11. ASSUME IsLocal(unit.dies[d]) PROVE OfProc(unit, p, d) \/ VarOf(d, proc) = <<>>
  <2>1. CASE ProcOf(unit, d) = p
    BY <1>7, <1>11, <2>1 DEF OfProc
  <2>2. CASE ParentOf(unit.dies, d) \in Around(unit.dies, p)
    <3>1. d \in 1 .. Len(unit.dies)
      BY <1>2, <1>6, <1>7
    <3> QED
      BY <1>2, <1>9, <1>11, <2>2, <3>1, FixedVar
  <2> QED
    BY <1>8, <2>1, <2>2
<1> QED
  BY <1>4, <1>6, <1>10, <1>11

LEMMA PushStays ==
  ASSUME NEW u, NEW p, NEW c, Stays(u, p, c), NEW lb, IsList(lb),
         \A k \in 1 .. Len(lb) : Stays(u, p, lb[k]), NEW more, more = <<c>> \o lb
  PROVE  \A k \in 1 .. Len(more) : Stays(u, p, more[k])
<1>1. PICK t : t = <<c>>
  BY Zenon
<1>2. IsList(t) /\ Len(t) = 1 /\ t[1] = c
  BY <1>1, ListOne
<1>3. Behind(more, t, lb)
  BY <1>1, <1>2, ListJoin, Zenon
<1>4. /\ Len(more) = 1 + Len(lb) /\ Len(lb) \in Nat /\ more[1] = c
      /\ \A k \in 1 .. Len(lb) : more[1 + k] = lb[k]
  BY <1>2, <1>3 DEF Behind, Kept
<1> SUFFICES ASSUME NEW k \in 1 .. Len(more) PROVE Stays(u, p, more[k])
  OBVIOUS
<1>5. CASE k = 1
  BY <1>4, <1>5
<1>6. CASE k # 1
  <2>1. PICK j : j = k - 1
    BY Zenon
  <2>2. j \in 1 .. Len(lb) /\ k = 1 + j
    BY <1>4, <1>6, <2>1
  <2> QED
    BY <1>4, <2>2
<1> QED
  BY <1>5, <1>6

LEMMA EnterBlockScopes ==
  ASSUME UnitsFramed, Inv, InvScope, EnterBlock
  PROVE  InvScope'
<1>1. PICK q, d : q = InBlocks /\ d = q.die
  BY Zenon
<1>2. PICK lb, sc, x : /\ lb = <<gotoSibling(unit.dies, q.cursor)>> \o lexicalBlocks
                       /\ sc = Subtree(q.cursor) /\ x = Block(d, BlockRange(unit.dies[d]))
  BY Zenon
<1>3. /\ pc = "blocks" /\ pc' = pc /\ unit' = unit /\ cursor' = cursor /\ proc' = proc
      /\ d # 0 /\ IsScope(unit.dies[d]) /\ symbols' = Append(symbols, x)
      /\ lexicalBlocks' = lb /\ scan' = sc
  BY <1>1, <1>2 DEF EnterBlock, Null, dies, AfterBlock
<1>4. pc \in Inside
  BY <1>3 DEF Inside
<1>5. /\ IsUnit(unit.dies) /\ proc.die \in 1 .. Len(unit.dies) /\ OwnedAll(unit, symbols)
      /\ AtProc(unit, cursor, proc)
  BY <1>4, InsideProc
<1>6. PICK p : p = proc.die
  BY Zenon
<1>7. /\ d \in p + 1 .. Len(unit.dies) /\ StaysAt(unit, p, d)
      /\ \E l \in Int : q.cursor = Having(unit.dies, d, l)
      /\ p \in Around(unit.dies, d) /\ p \in 1 .. Len(unit.dies)
  BY <1>1, <1>3, <1>5, <1>6, BlocksScope
<1>8. PICK l \in Int : q.cursor = Having(unit.dies, d, l)
  BY <1>7
<1>9. Stays(unit, p, gotoSibling(unit.dies, q.cursor))
  <2>1. PICK c : c = gotoSibling(unit.dies, Having(unit.dies, d, l))
    BY Zenon
  <2>2. Stays(unit, p, c)
    BY <1>5, <1>7, <2>1, StaysSibling
  <2> QED
    BY <1>8, <2>1, <2>2
<1>10. sc.ptr = d + 1
  <2>1. sc.ptr = q.cursor.ptr
    BY <1>1, <1>2, <1>3, BlocksRead, SubtreePlace
  <2> QED
    BY <1>8, <2>1 DEF Having
<1>11. Stays(unit, p, sc)
  <2>1. unit.dies[d].tag # "subprogram"
    BY <1>3 DEF IsScope
  <2> QED
    BY <1>5, <1>7, <1>10, <2>1, StaysBelow
<1>12. IsList(lexicalBlocks) /\ \A k \in 1 .. Len(lexicalBlocks) : Stays(unit, p, lexicalBlocks[k])
  BY <1>3, <1>4, <1>6, Within DEF InvScope, Scoping, InBody
<1>13. \A k \in 1 .. Len(lb) : Stays(unit, p, lb[k])
  BY <1>2, <1>9, <1>12, PushStays, Zenon
<1>14. PICK ss : ss = Append(symbols, x)
  BY Zenon
<1>15. OwnedAll(unit, ss)
  <2>1. x.kind \notin Stacked
    BY <1>2 DEF Block, Stacked
  <2> QED
    BY <1>5, <1>14, <2>1, OwnedAppend, Zenon
<1>16. InBody(unit, p, sc, lb)
  BY <1>11, <1>13 DEF InBody
<1>17. Scoping(unit, "blocks", cursor, proc, sc, lb, ss)
  BY <1>5, <1>6, <1>15, <1>16 DEF Scoping
<1> QED
  BY <1>3, <1>14, <1>17 DEF InvScope

LEMMA ReadLocalScopes ==
  ASSUME UnitsFramed, Inv, InvScope, ReadLocal
  PROVE  InvScope'
<1>1. PICK q, d : q = InBlocks /\ d = q.die
  BY Zenon
<1>2. /\ pc = "blocks" /\ pc' = pc /\ unit' = unit /\ cursor' = cursor /\ proc' = proc
      /\ d # 0 /\ lexicalBlocks' = lexicalBlocks
      /\ scan' = gotoSibling(unit.dies, q.cursor)
      /\ symbols' = IF IsLocal(unit.dies[d]) THEN symbols \o VarOf(d, proc) ELSE symbols
  BY <1>1 DEF ReadLocal, Null, dies
<1>3. pc \in Inside
  BY <1>2 DEF Inside
<1>4. /\ IsUnit(unit.dies) /\ proc.die \in 1 .. Len(unit.dies) /\ OwnedAll(unit, symbols)
      /\ AtProc(unit, cursor, proc) /\ Len(unit.dies) \in Nat
  BY <1>3, InsideProc
<1>5. PICK p : p = proc.die
  BY Zenon
<1>6. /\ d \in p + 1 .. Len(unit.dies) /\ StaysAt(unit, p, d) /\ p \in 1 .. Len(unit.dies)
      /\ \E l \in Int : q.cursor = Having(unit.dies, d, l)
      /\ IsLocal(unit.dies[d]) => OfProc(unit, p, d) \/ VarOf(d, proc) = <<>>
  BY <1>1, <1>2, <1>4, <1>5, BlocksScope
<1>7. PICK l \in Int : q.cursor = Having(unit.dies, d, l)
  BY <1>6
<1>8. PICK sc : sc = gotoSibling(unit.dies, Having(unit.dies, d, l))
  BY Zenon
<1>9. Stays(unit, p, sc) /\ scan' = sc
  <2>1. Stays(unit, p, sc)
    BY <1>4, <1>6, <1>8, StaysSibling
  <2> QED
    BY <1>2, <1>7, <1>8, <2>1
<1>10. PICK ss : ss = symbols'
  BY Zenon
<1>11. OwnedAll(unit, ss)
  <2>1. CASE IsLocal(unit.dies[d])
    <3>1. ss = symbols \o VarOf(d, proc)
      BY <1>2, <1>10, <2>1
    <3>2. OfProc(unit, proc.die, d) \/ VarOf(d, proc) = <<>>
      BY <1>5, <1>6, <2>1
    <3>3. proc.frameBase = FrameBaseIn(unit, unit.dies[proc.die]) /\ proc.cfa = CfaIn(unit, proc.die)
      BY <1>4 DEF AtProc
    <3>4. d \in 1 .. Len(unit.dies)
      BY <1>4, <1>6
    <3> QED
      BY <1>4, <3>1, <3>2, <3>3, <3>4, OwnedVar
  <2>2. CASE ~IsLocal(unit.dies[d])
    BY <1>2, <1>4, <1>10, <2>2
  <2> QED
    BY <2>1, <2>2
<1>12. InBody(unit, p, sc, lexicalBlocks)
  BY <1>2, <1>5, <1>9 DEF InvScope, Scoping, InBody
<1>13. Scoping(unit, "blocks", cursor, proc, sc, lexicalBlocks, ss)
  BY <1>4, <1>5, <1>11, <1>12 DEF Scoping
<1> QED
  BY <1>2, <1>9, <1>10, <1>13 DEF InvScope

LEMMA EndScopeScopes ==
  ASSUME Inv, InvScope, EndScope
  PROVE  InvScope'
<1>1. /\ pc = "blocks" /\ symbols' = Append(symbols, End)
      /\ IF lexicalBlocks = <<>>
         THEN pc' = "sepcode" /\ scan' = scan /\ lexicalBlocks' = lexicalBlocks
         ELSE scan' = lexicalBlocks[1] /\ lexicalBlocks' = Tail(lexicalBlocks) /\ pc' = pc
  BY DEF EndScope
<1>2. unit' = unit /\ cursor' = cursor /\ proc' = proc
  BY DEF EndScope
<1>3. pc \in Inside
  BY <1>1 DEF Inside
<1>4. OwnedAll(unit, symbols) /\ AtProc(unit, cursor, proc)
  BY <1>3, InsideProc
<1>5. PICK ss : ss = Append(symbols, End)
  BY Zenon
<1>6. OwnedAll(unit, ss)
  <2>1. End.kind \notin Stacked
    BY DEF End, Stacked
  <2> QED
    BY <1>4, <1>5, <2>1, OwnedAppend, Zenon
<1>7. CASE lexicalBlocks = <<>>
  <2>1. Scoping(unit, "sepcode", cursor, proc, scan, lexicalBlocks, ss)
    BY <1>4, <1>6 DEF Scoping
  <2> QED
    BY <1>1, <1>2, <1>5, <1>7, <2>1 DEF InvScope
<1>8. CASE lexicalBlocks # <<>>
  <2>1. PICK lb, sc, rest : lb = lexicalBlocks /\ sc = lb[1] /\ rest = Tail(lb)
    BY Zenon
  <2>2. IsList(lb)
    BY <1>3, <2>1, Within
  <2>3. \A k \in 1 .. Len(lb) : Stays(unit, proc.die, lb[k])
    BY <1>1, <2>1 DEF InvScope, Scoping, InBody
  <2>4. PICK T : lb \in Seq(T)
    BY <2>2 DEF IsList
  <2>5. /\ Len(rest) = Len(lb) - 1 /\ Len(lb) \in Nat /\ 1 \in 1 .. Len(lb)
        /\ \A k \in 1 .. Len(rest) : rest[k] = lb[k + 1]
    BY <1>8, <2>1, <2>4
  <2>6. \A k \in 1 .. Len(rest) : k + 1 \in 1 .. Len(lb)
    BY <2>5
  <2>7. InBody(unit, proc.die, sc, rest)
    BY <2>1, <2>3, <2>5, <2>6 DEF InBody
  <2>8. Scoping(unit, "blocks", cursor, proc, sc, rest, ss)
    BY <1>4, <1>6, <2>7 DEF Scoping
  <2> QED
    BY <1>1, <1>2, <1>5, <1>8, <2>1, <2>8 DEF InvScope
<1> QED
  BY <1>7, <1>8

LEMMA EndProcScopes ==
  ASSUME Inv, InvScope, EndProc
  PROVE  InvScope'
<1>1. /\ pc = "sepcode" /\ pc' = "scan" /\ unit' = unit
      /\ symbols' = symbols \o SepCodes(proc.die, Others(proc.ranges))
  BY DEF EndProc
<1>2. pc \in Inside
  BY <1>1 DEF Inside
<1>3. PICK d, rs, t : d = proc.die /\ rs = proc.ranges /\ t = SepCodes(d, Others(rs))
  BY Zenon
<1>4. /\ unit \in Units /\ d \in 1 .. Len(unit.dies) /\ DefinedIn(unit, d)
      /\ OwnedAll(unit, symbols) /\ rs = Parts(unit, d)
  <2>1. rs = Parts(unit, d)
    BY <1>2, <1>3, Within DEF InProc
  <2> QED
    BY <1>2, <1>3, <2>1, InsideProc
<1>5. rs \in Seq(Range0) /\ rs # <<>>
  BY <1>4, PartsAre DEF DefinedIn
<1>6. IsSepCodes(t, d, rs)
  BY <1>3, <1>5, SepCodesAre
<1>7. \A k \in 1 .. Len(t) : t[k].kind \notin Stacked
  <2>1. End.kind \notin Stacked /\ \A r : SepCode(d, r).kind \notin Stacked
    BY DEF End, SepCode, Stacked
  <2>2. \A k \in 1 .. Len(t) : t[k] = End \/ \E i \in 2 .. Len(rs) : t[k] = SepCode(d, rs[i])
    BY <1>6, Zenon DEF IsSepCodes
  <2> QED
    BY <2>1, <2>2
<1>8. PICK ss : ss = symbols \o t
  BY Zenon
<1>9. OwnedAll(unit, ss)
  <2>1. IsList(t)
    BY <1>6 DEF IsSepCodes
  <2> QED
    BY <1>4, <1>7, <1>8, <2>1, OwnedJoin
<1>10. pc' \notin Inside /\ pc' # "params" /\ pc' # "blocks"
  BY <1>1 DEF Inside
<1>11. OwnedAll(unit, symbols')
  BY <1>1, <1>3, <1>8, <1>9
<1> QED
  BY <1>1, <1>10, <1>11 DEF InvScope, Scoping

LEMMA NextScopes ==
  ASSUME UnitsFramed, Inv, InvScope, [Next]_vars
  PROVE  InvScope'
<1>1. CASE ReadVariable
  <2>1. pc = "scan"
    BY <1>1 DEF ReadVariable
  <2> QED
    BY <1>1, <2>1, Scanning, ReadGlobalScopes
<1>2. CASE ReadCompileUnit \/ ReadOther \/ EndUnit
  BY <1>2, OutsideScopes
<1>3. CASE Next
  BY <1>1, <1>2, <1>3, ReadSubprogramScopes, ReadParameterScopes, EndParametersScopes,
     EnterBlockScopes, ReadLocalScopes, EndScopeScopes, EndProcScopes, Zenon DEF Next
<1>4. CASE UNCHANGED vars
  BY <1>4 DEF vars, InvScope
<1> QED
  BY <1>3, <1>4

(* The second invariant holds in every state, if the units are framed.     *)
THEOREM ScopesInvariance ==
  ASSUME UnitsFramed
  PROVE  Spec => []InvScope
<1>1. Init => InvScope
  BY InitScopes
<1>2. Inv /\ InvScope /\ [Next]_vars => InvScope'
  BY NextScopes
<1> QED
  BY <1>1, <1>2, Invariance, PTL DEF Spec

(* The symbol of a variable that is owned, wherever the frame is set up.   *)
LEMMA SetUpIs ==
  ASSUME UnitsFramed, NEW u \in Units, NEW p \in 1 .. Len(u.dies), DefinedIn(u, p),
         NEW pcx \in u.body \cap CodeIn(u, u.dies[p])
  PROVE  SetUp(u, p, Variables(u, p), pcx) /\ Framing(u)
<1>1. Framed(u) /\ p \in DOMAIN u.dies
  BY UnitIs DEF UnitsFramed
<1>2. SetUp(u, p, Variables(u, p), pcx)
  BY <1>1, Zenon DEF Framed
<1>3. Framing(u)
  BY <1>1 DEF Framed, Framing, Apart2
<1> QED
  BY <1>2, <1>3

LEMMA OwnedStands ==
  ASSUME UnitsFramed, NEW u \in Units, NEW p \in 1 .. Len(u.dies), NEW d \in 1 .. Len(u.dies),
         OfProc(u, p, d), NEW s, VarFrom(u, s, d, FrameBaseIn(u, u.dies[p]), CfaIn(u, p)),
         NEW pcx \in u.body \cap CodeIn(u, u.dies[p]), NEW process \in Processes,
         NEW env, env = EnvAt(u, p, pcx, process)
  PROVE  Located(u, s, d, env, pcx)
<1>1. /\ DefinedIn(u, p) /\ ProcOf(u, d) = p
      /\ IsLocal(u.dies[d]) \/ IsParameter(u.dies[d])
  BY DEF OfProc
<1>2. SetUp(u, p, Variables(u, p), pcx) /\ Framing(u)
  BY <1>1, SetUpIs
<1>3. d \in Variables(u, p)
  BY <1>1, UnitIs DEF Variables
<1>4. PICK lo, hi, cfa : lo = u.dies[p].pclo /\ hi = u.dies[p].pchi /\ cfa = CfaIn(u, p)
  BY Zenon
<1>5. lo # 0 /\ FrameFrom(u, lo, hi, pcx)
  BY <1>2, <1>4 DEF SetUp, FrameFrom
<1>6. AttributeStands(u, u.dies[p].frame_base, pcx, BareEnvAt(u, pcx, process))
  BY <1>2, Zenon DEF SetUp
<1>7. AttributeStands(u, u.dies[d].location, pcx, env)
  BY <1>2, <1>3, Zenon DEF SetUp
<1>8. lo \in Nat /\ hi \in Nat
  BY <1>4, DieIs DEF Die
<1>9. pcx \in lo .. hi - 1
  BY <1>4, <1>5 DEF CodeIn
<1>10. cfa = findBestCFA(u.x64, u.frames, lo, hi)
  BY <1>4 DEF CfaIn
<1>11. /\ IsRegRel(cfa) /\ cfa.reg \in 0 .. 63 /\ cfa.off \in Int
       /\ CfaAt(u, pcx, process) = process[cfa.reg] + cfa.off
  BY <1>2, <1>5, <1>8, <1>9, <1>10, CfaStands
<1>12. CfaAt(u, pcx, process) \in Int
  <2>1. process[cfa.reg] \in Int
    BY <1>11, ProcessType
  <2> QED
    BY <1>11, <2>1
<1>13. OfFrame(u, pcx, process, cfa)
  BY <1>11 DEF OfFrame
<1>14. EnvIs(u, p, pcx, process)
  BY <1>6, <1>12, FrameBaseIs
<1>15. VarFrom(u, s, d, FrameBaseIn(u, u.dies[p]), cfa)
  BY <1>4
<1> QED
  BY <1>1, <1>7, <1>13, <1>14, <1>15, VariableStands

LEMMA InvFound ==
  ASSUME UnitsFramed, Inv, InvScope
  PROVE  VariablesWhereDwarfSays
<1> SUFFICES ASSUME pc = "done", NEW k \in OfKind(Stacked),
                    NEW pcx \in unit.body \cap CodeOf(dies[ProcOf(unit, symbols[k].die)]),
                    NEW process \in Processes
             PROVE  \E expr \in ExprsAt(unit, dies[symbols[k].die].location, pcx) :
                      /\ HasMeaning(expr, EnvAt(unit, ProcOf(unit, symbols[k].die), pcx, process))
                      /\ process[CHOOSE r \in 0 .. 63 : CvReg(r) = symbols[k].reg] + symbols[k].off
                           = Meaning(expr, EnvAt(unit, ProcOf(unit, symbols[k].die), pcx, process))
  BY Zenon DEF VariablesWhereDwarfSays
<1>0. PICK s, p, env, reg : /\ s = symbols[k] /\ p = ProcOf(unit, symbols[k].die)
                            /\ env = EnvAt(unit, p, pcx, process)
                            /\ reg = CHOOSE r \in 0 .. 63 : CvReg(r) = s.reg
  BY Zenon
<1>1. unit \in Units /\ OwnedAll(unit, symbols)
  BY Zenon DEF Inv, Consistent, InvScope, Scoping
<1>2. k \in 1 .. Len(symbols) /\ s.kind \in Stacked
  BY <1>0, <1>1, ListLen DEF OwnedAll, OfKind
<1>3. Owned(unit, s)
  BY <1>0, <1>1, <1>2 DEF OwnedAll
<1>4. PICK q \in 1 .. Len(unit.dies), d \in 1 .. Len(unit.dies) :
        /\ OfProc(unit, q, d)
        /\ VarFrom(unit, s, d, FrameBaseIn(unit, unit.dies[q]), CfaIn(unit, q))
  BY <1>3, Zenon DEF Owned
<1>5. s.die = d /\ q = p
  BY <1>0, <1>4 DEF VarFrom, OfProc
<1>6. pcx \in unit.body \cap CodeIn(unit, unit.dies[q])
  BY <1>0, <1>5 DEF CodeOf, dies
<1>7. env = EnvAt(unit, q, pcx, process)
  BY <1>0, <1>5
<1>8. Located(unit, s, d, env, pcx)
  BY <1>1, <1>4, <1>6, <1>7, OwnedStands
<1>9. reg = CHOOSE r \in 0 .. 63 : CvIn(unit.x64, r) = s.reg
  <2>1. \A r : CvReg(r) = CvIn(unit.x64, r)
    BY CvInUnit, Zenon
  <2> QED
    BY <1>0, <2>1
<1>10. env.reg = process
  BY <1>7 DEF EnvAt, BareEnvAt
<1>11. \E expr \in ExprsAt(unit, unit.dies[d].location, pcx) :
         HasMeaning(expr, env) /\ env.reg[reg] + s.off = Meaning(expr, env)
  BY <1>8, <1>9 DEF Located
<1> QED
  BY <1>0, <1>5, <1>10, <1>11 DEF dies

(* VariablesWhereDwarfSays holds: wherever the frame of a procedure is set *)
(* up, the register and the offset of the symbol of each of its variables  *)
(* give the address that the expression for that place does.               *)
THEOREM VariablesFound ==
  ASSUME UnitsFramed
  PROVE  Spec => []VariablesWhereDwarfSays
<1>1. Inv /\ InvScope => VariablesWhereDwarfSays
  BY InvFound
<1> QED
  BY <1>1, Invariance, ScopesInvariance, PTL
=============================================================================
