----------------------------- MODULE DataLemmas -----------------------------
(***************************************************************************)
(* What the proofs need to know of numbers, of FlattenSeq, and of the tree *)
(* that a unit of .debug_info holds.  A recursive function is what its     *)
(* equation says as soon as one function satisfies the equation: if one    *)
(* were missing, there would be a least length for which it is.            *)
(***************************************************************************)
EXTENDS DieCursor, SequencesExt, SequenceTheorems, FiniteSetTheorems, TLAPS

(* The least number of a set.  It is the least element of a well-founded   *)
(* ordering: a smaller number has a smaller initial segment.               *)
LEMMA NatLeast ==
  ASSUME NEW S \in SUBSET Nat, S # {}
  PROVE  \E m \in S : \A n \in S : m <= n
<1> DEFINE T == {0 .. n : n \in S}
<1>1. IsWellFoundedOn(StrictSubsetOrdering(Nat), FiniteSubsetsOf(Nat))
  BY FS_StrictSubsetOrderingWellFounded
<1>2. T \subseteq FiniteSubsetsOf(Nat)
  <2> SUFFICES ASSUME NEW n \in S PROVE 0 .. n \in FiniteSubsetsOf(Nat)
    OBVIOUS
  <2>1. IsFiniteSet(0 .. n)
    BY FS_Interval
  <2> QED
    BY <2>1 DEF FiniteSubsetsOf
<1>3. PICK x \in T : \A y \in T : ~(<<y, x>> \in StrictSubsetOrdering(Nat))
  <2>1. T # {}
    OBVIOUS
  <2> QED
    BY <1>1, <1>2, <2>1, WFMin
<1>4. PICK m \in S : x = 0 .. m
  OBVIOUS
<1>5. ASSUME NEW n \in S PROVE m <= n
  <2> SUFFICES ASSUME n < m PROVE FALSE
    OBVIOUS
  <2>1. 0 .. n \in SUBSET Nat /\ x \in SUBSET Nat /\ 0 .. n \subseteq x /\ 0 .. n # x
    BY <1>4
  <2>2. <<0 .. n, x>> \in StrictSubsetOrdering(Nat)
    BY <2>1 DEF StrictSubsetOrdering
  <2> QED
    BY <1>3, <2>2
<1> QED
  BY <1>5

(* Induction downwards from n.                                             *)
LEMMA Downwards ==
  ASSUME NEW n \in Nat, NEW S,
         \A i \in 1 .. n : (\A j \in i + 1 .. n : j \in S) => i \in S
  PROVE  \A i \in 1 .. n : i \in S
<1> DEFINE T == {d \in 0 .. n : n - d >= 1 /\ n - d \notin S}
<1>1. ASSUME T # {} PROVE FALSE
  <2>1. PICK d \in T : \A e \in T : d <= e
    <3>1. T \in SUBSET Nat /\ T # {}
      BY <1>1
    <3> QED
      BY <3>1, NatLeast, Zenon
  <2>2. PICK i : i = n - d
    BY Zenon
  <2>3. i \in 1 .. n /\ i \notin S
    BY <2>1, <2>2
  <2>4. ASSUME NEW j \in i + 1 .. n PROVE j \in S
    <3>1. n - j \in 0 .. n /\ n - j < d /\ n - (n - j) = j /\ j >= 1
      BY <2>1, <2>2, <2>3
    <3>2. n - j \notin T
      BY <2>1, <3>1
    <3> QED
      BY <3>1, <3>2
  <2> QED
    BY <2>3, <2>4
<1> SUFFICES ASSUME NEW i \in 1 .. n PROVE i \in S
  OBVIOUS
<1>2. n - i \in 0 .. n /\ n - (n - i) = i /\ i >= 1
  OBVIOUS
<1>3. n - i \notin T
  BY <1>1
<1> QED
  BY <1>2, <1>3

(* A set of numbers that is bounded has a largest one.                     *)
LEMMA MaxIs ==
  ASSUME NEW n \in Nat, NEW S \in SUBSET (0 .. n), S # {}
  PROVE  Max(S) \in S /\ \A i \in S : i <= Max(S)
<1> DEFINE T == {n - i : i \in S}
<1>1. PICK d \in T : \A e \in T : d <= e
  <2>1. \A i \in S : n - i \in Nat
    OBVIOUS
  <2>2. T \in SUBSET Nat
    BY <2>1
  <2>3. T # {}
    OBVIOUS
  <2> QED
    BY <2>2, <2>3, NatLeast, Zenon
<1>2. PICK m \in S : d = n - m
  OBVIOUS
<1>3. \A i \in S : m >= i
  <2> SUFFICES ASSUME NEW i \in S PROVE m >= i
    OBVIOUS
  <2>1. d <= n - i
    BY <1>1
  <2> QED
    BY <1>2, <2>1
<1>4. \E x \in S : \A i \in S : x >= i
  BY <1>3
<1>5. Max(S) \in S /\ \A i \in S : Max(S) >= i
  BY <1>4, Zenon DEF Max
<1> QED
  BY <1>5

(* A number that leaves no remainder is a multiple.                        *)
LEMMA Multiple ==
  ASSUME NEW n \in Nat, NEW a \in Nat \ {0}, n % a = 0
  PROVE  \E q \in Nat : n = q * a
<1>1. n \div a \in Nat /\ n = (n \div a) * a + (n % a)
  BY Z3
<1> QED
  BY <1>1

LEMMA NoRemainder ==
  ASSUME NEW q \in Nat, NEW a \in Nat \ {0}
  PROVE  (q * a) % a = 0
<1> DEFINE n == q * a
           d == n \div a
           r == n % a
<1>1. n \in Nat /\ d \in Nat /\ r \in 0 .. a - 1 /\ n = d * a + r
  BY Z3
<1> HIDE DEF d, r
<1>2. r = (q - d) * a
  BY <1>1
<1>3. CASE q - d >= 1
  <2>1. (q - d) * a >= a
    BY <1>1, <1>3
  <2> QED
    BY <1>1, <1>2, <2>1
<1>4. CASE q - d <= -1
  <2>1. (q - d) * a <= -a
    BY <1>1, <1>4
  <2> QED
    BY <1>1, <1>2, <2>1
<1>5. CASE q = d
  BY <1>2, <1>1, <1>5 DEF r
<1> QED
  BY <1>1, <1>3, <1>4, <1>5

(* Remainders of numbers within one modulus of 0 .. a - 1.                 *)
LEMMA Remainders ==
  ASSUME NEW a \in Nat \ {0}, NEW n \in Int
  PROVE  /\ n % a \in 0 .. a - 1
         /\ n \in 0 .. a - 1 => n % a = n
         /\ n \in -a .. -1 => n % a = n + a
         /\ n \in a .. 2 * a - 1 => n % a = n - a
<1> DEFINE d == n \div a
           r == n % a
<1>1. d \in Int /\ r \in 0 .. a - 1 /\ n = d * a + r
  BY Z3
<1> HIDE DEF d, r
<1>2. CASE d >= 2
  <2>1. d * a >= 2 * a
    BY <1>1, <1>2
  <2> QED
    BY <1>1, <2>1 DEF r
<1>3. CASE d <= -2
  <2>1. d * a <= (-2) * a
    BY <1>1, <1>3
  <2> QED
    BY <1>1, <2>1 DEF r
<1>4. CASE d = 0
  BY <1>1, <1>4 DEF r
<1>5. CASE d = 1
  BY <1>1, <1>5 DEF r
<1>6. CASE d = -1
  BY <1>1, <1>6 DEF r
<1> QED
  BY <1>1, <1>2, <1>3, <1>4, <1>5, <1>6

-----------------------------------------------------------------------------
(***************************************************************************)
(* FlattenSeq.                                                             *)
(***************************************************************************)

(* f gives the concatenation of each of the first n sequences of ss.       *)
Joins(f, ss, n) ==
  f = [i \in 1 .. n |-> IF i = 1 THEN ss[i] ELSE f[i - 1] \o ss[i]]

(* tt begins with the first n sequences of ss.                             *)
BeginsAlike(tt, ss, n) == \A i \in 1 .. n : tt[i] = ss[i]

LEMMA JoinsAt ==
  ASSUME NEW f, NEW ss, NEW n \in Nat, Joins(f, ss, n), NEW i \in 1 .. n
  PROVE  f[i] = IF i = 1 THEN ss[i] ELSE f[i - 1] \o ss[i]
<1> DEFINE G(j) == IF j = 1 THEN ss[j] ELSE f[j - 1] \o ss[j]
<1>1. f = [j \in 1 .. n |-> G(j)]
  BY Zenon DEF Joins
<1> HIDE DEF G
<1>2. f[i] = G(i)
  BY <1>1
<1> QED
  BY <1>2 DEF G

LEMMA JoinsExist ==
  ASSUME NEW ss, NEW n \in Nat
  PROVE  \E f : Joins(f, ss, n)
<1> DEFINE S == {k \in Nat : ~\E f : Joins(f, ss, k)}
<1> SUFFICES ASSUME S # {} PROVE FALSE
  OBVIOUS
<1>1. PICK m \in S : \A k \in S : m <= k
  BY NatLeast
<1>2. m # 0
  <2> DEFINE none == [i \in {} |-> ss]
  <2>1. Joins(none, ss, 0)
    <3>1. 1 .. 0 = {}
      OBVIOUS
    <3> QED
      BY <3>1, Zenon DEF Joins
  <2> QED
    BY <1>1, <2>1
<1>3. PICK f : Joins(f, ss, m - 1)
  BY <1>1, <1>2
<1> DEFINE g == [i \in 1 .. m |-> IF i = 1 THEN ss[i] ELSE f[i - 1] \o ss[i]]
<1>4. \A i \in 1 .. m - 1 : g[i] = f[i]
  <2>1. \A i \in 1 .. m - 1 : f[i] = IF i = 1 THEN ss[i] ELSE f[i - 1] \o ss[i]
    BY <1>1, <1>2, <1>3, JoinsAt
  <2> QED
    BY <1>1, <2>1
<1>5. g = [i \in 1 .. m |-> IF i = 1 THEN ss[i] ELSE g[i - 1] \o ss[i]]
  <2>1. \A i \in 1 .. m : i # 1 => f[i - 1] = g[i - 1]
    <3>1. \A i \in 1 .. m : i # 1 => i - 1 \in 1 .. m - 1
      BY <1>1
    <3> HIDE DEF g
    <3> QED
      BY <1>4, <3>1
  <2> DEFINE h == [i \in 1 .. m |-> IF i = 1 THEN ss[i] ELSE g[i - 1] \o ss[i]]
  <2>2. \A i \in 1 .. m : g[i] = IF i = 1 THEN ss[i] ELSE f[i - 1] \o ss[i]
    OBVIOUS
  <2>3. g = [i \in 1 .. m |-> g[i]]
    OBVIOUS
  <2>4. \A i \in 1 .. m : g[i] = IF i = 1 THEN ss[i] ELSE g[i - 1] \o ss[i]
    <3> HIDE DEF g
    <3> QED
      BY <2>1, <2>2
  <2> HIDE DEF g
  <2>5. \A i \in 1 .. m : g[i] = h[i]
    BY <2>4
  <2> HIDE DEF h
  <2>6. DOMAIN h = 1 .. m /\ h = [i \in 1 .. m |-> h[i]]
    BY DEF h
  <2>7. g = h
    BY <2>3, <2>5, <2>6
  <2> QED
    BY <2>7 DEF h
<1> QED
  BY <1>1, <1>5 DEF Joins

(* All functions that join agree, and join sequences to sequences.         *)
LEMMA JoinsAgree ==
  ASSUME NEW ss, NEW n \in Nat, NEW k \in 0 .. n, NEW f, NEW g,
         NEW tt,
         Joins(f, ss, k), Joins(g, tt, n), BeginsAlike(tt, ss, k)
  PROVE  \A i \in 1 .. k : f[i] = g[i]
<1> DEFINE S == {i \in 1 .. k : f[i] # g[i]}
<1> SUFFICES ASSUME S # {} PROVE FALSE
  OBVIOUS
<1>1. PICK m \in S : \A i \in S : m <= i
  <2>1. S \in SUBSET Nat
    OBVIOUS
  <2> QED
    BY <2>1, NatLeast, Zenon
<1>2. /\ f[m] = IF m = 1 THEN ss[m] ELSE f[m - 1] \o ss[m]
      /\ g[m] = IF m = 1 THEN tt[m] ELSE g[m - 1] \o tt[m]
  <2>1. m \in 1 .. k /\ m \in 1 .. n /\ k \in Nat
    BY <1>1
  <2> QED
    BY <2>1, JoinsAt
<1>3. m # 1 => m - 1 \in 1 .. k /\ m - 1 \notin S
  BY <1>1
<1> QED
  BY <1>1, <1>2, <1>3 DEF BeginsAlike

LEMMA JoinsType ==
  ASSUME NEW T, NEW n \in Nat, NEW ss, \A i \in 1 .. n : ss[i] \in Seq(T),
         NEW f, Joins(f, ss, n)
  PROVE  \A i \in 1 .. n : f[i] \in Seq(T)
<1> DEFINE S == {i \in 1 .. n : f[i] \notin Seq(T)}
<1> SUFFICES ASSUME S # {} PROVE FALSE
  OBVIOUS
<1>1. PICK m \in S : \A i \in S : m <= i
  <2>1. S \in SUBSET Nat
    OBVIOUS
  <2> QED
    BY <2>1, NatLeast, Zenon
<1>2. f[m] = IF m = 1 THEN ss[m] ELSE f[m - 1] \o ss[m]
  BY <1>1, JoinsAt
<1>3. m # 1 => f[m - 1] \in Seq(T)
  BY <1>1
<1>4. ss[m] \in Seq(T)
  OBVIOUS
<1>5. m # 1 => f[m - 1] \o ss[m] \in Seq(T)
  BY <1>3, <1>4, ConcatProperties, Zenon
<1>6. f[m] \in Seq(T)
  BY <1>2, <1>4, <1>5, Zenon
<1> QED
  BY <1>1, <1>6

LEMMA FlattenJoins ==
  ASSUME NEW T, NEW ss \in Seq(T), ss # <<>>
  PROVE  \E f : Joins(f, ss, Len(ss)) /\ FlattenSeq(ss) = f[Len(ss)]
<1> DEFINE n == Len(ss)
           F(f) == f = [i \in 1 .. n |-> IF i = 1 THEN ss[i] ELSE f[i - 1] \o ss[i]]
           c == CHOOSE f : F(f)
<1>1. n \in Nat \ {0}
  BY EmptySeq
<1>2. \E f : F(f)
  BY <1>1, JoinsExist DEF Joins
<1>3. F(c)
  BY <1>2, Zenon
<1>4. FlattenSeq(ss) = c[n]
  BY <1>1 DEF FlattenSeq
<1> QED
  BY <1>3, <1>4 DEF Joins

LEMMA FlattenEmpty == FlattenSeq(<<>>) = <<>>
BY DEF FlattenSeq

LEMMA SeqOfFunction ==
  ASSUME NEW T, NEW n \in Nat, NEW f \in [1 .. n -> T]
  PROVE  f \in Seq(T) /\ Len(f) = n
OBVIOUS

LEMMA SingleSeq ==
  ASSUME NEW T, NEW t \in T
  PROVE  <<t>> \in Seq(T) /\ Len(<<t>>) = 1
OBVIOUS

(* A sequence that is one element longer.                                  *)
LEMMA LongerSeq ==
  ASSUME NEW T, NEW n \in Nat, NEW f \in Seq(T), Len(f) = n,
         NEW g \in [1 .. n + 1 -> T], BeginsAlike(g, f, n)
  PROVE  g = Append(f, g[n + 1])
<1> DEFINE t == g[n + 1]
<1>1. t \in T
  OBVIOUS
<1>2. g \in Seq(T) /\ Len(g) = n + 1
  BY SeqOfFunction
<1> HIDE DEF t
<1>3. /\ Append(f, t) \in Seq(T) /\ Len(Append(f, t)) = n + 1
      /\ \A i \in 1 .. n : Append(f, t)[i] = f[i]
      /\ Append(f, t)[n + 1] = t
  BY <1>1, AppendProperties
<1>4. \A i \in 1 .. n + 1 : i \in 1 .. n \/ i = n + 1
  OBVIOUS
<1>5. \A i \in 1 .. n + 1 : g[i] = Append(f, t)[i]
  BY <1>3, <1>4, Zenon DEF BeginsAlike, t
<1> QED
  BY <1>2, <1>3, <1>5, SeqEqual DEF t

(* The last element of a sequence is another one.                          *)
LEMMA ReplacedSeq ==
  ASSUME NEW T, NEW s \in Seq(T), NEW t \in T, NEW u \in T
  PROVE  [Append(s, t) EXCEPT ![Len(Append(s, t))] = u] = Append(s, u)
<1> DEFINE n == Len(s) + 1
           st == Append(s, t)
           su == Append(s, u)
<1>1. /\ st \in Seq(T) /\ su \in Seq(T) /\ Len(st) = n /\ Len(su) = n
      /\ n \in 1 .. n /\ n \in Nat /\ su[n] = u
  BY AppendProperties, LenProperties
<1>2. \A i \in 1 .. n : i = n \/ (i # n /\ st[i] = su[i])
  BY AppendProperties, LenProperties
<1> HIDE DEF st, su, n
<1> DEFINE x == [st EXCEPT ![Len(st)] = u]
<1>3. /\ x \in Seq(T) /\ Len(x) = n
      /\ \A i \in 1 .. n : x[i] = IF i = n THEN u ELSE st[i]
  BY <1>1, ExceptSeq
<1> HIDE DEF x
<1>4. \A i \in 1 .. n : x[i] = su[i]
  BY <1>1, <1>2, <1>3
<1>5. x = su
  BY <1>1, <1>3, <1>4, SeqEqual
<1> QED
  BY <1>5 DEF x, st, su

(* FlattenSeq gives a sequence, and goes through its argument from left to *)
(* right.                                                                  *)
LEMMA FlattenAppend ==
  ASSUME NEW T, NEW ss \in Seq(Seq(T)), NEW s \in Seq(T)
  PROVE  /\ FlattenSeq(ss) \in Seq(T)
         /\ FlattenSeq(Append(ss, s)) = FlattenSeq(ss) \o s
<1> DEFINE longer == Append(ss, s)
           len == Len(ss)
           all == Len(longer)
<1>1. /\ longer \in Seq(Seq(T)) /\ all \in Nat /\ len \in Nat /\ longer # <<>>
      /\ all = len + 1 /\ all - 1 = len /\ all \in 1 .. all /\ len \in 0 .. all /\ longer[all] = s
      /\ \A i \in 1 .. len : longer[i] = ss[i]
      /\ \A i \in 1 .. len : ss[i] \in Seq(T)
  OBVIOUS
<1>2. PICK g : Joins(g, longer, all) /\ FlattenSeq(longer) = g[all]
  BY <1>1, FlattenJoins, Zenon
<1>3. CASE ss = <<>>
  <2>1. len = 0 /\ FlattenSeq(ss) = <<>> /\ FlattenSeq(ss) \in Seq(T)
    BY <1>3, FlattenEmpty, EmptySeq
  <2> HIDE DEF longer, all, len
  <2>2. g[all] = IF all = 1 THEN longer[all] ELSE g[all - 1] \o longer[all]
    BY <1>1, <1>2, JoinsAt
  <2>3. FlattenSeq(longer) = s
    BY <1>1, <1>2, <2>1, <2>2
  <2>4. <<>> \o s = s
    BY ConcatEmptySeq
  <2>5. FlattenSeq(longer) = FlattenSeq(ss) \o s
    BY <2>1, <2>3, <2>4, Zenon
  <2> QED
    BY <2>1, <2>5 DEF longer
<1>4. CASE ss # <<>>
  <2>1. PICK f : Joins(f, ss, len) /\ FlattenSeq(ss) = f[len]
    BY <1>4, FlattenJoins, Zenon
  <2>2. len \in 1 .. len /\ all # 1
    BY <1>1, <1>4, EmptySeq
  <2> HIDE DEF longer, all, len
  <2>3. g[all] = g[len] \o s
    <3>1. g[all] = IF all = 1 THEN longer[all] ELSE g[all - 1] \o longer[all]
      BY <1>1, <1>2, JoinsAt
    <3> QED
      BY <1>1, <2>2, <3>1
  <2>4. f[len] \in Seq(T)
    BY <1>1, <2>1, <2>2, JoinsType, Zenon
  <2>5. \A i \in 1 .. len : f[i] = g[i]
    <3>1. Joins(g, longer, all) /\ Joins(f, ss, len)
      BY <1>2, <2>1
    <3>2. all \in Nat /\ len \in 0 .. all /\ BeginsAlike(longer, ss, len)
      BY <1>1 DEF BeginsAlike
    <3> QED
      BY <3>1, <3>2, JoinsAgree, SMT
  <2>6. f[len] = g[len]
    BY <2>2, <2>5
  <2> QED
    BY <1>2, <2>1, <2>3, <2>4, <2>6 DEF longer
<1> QED
  BY <1>3, <1>4

-----------------------------------------------------------------------------
(***************************************************************************)
(* Concatenation from a position to the end.                               *)
(***************************************************************************)

(* f gives the concatenation of the sequences of ss from each of m .. n on.*)
Rest(f, k, n) == IF k < n THEN f[k + 1] ELSE <<>>
Chains(f, ss, m, n) == f = [k \in m .. n |-> ss[k] \o Rest(f, k, n)]

LEMMA ChainsAt ==
  ASSUME NEW f, NEW ss, NEW n \in Nat, NEW m \in Nat, Chains(f, ss, m, n),
         NEW k \in m .. n
  PROVE  f[k] = ss[k] \o Rest(f, k, n)
<1> DEFINE G(j) == ss[j] \o Rest(f, j, n)
<1>1. f = [j \in m .. n |-> G(j)]
  BY Zenon DEF Chains
<1> HIDE DEF G
<1>2. f[k] = G(k)
  BY <1>1
<1> QED
  BY <1>2 DEF G

LEMMA ChainsExist ==
  ASSUME NEW ss, NEW n \in Nat
  PROVE  \E f : Chains(f, ss, 1, n)
<1> DEFINE S == {d \in 0 .. n : ~\E f : Chains(f, ss, n + 1 - d, n)}
<1>1. ASSUME S # {} PROVE FALSE
  <2>1. PICK d \in S : \A e \in S : d <= e
    <3>1. S \in SUBSET Nat /\ S # {}
      BY <1>1
    <3> QED
      BY <3>1, NatLeast, Zenon
  <2>2. d # 0
    <3> DEFINE none == [i \in {} |-> ss]
    <3>1. Chains(none, ss, n + 1 - 0, n)
      <4>1. (n + 1 - 0) .. n = {}
        OBVIOUS
      <4> QED
        BY <4>1, Zenon DEF Chains
    <3> QED
      BY <2>1, <3>1
  <2> DEFINE m == n + 1 - d
  <2>3. m \in 1 .. n /\ n + 1 - (d - 1) = m + 1 /\ d - 1 \in 0 .. n
    BY <2>1, <2>2
  <2>4. PICK f : Chains(f, ss, m + 1, n)
    <3>1. d - 1 \notin S
      BY <2>1, <2>3
    <3> QED
      BY <2>3, <3>1
  <2> HIDE DEF m
  <2> DEFINE G(h, k) == ss[k] \o Rest(h, k, n)
             g == [k \in m .. n |-> G(f, k)]
  <2>5. \A k \in m .. n : G(f, k) = G(g, k)
    <3> SUFFICES ASSUME NEW k \in m .. n PROVE G(f, k) = G(g, k)
      OBVIOUS
    <3>1. CASE k = n
      <4>1. ~(k < n)
        BY <2>3, <3>1
      <4> QED
        BY <4>1, Zenon DEF G, Rest
    <3>2. CASE k < n
      <4>1. k + 1 \in m + 1 .. n /\ k + 1 \in m .. n /\ m + 1 \in Nat
        BY <2>3, <3>2
      <4>2. f[k + 1] = G(f, k + 1)
        BY <2>4, <4>1, ChainsAt, Zenon DEF G
      <4> HIDE DEF G
      <4>3. g[k + 1] = G(f, k + 1)
        BY <4>1
      <4> HIDE DEF g
      <4>4. f[k + 1] = g[k + 1]
        BY <4>2, <4>3
      <4> QED
        BY <3>2, <4>4, Zenon DEF G, Rest
    <3> QED
      <4>1. k = n \/ k < n
        BY <2>3
      <4> QED
        BY <3>1, <3>2, <4>1, Zenon
  <2> HIDE DEF G
  <2>6. g = [k \in m .. n |-> G(g, k)]
    <3> DEFINE h == [k \in m .. n |-> G(g, k)]
    <3>1. DOMAIN g = m .. n /\ DOMAIN h = m .. n
      OBVIOUS
    <3>2. \A k \in m .. n : g[k] = h[k]
      BY <2>5
    <3>3. g = [k \in m .. n |-> g[k]] /\ h = [k \in m .. n |-> h[k]]
      OBVIOUS
    <3> HIDE DEF g, h
    <3>4. g = h
      BY <3>2, <3>3
    <3> QED
      BY <3>4 DEF h
  <2>7. Chains(g, ss, m, n)
    BY <2>6, Zenon DEF Chains, G
  <2>8. ~\E h : Chains(h, ss, m, n)
    BY <2>1 DEF m
  <2> QED
    BY <2>7, <2>8, Zenon
<1>2. n \in 0 .. n /\ n + 1 - n = 1
  OBVIOUS
<1> QED
  BY <1>1, <1>2

LEMMA ChainsType ==
  ASSUME NEW T, NEW n \in Nat, NEW ss, \A i \in 1 .. n : ss[i] \in Seq(T),
         NEW f, Chains(f, ss, 1, n)
  PROVE  \A i \in 1 .. n : f[i] \in Seq(T)
<1> DEFINE S == {d \in 0 .. n - 1 : f[n - d] \notin Seq(T)}
<1>1. ASSUME S # {} PROVE FALSE
  <2>1. PICK d \in S : \A e \in S : d <= e
    <3>1. S \in SUBSET Nat /\ S # {}
      BY <1>1
    <3> QED
      BY <3>1, NatLeast, Zenon
  <2> DEFINE k == n - d
  <2>2. k \in 1 .. n
    BY <2>1
  <2>3. f[k] = ss[k] \o Rest(f, k, n)
    <3>1. 1 \in Nat
      OBVIOUS
    <3> HIDE DEF k
    <3> QED
      BY <2>2, <3>1, ChainsAt, Zenon
  <2>4. Rest(f, k, n) \in Seq(T)
    <3>1. CASE k < n
      <4>1. d - 1 \in 0 .. n - 1 /\ d - 1 \notin S /\ n - (d - 1) = k + 1
        BY <2>1, <2>2, <3>1
      <4>2. f[k + 1] \in Seq(T)
        BY <4>1
      <4> QED
        BY <3>1, <4>2, Zenon DEF Rest
    <3>2. CASE ~(k < n)
      <4>1. <<>> \in Seq(T)
        BY EmptySeq
      <4> QED
        BY <3>2, <4>1, Zenon DEF Rest
    <3> QED
      BY <3>1, <3>2
  <2>5. f[k] \in Seq(T)
    BY <2>2, <2>3, <2>4, ConcatProperties, Zenon
  <2> QED
    BY <2>1, <2>5
<1> SUFFICES ASSUME NEW i \in 1 .. n PROVE f[i] \in Seq(T)
  OBVIOUS
<1>2. n - i \in 0 .. n - 1 /\ n - (n - i) = i
  OBVIOUS
<1> QED
  BY <1>1, <1>2

LEMMA ConcatThrice ==
  ASSUME NEW T, NEW s \in Seq(T), NEW t \in Seq(T), NEW u \in Seq(T),
         NEW st, st = s \o t, NEW tu, tu = t \o u
  PROVE  st \o u = s \o tu
BY ConcatAssociative

(* From the first position on, it is the whole.                            *)
LEMMA ChainsFlatten ==
  ASSUME NEW T, NEW ss \in Seq(Seq(T)), ss # <<>>,
         NEW f, Chains(f, ss, 1, Len(ss))
  PROVE  f[1] = FlattenSeq(ss)
<1> DEFINE n == Len(ss)
<1>1. n \in Nat /\ n >= 1 /\ 1 \in Nat
  BY EmptySeq
<1>10. \A i \in 1 .. n : ss[i] \in Seq(T)
  OBVIOUS
<1>2. PICK g : Joins(g, ss, n) /\ FlattenSeq(ss) = g[n]
  BY FlattenJoins, Zenon
<1> HIDE DEF n
<1>3. \A i \in 1 .. n : g[i] \in Seq(T)
  BY <1>1, <1>2, <1>10, JoinsType
<1>4. Chains(f, ss, 1, n)
  BY DEF n
<1>5. \A i \in 1 .. n : f[i] \in Seq(T)
  BY <1>1, <1>4, <1>10, ChainsType
<1> DEFINE Both(i) == g[i] \o f[i + 1]
           S == {i \in 1 .. n - 1 : Both(i) # f[1]}
<1> HIDE DEF Both
<1>6. ASSUME S # {} PROVE FALSE
  <2>1. PICK m \in S : \A e \in S : m <= e
    <3>1. S \in SUBSET Nat /\ S # {}
      BY <1>6
    <3> QED
      BY <3>1, NatLeast, Zenon
  <2>2. m \in 1 .. n - 1 /\ m \in 1 .. n /\ m + 1 \in 1 .. n /\ m < n
    BY <1>1, <2>1
  <2>3. Both(m) # f[1]
    BY <2>1
  <2>4. f[m] = ss[m] \o f[m + 1]
    <3>1. f[m] = ss[m] \o Rest(f, m, n)
      BY <1>1, <1>4, <2>2, ChainsAt, Zenon
    <3> QED
      BY <2>2, <3>1, Zenon DEF Rest
  <2>5. g[m] = IF m = 1 THEN ss[m] ELSE g[m - 1] \o ss[m]
    BY <1>1, <1>2, <2>2, JoinsAt
  <2>6. CASE m = 1
    <3>1. Both(m) = g[m] \o f[m + 1]
      BY DEF Both
    <3> QED
      BY <2>3, <2>4, <2>5, <2>6, <3>1, Zenon
  <2>7. CASE m # 1
    <3>1. PICK p \in 1 .. n - 1 : p \notin S /\ p + 1 = m /\ m - 1 = p /\ p \in 1 .. n
      <4>1. m - 1 \in 1 .. n - 1 /\ m - 1 \notin S /\ m - 1 \in 1 .. n
        BY <1>1, <2>1, <2>2, <2>7
      <4> QED
        BY <2>2, <4>1
    <3>2. Both(p) = f[1] /\ Both(p) = g[p] \o f[p + 1]
      BY <3>1 DEF Both
    <3>3. g[m] = g[p] \o ss[m]
      BY <2>5, <2>7, <3>1, Zenon
    <3>4. g[p] \in Seq(T) /\ ss[m] \in Seq(T) /\ f[m + 1] \in Seq(T)
      BY <1>3, <1>5, <1>10, <2>2, <3>1, Zenon
    <3>5. g[m] \o f[m + 1] = g[p] \o f[m]
      <4>1. PICK a \in Seq(T) : a = g[p]
        BY <3>4, Zenon
      <4>2. PICK b \in Seq(T) : b = ss[m]
        BY <3>4, Zenon
      <4>3. PICK c \in Seq(T) : c = f[m + 1]
        BY <3>4, Zenon
      <4>4. PICK d : d = g[m]
        BY Zenon
      <4>5. PICK e : e = f[m]
        BY Zenon
      <4>6. d = a \o b /\ e = b \o c
        BY <2>4, <3>3, <4>1, <4>2, <4>3, <4>4, <4>5, Zenon
      <4>7. d \o c = a \o e
        BY <4>6, ConcatThrice, SMTT(30)
      <4> QED
        BY <4>1, <4>3, <4>4, <4>5, <4>7, Zenon
    <3>6. Both(m) = g[m] \o f[m + 1]
      BY DEF Both
    <3> QED
      BY <2>3, <2>4, <3>1, <3>2, <3>3, <3>5, <3>6, Zenon
  <2> QED
    BY <2>6, <2>7
<1>7. f[n] = ss[n]
  <2>1. n \in 1 .. n
    BY <1>1
  <2>2. f[n] = ss[n] \o Rest(f, n, n)
    BY <1>1, <1>4, <2>1, ChainsAt, Zenon
  <2>3. ~(n < n)
    BY <1>1
  <2>4. ss[n] \o <<>> = ss[n]
    BY <1>10, <2>1, ConcatEmptySeq, Zenon
  <2> QED
    BY <2>2, <2>3, <2>4, Zenon DEF Rest
<1>8. g[n] = IF n = 1 THEN ss[n] ELSE g[n - 1] \o ss[n]
  <2>1. n \in 1 .. n
    BY <1>1
  <2> QED
    BY <1>1, <1>2, <2>1, JoinsAt
<1>9. CASE n = 1
  BY <1>2, <1>7, <1>8, <1>9, Zenon
<1>11. CASE n # 1
  <2>1. n - 1 \in 1 .. n - 1 /\ (n - 1) + 1 = n
    BY <1>1, <1>11
  <2>2. Both(n - 1) = f[1]
    BY <1>6, <2>1
  <2>3. Both(n - 1) = g[n - 1] \o f[n]
    BY <2>1, Zenon DEF Both
  <2> QED
    BY <1>2, <1>7, <1>8, <1>11, <2>2, <2>3, Zenon
<1> QED
  BY <1>9, <1>11

-----------------------------------------------------------------------------
(***************************************************************************)
(* EndOfLevel.  Beyond the first entry its value depends only on its       *)
(* values further on, so that there is a function that satisfies its       *)
(* equation.                                                               *)
(***************************************************************************)

LevelEnd(f, u, i) ==
  IF i = Len(u) + 1 \/ IsNull(u[i]) THEN i
  ELSE IF u[i].hasChild /\ f[i + 1] < Len(u) + 1 THEN f[f[i + 1] + 1]
  ELSE f[i + 1]

Ends(f, u, m) == f = [i \in m .. Len(u) + 1 |-> LevelEnd(f, u, i)]

LEMMA EndsAt ==
  ASSUME NEW u, NEW f, NEW m, Ends(f, u, m), NEW i \in m .. Len(u) + 1
  PROVE  f[i] = LevelEnd(f, u, i)
<1> DEFINE G(j) == LevelEnd(f, u, j)
<1>1. f = [j \in m .. Len(u) + 1 |-> G(j)]
  BY Zenon DEF Ends
<1> HIDE DEF G
<1>2. f[i] = G(i)
  BY <1>1
<1> QED
  BY <1>2 DEF G

(* The end of a level is not before its beginning.                         *)
LEMMA EndsAhead ==
  ASSUME NEW u, Len(u) \in Nat, NEW f, NEW m \in Nat, Ends(f, u, m)
  PROVE  \A i \in m .. Len(u) + 1 : f[i] \in i .. Len(u) + 1
<1> DEFINE last == Len(u) + 1
           S == {d \in 0 .. last : last - d >= m /\ f[last - d] \notin last - d .. last}
<1>1. last \in Nat
  OBVIOUS
<1>2. ASSUME S # {} PROVE FALSE
  <2>1. PICK d \in S : \A e \in S : d <= e
    <3>1. S \in SUBSET Nat /\ S # {}
      BY <1>2
    <3> QED
      BY <3>1, NatLeast, Zenon
  <2>2. PICK i : i = last - d
    BY Zenon
  <2>3. i \in m .. last /\ f[i] \notin i .. last
    BY <1>1, <2>1, <2>2
  <2>4. \A j \in i + 1 .. last : f[j] \in j .. last
    <3> SUFFICES ASSUME NEW j \in i + 1 .. last PROVE f[j] \in j .. last
      OBVIOUS
    <3>1. last - j \in 0 .. last /\ last - j < d /\ last - (last - j) = j /\ j >= m
      BY <1>1, <2>1, <2>2, <2>3
    <3>2. last - j \notin S
      BY <1>1, <2>1, <3>1
    <3> QED
      BY <3>1, <3>2
  <2>5. f[i] = LevelEnd(f, u, i)
    BY <2>3, EndsAt
  <2>6. CASE i = last \/ IsNull(u[i])
    BY <1>1, <2>3, <2>5, <2>6 DEF LevelEnd
  <2>7. CASE ~(i = last \/ IsNull(u[i]))
    <3>1. i + 1 \in i + 1 .. last
      BY <1>1, <2>3, <2>7
    <3>2. f[i + 1] \in i + 1 .. last
      BY <2>4, <3>1
    <3>3. f[i + 1] < last => f[f[i + 1] + 1] \in f[i + 1] + 1 .. last
      <4>1. f[i + 1] < last => f[i + 1] + 1 \in i + 1 .. last
        BY <1>1, <2>3, <3>2
      <4> QED
        BY <2>4, <4>1
    <3>4. f[i] \in i .. last
      BY <1>1, <2>3, <2>5, <2>7, <3>2, <3>3 DEF LevelEnd
    <3> QED
      BY <2>3, <3>4
  <2> QED
    BY <2>6, <2>7
<1> SUFFICES ASSUME NEW i \in m .. last PROVE f[i] \in i .. last
  OBVIOUS
<1>3. last - i \in 0 .. last /\ last - (last - i) = i
  BY <1>1
<1>4. last - i \notin S
  BY <1>2
<1> QED
  BY <1>3, <1>4

LEMMA EndsExist ==
  ASSUME NEW u, Len(u) \in Nat
  PROVE  \E f : Ends(f, u, 1)
<1> DEFINE last == Len(u) + 1
           S == {d \in 0 .. last : ~\E f : Ends(f, u, last + 1 - d)}
<1>1. last \in Nat /\ last >= 1
  OBVIOUS
<1>2. ASSUME S # {} PROVE FALSE
  <2>1. PICK d \in S : \A e \in S : d <= e
    <3>1. S \in SUBSET Nat /\ S # {}
      BY <1>2
    <3> QED
      BY <3>1, NatLeast, Zenon
  <2>2. d # 0
    <3> DEFINE none == [i \in {} |-> u]
    <3>1. Ends(none, u, last + 1 - 0)
      <4>1. (last + 1 - 0) .. Len(u) + 1 = {}
        BY <1>1
      <4> QED
        BY <4>1, Zenon DEF Ends
    <3> QED
      BY <2>1, <3>1
  <2>3. PICK m : m = last + 1 - d
    BY Zenon
  <2>4. m \in 1 .. last /\ last + 1 - (d - 1) = m + 1 /\ d - 1 \in 0 .. last
    BY <1>1, <2>1, <2>2, <2>3
  <2>5. PICK f : Ends(f, u, m + 1)
    <3>1. d - 1 \notin S
      BY <1>1, <2>1, <2>4
    <3> QED
      BY <2>4, <3>1
  <2>6. \A i \in m + 1 .. last : f[i] \in i .. last
    <3>1. m + 1 \in Nat
      BY <2>4
    <3> QED
      BY <2>5, <3>1, EndsAhead
  <2> DEFINE G(i) == LevelEnd(f, u, i)
             g == [i \in m .. last |-> G(i)]
  <2>7. \A i \in m + 1 .. last : g[i] = f[i]
    <3>1. \A i \in m + 1 .. last : i \in m .. last
      BY <1>1, <2>4
    <3>2. \A i \in m + 1 .. last : f[i] = G(i)
      BY <2>5, EndsAt
    <3> HIDE DEF G
    <3> QED
      BY <3>1, <3>2
  <2>8. \A i \in m .. last : LevelEnd(g, u, i) = G(i)
    <3> HIDE DEF g
    <3> SUFFICES ASSUME NEW i \in m .. last PROVE LevelEnd(g, u, i) = G(i)
      OBVIOUS
    <3>1. CASE i = last
      BY <1>1, <3>1 DEF LevelEnd
    <3>2. CASE i # last
      <4>1. i + 1 \in m + 1 .. last
        BY <1>1, <2>4, <3>2
      <4>2. f[i + 1] \in i + 1 .. last /\ g[i + 1] = f[i + 1]
        BY <2>6, <2>7, <4>1
      <4>3. f[i + 1] < last => f[i + 1] + 1 \in m + 1 .. last
        BY <1>1, <2>4, <4>1, <4>2
      <4>4. f[i + 1] < last => g[f[i + 1] + 1] = f[f[i + 1] + 1]
        BY <2>7, <4>3
      <4> QED
        BY <4>2, <4>4, Zenon DEF LevelEnd
    <3> QED
      BY <3>1, <3>2
  <2>9. Ends(g, u, m)
    <3> DEFINE h == [i \in m .. last |-> LevelEnd(g, u, i)]
    <3>1. \A i \in m .. last : h[i] = g[i]
      BY <2>8
    <3>2. g = h
      <4>1. g = [i \in m .. last |-> g[i]] /\ h = [i \in m .. last |-> h[i]]
        OBVIOUS
      <4> HIDE DEF g, h
      <4> QED
        BY <3>1, <4>1
    <3> QED
      BY <3>2, Zenon DEF Ends
  <2>10. ~\E h : Ends(h, u, m)
    BY <2>1, <2>3
  <2> QED
    BY <2>9, <2>10, Zenon
<1>3. last \in 0 .. last /\ last + 1 - last = 1
  BY <1>1
<1> QED
  BY <1>2, <1>3

LEMMA EndOfLevelIs ==
  ASSUME NEW u, Len(u) \in Nat
  PROVE  \E f : /\ Ends(f, u, 1)
                /\ \A i : EndOfLevel(u, i) = f[i]
<1> DEFINE F(f) == f = [i \in 1 .. Len(u) + 1 |-> LevelEnd(f, u, i)]
           c == CHOOSE f : F(f)
<1>1. \E f : F(f)
  BY EndsExist, Zenon DEF Ends
<1>2. F(c)
  BY <1>1, Zenon
<1>3. \A i : EndOfLevel(u, i) = c[i]
  BY Zenon DEF EndOfLevel, LevelEnd
<1> QED
  BY <1>2, <1>3, Zenon DEF Ends

(* Where a level ends, by its first entry.                                 *)
LEMMA EndOfLevelFacts ==
  ASSUME NEW u, Len(u) \in Nat, NEW i \in 1 .. Len(u) + 1
  PROVE  /\ EndOfLevel(u, i) \in i .. Len(u) + 1
         /\ EndOfLevel(u, i) =
              IF i = Len(u) + 1 \/ IsNull(u[i]) THEN i
              ELSE IF u[i].hasChild /\ EndOfLevel(u, i + 1) < Len(u) + 1
              THEN EndOfLevel(u, EndOfLevel(u, i + 1) + 1)
              ELSE EndOfLevel(u, i + 1)
<1>1. PICK f : Ends(f, u, 1) /\ \A j : EndOfLevel(u, j) = f[j]
  BY EndOfLevelIs
<1>2. f[i] = LevelEnd(f, u, i)
  BY <1>1, EndsAt
<1>3. f[i] \in i .. Len(u) + 1
  BY <1>1, EndsAhead
<1> QED
  BY <1>1, <1>2, <1>3, Zenon DEF LevelEnd

(* A level that ends does so at a null entry.                              *)
LEMMA EndIsNull ==
  ASSUME NEW u, Len(u) \in Nat, NEW i \in 1 .. Len(u) + 1,
         EndOfLevel(u, i) # Len(u) + 1
  PROVE  IsNull(u[EndOfLevel(u, i)])
<1> DEFINE last == Len(u) + 1
           e(j) == EndOfLevel(u, j)
           S == {j \in 1 .. last : e(j) # last => IsNull(u[e(j)])}
<1>1. \A j \in 1 .. last : (\A k \in j + 1 .. last : k \in S) => j \in S
  <2> SUFFICES ASSUME NEW j \in 1 .. last, \A k \in j + 1 .. last : k \in S,
                      e(j) # last
               PROVE  IsNull(u[e(j)])
    OBVIOUS
  <2>1. e(j) = IF j = last \/ IsNull(u[j]) THEN j
               ELSE IF u[j].hasChild /\ e(j + 1) < last THEN e(e(j + 1) + 1)
               ELSE e(j + 1)
    BY EndOfLevelFacts
  <2>2. CASE j = last \/ IsNull(u[j])
    BY <2>1, <2>2
  <2>3. CASE ~(j = last \/ IsNull(u[j]))
    <3>1. j + 1 \in j + 1 .. last /\ j + 1 \in 1 .. last
      BY <2>3
    <3>2. e(j + 1) \in j + 1 .. last
      BY <3>1, EndOfLevelFacts
    <3>3. e(j + 1) < last => e(j + 1) + 1 \in j + 1 .. last
      BY <3>1, <3>2
    <3> QED
      BY <2>1, <2>3, <3>1, <3>3
  <2> QED
    BY <2>2, <2>3
<1>2. last \in Nat
  OBVIOUS
<1>3. \A j \in 1 .. last : j \in S
  BY <1>1, <1>2, Downwards
<1> QED
  BY <1>3

(* A unit that is a tree: its null entries have no children.               *)
IsTree(u) ==
  /\ Len(u) \in Nat
  /\ \A i \in 1 .. Len(u) : u[i].hasChild \in BOOLEAN
  /\ \A i \in 1 .. Len(u) : IsNull(u[i]) => ~u[i].hasChild

(* Within a level that ends, the levels of its entries end earlier, and a  *)
(* null entry ends the level of one of them.                               *)
Encloses(u, i) ==
  /\ \A j \in i .. EndOfLevel(u, i) - 1 :
       u[j].hasChild => EndOfLevel(u, j + 1) < EndOfLevel(u, i)
  /\ \A j \in i .. EndOfLevel(u, i) - 1 :
       IsNull(u[j]) => \E q \in i .. j - 1 : u[q].hasChild /\ EndOfLevel(u, q + 1) = j

LEMMA LevelsEnclose ==
  ASSUME NEW u, IsTree(u), NEW i \in 1 .. Len(u) + 1, EndOfLevel(u, i) <= Len(u)
  PROVE  Encloses(u, i)
<1> DEFINE last == Len(u) + 1
           e(j) == EndOfLevel(u, j)
           S == {j \in 1 .. last : e(j) < last => Encloses(u, j)}
<1>0. Len(u) \in Nat /\ last \in Nat
  BY DEF IsTree
<1>1. \A j \in 1 .. last : e(j) \in j .. last
  BY <1>0, EndOfLevelFacts
<1>2. \A j \in 1 .. last : (\A k \in j + 1 .. last : k \in S) => j \in S
  <2> SUFFICES ASSUME NEW j \in 1 .. last, \A k \in j + 1 .. last : k \in S,
                      e(j) < last
               PROVE  Encloses(u, j)
    OBVIOUS
  <2>1. e(j) = IF j = last \/ IsNull(u[j]) THEN j
               ELSE IF u[j].hasChild /\ e(j + 1) < last THEN e(e(j + 1) + 1)
               ELSE e(j + 1)
    BY <1>0, EndOfLevelFacts
  <2>2. CASE j = last \/ IsNull(u[j])
    <3>1. e(j) = j
      BY <2>1, <2>2
    <3> QED
      BY <3>1 DEF Encloses
  <2>3. CASE ~(j = last \/ IsNull(u[j]))
    <3>1. j + 1 \in j + 1 .. last /\ j + 1 \in 1 .. last /\ j \in 1 .. Len(u)
      BY <1>0, <2>3
    <3>2. PICK m : m = e(j + 1)
      BY Zenon
    <3>3. m \in j + 1 .. last
      BY <1>1, <3>1, <3>2
    <3>4. m < last => Encloses(u, j + 1)
      BY <3>1, <3>2
    <3>5. CASE ~u[j].hasChild
      <4>1. e(j) = m /\ Encloses(u, j + 1)
        BY <2>1, <2>3, <3>2, <3>4, <3>5
      <4> HIDE DEF e
      <4>2. ASSUME NEW k \in j .. m - 1, u[k].hasChild PROVE e(k + 1) < m
        <5>1. k \in j + 1 .. m - 1
          BY <3>3, <3>5, <4>2
        <5> QED
          BY <3>2, <4>1, <4>2, <5>1 DEF Encloses, e
      <4>3. ASSUME NEW k \in j .. m - 1, IsNull(u[k])
            PROVE  \E q \in j .. k - 1 : u[q].hasChild /\ e(q + 1) = k
        <5>1. k \in j + 1 .. m - 1
          BY <2>3, <3>3, <4>3
        <5>2. PICK q \in j + 1 .. k - 1 : u[q].hasChild /\ e(q + 1) = k
          BY <3>2, <4>1, <4>3, <5>1 DEF Encloses, e
        <5> QED
          BY <5>2
      <4> QED
        BY <4>1, <4>2, <4>3 DEF Encloses, e
    <3>6. CASE u[j].hasChild
      <4>1. m < last /\ e(j) = e(m + 1)
        <5>1. u[j].hasChild \in BOOLEAN
          BY <3>1 DEF IsTree
        <5> QED
          BY <2>1, <2>3, <3>2, <3>3, <3>6, <5>1
      <4>2. m + 1 \in j + 1 .. last /\ m + 1 \in 1 .. last /\ m \in 1 .. Len(u)
        BY <1>0, <3>3, <4>1
      <4>3. e(m + 1) \in m + 1 .. last
        BY <1>1, <4>2
      <4>4. Encloses(u, j + 1) /\ Encloses(u, m + 1)
        BY <3>4, <4>1, <4>2
      <4>5. IsNull(u[m]) /\ ~u[m].hasChild
        <5>1. IsNull(u[m])
          BY <1>0, <3>1, <3>2, <4>1, EndIsNull
        <5> QED
          BY <4>2, <5>1 DEF IsTree
      <4> HIDE DEF e
      <4>6. ASSUME NEW k \in j .. e(j) - 1, u[k].hasChild PROVE e(k + 1) < e(j)
        <5>1. CASE k = j
          BY <3>2, <4>1, <4>3, <5>1, <3>3, <4>2
        <5>2. CASE k \in j + 1 .. m - 1
          <6>1. e(k + 1) < m
            BY <3>2, <4>4, <4>6, <5>2 DEF Encloses, e
          <6>2. e(k + 1) \in k + 1 .. last
            <7>1. k + 1 \in 1 .. last
              BY <3>3, <5>2
            <7> QED
              BY <1>1, <7>1 DEF e
          <6> QED
            BY <4>1, <4>3, <6>1, <6>2, <5>2, <3>3
        <5>3. CASE k = m
          BY <4>5, <4>6, <5>3
        <5>4. CASE k \in m + 1 .. e(m + 1) - 1
          BY <4>1, <4>4, <4>6, <5>4 DEF Encloses, e
        <5> QED
          BY <3>3, <4>1, <4>3, <5>1, <5>2, <5>3, <5>4
      <4>7. ASSUME NEW k \in j .. e(j) - 1, IsNull(u[k])
            PROVE  \E q \in j .. k - 1 : u[q].hasChild /\ e(q + 1) = k
        <5>1. k # j
          BY <2>3, <4>7
        <5>2. CASE k \in j + 1 .. m - 1
          <6>1. PICK q \in j + 1 .. k - 1 : u[q].hasChild /\ e(q + 1) = k
            BY <3>2, <4>4, <4>7, <5>2 DEF Encloses, e
          <6> QED
            BY <6>1
        <5>3. CASE k = m
          <6>1. j \in j .. k - 1
            BY <3>3, <5>3
          <6> QED
            BY <3>2, <3>6, <5>3, <6>1
        <5>4. CASE k \in m + 1 .. e(m + 1) - 1
          <6>1. PICK q \in m + 1 .. k - 1 : u[q].hasChild /\ e(q + 1) = k
            BY <4>4, <4>7, <5>4 DEF Encloses, e
          <6>2. q \in j .. k - 1
            BY <3>3, <6>1
          <6> QED
            BY <6>1, <6>2
        <5> QED
          BY <3>3, <4>1, <4>3, <5>1, <5>2, <5>3, <5>4
      <4> QED
        BY <4>6, <4>7 DEF Encloses, e
    <3> QED
      BY <3>5, <3>6
  <2> QED
    BY <2>2, <2>3
<1>3. \A j \in 1 .. last : j \in S
  <2> HIDE DEF S
  <2> QED
    BY <1>0, <1>2, Downwards
<1>4. i \in S /\ e(i) < last
  BY <1>0, <1>1, <1>3
<1> QED
  BY <1>4

(* A unit of compilers, and the DIE that follows the descendants of another*)
IsUnit(u) ==
  /\ Len(u) \in Nat \ {0} /\ WellNested(u)
  /\ \A i \in 1 .. Len(u) : u[i].hasChild \in BOOLEAN /\ u[i].sibling \in Nat

NextSibling(u, i) ==
  IF u[i].hasChild THEN EndOfLevel(u, i + 1) + 1 ELSE i + 1

LEMMA UnitIsTree ==
  ASSUME NEW u, IsUnit(u)
  PROVE  IsTree(u) /\ Len(u) \in Nat /\ Len(u) >= 1
<1>1. \A i \in 1 .. Len(u) : IsNull(u[i]) => ~u[i].hasChild
  BY DEF IsUnit, WellNested
<1> QED
  BY <1>1 DEF IsTree, IsUnit

(* Every level of a unit ends in it.                                       *)
LEMMA LevelsEnd ==
  ASSUME NEW u, IsUnit(u), NEW p \in 1 .. Len(u), u[p].hasChild
  PROVE  /\ p + 1 \in 1 .. Len(u) /\ ~IsNull(u[p + 1])
         /\ EndOfLevel(u, p + 1) \in p + 2 .. Len(u)
         /\ IsNull(u[EndOfLevel(u, p + 1)])
<1> DEFINE e(j) == EndOfLevel(u, j)
<1>1. IsTree(u) /\ Len(u) \in Nat /\ Len(u) >= 1
  BY UnitIsTree
<1>2. e(2) = Len(u)
  BY DEF IsUnit, WellNested
<1>3. 2 \in 1 .. Len(u) + 1 /\ p + 1 \in 1 .. Len(u) + 1
  BY <1>1
<1>4. IsNull(u[Len(u)])
  BY <1>1, <1>2, <1>3, EndIsNull
<1>5. p # Len(u)
  BY <1>1, <1>4 DEF IsTree
<1>6. e(p + 1) <= Len(u)
  <2>1. CASE p = 1
    BY <1>2, <2>1
  <2>2. CASE p # 1
    <3>1. p \in 2 .. e(2) - 1
      BY <1>2, <1>5, <2>2
    <3>2. Encloses(u, 2)
      BY <1>1, <1>2, <1>3, LevelsEnclose
    <3>3. e(p + 1) < e(2)
      BY <3>1, <3>2 DEF Encloses
    <3>4. e(p + 1) \in p + 1 .. Len(u) + 1
      BY <1>1, <1>3, EndOfLevelFacts
    <3> QED
      BY <1>1, <1>2, <3>3, <3>4
  <2> QED
    BY <2>1, <2>2
<1>7. p + 1 \in 1 .. Len(u) /\ ~IsNull(u[p + 1])
  <2>1. u[p].hasChild => ~IsNull(u[p + 1])
    BY DEF IsUnit, WellNested
  <2> QED
    BY <1>1, <1>5, <2>1
<1>8. e(p + 1) \in p + 1 .. Len(u) + 1
  BY <1>1, <1>3, EndOfLevelFacts
<1>9. IsNull(u[e(p + 1)])
  <2>1. e(p + 1) # Len(u) + 1
    BY <1>1, <1>6, <1>8
  <2> QED
    BY <1>1, <1>3, <2>1, EndIsNull
<1>10. e(p + 1) # p + 1
  BY <1>7, <1>9
<1> QED
  BY <1>1, <1>6, <1>7, <1>8, <1>9, <1>10

(* The parent of a DIE is the last of those around it.                     *)
LEMMA ParentIs ==
  ASSUME NEW u, NEW i \in Nat \ {0}
  PROVE  /\ ParentOf(u, i) \in {0} \cup Around(u, i)
         /\ \A q \in Around(u, i) : q <= ParentOf(u, i)
         /\ \A p \in Around(u, i) :
              (\A q \in Around(u, i) : q <= p) => ParentOf(u, i) = p
<1> DEFINE S == {0} \cup Around(u, i)
<1>1. S \in SUBSET (0 .. i) /\ S # {}
  BY DEF Around
<1>2. Max(S) \in S /\ \A q \in S : q <= Max(S)
  BY <1>1, MaxIs
<1>3. ParentOf(u, i) = Max(S)
  BY Zenon DEF ParentOf
<1> HIDE DEF S
<1>4. ASSUME NEW p \in Around(u, i), \A q \in Around(u, i) : q <= p
      PROVE  ParentOf(u, i) = p
  <2>1. p \in 1 .. i
    BY DEF Around
  <2>2. PICK m : m = Max(S)
    BY Zenon
  <2>3. m \in S /\ \A q \in S : q <= m
    BY <1>2, <2>2
  <2>4. m \in 0 .. i
    BY <1>1, <2>3
  <2>5. p <= m /\ (m = 0 \/ m <= p)
    BY <1>4, <2>3 DEF S
  <2> QED
    BY <1>3, <2>1, <2>2, <2>4, <2>5
<1> QED
  BY <1>2, <1>3, <1>4, Zenon DEF S

(* The first child follows its parent.                                     *)
LEMMA FirstChild ==
  ASSUME NEW u, IsUnit(u), NEW p \in 1 .. Len(u), u[p].hasChild
  PROVE  p + 1 \in ChildrenOf(u, p)
<1>1. /\ p + 1 \in 1 .. Len(u) /\ ~IsNull(u[p + 1])
      /\ EndOfLevel(u, p + 1) \in p + 2 .. Len(u)
  BY LevelsEnd
<1>2. p \in Around(u, p + 1)
  BY <1>1 DEF Around
<1>3. \A q \in Around(u, p + 1) : q <= p
  BY DEF Around
<1>4. p + 1 \in Nat \ {0}
  OBVIOUS
<1>5. ParentOf(u, p + 1) = p
  BY <1>2, <1>3, <1>4, ParentIs
<1> QED
  BY <1>1, <1>5 DEF ChildrenOf

(* After a child there is another one, or the end of them all.             *)
LEMMA SiblingIs ==
  ASSUME NEW u, IsUnit(u), NEW p \in 1 .. Len(u), u[p].hasChild,
         NEW i \in ChildrenOf(u, p)
  PROVE  /\ NextSibling(u, i) > i
         /\ NextSibling(u, i) \in ChildrenOf(u, p) \cup {EndOfLevel(u, p + 1)}
<1> DEFINE e(j) == EndOfLevel(u, j)
<1>0. IsTree(u) /\ Len(u) \in Nat
  BY UnitIsTree
<1>1. i \in p + 1 .. Len(u) /\ ~IsNull(u[i]) /\ ParentOf(u, i) = p
  BY DEF ChildrenOf
<1>2. p \in Around(u, i) /\ \A q \in Around(u, i) : q <= p
  <2>1. i \in Nat \ {0}
    BY <1>1
  <2>2. p \in {0} \cup Around(u, i) /\ \A q \in Around(u, i) : q <= p
    BY <1>1, <2>1, ParentIs
  <2> QED
    BY <2>2
<1>3. PICK end : end = e(p + 1)
  BY Zenon
<1>4. end \in p + 2 .. Len(u) /\ p + 1 \in 1 .. Len(u) + 1
  BY <1>3, LevelsEnd
<1>5. i < end
  BY <1>2, <1>3 DEF Around
<1>6. Encloses(u, p + 1)
  BY <1>0, <1>3, <1>4, LevelsEnclose
<1>7. PICK s : s = NextSibling(u, i)
  BY Zenon
<1> HIDE DEF e
<1>8. s \in i + 1 .. end /\ (u[i].hasChild => s = e(i + 1) + 1)
  <2>1. CASE u[i].hasChild
    <3>1. i \in 1 .. Len(u)
      BY <1>1
    <3>2. e(i + 1) \in i + 2 .. Len(u)
      BY <2>1, <3>1, LevelsEnd DEF e
    <3>3. i \in p + 1 .. e(p + 1) - 1
      BY <1>1, <1>3, <1>4, <1>5
    <3>4. e(i + 1) < e(p + 1)
      BY <1>6, <2>1, <3>3 DEF Encloses, e
    <3>5. s = e(i + 1) + 1
      BY <1>7, <2>1 DEF NextSibling, e
    <3> QED
      BY <1>1, <1>3, <1>4, <3>2, <3>4, <3>5
  <2>2. CASE ~u[i].hasChild
    <3>1. s = i + 1
      BY <1>7, <2>2 DEF NextSibling
    <3> QED
      BY <1>1, <1>4, <1>5, <2>2, <3>1
  <2> QED
    BY <2>1, <2>2
<1>9. ASSUME NEW q \in i .. s - 1, u[q].hasChild PROVE e(q + 1) < s
  <2>1. u[i].hasChild
    BY <1>1, <1>8, <1>9, <1>7 DEF NextSibling
  <2>2. PICK m : m = e(i + 1)
    BY Zenon
  <2>3. m \in i + 2 .. Len(u) /\ IsNull(u[m]) /\ s = m + 1 /\ i + 1 \in 1 .. Len(u) + 1
    <3>1. i \in 1 .. Len(u)
      BY <1>1
    <3> QED
      BY <1>8, <2>1, <2>2, <3>1, LevelsEnd DEF e
  <2>4. CASE q = i
    BY <2>2, <2>3, <2>4
  <2>5. CASE q \in i + 1 .. m - 1
    <3>1. Encloses(u, i + 1)
      BY <1>0, <2>2, <2>3, LevelsEnclose DEF e
    <3>2. e(q + 1) < m
      BY <1>9, <2>2, <2>5, <3>1 DEF Encloses, e
    <3>3. e(q + 1) \in q + 1 .. Len(u) + 1
      <4>1. q + 1 \in 1 .. Len(u) + 1
        BY <1>1, <2>3, <2>5
      <4> QED
        BY <1>0, <4>1, EndOfLevelFacts DEF e
    <3> QED
      BY <2>3, <2>5, <3>2, <3>3
  <2>6. CASE q = m
    <3>1. m \in 1 .. Len(u)
      BY <1>1, <2>3
    <3> QED
      BY <1>0, <1>9, <2>3, <2>6, <3>1 DEF IsTree
  <2> QED
    BY <1>1, <1>8, <2>3, <2>4, <2>5, <2>6
<1>10. ASSUME NEW q \in p + 1 .. s - 1, u[q].hasChild PROVE e(q + 1) < s
  <2>1. CASE q >= i
    <3>1. q \in i .. s - 1
      BY <1>1, <1>8, <2>1
    <3> QED
      BY <1>9, <1>10, <3>1
  <2>2. CASE q < i
    <3>1. q \notin Around(u, i)
      BY <1>1, <1>2, <2>2
    <3>2. q \in 1 .. i - 1
      BY <1>1, <1>8, <2>2
    <3>3. ~(i < e(q + 1))
      BY <1>10, <3>1, <3>2 DEF Around, e
    <3>4. e(q + 1) \in q + 1 .. Len(u) + 1
      <4>1. q + 1 \in 1 .. Len(u) + 1
        BY <1>1, <3>2
      <4> QED
        BY <1>0, <4>1, EndOfLevelFacts DEF e
    <3> QED
      BY <1>1, <1>8, <3>2, <3>3, <3>4
  <2> QED
    BY <1>1, <1>8, <2>1, <2>2
<1>11. CASE s = end
  BY <1>1, <1>3, <1>7, <1>8, <1>11 DEF e
<1>12. CASE s # end
  <2>1. s \in p + 1 .. end - 1 /\ s \in p + 1 .. Len(u) /\ s \in Nat \ {0}
    BY <1>1, <1>4, <1>8, <1>12
  <2>2. ~IsNull(u[s])
    <3>1. ASSUME IsNull(u[s]) PROVE FALSE
      <4>1. PICK q \in p + 1 .. s - 1 : u[q].hasChild /\ e(q + 1) = s
        BY <1>3, <1>6, <2>1, <3>1 DEF Encloses, e
      <4>2. e(q + 1) < s
        BY <1>10, <4>1
      <4> QED
        BY <2>1, <4>1, <4>2
    <3> QED
      BY <3>1
  <2>3. p \in Around(u, s)
    <3>1. p \in 1 .. s - 1 /\ s < e(p + 1)
      BY <1>3, <1>4, <2>1
    <3> QED
      BY <3>1 DEF Around, e
  <2>4. ASSUME NEW q \in Around(u, s) PROVE q <= p
    <3>1. q \in 1 .. s - 1 /\ u[q].hasChild /\ s < e(q + 1)
      BY DEF Around, e
    <3>2. e(q + 1) \in q + 1 .. Len(u) + 1
      <4>1. q + 1 \in 1 .. Len(u) + 1
        BY <2>1, <3>1
      <4> QED
        BY <1>0, <4>1, EndOfLevelFacts DEF e
    <3>3. q \notin p + 1 .. s - 1
      BY <1>10, <2>1, <3>1, <3>2
    <3> QED
      BY <2>1, <3>1, <3>3
  <2>5. ParentOf(u, s) = p
    BY <2>1, <2>3, <2>4, ParentIs
  <2>6. s \in ChildrenOf(u, p)
    BY <2>1, <2>2, <2>5 DEF ChildrenOf
  <2> QED
    BY <1>1, <1>7, <1>8, <2>6
<1> QED
  BY <1>11, <1>12

-----------------------------------------------------------------------------
(* The cursor on a unit.                                                   *)

(* A cursor that has just read the DIE at p.                               *)
Having(u, p, level) ==
  [ptr |-> p + 1, level |-> level, prevHasChild |-> u[p].hasChild,
   sibling |-> u[p].sibling]

LEMMA HavingType ==
  ASSUME NEW u, IsUnit(u), NEW p \in 1 .. Len(u), NEW level \in Int
  PROVE  Having(u, p, level) \in Cursor
BY DEF IsUnit, Having, Cursor

(* readNext that stops at null entries reads the entry at the cursor.      *)
LEMMA ReadHere ==
  ASSUME NEW u, IsUnit(u), NEW c \in Cursor, c.ptr >= 1,
         NEW r, r = readNext(u, c, TRUE), r.die # 0
  PROVE  /\ r.die = c.ptr /\ r.die \in 1 .. Len(u) /\ ~IsNull(u[r.die])
         /\ \E l \in Int : r.cursor = Having(u, r.die, l)
<1> DEFINE p == c.ptr
           level == LevelOf(c) - (p - p)
<1>1. Len(u) \in Nat /\ p \in Nat
  BY UnitIsTree DEF Cursor
<1>2. level \in Int
  BY <1>1 DEF LevelOf, Cursor
<1> HIDE DEF level
<1>3. /\ r.die = p /\ ~(level = -1 \/ p > Len(u)) /\ ~IsNull(u[p])
      /\ r.cursor = Having(u, p, level)
  BY DEF readNext, level, Having
<1>4. p \in 1 .. Len(u)
  BY <1>1, <1>3
<1> QED
  BY <1>2, <1>3, <1>4, Zenon

(* readNext at a DIE that is not null has no null entry to skip.           *)
ReadAt(u, c, t) == readNext(u, ChildCursor(c, t), FALSE)

LEMMA ReadThere ==
  ASSUME NEW u, IsUnit(u), NEW c \in Cursor, NEW t \in 1 .. Len(u), ~IsNull(u[t]),
         NEW r, r = ReadAt(u, c, t), r.die # 0
  PROVE  r.die = t /\ \E l \in Int : r.cursor = Having(u, t, l)
<1> DEFINE d == ChildCursor(c, t)
           S == {i \in d.ptr .. Len(u) + 1 :
                   \/ i = Len(u) + 1 \/ ~IsNull(u[i])
                   \/ LevelOf(d) - (i - d.ptr) = -1}
           level == LevelOf(d) - (t - d.ptr)
<1>1. Len(u) \in Nat
  BY UnitIsTree
<1>2. d \in Cursor /\ d.ptr = t
  BY DEF ChildCursor, Cursor
<1>3. t \in S /\ \A i \in S : t <= i
  BY <1>1, <1>2
<1>4. S \in SUBSET Int
  BY <1>1, <1>2
<1>5. Min(S) = t
  <2> HIDE DEF S
  <2>1. \E x \in S : \A i \in S : x <= i
    BY <1>3
  <2>2. PICK m : m = Min(S)
    BY Zenon
  <2>3. m \in S /\ \A i \in S : m <= i
    BY <2>1, <2>2, Zenon DEF Min
  <2>4. m <= t /\ t <= m /\ m \in Int /\ t \in Int
    BY <1>3, <1>4, <2>3
  <2> QED
    BY <2>2, <2>4
<1>6. AfterNulls(u, d) = t
  BY <1>5, Zenon DEF AfterNulls
<1>7. level \in Int
  BY <1>1, <1>2 DEF LevelOf, Cursor
<1>8. r = readNext(u, d, FALSE)
  BY DEF ReadAt
<1> HIDE DEF level, d
<1>9. r.die = t /\ r.cursor = Having(u, t, level)
  BY <1>6, <1>8 DEF readNext, level, Having
<1> QED
  BY <1>7, <1>9

(* gotoSibling moves to the next sibling of the DIE that was read.         *)
LEMMA GoesToSibling ==
  ASSUME NEW u, IsUnit(u), NEW p \in 1 .. Len(u), NEW level \in Int,
         NEW c, c = gotoSibling(u, Having(u, p, level))
  PROVE  c \in Cursor /\ c.ptr = NextSibling(u, p)
<1> DEFINE h == Having(u, p, level)
<1>1. h \in Cursor /\ h.ptr = p + 1 /\ h.prevHasChild = u[p].hasChild
      /\ h.sibling = u[p].sibling
  BY HavingType DEF Having
<1>2. u[p].hasChild \in BOOLEAN /\ u[p].sibling \in Nat /\ Len(u) \in Nat
  BY DEF IsUnit
<1>3. NextSibling(u, p) \in Nat
  <2>1. u[p].hasChild => EndOfLevel(u, p + 1) \in p + 2 .. Len(u)
    BY LevelsEnd
  <2> QED
    BY <1>2, <2>1 DEF NextSibling
<1>4. CASE u[p].sibling # 0
  <2>1. u[p].sibling \in {0, NextSibling(u, p)}
    BY DEF IsUnit, WellNested, NextSibling
  <2>2. c = [h EXCEPT !.ptr = u[p].sibling, !.prevHasChild = FALSE]
    BY <1>1, <1>4 DEF gotoSibling
  <2> HIDE DEF h
  <2> QED
    BY <1>1, <1>3, <1>4, <2>1, <2>2 DEF Cursor
<1>5. CASE u[p].sibling = 0 /\ ~u[p].hasChild
  <2>1. c = h /\ NextSibling(u, p) = p + 1
    BY <1>1, <1>5 DEF gotoSibling, NextSibling
  <2> HIDE DEF h
  <2> QED
    BY <1>1, <2>1
<1>6. CASE u[p].sibling = 0 /\ u[p].hasChild
  <2> DEFINE end == EndOfLevel(u, p + 1)
             read == {i \in p + 1 .. end : ~IsNull(u[i])}
  <2>1. end \in p + 2 .. Len(u) /\ ~IsNull(u[p + 1])
    BY <1>6, LevelsEnd
  <2>2. c = [h EXCEPT !.ptr = end + 1, !.prevHasChild = FALSE,
                      !.sibling = u[Max(read)].sibling]
    BY <1>1, <1>6 DEF gotoSibling
  <2>3. NextSibling(u, p) = end + 1
    BY <1>6 DEF NextSibling
  <2> HIDE DEF end
  <2>4. read \in SUBSET (0 .. Len(u)) /\ p + 1 \in read
    BY <2>1
  <2>5. Max(read) \in read
    BY <1>2, <2>4, MaxIs
  <2>6. Max(read) \in 1 .. Len(u)
    BY <2>1, <2>5
  <2>7. u[Max(read)].sibling \in Nat
    BY <2>6 DEF IsUnit
  <2>8. PICK x, n : x = u[Max(read)].sibling /\ n = end + 1
    BY Zenon
  <2>9. x \in Nat /\ n \in Nat
    BY <1>2, <2>1, <2>7, <2>8
  <2>10. c = [h EXCEPT !.ptr = n, !.prevHasChild = FALSE, !.sibling = x]
    BY <2>2, <2>8, Zenon
  <2> HIDE DEF h, read
  <2> QED
    BY <1>1, <2>3, <2>8, <2>9, <2>10 DEF Cursor
<1> QED
  BY <1>4, <1>5, <1>6
=============================================================================
