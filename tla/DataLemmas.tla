------------------------------ MODULE DataLemmas ------------------------------
(* What several proofs need of the data they are about: sequences that are *)
(* given as functions, as the refinement mappings give theirs; smallest    *)
(* numbers; and functions defined by recursion on the naturals.            *)
EXTENDS Integers, SequenceTheorems, WellFoundedInduction, TLAPS

-----------------------------------------------------------------------------
(* Sequences. *)

(* A function on 1..k is a sequence of length k. *)
LEMMA FunctionIsSeq ==
  ASSUME NEW S, NEW k \in Nat, NEW f \in [1..k -> S]
  PROVE  f \in Seq(S) /\ Len(f) = k
<1>1. f \in Seq(S)
  BY SeqDef
<1>2. QED BY <1>1, LenProperties

(* One value more is an Append, one less a SubSeq. *)
LEMMA OneMore ==
  ASSUME NEW S, NEW k \in Nat, NEW f \in [1..k -> S], NEW g \in [1..(k + 1) -> S],
         \A i \in 1..k : g[i] = f[i]
  PROVE  g = Append(f, g[k + 1])
<1>1. f \in Seq(S) /\ Len(f) = k /\ g \in Seq(S) /\ Len(g) = k + 1
  BY FunctionIsSeq
<1>2. g[k + 1] \in S
  OBVIOUS
<1> DEFINE h == Append(f, g[k + 1])
<1>3. /\ h \in Seq(S) /\ Len(h) = k + 1
      /\ \A i \in 1..k : h[i] = f[i]
      /\ h[k + 1] = g[k + 1]
  BY <1>1, <1>2, AppendProperties
<1> HIDE DEF h
<1>4. \A i \in 1..(k + 1) : g[i] = h[i]
  BY <1>3
<1>5. g = h
  BY <1>1, <1>3, <1>4, SeqEqual
<1>6. QED BY <1>5 DEF h

LEMMA OneLess ==
  ASSUME NEW S, NEW k \in Nat \ {0}, NEW f \in [1..k -> S],
         NEW g \in [1..(k - 1) -> S], \A i \in 1..(k - 1) : g[i] = f[i]
  PROVE  g = SubSeq(f, 1, k - 1) /\ Len(f) = k
<1>1. f \in Seq(S) /\ Len(f) = k /\ g \in Seq(S) /\ Len(g) = k - 1
  BY FunctionIsSeq
<1> DEFINE h == SubSeq(f, 1, k - 1)
<1>2. \A i \in 1..(k - 1) : f[i] \in S
  OBVIOUS
<1>3. h \in Seq(S) /\ Len(h) = k - 1 /\ \A i \in 1..(k - 1) : h[i] = f[i]
  <2>1. /\ h \in Seq(S) /\ Len(h) = IF 1 <= k - 1 THEN k - 1 - 1 + 1 ELSE 0
        /\ \A i \in 1..(k - 1 - 1 + 1) : h[i] = f[1 + i - 1]
    BY <1>2, SubSeqProperties
  <2>2. QED BY <2>1
<1> HIDE DEF h
<1>4. g = h
  BY <1>1, <1>3, SeqEqual
<1>5. QED BY <1>1, <1>4 DEF h

-----------------------------------------------------------------------------
(* Numbers. *)

Less == {p \in Nat \X Nat : p[1] < p[2]}

(* A set of numbers has a smallest one. *)
LEMMA Least ==
  ASSUME NEW T \in SUBSET Nat, T # {}
  PROVE  \E x \in T : \A y \in T : x <= y
<1>1. IsWellFoundedOn(Less, Nat)
  BY NatLessThanWellFounded DEF OpToRel, Less
<1>2. PICK x \in T : \A y \in T : <<y, x>> \notin Less
  BY <1>1, WFMin
<1>3. ASSUME NEW y \in T PROVE x <= y
  <2>1. <<y, x>> \in Nat \X Nat /\ x \in Nat /\ y \in Nat
    OBVIOUS
  <2>2. <<y, x>> \in Less <=> y < x
    BY <2>1 DEF Less
  <2>3. ~(y < x)
    BY <1>2, <2>2
  <2>4. QED BY <2>1, <2>3
<1>4. QED BY <1>3

-----------------------------------------------------------------------------
(* Recursion.  A function on the naturals may be given by its value at 0   *)
(* and, for n > 0, by its value at before[n] < n; step[<<n, x>>] is what   *)
(* it is at n if it is x there.                                            *)

Scheme(S, start, step, before) ==
  /\ start \in S /\ step \in [Nat \X S -> S] /\ before \in [Nat -> Nat]
  /\ \A n \in Nat \ {0} : before[n] < n

(* What the function is up to m. *)
Upto(S, start, step, before, m) ==
  {g \in [0..m -> S] : /\ g[0] = start
                       /\ \A i \in 1..m : g[i] = step[<<i, g[before[i]]>>]}

LEMMA UptoExists ==
  ASSUME NEW S, NEW start, NEW step, NEW before, Scheme(S, start, step, before),
         NEW m \in Nat
  PROVE  Upto(S, start, step, before, m) # {}
<1> DEFINE U(n) == Upto(S, start, step, before, n)
           Bad == {n \in Nat : U(n) = {}}
<1>1. SUFFICES ASSUME Bad # {} PROVE FALSE
  OBVIOUS
<1>2. Bad \in SUBSET Nat
  OBVIOUS
<1>3. PICK n \in Bad : \A y \in Bad : n <= y
  BY <1>1, <1>2, Least
<1>4. n \in Nat /\ U(n) = {}
  BY <1>3
<1>5. CASE n = 0
  <2> DEFINE g == [i \in 0..0 |-> start]
  <2>1. g \in [0..0 -> S] /\ g[0] = start /\ 1..0 = {}
    BY DEF Scheme
  <2>2. g \in U(0)
    BY <2>1 DEF Upto
  <2>3. QED BY <1>4, <1>5, <2>2
<1>6. CASE n # 0
  <2>1. n - 1 \in Nat /\ n - 1 \notin Bad
    <3>1. n - 1 \in Nat /\ ~(n <= n - 1)
      BY <1>4, <1>6
    <3>2. QED BY <1>3, <3>1
  <2>2. PICK g \in U(n - 1) : TRUE
    BY <2>1
  <2>3. /\ g \in [0..(n - 1) -> S] /\ g[0] = start
        /\ \A i \in 1..(n - 1) : g[i] = step[<<i, g[before[i]]>>]
    BY <2>2 DEF Upto
  <2>4. \A i \in 1..n : before[i] \in 0..(n - 1) /\ i \in Nat
    BY <1>4 DEF Scheme
  <2> DEFINE h == [i \in 0..n |-> IF i = n THEN step[<<n, g[before[n]]>>] ELSE g[i]]
  <2>5. n \in 1..n /\ n \in 0..n /\ 0 \in 0..n /\ 0 # n
    BY <1>4, <1>6
  <2>6. g[before[n]] \in S
    BY <2>3, <2>4, <2>5
  <2>7. step[<<n, g[before[n]]>>] \in S
    BY <1>4, <2>6 DEF Scheme
  <2>8. \A i \in 0..n : i # n => i \in 0..(n - 1)
    BY <1>4
  <2>9. h \in [0..n -> S]
    BY <2>3, <2>7, <2>8
  <2>10. h[0] = start
    BY <2>3, <2>5
  <2>11. ASSUME NEW i \in 1..n PROVE h[i] = step[<<i, h[before[i]]>>]
    <3>1. before[i] \in 0..(n - 1) /\ before[i] \in 0..n /\ before[i] # n /\ i \in 0..n
      BY <1>4, <2>4
    <3>2. h[before[i]] = g[before[i]]
      BY <3>1
    <3>3. CASE i = n
      BY <2>5, <3>2, <3>3
    <3>4. CASE i # n
      <4>1. i \in 1..(n - 1)
        BY <1>4, <3>4
      <4>2. h[i] = g[i]
        BY <3>1, <3>4
      <4> HIDE DEF h
      <4>3. QED BY <2>3, <3>2, <4>1, <4>2
    <3>5. QED BY <3>3, <3>4
  <2> HIDE DEF h
  <2>12. h \in U(n)
    BY <2>9, <2>10, <2>11 DEF Upto
  <2>13. QED BY <1>4, <2>12
<1>7. QED BY <1>5, <1>6

LEMMA UptoAgree ==
  ASSUME NEW S, NEW start, NEW step, NEW before, Scheme(S, start, step, before),
         NEW m \in Nat, NEW k \in Nat,
         NEW g \in Upto(S, start, step, before, m), NEW h \in Upto(S, start, step, before, k),
         NEW j \in Nat, j <= m, j <= k
  PROVE  g[j] = h[j]
<1> DEFINE Bad == {i \in Nat : i <= m /\ i <= k /\ g[i] # h[i]}
<1>1. SUFFICES ASSUME Bad # {} PROVE FALSE
  OBVIOUS
<1>2. Bad \in SUBSET Nat
  OBVIOUS
<1>3. PICK i \in Bad : \A y \in Bad : i <= y
  BY <1>1, <1>2, Least
<1>4. i \in Nat /\ i <= m /\ i <= k /\ g[i] # h[i]
  BY <1>3
<1>5. i # 0
  BY <1>4 DEF Upto
<1>6. /\ i \in 1..m /\ i \in 1..k /\ before[i] \in Nat /\ before[i] < i
      /\ before[i] <= m /\ before[i] <= k
  BY <1>4, <1>5 DEF Scheme
<1>7. g[before[i]] = h[before[i]]
  <2>1. before[i] \notin Bad
    <3>1. ~(i <= before[i])
      BY <1>4, <1>6
    <3>2. QED BY <1>3, <3>1
  <2>2. QED BY <1>6, <2>1
<1>8. g[i] = step[<<i, g[before[i]]>>] /\ h[i] = step[<<i, h[before[i]]>>]
  BY <1>6 DEF Upto
<1>9. QED BY <1>4, <1>7, <1>8

(* There is such a function. *)
LEMMA Recursion ==
  ASSUME NEW S, NEW start, NEW step, NEW before, Scheme(S, start, step, before)
  PROVE  \E f \in [Nat -> S] :
           f[0] = start /\ \A n \in Nat \ {0} : f[n] = step[<<n, f[before[n]]>>]
<1> DEFINE U(n) == Upto(S, start, step, before, n)
           A(n) == CHOOSE g : g \in U(n)
           f == [n \in Nat |-> A(n)[n]]
<1>1. ASSUME NEW n \in Nat PROVE A(n) \in U(n)
  BY UptoExists
<1>2. ASSUME NEW n \in Nat
      PROVE  /\ A(n) \in [0..n -> S] /\ A(n)[0] = start /\ A(n)[n] \in S
             /\ \A i \in 1..n : A(n)[i] = step[<<i, A(n)[before[i]]>>]
  <2>1. A(n) \in U(n) /\ n \in 0..n
    BY <1>1
  <2> HIDE DEF A
  <2>2. QED BY <2>1 DEF Upto
<1>3. ASSUME NEW n \in Nat \ {0} PROVE f[n] = step[<<n, f[before[n]]>>]
  <2>1. before[n] \in Nat /\ before[n] < n /\ before[n] <= n /\ n \in 1..n
    BY DEF Scheme
  <2>2. A(n) \in U(n) /\ A(before[n]) \in U(before[n])
    BY <1>1, <2>1
  <2>3. A(n)[n] = step[<<n, A(n)[before[n]]>>]
    BY <1>2, <2>1
  <2> HIDE DEF A
  <2>4. A(n)[before[n]] = A(before[n])[before[n]]
    BY <2>1, <2>2, UptoAgree
  <2>5. f[n] = A(n)[n] /\ f[before[n]] = A(before[n])[before[n]]
    BY <2>1
  <2> HIDE DEF f
  <2>6. QED BY <2>3, <2>4, <2>5
<1>4. f \in [Nat -> S]
  BY <1>2
<1>5. f[0] = start
  BY <1>2
<1> HIDE DEF f
<1>6. QED BY <1>3, <1>4, <1>5
=============================================================================
