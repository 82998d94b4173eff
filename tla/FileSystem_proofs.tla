--------------------------- MODULE FileSystem_proofs ---------------------------
(* Proofs about the file system, for every image whose names and numbers   *)
(* are as ImageAssumption says and for every block size; and that module   *)
(* Process, which has no bytes, is right about it (NamesAssumption).       *)
EXTENDS BootBlock, DataLemmas, FiniteSetTheorems

-----------------------------------------------------------------------------
(* Numbers. *)

LEMMA Division ==
  ASSUME NEW a \in Nat, NEW b \in Nat \ {0}
  PROVE  /\ a \div b \in Nat /\ a % b \in 0..(b - 1)
         /\ a = b * (a \div b) + (a % b)
         /\ a \div b <= a /\ a % b <= a /\ (a < b => a % b = a)
<1>1. /\ a \div b \in Nat /\ a % b \in 0..(b - 1)
      /\ a = b * (a \div b) + (a % b)
  OBVIOUS
<1> DEFINE q == a \div b  r == a % b
<1>2. q \in Nat /\ r \in Nat /\ a = b * q + r
  BY <1>1
<1> HIDE DEF q, r
<1>3. b * q >= q /\ b * q >= 0
  BY <1>2
<1>4. q <= a /\ r <= a
  BY <1>2, <1>3
<1>5. a < b => q = 0
  <2>1. q >= 1 => b * q >= b
    BY <1>2
  <2>2. QED BY <1>2, <2>1
<1>6. a < b => r = a
  BY <1>2, <1>5
<1>7. QED BY <1>1, <1>4, <1>6 DEF q, r

LEMMA Quotient ==
  ASSUME NEW b \in Nat \ {0}, NEW q \in Nat, NEW r \in 0..(b - 1)
  PROVE  (b * q + r) \div b = q /\ (b * q + r) % b = r
OBVIOUS

-----------------------------------------------------------------------------
(* Strings. *)

(* A region that a 0 byte ends somewhere. *)
Ended(s, m) == DOMAIN s = 0..m /\ \E k \in 0..m : s[k] = 0

(* The first place of that kind. *)
IsLength(s, n) == n \in DOMAIN s /\ s[n] = 0 /\ \A a \in 0..(n - 1) : s[a] # 0

LEMMA StrlenType ==
  ASSUME NEW s, NEW m \in Nat, Ended(s, m)
  PROVE  IsLength(s, strlen(s)) /\ strlen(s) \in 0..m
<1> DEFINE T == {k \in 0..m : s[k] = 0}
<1>1. T \in SUBSET Nat /\ T # {}
  BY DEF Ended
<1>2. PICK n \in T : \A y \in T : n <= y
  BY <1>1, Least
<1>3. \A a \in 0..(n - 1) : s[a] # 0
  <2>1. SUFFICES ASSUME NEW a \in 0..(n - 1), s[a] = 0 PROVE FALSE
    OBVIOUS
  <2>2. a \in 0..m /\ a < n
    BY <1>2, <2>1
  <2>3. QED BY <1>2, <2>1, <2>2
<1>4. IsLength(s, n)
  BY <1>2, <1>3 DEF IsLength, Ended
<1>5. IsLength(s, strlen(s))
  BY <1>4 DEF strlen, IsLength
<1>6. QED BY <1>5 DEF IsLength, Ended

LEMMA StrlenUnique ==
  ASSUME NEW s, NEW m \in Nat, Ended(s, m), NEW n, IsLength(s, n)
  PROVE  strlen(s) = n
<1>1. IsLength(s, strlen(s)) /\ strlen(s) \in 0..m
  BY StrlenType
<1>2. n \in 0..m
  BY DEF IsLength, Ended
<1>3. ~(strlen(s) < n) /\ ~(n < strlen(s))
  BY <1>1, <1>2 DEF IsLength
<1>4. QED BY <1>1, <1>2, <1>3

(* strncmp with a name of n characters takes s1 exactly if that has the    *)
(* same ones; it never gets behind the 0 byte of s1.                       *)
LEMMA Strncmp ==
  ASSUME NEW s1, NEW k \in Nat, s1 \in [0..k -> Int], s1[k] = 0,
         NEW s2, NEW n \in Nat, \A a \in 0..(n - 1) : s2[a] \in Int /\ s2[a] # 0
  PROVE  strncmp(s1, s2, n) = 0 <=> \A a \in 0..(n - 1) : a <= k /\ s1[a] = s2[a]
<1> DEFINE T == {a \in 0..(n - 1) : Stops(s1, s2, a)}
<1>1. CASE \A a \in 0..(n - 1) : a <= k /\ s1[a] = s2[a]
  <2>1. ~ \E a \in 0..(n - 1) : Stops(s1, s2, a)
    BY <1>1 DEF Stops
  <2>2. QED BY <1>1, <2>1 DEF strncmp
<1>2. CASE ~ \A a \in 0..(n - 1) : a <= k /\ s1[a] = s2[a]
  <2>1. \A a \in 0..(n - 1) : a > k => k \in T
    BY DEF Stops
  <2>2. T # {}
    <3>1. PICK a \in 0..(n - 1) : ~(a <= k /\ s1[a] = s2[a])
      BY <1>2
    <3>2. a > k \/ Stops(s1, s2, a)
      BY <3>1 DEF Stops
    <3>3. QED BY <2>1, <3>2
  <2>3. T \in SUBSET Nat
    OBVIOUS
  <2>4. PICK t \in T : \A y \in T : t <= y
    BY <2>2, <2>3, Least
  <2> DEFINE First(a) == Stops(s1, s2, a) /\ \A b \in 0..(a - 1) : ~Stops(s1, s2, b)
             f == CHOOSE a \in 0..(n - 1) : First(a)
  <2>5. First(t)
    <3>1. SUFFICES ASSUME NEW b \in 0..(t - 1), Stops(s1, s2, b) PROVE FALSE
      BY <2>4
    <3>2. b \in T /\ b < t
      BY <2>4, <3>1
    <3>3. QED BY <2>4, <3>2
  <2>6. f \in 0..(n - 1) /\ First(f)
    <3>1. t \in 0..(n - 1)
      BY <2>4
    <3> HIDE DEF First
    <3>2. QED BY <2>5, <3>1
  <2>7. f <= k
    <3> HIDE DEF f
    <3>1. f > k => k \in 0..(f - 1)
      BY <2>6
    <3>2. f > k => Stops(s1, s2, k)
      BY <2>1, <2>6
    <3>3. QED BY <2>6, <3>1, <3>2
  <2>8. s1[f] # s2[f]
    BY <2>6, <2>7 DEF Stops
  <2>9. strncmp(s1, s2, n) = s1[f] - s2[f]
    BY <2>2 DEF strncmp
  <2> HIDE DEF f, First
  <2>10. s1[f] \in Int /\ s2[f] \in Int
    BY <2>6, <2>7
  <2>11. strncmp(s1, s2, n) # 0
    BY <2>8, <2>9, <2>10
  <2>12. QED BY <1>2, <2>11
<1>3. QED BY <1>1, <1>2

-----------------------------------------------------------------------------
(* Printed numbers: the digits itoa comes by, and their value. *)

digitsOf[v \in Nat] == IF v = 0 THEN <<>> ELSE <<v % 10>> \o digitsOf[v \div 10]
Digit == 0..9

LEMMA DigitsExist ==
  \E f : f = [v \in Nat |-> IF v = 0 THEN <<>> ELSE <<v % 10>> \o f[v \div 10]]
<1> DEFINE S == Seq(Digit)
           step == [p \in Nat \X S |-> <<p[1] % 10>> \o p[2]]
           before == [n \in Nat |-> n \div 10]
<1>1. ASSUME NEW n \in Nat
      PROVE  /\ n % 10 \in Digit /\ n \div 10 \in Nat
             /\ n # 0 => n \div 10 < n
  BY DEF Digit
<1>2. <<>> \in S
  OBVIOUS
<1>3. step \in [Nat \X S -> S]
  <2>1. ASSUME NEW n \in Nat, NEW s \in S PROVE <<n % 10>> \o s \in S
    BY <1>1
  <2>2. \A p \in Nat \X S : <<p[1] % 10>> \o p[2] \in S
    BY <2>1
  <2>3. QED BY <2>2
<1>4. before \in [Nat -> Nat] /\ \A n \in Nat \ {0} : before[n] < n
  BY <1>1
<1>5. Scheme(S, <<>>, step, before)
  BY <1>2, <1>3, <1>4 DEF Scheme
<1> HIDE DEF S, step, before
<1>6. PICK f \in [Nat -> S] :
        f[0] = <<>> /\ \A n \in Nat \ {0} : f[n] = step[<<n, f[before[n]]>>]
  BY <1>5, Recursion
<1>7. ASSUME NEW n \in Nat \ {0} PROVE f[n] = <<n % 10>> \o f[n \div 10]
  <2>1. n \div 10 \in Nat /\ before[n] = n \div 10 /\ f[n \div 10] \in S
    BY <1>1, <1>6 DEF before
  <2>2. step[<<n, f[n \div 10]>>] = <<n % 10>> \o f[n \div 10]
    BY <2>1 DEF step
  <2>3. QED BY <1>6, <2>1, <2>2
<1>8. f = [v \in Nat |-> IF v = 0 THEN <<>> ELSE <<v % 10>> \o f[v \div 10]]
  BY <1>6, <1>7
<1>9. QED BY <1>8

LEMMA DigitsDef ==
  /\ digitsOf[0] = <<>>
  /\ \A v \in Nat \ {0} : digitsOf[v] = <<v % 10>> \o digitsOf[v \div 10]
<1>1. digitsOf = [v \in Nat |-> IF v = 0 THEN <<>> ELSE <<v % 10>> \o digitsOf[v \div 10]]
  BY DigitsExist DEF digitsOf
<1> HIDE DEF digitsOf
<1>2. QED BY <1>1

LEMMA ItoaDef ==
  ASSUME NEW value \in Nat
  PROVE  Decimal(value) = IF value = 0 THEN <<0>> ELSE strrev(digitsOf[value])
<1>1. ~(value < 0)
  OBVIOUS
<1>2. QED BY <1>1 DEF Decimal, itoa, digitsOf

(* The value of a sequence of digits is built up from its front. *)
LEMMA ValueExists ==
  ASSUME NEW s \in Seq(Digit)
  PROVE  \E f : f = [k \in 0..Len(s) |-> IF k = 0 THEN 0 ELSE 10 * f[k - 1] + s[k]]
<1> DEFINE step == [p \in Nat \X Nat |->
                      IF p[1] \in 1..Len(s) THEN 10 * p[2] + s[p[1]] ELSE 0]
           before == [n \in Nat |-> IF n = 0 THEN 0 ELSE n - 1]
<1>1. Len(s) \in Nat /\ \A k \in 1..Len(s) : s[k] \in Nat
  BY DEF Digit
<1>2. step \in [Nat \X Nat -> Nat]
  <2>1. ASSUME NEW k \in Nat, NEW x \in Nat
        PROVE  (IF k \in 1..Len(s) THEN 10 * x + s[k] ELSE 0) \in Nat
    BY <1>1
  <2>2. \A p \in Nat \X Nat :
          (IF p[1] \in 1..Len(s) THEN 10 * p[2] + s[p[1]] ELSE 0) \in Nat
    BY <2>1
  <2>3. QED BY <2>2
<1>3. before \in [Nat -> Nat] /\ \A n \in Nat \ {0} : before[n] < n
  OBVIOUS
<1>4. Scheme(Nat, 0, step, before)
  BY <1>2, <1>3 DEF Scheme
<1>5. \A n \in Nat \ {0} : before[n] = n - 1
  OBVIOUS
<1>6. \A k \in 1..Len(s), x \in Nat : step[<<k, x>>] = 10 * x + s[k]
  BY <1>1
<1> HIDE DEF step, before
<1>7. PICK f \in [Nat -> Nat] :
        f[0] = 0 /\ \A n \in Nat \ {0} : f[n] = step[<<n, f[before[n]]>>]
  BY <1>4, Recursion
<1> DEFINE w == [k \in 0..Len(s) |-> f[k]]
<1>8. ASSUME NEW k \in 0..Len(s)
      PROVE  w[k] = IF k = 0 THEN 0 ELSE 10 * w[k - 1] + s[k]
  <2>1. CASE k = 0
    BY <1>7, <2>1
  <2>2. CASE k # 0
    <3>1. k \in 1..Len(s) /\ k \in Nat \ {0} /\ k - 1 \in 0..Len(s) /\ k - 1 \in Nat
      BY <1>1, <2>2
    <3>2. f[k] = step[<<k, f[k - 1]>>]
      BY <1>5, <1>7, <3>1
    <3>3. f[k] = 10 * f[k - 1] + s[k]
      BY <1>6, <1>7, <3>1, <3>2
    <3>4. w[k] = f[k] /\ w[k - 1] = f[k - 1]
      BY <3>1
    <3> HIDE DEF w
    <3>5. QED BY <2>2, <3>3, <3>4
  <2>3. QED BY <2>1, <2>2
<1>9. w = [k \in 0..Len(s) |-> w[k]]
  OBVIOUS
<1> HIDE DEF w
<1>10. w = [k \in 0..Len(s) |-> IF k = 0 THEN 0 ELSE 10 * w[k - 1] + s[k]]
  BY <1>8, <1>9
<1>11. QED BY <1>10

LEMMA ValueDef ==
  ASSUME NEW s \in Seq(Digit)
  PROVE  \E w : /\ w[0] = 0 /\ Value(s) = w[Len(s)]
                /\ \A k \in 1..Len(s) : w[k] = 10 * w[k - 1] + s[k]
<1> DEFINE v[k \in 0..Len(s)] == IF k = 0 THEN 0 ELSE 10 * v[k - 1] + s[k]
<1>1. v = [k \in 0..Len(s) |-> IF k = 0 THEN 0 ELSE 10 * v[k - 1] + s[k]]
  BY ValueExists
<1>2. Value(s) = v[Len(s)]
  BY DEF Value
<1> HIDE DEF v
<1>3. Len(s) \in Nat /\ \A k \in 1..Len(s) : k # 0 /\ k \in 0..Len(s)
  OBVIOUS
<1>4. v[0] = 0 /\ \A k \in 1..Len(s) : v[k] = 10 * v[k - 1] + s[k]
  BY <1>1, <1>3
<1>5. QED BY <1>2, <1>4

LEMMA ValueAppend ==
  /\ Value(<<>>) = 0
  /\ \A s \in Seq(Digit), x \in Digit :
       Value(s) \in Int /\ Value(Append(s, x)) = 10 * Value(s) + x
<1>1. Value(<<>>) = 0
  <2>1. <<>> \in Seq(Digit) /\ Len(<<>>) = 0
    BY EmptySeq
  <2>2. PICK w : w[0] = 0 /\ Value(<<>>) = w[0]
    BY <2>1, ValueDef
  <2>3. QED BY <2>2
<1>2. ASSUME NEW s \in Seq(Digit), NEW x \in Digit
      PROVE  Value(s) \in Int /\ Value(Append(s, x)) = 10 * Value(s) + x
  <2> DEFINE n == Len(s)  t == Append(s, x)
  <2>1. /\ t \in Seq(Digit) /\ n \in Nat /\ Len(t) = n + 1 /\ t[n + 1] = x
        /\ \A k \in 1..n : t[k] = s[k] /\ s[k] \in Int
    BY AppendProperties DEF Digit
  <2> HIDE DEF t
  <2>2. PICK w : /\ w[0] = 0 /\ Value(s) = w[n]
                 /\ \A k \in 1..n : w[k] = 10 * w[k - 1] + s[k]
    BY ValueDef
  <2>3. PICK u : /\ u[0] = 0 /\ Value(t) = u[n + 1]
                 /\ \A k \in 1..(n + 1) : u[k] = 10 * u[k - 1] + t[k]
    BY <2>1, ValueDef
  <2> HIDE DEF n
  <2>4. \A k \in 0..n : u[k] = w[k] /\ w[k] \in Int
    <3> DEFINE Bad == {k \in 0..n : ~(u[k] = w[k] /\ w[k] \in Int)}
    <3>1. SUFFICES ASSUME Bad # {} PROVE FALSE
      OBVIOUS
    <3>2. Bad \in SUBSET Nat
      BY <2>1
    <3>3. PICK k \in Bad : \A y \in Bad : k <= y
      BY <3>1, <3>2, Least
    <3>4. k \in 0..n /\ ~(u[k] = w[k] /\ w[k] \in Int)
      BY <3>3
    <3>5. k # 0
      BY <2>2, <2>3, <3>4
    <3>6. k \in 1..n /\ k \in 1..(n + 1) /\ k - 1 \in 0..n
      BY <2>1, <3>4, <3>5
    <3>7. k - 1 \notin Bad
      BY <2>1, <3>3, <3>4, <3>6
    <3>8. u[k - 1] = w[k - 1] /\ w[k - 1] \in Int
      BY <3>6, <3>7
    <3>9. w[k] = 10 * w[k - 1] + s[k] /\ u[k] = 10 * u[k - 1] + s[k] /\ s[k] \in Int
      BY <2>1, <2>2, <2>3, <3>6
    <3>10. QED BY <3>4, <3>8, <3>9
  <2>5. u[n] = w[n] /\ w[n] \in Int
    BY <2>1, <2>4
  <2>6. u[n + 1] = 10 * u[n] + x
    <3>1. n + 1 \in 1..(n + 1) /\ (n + 1) - 1 = n
      BY <2>1
    <3>2. QED BY <2>1, <2>3, <3>1
  <2>7. QED BY <2>2, <2>3, <2>5, <2>6 DEF t
<1>3. QED BY <1>1, <1>2

LEMMA Digits ==
  \A v \in Nat : digitsOf[v] \in Seq(Digit)
<1> DEFINE Bad == {v \in Nat : digitsOf[v] \notin Seq(Digit)}
<1>1. SUFFICES ASSUME Bad # {} PROVE FALSE
  OBVIOUS
<1>2. Bad \in SUBSET Nat
  OBVIOUS
<1>3. PICK v \in Bad : \A y \in Bad : v <= y
  BY <1>1, <1>2, Least
<1>4. v \in Nat /\ digitsOf[v] \notin Seq(Digit)
  BY <1>3
<1> HIDE DEF digitsOf
<1>5. v # 0
  <2>1. <<>> \in Seq(Digit)
    BY EmptySeq
  <2>2. QED BY <1>4, <2>1, DigitsDef
<1>6. v \div 10 \in Nat /\ v \div 10 < v /\ v % 10 \in Digit
  BY <1>4, <1>5 DEF Digit
<1>7. digitsOf[v \div 10] \in Seq(Digit)
  <2>1. v \div 10 \notin Bad
    BY <1>3, <1>4, <1>6
  <2>2. QED BY <1>6, <2>1
<1>8. digitsOf[v] = <<v % 10>> \o digitsOf[v \div 10]
  BY <1>4, <1>5, DigitsDef
<1>9. <<v % 10>> \in Seq(Digit)
  BY <1>6
<1>10. <<v % 10>> \o digitsOf[v \div 10] \in Seq(Digit)
  BY <1>7, <1>9, ConcatProperties
<1>11. QED BY <1>4, <1>8, <1>10

LEMMA Reversed ==
  ASSUME NEW s \in Seq(Digit), NEW x \in Digit
  PROVE  /\ strrev(<<>>) = <<>> /\ strrev(s) \in Seq(Digit)
         /\ strrev(<<x>> \o s) = Append(strrev(s), x)
<1> DEFINE n == Len(s)  t == <<x>> \o s
<1>1. n \in Nat /\ \A k \in 1..n : s[k] \in Digit
  OBVIOUS
<1>2. /\ t \in Seq(Digit) /\ Len(t) = n + 1 /\ t[1] = x
      /\ \A k \in 2..(n + 1) : t[k] = s[k - 1]
  <2>1. <<x>> \in Seq(Digit) /\ Len(<<x>>) = 1 /\ <<x>>[1] = x
    OBVIOUS
  <2>2. QED BY <1>1, <2>1, ConcatProperties
<1> HIDE DEF t
<1>3. \A k \in 1..(n + 1) : t[k] \in Digit
  BY <1>2
<1> HIDE DEF n
<1>4. strrev(s) = [k \in 1..n |-> s[n + 1 - k]]
  BY DEF strrev, n
<1>5. strrev(t) = [k \in 1..(n + 1) |-> t[n + 2 - k]]
  <2>1. \A k \in 1..(n + 1) : (n + 1) + 1 - k = n + 2 - k
    BY <1>1
  <2>2. QED BY <1>2, <2>1 DEF strrev
<1>6. strrev(s) \in [1..n -> Digit]
  <2>1. \A k \in 1..n : n + 1 - k \in 1..n
    BY <1>1
  <2>2. QED BY <1>1, <1>4, <2>1
<1>7. strrev(t) \in [1..(n + 1) -> Digit]
  <2>1. \A k \in 1..(n + 1) : n + 2 - k \in 1..(n + 1)
    BY <1>1
  <2>2. QED BY <1>3, <1>5, <2>1
<1>8. \A k \in 1..n : strrev(t)[k] = strrev(s)[k]
  <2>1. SUFFICES ASSUME NEW k \in 1..n PROVE strrev(t)[k] = strrev(s)[k]
    OBVIOUS
  <2>2. k \in 1..(n + 1) /\ n + 2 - k \in 2..(n + 1) /\ (n + 2 - k) - 1 = n + 1 - k
    BY <1>1
  <2>3. strrev(t)[k] = t[n + 2 - k] /\ strrev(s)[k] = s[n + 1 - k]
    BY <1>4, <1>5, <2>2
  <2>4. QED BY <1>2, <2>2, <2>3
<1>9. strrev(t)[n + 1] = x
  <2>1. n + 1 \in 1..(n + 1) /\ n + 2 - (n + 1) = 1
    BY <1>1
  <2>2. QED BY <1>2, <1>5, <2>1
<1>10. strrev(t) = Append(strrev(s), x)
  BY <1>1, <1>6, <1>7, <1>8, <1>9, OneMore
<1>11. strrev(s) \in Seq(Digit)
  BY <1>1, <1>6, FunctionIsSeq
<1>12. strrev(<<>>) = <<>>
  <2>1. Len(<<>>) = 0
    BY EmptySeq
  <2>2. \A f : f \in [1..0 -> Digit] => f \in Seq(Digit) /\ Len(f) = 0
    BY FunctionIsSeq
  <2>3. strrev(<<>>) = [k \in 1..0 |-> <<>>[0 + 1 - k]]
    BY <2>1 DEF strrev
  <2>4. [k \in 1..0 |-> <<>>[0 + 1 - k]] \in [1..0 -> Digit]
    <3>1. 1..0 = {}
      OBVIOUS
    <3>2. QED BY <3>1
  <2>5. QED BY <2>2, <2>3, <2>4, EmptySeq
<1>13. QED BY <1>10, <1>11, <1>12 DEF t

(* itoa prints every number so that its digits have that value.            *)
LEMMA DecimalValue ==
  ASSUME NEW value \in Nat
  PROVE  Value(Decimal(value)) = value
<1> DEFINE D(v) == strrev(digitsOf[v])
           Bad == {v \in Nat : Value(D(v)) # v}
<1>1. \A v \in Nat \ {0} : v % 10 \in Digit /\ v \div 10 \in Nat
                           /\ v \div 10 < v /\ v = 10 * (v \div 10) + (v % 10)
  BY DEF Digit
<1>2. \A v \in Nat : Value(D(v)) = v
  <2>1. SUFFICES ASSUME Bad # {} PROVE FALSE
    OBVIOUS
  <2>2. Bad \in SUBSET Nat
    OBVIOUS
  <2>3. PICK v \in Bad : \A y \in Bad : v <= y
    BY <2>1, <2>2, Least
  <2>4. v \in Nat /\ Value(D(v)) # v
    BY <2>3
  <2>5. CASE v = 0
    <3>1. <<>> \in Seq(Digit) /\ 0 \in Digit
      BY EmptySeq DEF Digit
    <3>2. D(0) = <<>>
      BY <3>1, DigitsDef, Reversed
    <3>3. QED BY <2>4, <2>5, <3>2, ValueAppend
  <2>6. CASE v # 0
    <3> DEFINE q == v \div 10  r == v % 10
    <3>1. r \in Digit /\ q \in Nat /\ q < v /\ v = 10 * q + r
      BY <1>1, <2>4, <2>6
    <3>2. digitsOf[q] \in Seq(Digit) /\ digitsOf[v] = <<r>> \o digitsOf[q]
      BY <2>4, <2>6, <3>1, Digits, DigitsDef
    <3>3. q \notin Bad
      BY <2>3, <2>4, <3>1
    <3> HIDE DEF q, r
    <3>4. Value(D(q)) = q
      BY <3>1, <3>3
    <3>5. D(q) \in Seq(Digit) /\ D(v) = Append(D(q), r)
      BY <3>1, <3>2, Reversed
    <3> HIDE DEF D
    <3>6. Value(D(v)) = 10 * Value(D(q)) + r
      BY <3>1, <3>5, ValueAppend
    <3>7. QED BY <2>4, <3>1, <3>4, <3>6
  <2>7. QED BY <2>5, <2>6
<1>3. CASE value = 0
  <2>1. Decimal(value) = Append(<<>>, 0)
    BY <1>3, ItoaDef
  <2>2. <<>> \in Seq(Digit) /\ 0 \in Digit
    BY EmptySeq DEF Digit
  <2>3. Value(Append(<<>>, 0)) = 10 * Value(<<>>) + 0
    BY <2>2, ValueAppend
  <2>4. QED BY <1>3, <2>1, <2>3, ValueAppend
<1>4. CASE value # 0
  <2>1. Decimal(value) = D(value)
    BY <1>4, ItoaDef
  <2>2. QED BY <1>2, <2>1
<1>5. QED BY <1>3, <1>4

-----------------------------------------------------------------------------
(* Dentries. *)

LEMMA Layout ==
  /\ FILE_NAME_LENGTH \in Nat /\ FILE_NAME_LENGTH >= 8
  /\ TYPE = FILE_NAME_LENGTH /\ INODE = FILE_NAME_LENGTH + 4
  /\ RESERVED = FILE_NAME_LENGTH + 8 /\ RESERVED \in Nat
  /\ \A a : a \in Addresses <=> a \in Nat /\ a <= RESERVED
BY LayoutAssumption DEF TYPE, INODE, RESERVED, Addresses

(* What the assumptions say of one dentry. *)
LEMMA Image ==
  ASSUME NEW i \in Indices
  PROVE  /\ Dentries[i].file_name \in [0..(FILE_NAME_LENGTH - 1) -> Bytes]
         /\ Dentries[i].file_type \in 0..2
         /\ Dentries[i].inode_index \in DOMAIN IndexNodes
         /\ Dentries[i].inode_index \in Bytes /\ Dentries[i].inode_index \in Nat
<1>1. Bytes \subseteq Nat
  BY DEF Bytes
<1>2. QED BY <1>1, ImageAssumption

LEMMA DirectoryType ==
  ASSUME NEW i \in Indices
  PROVE  /\ Directory[i] \in [Addresses -> Bytes] /\ Directory[i][RESERVED] = 0
         /\ \A a \in Addresses : a < TYPE => Directory[i][a] = Dentries[i].file_name[a]
         /\ Directory[i][TYPE] = Dentries[i].file_type
         /\ Directory[i][INODE] = Dentries[i].inode_index
         /\ \A a \in Addresses : a > TYPE /\ a # INODE => Directory[i][a] = 0
<1>1. Directory[i] = DentryBytes(Dentries[i])
  BY DEF Directory
<1>2. \A a \in Addresses :
        Directory[i][a] = IF a < TYPE THEN Dentries[i].file_name[a]
                          ELSE IF a = TYPE THEN Dentries[i].file_type
                          ELSE IF a = INODE THEN Dentries[i].inode_index ELSE 0
  BY <1>1 DEF DentryBytes
<1>3. RESERVED \in Addresses /\ TYPE \in Addresses /\ INODE \in Addresses
  BY Layout
<1>4. /\ Directory[i][RESERVED] = 0
      /\ \A a \in Addresses : a < TYPE => Directory[i][a] = Dentries[i].file_name[a]
      /\ Directory[i][TYPE] = Dentries[i].file_type
      /\ Directory[i][INODE] = Dentries[i].inode_index
      /\ \A a \in Addresses : a > TYPE /\ a # INODE => Directory[i][a] = 0
  BY <1>2, <1>3, Layout
<1>5. \A a \in Addresses : a < TYPE => Dentries[i].file_name[a] \in Bytes
  BY Image, Layout
<1>6. Dentries[i].file_type \in Bytes /\ Dentries[i].inode_index \in Bytes /\ 0 \in Bytes
  BY Image DEF Bytes
<1>7. \A a \in Addresses : Directory[i][a] \in Bytes
  BY <1>2, <1>5, <1>6
<1>8. Directory[i] \in [Addresses -> Bytes]
  BY <1>1, <1>7 DEF DentryBytes
<1>9. QED BY <1>4, <1>8

(* The length of a dentry's name, as strlen counts it. *)
LEMMA NameLength ==
  ASSUME NEW i \in Indices
  PROVE  /\ strlen(Directory[i]) \in Nat /\ strlen(Directory[i]) \in Addresses
         /\ Directory[i][strlen(Directory[i])] = 0
         /\ \A a \in 0..(strlen(Directory[i]) - 1) :
              a \in Addresses /\ Directory[i][a] # 0 /\ Directory[i][a] \in Bytes
         /\ i \in Named <=> strlen(Directory[i]) # 0
         /\ i \in Named <=> Directory[i][0] # 0
<1> DEFINE n == strlen(Directory[i])
<1>1. Ended(Directory[i], RESERVED)
  BY DirectoryType, Layout DEF Ended, Addresses
<1>2. IsLength(Directory[i], n) /\ n \in 0..RESERVED
  BY <1>1, StrlenType, Layout
<1>3. n \in Nat /\ n \in Addresses
  BY <1>2, Layout
<1>4. Directory[i][n] = 0 /\ \A a \in 0..(n - 1) : Directory[i][a] # 0
  BY <1>2 DEF IsLength
<1>5. \A a \in 0..(n - 1) : a \in Addresses
  BY <1>3, Layout
<1>6. \A a \in 0..(n - 1) : Directory[i][a] \in Bytes
  BY <1>5, DirectoryType
<1>7. Directory[i][0] = Dentries[i].file_name[0]
  BY DirectoryType, Layout
<1>8. i \in Named <=> Directory[i][0] # 0
  BY <1>7 DEF Named
<1>9. Directory[i][0] # 0 <=> n # 0
  BY <1>3, <1>4
<1>10. QED BY <1>3, <1>4, <1>5, <1>6, <1>8, <1>9

(* A character that stands in a name. *)
LEMMA Characters ==
  ASSUME NEW i \in Indices, NEW a \in Addresses, a < TYPE, Directory[i][a] # 0
  PROVE  /\ Directory[i][a] # Blank
         /\ \A j \in Named : Directory[i][a] > j
         /\ a = 4 => \A j \in Named : Directory[i][a] > Dentries[j].inode_index
<1>1. Directory[i][a] = Dentries[i].file_name[a]
  BY DirectoryType
<1>2. a \in 0..(FILE_NAME_LENGTH - 1)
  BY Layout
<1>3. QED BY <1>1, <1>2, ImageAssumption

(* The named dentries come first, and there are few of them. *)
LEMMA NamedFirst ==
  /\ Named \subseteq Indices /\ Indices \subseteq Nat
  /\ \A i \in Named : i < 127
  /\ \A i \in Named, j \in Indices \ Named : i < j
<1>1. Named \subseteq Indices /\ Indices \subseteq Nat
  BY LayoutAssumption DEF Named, Indices
<1>2. ASSUME NEW i \in Named PROVE i < 127
  <2>1. i \in Indices /\ i \in Nat /\ Directory[i][0] # 0 /\ Directory[i][0] \in Bytes
    BY <1>1, NameLength, DirectoryType, Layout
  <2>2. Directory[i][0] > i
    BY <2>1, Characters, Layout
  <2>3. QED BY <2>1, <2>2 DEF Bytes
<1>3. PICK k \in Indices : \A j \in Indices : j \in Named <=> j < k
  BY ImageAssumption
<1>4. \A i \in Named, j \in Indices \ Named : i < j
  BY <1>1, <1>3
<1>5. QED BY <1>1, <1>2, <1>4

LEMMA NamedCount ==
  /\ Cardinality(Named) \in Indices /\ Cardinality(Named) \in Nat
  /\ \A j \in Indices : j \in Named <=> j < Cardinality(Named)
<1>1. PICK k \in Indices : \A j \in Indices : j \in Named <=> j < k
  BY ImageAssumption
<1>2. k \in Nat /\ Named = 0..(k - 1)
  <2>1. k \in Nat /\ \A j : j \in Indices <=> j \in Nat /\ j <= DENTRY_LENGTH - 1
    BY LayoutAssumption DEF Indices
  <2>2. k <= DENTRY_LENGTH - 1
    BY <2>1
  <2>3. \A j : j \in Named <=> j \in Indices /\ j < k
    BY <1>1, NamedFirst
  <2>4. \A j : j \in Named <=> j \in 0..(k - 1)
    BY <2>1, <2>2, <2>3, LayoutAssumption
  <2>5. QED BY <2>1, <2>4
<1>3. Cardinality(Named) = k
  <2>1. Cardinality(0..(k - 1)) = IF 0 > k - 1 THEN 0 ELSE k - 1 - 0 + 1
    BY <1>2, FS_Interval
  <2>2. QED BY <1>2, <2>1
<1>4. QED BY <1>1, <1>2, <1>3

-----------------------------------------------------------------------------
(* Words. *)

LEMMA WordType ==
  ASSUME NEW m \in [Addresses -> Bytes], NEW a \in Nat, a + 3 <= RESERVED
  PROVE  /\ Word(m, a) \in Nat /\ Word(m, a) >= m[a] /\ m[a] \in Bytes
         /\ (m[a] = 0 => Word(m, a) = 0 \/ Word(m, a) >= 256)
         /\ (m[a + 1] = 0 /\ m[a + 2] = 0 /\ m[a + 3] = 0 => Word(m, a) = m[a])
<1>1. a \in Addresses /\ a + 1 \in Addresses /\ a + 2 \in Addresses /\ a + 3 \in Addresses
  BY Layout
<1>2. m[a] \in Nat /\ m[a + 1] \in Nat /\ m[a + 2] \in Nat /\ m[a + 3] \in Nat
  BY <1>1 DEF Bytes
<1>3. QED BY <1>1, <1>2 DEF Word

LEMMA DentryWords ==
  ASSUME NEW i \in Indices
  PROVE  /\ Word(Directory[i], TYPE) = Dentries[i].file_type
         /\ Word(Directory[i], INODE) = Dentries[i].inode_index
<1>1. /\ Directory[i][TYPE + 1] = 0 /\ Directory[i][TYPE + 2] = 0
      /\ Directory[i][TYPE + 3] = 0 /\ Directory[i][INODE + 1] = 0
      /\ Directory[i][INODE + 2] = 0 /\ Directory[i][INODE + 3] = 0
  BY DirectoryType, Layout
<1>2. TYPE \in Nat /\ TYPE + 3 <= RESERVED /\ INODE \in Nat /\ INODE + 3 <= RESERVED
  BY Layout
<1>3. QED BY <1>1, <1>2, WordType, DirectoryType

-----------------------------------------------------------------------------
(* Lookups. *)

(* What a lookup leaves of the dentry it found. *)
LEMMA CopyType ==
  ASSUME NEW to \in [Addresses -> Bytes], NEW i \in Indices
  PROVE  LET copy == CopyDentry(to, Directory[i])
         IN  /\ copy \in [Addresses -> Bytes] /\ copy[RESERVED] = 0
             /\ \A a \in Addresses : a <= strlen(Directory[i]) => copy[a] = Directory[i][a]
             /\ \A a \in Addresses : strlen(Directory[i]) < a /\ a < TYPE => copy[a] = to[a]
             /\ Word(copy, INODE) = Dentries[i].inode_index
<1> DEFINE n == strlen(Directory[i])  from == Directory[i]
           copy == CopyDentry(to, from)
<1>1. n \in Nat /\ n <= RESERVED
  BY NameLength, Layout
<1>2. /\ from \in [Addresses -> Bytes] /\ from[RESERVED] = 0
      /\ from[INODE] = Dentries[i].inode_index
      /\ from[INODE + 1] = 0 /\ from[INODE + 2] = 0 /\ from[INODE + 3] = 0
  BY DirectoryType, Layout
<1>3. \A a \in Addresses :
        strcpy(to, 0, from)[a] = IF a <= n THEN from[a] ELSE to[a]
  <2>1. ASSUME NEW a \in Addresses
        PROVE  (a \in 0..(0 + n) <=> a <= n) /\ a - 0 = a
    BY <1>1, Layout
  <2>2. strcpy(to, 0, from) =
          [a \in Addresses |-> IF a \in 0..(0 + n) THEN from[a - 0] ELSE to[a]]
    BY DEF strcpy
  <2> HIDE DEF from, n
  <2>3. QED BY <2>1, <2>2
<1>4. \A a \in Addresses :
        copy[a] = IF a \in TYPE..(RESERVED - 1) THEN from[a] ELSE IF a = RESERVED THEN 0
                  ELSE IF a <= n THEN from[a] ELSE to[a]
  BY <1>3 DEF CopyDentry
<1>5. copy = [a \in Addresses |-> copy[a]]
  BY DEF CopyDentry
<1>6. RESERVED \in Addresses /\ ~(RESERVED \in TYPE..(RESERVED - 1))
  BY Layout
<1>7. \A a \in {INODE, INODE + 1, INODE + 2, INODE + 3} :
        a \in Addresses /\ a \in TYPE..(RESERVED - 1)
  BY Layout
<1> HIDE DEF copy, from, n
<1>8. 0 \in Bytes
  BY DEF Bytes
<1>9. copy \in [Addresses -> Bytes]
  <2>1. \A a \in Addresses : copy[a] \in Bytes
    BY <1>2, <1>4, <1>8
  <2>2. QED BY <1>5, <2>1
<1>10. copy[RESERVED] = 0
  BY <1>4, <1>6
<1>11. \A a \in Addresses : a <= n => copy[a] = from[a]
  BY <1>2, <1>4
<1>12. /\ copy[INODE] = from[INODE] /\ copy[INODE + 1] = from[INODE + 1]
       /\ copy[INODE + 2] = from[INODE + 2] /\ copy[INODE + 3] = from[INODE + 3]
  BY <1>4, <1>7
<1>13. Word(copy, INODE) = Dentries[i].inode_index
  BY <1>2, <1>9, <1>12, WordType, Layout
<1>14. \A a \in Addresses : n < a /\ a < TYPE => copy[a] = to[a]
  BY <1>1, <1>4, Layout
<1>15. QED BY <1>9, <1>10, <1>11, <1>13, <1>14 DEF copy, from, n

(* A lookup takes the first dentry that matches. *)
LEMMA Looks ==
  ASSUME NEW fname
  PROVE  LET found == read_dentry_by_name(fname)
         IN  \/ found = failure /\ (fname = NULL \/ Matches(fname) = {})
             \/ /\ found \in Indices /\ found # failure /\ found \in Matches(fname)
                /\ \A j \in Matches(fname) : found <= j
<1>1. CASE fname = NULL \/ Matches(fname) = {}
  BY <1>1 DEF read_dentry_by_name
<1>2. CASE ~(fname = NULL \/ Matches(fname) = {})
  <2>1. Matches(fname) \in SUBSET Nat /\ Matches(fname) \subseteq Indices
    BY NamedFirst DEF Matches
  <2>2. \E i \in Matches(fname) : \A j \in Matches(fname) : i <= j
    BY <1>2, <2>1, Least
  <2> DEFINE found == CHOOSE i \in Matches(fname) : \A j \in Matches(fname) : i <= j
  <2>3. found \in Matches(fname) /\ \A j \in Matches(fname) : found <= j
    BY <2>2
  <2>4. read_dentry_by_name(fname) = found
    BY <1>2 DEF read_dentry_by_name
  <2> HIDE DEF found
  <2>5. found \in Indices /\ found \in Nat
    BY <2>1, <2>3
  <2>6. found # failure
    BY <2>5 DEF failure
  <2>7. QED BY <2>3, <2>4, <2>5, <2>6
<1>3. QED BY <1>1, <1>2

(* The counts after any lookup cover what they covered. *)
LEMMA Covers == HeaderInv => CountCovers /\ dentry_num \in Nat
<1> SUFFICES ASSUME HeaderInv PROVE CountCovers /\ dentry_num \in Nat
  OBVIOUS
<1>1. header \in [Addresses -> Bytes] /\ 0 + 3 <= RESERVED
  BY Layout DEF HeaderInv
<1>2. /\ dentry_num \in Nat /\ dentry_num >= header[0] /\ header[0] \in Bytes
      /\ header[0] = 0 => dentry_num = 0 \/ dentry_num >= 256
  BY <1>1, WordType DEF dentry_num
<1>3. ASSUME dentry_num # 0, NEW i \in Named PROVE i < dentry_num
  <2>1. i \in Nat /\ i < 127
    BY NamedFirst
  <2>2. CASE header[0] = 0
    BY <1>2, <1>3, <2>1, <2>2
  <2>3. CASE header[0] > i
    BY <1>2, <2>1, <2>3 DEF Bytes
  <2>4. QED BY <2>2, <2>3 DEF HeaderInv
<1>4. QED BY <1>2, <1>3 DEF CountCovers

LEMMA ThroughHeader ==
  ASSUME HeaderInv, NEW fname, ThroughCurdentry(fname)
  PROVE  /\ HeaderInv'
         /\ read_dentry_by_name(fname) = failure => header' = header
         /\ read_dentry_by_name(fname) # failure =>
              header' = CopyDentry(header, Directory[read_dentry_by_name(fname)])
<1> DEFINE found == read_dentry_by_name(fname)
<1>1. header' = IF found = failure THEN header ELSE CopyDentry(header, Directory[found])
  BY DEF ThroughCurdentry
<1>2. found = failure \/ found \in Indices
  BY Looks
<1> HIDE DEF found
<1>3. ASSUME found = failure PROVE HeaderInv'
  BY <1>1, <1>3 DEF HeaderInv
<1>4. ASSUME found # failure, found \in Indices PROVE HeaderInv'
  <2>1. /\ header' \in [Addresses -> Bytes] /\ header'[RESERVED] = 0
        /\ \A a \in Addresses : a <= strlen(Directory[found]) => header'[a] = Directory[found][a]
    BY <1>1, <1>4, CopyType DEF HeaderInv
  <2>2. 0 \in Addresses /\ 0 < TYPE /\ 0 <= strlen(Directory[found])
    BY <1>4, Layout, NameLength
  <2>3. header'[0] = Directory[found][0]
    BY <2>1, <2>2
  <2>4. header'[0] = 0 \/ \A i \in Named : header'[0] > i
    BY <1>4, <2>2, <2>3, Characters
  <2>5. header'[4] = 0 \/ \A i \in Named : header'[4] >= Dentries[i].inode_index
    <3> DEFINE n == strlen(Directory[found])
    <3>1. 4 \in Addresses /\ 4 < TYPE /\ n \in Nat
      BY <1>4, Layout, NameLength
    <3>2. CASE 4 <= n
      <4>1. header'[4] = Directory[found][4] /\ header'[4] \in Bytes
        BY <2>1, <3>1, <3>2
      <4>2. \A i \in Named : Dentries[i].inode_index \in Nat
        BY Image, NamedFirst
      <4>3. header'[4] # 0 => \A i \in Named : header'[4] > Dentries[i].inode_index
        BY <1>4, <3>1, <4>1, Characters
      <4>4. QED BY <4>1, <4>2, <4>3 DEF Bytes
    <3>3. CASE n < 4
      <4>1. header'[4] = header[4]
        BY <1>1, <1>4, <3>1, <3>3, CopyType DEF HeaderInv
      <4>2. QED BY <4>1 DEF HeaderInv
    <3>4. QED BY <3>1, <3>2, <3>3
  <2>6. QED BY <2>1, <2>4, <2>5 DEF HeaderInv
<1>5. QED BY <1>1, <1>2, <1>3, <1>4 DEF found

LEMMA InitHeader == Init => HeaderInv
<1> SUFFICES ASSUME Init PROVE HeaderInv
  OBVIOUS
<1>1. header = [a \in Addresses |-> IF a = 0 THEN Cardinality(Named)
                                    ELSE IF a = 4 THEN INODES ELSE 0]
  BY DEF Init
<1>2. Cardinality(Named) \in Bytes /\ INODES \in Bytes /\ 0 \in Bytes
  BY ImageAssumption DEF Bytes
<1>3. 0 \in Addresses /\ RESERVED \in Addresses /\ RESERVED # 0 /\ RESERVED # 4
  BY Layout
<1>4. \A i \in Named : Cardinality(Named) > i
  BY NamedCount, NamedFirst
<1>5. 4 \in Addresses /\ \A i \in Named : INODES >= Dentries[i].inode_index
  <2>1. (\A n \in DOMAIN IndexNodes : n < INODES) /\ INODES \in Bytes
    BY ImageAssumption, Zenon
  <2>2. ASSUME NEW i \in Named PROVE INODES >= Dentries[i].inode_index
    <3>1. Dentries[i].inode_index \in DOMAIN IndexNodes /\ Dentries[i].inode_index \in Nat
      BY Image, NamedFirst
    <3>2. QED BY <2>1, <3>1 DEF Bytes
  <2>3. QED BY <2>2, Layout
<1>6. QED BY <1>1, <1>2, <1>3, <1>4, <1>5 DEF HeaderInv

(* A string against a dentry's name: the dentry's characters decide. *)
LEMMA Compare ==
  ASSUME NEW k \in Nat, NEW fname \in [0..k -> Bytes], fname[k] = 0, NEW j \in Indices
  PROVE  /\ strlen(Directory[j]) \in Nat
         /\ strncmp(fname, Directory[j], strlen(Directory[j])) = 0 <=>
              \A a \in 0..(strlen(Directory[j]) - 1) : a <= k /\ fname[a] = Directory[j][a]
<1>1. Bytes \subseteq Int
  BY DEF Bytes
<1>2. /\ strlen(Directory[j]) \in Nat
      /\ \A a \in 0..(strlen(Directory[j]) - 1) :
           Directory[j][a] \in Int /\ Directory[j][a] # 0
  BY <1>1, NameLength
<1>3. fname \in [0..k -> Int]
  BY <1>1
<1>4. QED BY <1>2, <1>3, Strncmp

(* A name, and behind it a 0 byte or a blank, finds its own dentry. *)
LEMMA OwnLookup ==
  ASSUME HeaderInv, NEW i \in Plain, NEW fname, NEW k \in Nat,
         fname \in [0..k -> Bytes], fname[k] = 0, strlen(Directory[i]) <= k,
         \A a \in 0..(strlen(Directory[i]) - 1) : fname[a] = Directory[i][a],
         fname[strlen(Directory[i])] \in {0, Blank}
  PROVE  read_dentry_by_name(fname) = i
         \/ (read_dentry_by_name(fname) = failure /\ dentry_num = 0)
<1> DEFINE n == strlen(Directory[i])
<1>1. i \in Named /\ i \in Indices /\ i \in Nat /\ n \in Nat /\ n < FILE_NAME_LENGTH
  BY NamedFirst, NameLength DEF Plain
<1>2. dentry_num \in Nat /\ CountCovers
  BY Covers
<1>3. fname # NULL
  <2>1. DOMAIN fname = 0..k /\ 0 \in 0..k /\ DOMAIN NULL = {}
    BY DEF NULL
  <2>2. QED BY <2>1
<1>4. ASSUME NEW j \in Indices
      PROVE  /\ strlen(Directory[j]) \in Nat
             /\ strncmp(fname, Directory[j], strlen(Directory[j])) = 0 <=>
                  \A a \in 0..(strlen(Directory[j]) - 1) : a <= k /\ fname[a] = Directory[j][a]
  BY Compare
<1>5. CASE dentry_num = 0
  <2>1. \A j \in Indices : ~(j < dentry_num)
    BY <1>5, NamedFirst
  <2>2. Matches(fname) = {}
    BY <2>1 DEF Matches
  <2>3. QED BY <1>5, <2>2, Looks
<1>6. CASE dentry_num # 0
  <2>1. \A a \in 0..(n - 1) : a <= k
    BY <1>1
  <2>2. strncmp(fname, Directory[i], n) = 0
    BY <1>1, <1>4, <2>1
  <2>3. i \in Matches(fname)
    BY <1>1, <1>2, <1>6, <2>2 DEF Matches, CountCovers
  <2>4. ASSUME NEW j \in Matches(fname), j \in Named, j # i PROVE FALSE
    <3> DEFINE nj == strlen(Directory[j])
    <3>1. j \in Indices /\ nj \in Nat
      BY <2>4, NameLength DEF Matches
    <3>2. \A a \in 0..(nj - 1) : fname[a] = Directory[j][a]
      BY <1>4, <2>4, <3>1 DEF Matches
    <3>3. ~Prefix(j, i)
      BY <2>4 DEF Plain
    <3>4. nj > n
      <4>1. nj <= n => \A a \in 0..(nj - 1) : Directory[i][a] = Directory[j][a]
        BY <1>1, <3>1, <3>2
      <4>2. QED BY <1>1, <3>1, <3>3, <4>1 DEF Prefix
    <3>5. n \in 0..(nj - 1)
      BY <1>1, <3>1, <3>4
    <3>6. Directory[j][n] \in {0, Blank}
      BY <3>2, <3>5
    <3>7. Directory[j][n] # 0 /\ n \in Addresses
      BY <3>1, <3>5, NameLength
    <3>8. n < TYPE
      BY <1>1, Layout
    <3>9. Directory[j][n] # Blank
      BY <3>1, <3>7, <3>8, Characters
    <3>10. QED BY <3>6, <3>7, <3>9
  <2> DEFINE found == read_dentry_by_name(fname)
  <2>5. found \in Indices /\ found \in Matches(fname) /\ found <= i
    BY <1>3, <2>3, Looks
  <2> HIDE DEF found
  <2>6. found \in Named
    <3>1. found \notin Named => i < found
      BY <1>1, <2>5, NamedFirst
    <3>2. found \in Nat
      BY <2>5, NamedFirst
    <3>3. QED BY <1>1, <2>5, <3>1, <3>2
  <2>7. found = i
    BY <2>4, <2>5, <2>6
  <2>8. QED BY <2>7 DEF found
<1>7. QED BY <1>5, <1>6

(* A listed name, as programs pass it. *)
LEMMA NameLookup ==
  ASSUME HeaderInv, NEW i \in Plain
  PROVE  read_dentry_by_name(NameBytes(i)) = i
         \/ (read_dentry_by_name(NameBytes(i)) = failure /\ dentry_num = 0)
<1> DEFINE n == strlen(Directory[i])
<1>1. i \in Indices
  BY NamedFirst DEF Plain
<1>2. /\ n \in Nat /\ Directory[i][n] = 0
      /\ \A a \in 0..(n - 1) : Directory[i][a] \in Bytes
  BY <1>1, NameLength
<1>3. 0 \in Bytes
  BY DEF Bytes
<1>4. NameBytes(i) = [a \in 0..n |-> Directory[i][a]]
  BY DEF NameBytes
<1> HIDE DEF n
<1>5. \A a \in 0..n : Directory[i][a] \in Bytes
  <2>1. \A a \in 0..n : a = n \/ a \in 0..(n - 1)
    BY <1>2
  <2>2. QED BY <1>2, <1>3, <2>1
<1>6. NameBytes(i) \in [0..n -> Bytes]
  BY <1>4, <1>5
<1>7. NameBytes(i)[n] = 0 /\ \A a \in 0..(n - 1) : NameBytes(i)[a] = Directory[i][a]
  BY <1>2, <1>4
<1>8. QED BY <1>2, <1>6, <1>7, OwnLookup DEF n

(* What execute looks up of a command: all of it behind its leading blanks. *)
LEMMA CommandName ==
  ASSUME NEW command \in Commands
  PROVE  \E k \in Nat :
           LET from == Blanks(command)  name == file_command(command)
           IN  /\ command \in [0..k -> Bytes] /\ command[k] = 0
               /\ from \in 0..k /\ command[from] # Blank /\ k - from \in Nat
               /\ \A a \in 0..(k - from) : a + from \in 0..k
               /\ name = [a \in 0..(k - from) |-> command[a + from]]
               /\ name \in [0..(k - from) -> Bytes] /\ name[k - from] = 0
<1> DEFINE from == Blanks(command)  name == file_command(command)
<1>1. PICK k \in DOMAIN command :
        command \in [0..k -> Bytes] /\ command[k] = 0 /\ \A a \in 0..(k - 1) : command[a] # 0
  BY RequestAssumption
<1>2. DOMAIN command = 0..k /\ k \in Nat
  BY <1>1
<1>3. strlen(command) = k
  <2>1. Ended(command, k) /\ IsLength(command, k)
    BY <1>1, <1>2 DEF Ended, IsLength
  <2>2. QED BY <1>2, <2>1, StrlenUnique
<1>4. from \in 0..k /\ command[from] # Blank
  <2> DEFINE T == {a \in 0..k : command[a] # Blank}
  <2>1. k \in T /\ T \in SUBSET Nat
    BY <1>1, <1>2 DEF Blank
  <2>2. PICK t \in T : \A y \in T : t <= y
    BY <2>1, Least
  <2>3. \A a \in 0..(t - 1) : command[a] = Blank
    BY <1>2, <2>2
  <2>4. t \in DOMAIN command /\ command[t] # Blank
    BY <1>2, <2>2
  <2>5. QED BY <1>2, <2>3, <2>4 DEF Blanks
<1> HIDE DEF from
<1>5. name = [a \in 0..(k - from) |-> command[a + from]]
  BY <1>3 DEF file_command, from
<1>6. k - from \in Nat /\ \A a \in 0..(k - from) : a + from \in 0..k
  BY <1>2, <1>4
<1>7. name \in [0..(k - from) -> Bytes]
  BY <1>1, <1>5, <1>6
<1>8. name[k - from] = 0
  <2>1. (k - from) + from = k /\ k - from \in 0..(k - from)
    BY <1>2, <1>4
  <2> HIDE DEF name
  <2>2. QED BY <1>1, <1>5, <2>1
<1> HIDE DEF name
<1>9. QED BY <1>1, <1>2, <1>4, <1>5, <1>6, <1>7, <1>8 DEF name, from

(* What execute looks up for a command that begins with a listed name.     *)
LEMMA CommandLookup ==
  ASSUME HeaderInv, NEW i \in Plain, NEW command \in Commands,
         FirstWord(command) = NameBytes(i)
  PROVE  read_dentry_by_name(file_command(command)) = i
         \/ (read_dentry_by_name(file_command(command)) = failure /\ dentry_num = 0)
<1> DEFINE n == strlen(Directory[i])  from == Blanks(command)  name == file_command(command)
<1>1. i \in Indices /\ n \in Nat
  BY NamedFirst, NameLength DEF Plain
<1>2. PICK k \in Nat :
        /\ command \in [0..k -> Bytes] /\ command[k] = 0
        /\ from \in 0..k /\ command[from] # Blank /\ k - from \in Nat
        /\ \A a \in 0..(k - from) : a + from \in 0..k
        /\ name = [a \in 0..(k - from) |-> command[a + from]]
        /\ name \in [0..(k - from) -> Bytes] /\ name[k - from] = 0
  BY CommandName, Zenon
<1>3. DOMAIN command = 0..k
  BY <1>2
<1> HIDE DEF from
<1> DEFINE Closes(t) == /\ t >= from /\ command[t] \in {0, Blank}
                       /\ \A a \in from..(t - 1) : command[a] # Blank
           to == CHOOSE t \in DOMAIN command : Closes(t)
<1>4. to \in from..k /\ command[to] \in {0, Blank}
  <2> DEFINE T == {a \in from..k : command[a] \in {0, Blank}}
  <2>1. k \in T /\ T \in SUBSET Nat
    BY <1>2, <1>3
  <2>2. PICK t \in T : \A y \in T : t <= y
    BY <2>1, Least
  <2>3. \A a \in from..(t - 1) : command[a] # Blank
    <3>1. SUFFICES ASSUME NEW a \in from..(t - 1), command[a] = Blank PROVE FALSE
      OBVIOUS
    <3>2. a \in T /\ a < t
      BY <1>3, <1>2, <2>2, <3>1
    <3>3. QED BY <1>3, <1>2, <2>2, <3>1, <3>2
  <2>4. t \in DOMAIN command /\ Closes(t)
    BY <1>3, <1>2, <2>2, <2>3
  <2> HIDE DEF Closes
  <2>5. to \in DOMAIN command /\ Closes(to)
    BY <2>4
  <2> HIDE DEF to
  <2>6. QED BY <1>3, <1>2, <2>5 DEF Closes
<1>5. FirstWord(command) =
         [a \in 0..(to - from) |-> IF a = to - from THEN 0 ELSE command[a + from]]
  BY DEF FirstWord, from
<1> HIDE DEF to, name
<1>6. NameBytes(i) = [a \in 0..n |-> Directory[i][a]]
  BY DEF NameBytes
<1>7. 0..(to - from) = 0..n
  BY <1>5, <1>6
<1>8. to - from = n
  <2>1. to - from \in Nat
    BY <1>3, <1>2, <1>4
  <2>2. to - from \in 0..n /\ n \in 0..(to - from)
    BY <1>1, <1>7, <2>1
  <2>3. QED BY <1>1, <2>1, <2>2
<1> HIDE DEF n
<1>9. n <= k - from
  BY <1>3, <1>2, <1>4, <1>8
<1>10. ASSUME NEW a \in 0..(n - 1) PROVE name[a] = Directory[i][a]
  <2>1. a \in 0..(to - from) /\ a # to - from /\ a \in 0..n /\ a \in 0..(k - from)
    BY <1>1, <1>2, <1>8, <1>9
  <2>2. FirstWord(command)[a] = command[a + from]
    BY <1>5, <2>1
  <2>3. NameBytes(i)[a] = Directory[i][a]
    BY <1>6, <2>1
  <2>4. name[a] = command[a + from]
    BY <1>2, <2>1
  <2>5. QED BY <2>2, <2>3, <2>4
<1>11. name[n] \in {0, Blank}
  <2>1. n \in 0..(k - from) /\ n + from = to
    BY <1>1, <1>3, <1>2, <1>4, <1>8, <1>9
  <2>2. name[n] = command[n + from]
    BY <1>2, <2>1
  <2>3. QED BY <1>4, <2>1, <2>2
<1>12. QED BY <1>2, <1>9, <1>10, <1>11, OwnLookup DEF n, name

-----------------------------------------------------------------------------
(* The arithmetic of read_data. *)

LEMMA Sizes ==
  /\ WORD \in Nat /\ DATA_BLOCK_SIZE \in Nat \ {0} /\ DATA_BLOCK_SIZE < WORD
  /\ Offsets \subseteq 0..(WORD - 1) /\ Lengths \subseteq 0..(WORD - 1)
  /\ \A n \in DOMAIN IndexNodes : IndexNodes[n].file_length \in 0..(WORD - 1)
<1>1. /\ WORD \in Nat /\ DATA_BLOCK_SIZE \in Nat \ {0} /\ DATA_BLOCK_SIZE < WORD
      /\ Offsets \subseteq 0..(WORD - 1) /\ Lengths \subseteq 0..(WORD - 1)
  BY LayoutAssumption, ImageAssumption
<1>2. ASSUME NEW n \in DOMAIN IndexNodes
      PROVE  IndexNodes[n].file_length \in 0..(WORD - 1)
  <2>1. IndexNodes[n].file_length \in Nat
        /\ IndexNodes[n].file_length + DATA_BLOCK_SIZE < WORD
    BY ImageAssumption
  <2>2. QED BY <1>1, <2>1
<1>3. QED BY <1>1, <1>2

LEMMA QuotientOrder ==
  ASSUME NEW b \in Nat \ {0}, NEW c \in Nat, NEW d \in Nat, c <= d
  PROVE  c \div b <= d \div b
<1> DEFINE p == c \div b  q == d \div b  r == c % b  s == d % b
<1>1. p \in Nat /\ q \in Nat /\ r \in 0..(b - 1) /\ s \in 0..(b - 1)
      /\ c = b * p + r /\ d = b * q + s
  BY Division
<1> HIDE DEF p, q, r, s
<1>2. SUFFICES ASSUME p >= q + 1 PROVE FALSE
  BY <1>1 DEF p, q
<1>3. b * p >= b * q + b
  BY <1>1, <1>2
<1>4. QED BY <1>1, <1>3

(* The length that read_data cuts a request to. *)
LEMMA Cut ==
  ASSUME NEW n \in DOMAIN IndexNodes, NEW offset \in 0..(WORD - 1),
         NEW length \in 0..(WORD - 1), offset <= IndexNodes[n].file_length
  PROVE  LET rest == IndexNodes[n].file_length - offset
             len == Clipped(n, offset, length)
         IN  /\ len \in 0..(WORD - 1) /\ len <= length
             /\ offset + length < WORD =>
                  /\ len = IF length < rest THEN length ELSE rest
                  /\ (offset + len) % WORD = offset + len
<1> DEFINE fl == IndexNodes[n].file_length  sum == (length + offset) % WORD
           len == Clipped(n, offset, length)
<1>1. WORD \in Nat \ {0} /\ fl \in 0..(WORD - 1)
  BY Sizes
<1>2. /\ sum \in Nat /\ sum <= length + offset
      /\ length + offset < WORD => sum = length + offset
  <2>1. length + offset \in Nat
    BY <1>1
  <2>2. \A a \in Nat : a % WORD \in 0..(WORD - 1) /\ a % WORD <= a /\ (a < WORD => a % WORD = a)
    BY <1>1, Division
  <2>3. QED BY <1>1, <2>1, <2>2
<1>3. len = IF sum > fl THEN fl - offset ELSE length
  BY DEF Clipped
<1> HIDE DEF fl, sum, len
<1>4. offset <= fl
  BY DEF fl
<1>5. len \in 0..(WORD - 1) /\ len <= length
  BY <1>1, <1>2, <1>3, <1>4
<1>6. ASSUME offset + length < WORD
      PROVE  /\ len = IF length < fl - offset THEN length ELSE fl - offset
             /\ (offset + len) % WORD = offset + len
  <2>1. len = IF length < fl - offset THEN length ELSE fl - offset
    BY <1>1, <1>2, <1>3, <1>4, <1>6
  <2>2. offset + len \in Nat /\ offset + len < WORD
    BY <1>5, <1>6, Sizes
  <2>3. QED BY <1>1, <2>1, <2>2, Division
<1>7. QED BY <1>5, <1>6 DEF fl, len

(* A round of the loop that starts at a block's beginning. *)
LEMMA Round ==
  ASSUME NEW b \in Nat \ {0}, NEW q \in Nat, NEW i \in Nat, NEW len \in Nat,
         q <= i, i <= (b * q + len) \div b
  PROVE  (i - q) * b \in Nat /\ (i - q) * b <= len /\ (i + 1 - q) * b = (i - q) * b + b
<1> DEFINE e == (b * q + len) \div b  r == (b * q + len) % b
<1>1. b * q + len \in Nat
  OBVIOUS
<1>2. e \in Nat /\ r \in 0..(b - 1) /\ b * q + len = b * e + r
  BY <1>1, Division
<1>3. i <= e
  OBVIOUS
<1> HIDE DEF e, r
<1>4. b * i <= b * e
  BY <1>2, <1>3
<1>5. b * q <= b * i /\ (i - q) * b = b * i - b * q
  OBVIOUS
<1>6. (i - q) * b \in Nat /\ (i - q) * b <= len
  BY <1>2, <1>4, <1>5
<1>7. (i + 1 - q) * b = (i - q) * b + b
  OBVIOUS
<1>8. QED BY <1>6, <1>7

(* The loop ends behind the last byte. *)
LEMMA LastRound ==
  ASSUME NEW b \in Nat \ {0}, NEW q \in Nat, NEW i \in Nat, NEW len \in Nat,
         i = (b * q + len) \div b + 1
  PROVE  (i - q) * b > len
<1> DEFINE e == (b * q + len) \div b  r == (b * q + len) % b
<1>1. b * q + len \in Nat
  OBVIOUS
<1>2. e \in Nat /\ r \in 0..(b - 1) /\ b * q + len = b * e + r
  BY <1>1, Division
<1>3. i = e + 1
  OBVIOUS
<1> HIDE DEF e, r
<1>4. (i - q) * b = b * e + b - b * q
  BY <1>2, <1>3
<1>5. QED BY <1>2, <1>4

-----------------------------------------------------------------------------
(* read_data. *)

Locals == [inode : DOMAIN IndexNodes \cup {0}, offset : 0..(WORD - 1),
           asked : 0..(WORD - 1), length : 0..(WORD - 1), i : 0..WORD,
           ending : 0..(WORD - 1), buf_offset : 0..(WORD - 1)]

LEMMA EndsStep ==
  ASSUME NEW r, NEW asked \in Locals, asked.length = 0, asked.buf_offset = 0,
         Ends(r, asked)
  PROVE  BufferInv' /\ pc' = "idle" /\ result' = r /\ rd' = asked
<1>1. pc' = "idle" /\ result' = r /\ rd' = asked /\ buf' = Empty
  BY DEF Ends
<1>2. DOMAIN buf' = 0..(WORD - 1) /\ \A k \in 0..(WORD - 1) : buf'[k] = None
  BY <1>1 DEF Empty
<1>3. asked.asked \in 0..(WORD - 1)
  BY DEF Locals
<1>4. rd'.buf_offset <= rd'.length /\ rd'.length <= rd'.asked
  BY <1>1, <1>3, Sizes
<1>5. pc' # "copy"
  BY <1>1
<1>6. QED BY <1>1, <1>2, <1>4, <1>5 DEF BufferInv, Locals

LEMMA IdleType == Idle \in Locals /\ Idle.length = 0 /\ Idle.buf_offset = 0
<1>1. 0 \in 0..(WORD - 1) /\ 0 \in 0..WORD
  BY Sizes
<1>2. QED BY <1>1 DEF Idle, Locals

LEMMA BeginsStep ==
  ASSUME NEW n \in DOMAIN IndexNodes, NEW offset \in 0..(WORD - 1),
         NEW length \in 0..(WORD - 1), offset <= IndexNodes[n].file_length,
         Begins(n, offset, length), Reads'
  PROVE  BufferInv' /\ pc' = "copy" /\ result' = 0
<1> DEFINE len == Clipped(n, offset, length)  b == DATA_BLOCK_SIZE
           start == offset \div b  end == ((offset + len) % WORD) \div b
<1>1. /\ rd' = [inode |-> n, offset |-> offset, asked |-> length, length |-> len,
                i |-> start, ending |-> end, buf_offset |-> 0]
      /\ pc' = "copy" /\ buf' = Empty /\ result' = 0
  BY DEF Begins
<1>2. /\ len \in 0..(WORD - 1) /\ len <= length
      /\ offset + length < WORD => (offset + len) % WORD = offset + len
  BY Cut
<1>3. WORD \in Nat \ {0} /\ b \in Nat \ {0} /\ b < WORD
  BY Sizes
<1>4. start \in 0..(WORD - 1)
  <2>1. offset \in Nat
    OBVIOUS
  <2>2. start \in Nat /\ start <= offset
    BY <1>3, <2>1, Division
  <2> HIDE DEF start
  <2>3. QED BY <1>3, <2>2
<1>5. end \in 0..(WORD - 1)
  <2>1. offset + len \in Nat
    BY <1>2, <1>3
  <2>2. (offset + len) % WORD \in 0..(WORD - 1)
    BY <1>3, <2>1, Division
  <2> DEFINE sum == (offset + len) % WORD
  <2>3. sum \in Nat
    BY <1>3, <2>2
  <2> HIDE DEF sum
  <2>4. sum \div b \in Nat /\ sum \div b <= sum
    BY <1>3, <2>3, Division
  <2>5. end = sum \div b
    BY DEF sum
  <2> HIDE DEF end
  <2>6. QED BY <1>3, <2>2, <2>4, <2>5 DEF sum
<1>6. offset + length < WORD => start <= end
  BY <1>2, <1>3, QuotientOrder
<1>7. /\ rd'.inode = n /\ rd'.offset = offset /\ rd'.asked = length
      /\ rd'.length = len /\ rd'.i = start /\ rd'.ending = end /\ rd'.buf_offset = 0
  BY <1>1
<1> HIDE DEF end, len
<1>8. rd' \in Locals
  BY <1>1, <1>2, <1>3, <1>4, <1>5 DEF Locals
<1>9. LoopInv'
  <2>1. Position' = 0
    BY <1>3, <1>4, <1>7 DEF Position
  <2>2. rd'.buf_offset = IF Position' < rd'.length THEN Position' ELSE rd'.length
    BY <1>2, <1>7, <2>1
  <2>3. Copied'
    BY <1>7 DEF Copied
  <2>4. Aligned' => rd'.offset \div b <= rd'.i /\ rd'.i <= rd'.ending + 1
    BY <1>4, <1>5, <1>6, <1>7 DEF Aligned
  <2>5. rd'.length = Clipped(rd'.inode, rd'.offset, rd'.asked)
    BY <1>7 DEF len
  <2>6. rd'.ending = ((rd'.offset + rd'.length) % WORD) \div DATA_BLOCK_SIZE
    BY <1>7 DEF end
  <2>7. QED BY <1>7, <2>2, <2>3, <2>4, <2>5, <2>6 DEF LoopInv
<1>10. DOMAIN buf' = 0..(WORD - 1) /\ \A k \in 0..(WORD - 1) : buf'[k] = None
  BY <1>1 DEF Empty
<1>11. rd'.buf_offset <= rd'.length /\ rd'.length <= rd'.asked
  BY <1>2, <1>7
<1>12. QED BY <1>1, <1>8, <1>9, <1>10, <1>11 DEF BufferInv, Locals

LEMMA ReadDataStep ==
  ASSUME NEW count \in Nat, NEW n \in DOMAIN IndexNodes, n \in Nat,
         NEW offset \in 0..(WORD - 1), NEW length \in 0..(WORD - 1),
         read_data(count, n, offset, length), Reads'
  PROVE  /\ BufferInv' /\ pc' \in {"idle", "copy"} /\ result' \in {0, failure}
         /\ pc' = "idle" => /\ result' = failure
                            /\ n > count \/ rd'.offset > IndexNodes[n].file_length
<1>1. CASE n > count \/ offset > IndexNodes[n].file_length
  <2> DEFINE asked == [Idle EXCEPT !.inode = n, !.offset = offset, !.asked = length]
  <2>1. Ends(failure, asked)
    BY <1>1 DEF read_data, Refused
  <2>2. asked \in Locals /\ asked.length = 0 /\ asked.buf_offset = 0 /\ asked.offset = offset
    <3>1. 0 \in 0..(WORD - 1) /\ 0 \in 0..WORD
      BY Sizes
    <3>2. QED BY <3>1 DEF Idle, Locals
  <2> HIDE DEF asked
  <2>3. QED BY <1>1, <2>1, <2>2, EndsStep
<1>2. CASE ~(n > count \/ offset > IndexNodes[n].file_length)
  <2>1. Begins(n, offset, length) /\ offset <= IndexNodes[n].file_length
    BY <1>2, Sizes DEF read_data
  <2>2. BufferInv' /\ pc' = "copy" /\ result' = 0
    BY <2>1, BeginsStep
  <2>3. QED BY <2>2
<1>3. QED BY <1>1, <1>2

LEMMA RdType ==
  ASSUME BufferInv
  PROVE  /\ rd \in Locals /\ rd.offset \in Nat /\ rd.asked \in 0..(WORD - 1)
         /\ rd.length \in Nat /\ rd.i \in Nat /\ rd.buf_offset \in Nat
         /\ rd.ending \in 0..(WORD - 1)
         /\ rd.buf_offset <= rd.length /\ rd.length <= rd.asked
         /\ rd.length <= WORD - 1
<1>1. rd \in Locals /\ rd.buf_offset <= rd.length /\ rd.length <= rd.asked
  BY DEF BufferInv, Locals
<1>2. /\ rd.offset \in 0..(WORD - 1) /\ rd.asked \in 0..(WORD - 1)
      /\ rd.length \in 0..(WORD - 1) /\ rd.i \in 0..WORD
      /\ rd.ending \in 0..(WORD - 1) /\ rd.buf_offset \in 0..(WORD - 1)
  BY <1>1 DEF Locals
<1>3. QED BY <1>1, <1>2, Sizes

(* What an aligned read has copied, when a round begins. *)
LEMMA AlignedRound ==
  ASSUME BufferInv, LoopInv, Aligned, rd.i <= rd.ending
  PROVE  LET b == DATA_BLOCK_SIZE  q == rd.offset \div b
         IN  /\ q \in Nat /\ rd.offset = b * q /\ q <= rd.i
             /\ rd.buf_offset = (rd.i - q) * b
             /\ (rd.i + 1 - q) * b = (rd.i - q) * b + b
<1> DEFINE b == DATA_BLOCK_SIZE  q == rd.offset \div b  len == rd.length
<1>1. /\ rd.offset \in Nat /\ len \in Nat /\ rd.i \in Nat /\ rd.asked \in 0..(WORD - 1)
      /\ b \in Nat \ {0}
  BY RdType, Sizes
<1>2. rd.offset % b = 0 /\ rd.offset + rd.asked < WORD
  BY DEF Aligned
<1>3. q \in Nat /\ rd.offset = b * q
  <2>1. \A a \in Nat : a \div b \in Nat /\ a = b * (a \div b) + (a % b)
    BY <1>1, Division
  <2>2. q \in Nat /\ rd.offset = b * q + (rd.offset % b)
    BY <1>1, <2>1
  <2> HIDE DEF q, b
  <2>3. b * q \in Nat
    BY <1>1, <2>2
  <2>4. QED BY <1>2, <2>2, <2>3
<1>4. rd.offset \in 0..(WORD - 1)
  BY <1>1, <1>2, Sizes
<1>5. (rd.offset + len) % WORD = rd.offset + len
  BY <1>1, <1>2, <1>4, Cut DEF LoopInv
<1>6. rd.ending = (rd.offset + len) \div b
  BY <1>5 DEF LoopInv
<1>7. /\ q <= rd.i
      /\ rd.buf_offset = IF Position < len THEN Position ELSE len
  BY DEF LoopInv
<1>8. Position = (rd.i - q) * b
  BY DEF Position
<1> HIDE DEF q, b
<1>9. rd.i <= (b * q + len) \div b
  BY <1>3, <1>6
<1>10. (rd.i - q) * b \in Nat /\ (rd.i - q) * b <= len
       /\ (rd.i + 1 - q) * b = (rd.i - q) * b + b
  BY <1>1, <1>3, <1>7, <1>9, Round
<1>11. rd.buf_offset = (rd.i - q) * b
  BY <1>1, <1>7, <1>8, <1>10
<1>12. QED BY <1>3, <1>7, <1>10, <1>11 DEF q, b

LEMMA RoundStep ==
  ASSUME BufferInv, CopyBlock
  PROVE  BufferInv'
<1> DEFINE b == DATA_BLOCK_SIZE  at == rd.buf_offset
<1>1. /\ pc = "copy" /\ rd.i <= rd.ending
      /\ buf' = [k \in 0..(WORD - 1) |->
                   IF k \in at..(at + Chunk - 1)
                   THEN <<Block(rd.inode, rd.i), k - at>> ELSE buf[k]]
      /\ rd' = [rd EXCEPT !.i = @ + 1, !.buf_offset = @ + Chunk]
      /\ UNCHANGED <<pc, call>>
  BY DEF CopyBlock
<1>2. /\ rd \in Locals /\ rd.offset \in Nat /\ rd.asked \in 0..(WORD - 1)
      /\ rd.length \in Nat /\ rd.i \in Nat /\ at \in Nat /\ rd.ending \in 0..(WORD - 1)
      /\ at <= rd.length /\ rd.length <= rd.asked /\ rd.length <= WORD - 1
  BY RdType
<1>3. WORD \in Nat /\ b \in Nat \ {0}
  BY Sizes
<1>4. Chunk = IF b > rd.length - at THEN rd.length - at ELSE b
  BY DEF Chunk
<1> HIDE DEF b
<1>5. Chunk \in Nat /\ at + Chunk <= rd.length
  BY <1>2, <1>3, <1>4
<1>6. /\ rd'.inode = rd.inode /\ rd'.offset = rd.offset /\ rd'.asked = rd.asked
      /\ rd'.length = rd.length /\ rd'.ending = rd.ending
      /\ rd'.i = rd.i + 1 /\ rd'.buf_offset = at + Chunk
  BY <1>1, <1>2 DEF Locals
<1>7. rd' \in Locals
  <2>1. rd.i + 1 \in 0..WORD /\ at + Chunk \in 0..(WORD - 1)
    BY <1>1, <1>2, <1>3, <1>5
  <2>2. QED BY <1>1, <1>2, <2>1 DEF Locals
<1>8. LoopInv
  BY <1>1 DEF BufferInv
<1>9. ASSUME Aligned
      PROVE  /\ rd.offset \div b <= rd.i + 1
             /\ Position' \in Nat
             /\ at + Chunk = IF Position' < rd.length THEN Position' ELSE rd.length
             /\ Copied'
  <2> DEFINE q == rd.offset \div b
  <2>1. /\ q \in Nat /\ rd.offset = b * q /\ q <= rd.i /\ at = (rd.i - q) * b
        /\ (rd.i + 1 - q) * b = (rd.i - q) * b + b
    BY <1>1, <1>8, <1>9, AlignedRound DEF b
  <2>2. Position' = (rd.i + 1 - q) * b
    <3>1. Position' = (rd'.i - (rd'.offset \div b)) * b
      BY DEF Position, b
    <3>2. rd'.offset \div b = q
      BY <1>6
    <3> HIDE DEF q
    <3>3. rd'.i - (rd'.offset \div b) = rd.i + 1 - q
      BY <1>2, <1>6, <2>1, <3>2
    <3>4. QED BY <3>1, <3>3
  <2> HIDE DEF q
  <2>3. Position' = at + b
    BY <2>1, <2>2
  <2>4. at + Chunk = IF Position' < rd.length THEN Position' ELSE rd.length
    BY <1>2, <1>3, <1>4, <2>3
  <2>5. ASSUME NEW k \in 0..(at + Chunk - 1)
        PROVE  buf'[k] = FileByte(rd.inode, rd.offset + k)
    <3>1. k \in 0..(WORD - 1)
      BY <1>2, <1>3, <1>5
    <3>2. CASE k < at
      <4>1. k \in 0..(at - 1) /\ ~(k \in at..(at + Chunk - 1))
        BY <1>2, <1>5, <3>2
      <4>2. buf'[k] = buf[k]
        BY <1>1, <3>1, <4>1
      <4>3. buf[k] = FileByte(rd.inode, rd.offset + k)
        BY <1>8, <1>9, <4>1 DEF LoopInv, Copied
      <4>4. QED BY <4>2, <4>3
    <3>3. CASE ~(k < at)
      <4>1. k \in at..(at + Chunk - 1) /\ k - at \in 0..(b - 1)
        BY <1>2, <1>3, <1>4, <1>5, <3>3
      <4>2. buf'[k] = <<Block(rd.inode, rd.i), k - at>>
        BY <1>1, <3>1, <4>1
      <4>3. rd.offset + k = b * rd.i + (k - at)
        <5>1. at = b * rd.i - b * q
          BY <1>2, <1>3, <2>1
        <5>2. b * q \in Int /\ b * rd.i \in Int
          BY <1>2, <1>3, <2>1
        <5>3. QED BY <2>1, <5>1, <5>2, <4>1, <1>2
      <4>4. (b * rd.i + (k - at)) \div b = rd.i /\ (b * rd.i + (k - at)) % b = k - at
        BY <1>2, <1>3, <4>1, Quotient
      <4>5. FileByte(rd.inode, rd.offset + k) = <<Block(rd.inode, rd.i), k - at>>
        BY <4>3, <4>4 DEF FileByte, b
      <4>6. QED BY <4>2, <4>5
    <3>4. QED BY <3>2, <3>3
  <2>6. Copied'
    <3>1. \A k \in 0..(at + Chunk - 1) : buf'[k] = FileByte(rd.inode, rd.offset + k)
      BY <2>5
    <3>2. 0..(rd'.buf_offset - 1) = 0..(at + Chunk - 1)
      BY <1>2, <1>5, <1>6
    <3>3. \A k \in 0..(rd'.buf_offset - 1) : rd'.offset + k = rd.offset + k
      BY <1>2, <1>6
    <3>4. \A k \in 0..(rd'.buf_offset - 1) : buf'[k] = FileByte(rd'.inode, rd'.offset + k)
      BY <1>6, <3>1, <3>2, <3>3
    <3>5. QED BY <3>4 DEF Copied
  <2>7. rd.offset \div b <= rd.i + 1
    BY <1>2, <2>1 DEF q
  <2>8. Position' \in Nat
    BY <1>2, <1>3, <2>3
  <2>9. QED BY <2>4, <2>6, <2>7, <2>8
<1>10. LoopInv'
  <2>1. Aligned' <=> Aligned
    BY <1>6 DEF Aligned
  <2>2. rd.i + 1 <= rd.ending + 1
    BY <1>1, <1>2
  <2>3. Reads' /\ rd'.inode \in DOMAIN IndexNodes
    BY <1>1, <1>6, <1>8 DEF LoopInv, Reads
  <2>4. rd'.offset <= IndexNodes[rd'.inode].file_length
    BY <1>6, <1>8 DEF LoopInv
  <2>5. rd'.length = Clipped(rd'.inode, rd'.offset, rd'.asked)
    BY <1>6, <1>8, Zenon DEF LoopInv
  <2>6. rd'.ending = ((rd'.offset + rd'.length) % WORD) \div DATA_BLOCK_SIZE
    BY <1>6, <1>8, Zenon DEF LoopInv
  <2>7. ASSUME Aligned'
        PROVE  /\ rd'.offset \div DATA_BLOCK_SIZE <= rd'.i /\ rd'.i <= rd'.ending + 1
               /\ rd'.buf_offset = IF Position' < rd'.length THEN Position' ELSE rd'.length
               /\ Copied'
    BY <1>6, <1>9, <2>1, <2>2, <2>7 DEF b
  <2>8. QED BY <2>3, <2>4, <2>5, <2>6, <2>7 DEF LoopInv
<1>11. Reads' => \A k \in 0..(WORD - 1) : k >= at + Chunk => buf'[k] = None
  <2>1. Reads /\ \A k \in 0..(WORD - 1) : k >= at => buf[k] = None
    BY <1>8 DEF LoopInv, BufferInv
  <2>2. ASSUME NEW k \in 0..(WORD - 1), k >= at + Chunk PROVE buf'[k] = None
    <3>1. k >= at /\ ~(k \in at..(at + Chunk - 1))
      BY <1>2, <1>5, <2>2
    <3>2. QED BY <1>1, <2>1, <3>1
  <2>3. QED BY <2>2
<1>12. DOMAIN buf' = 0..(WORD - 1)
  BY <1>1
<1>13. rd'.buf_offset <= rd'.length /\ rd'.length <= rd'.asked
  BY <1>2, <1>5, <1>6
<1>14. QED
  BY <1>6, <1>7, <1>10, <1>11, <1>12, <1>13 DEF BufferInv, Locals

(* The end of the loop: what has been copied is what was asked for. *)
LEMMA DoneStep ==
  ASSUME BufferInv, CopyDone
  PROVE  /\ BufferInv' /\ AlignedRead' /\ Reads'
         /\ pc' = "idle" /\ result' \in 0..(WORD - 1)
<1> DEFINE b == DATA_BLOCK_SIZE  len == rd.length  q == rd.offset \div b
           rest == IndexNodes[rd.inode].file_length - rd.offset
<1>1. /\ pc = "copy" /\ rd.i > rd.ending /\ pc' = "idle" /\ result' = rd.buf_offset
      /\ UNCHANGED <<call, rd, buf>>
  BY DEF CopyDone
<1>2. LoopInv
  BY <1>1 DEF BufferInv
<1>3. /\ rd.offset \in Nat /\ len \in Nat /\ rd.i \in Nat /\ rd.buf_offset \in Nat
      /\ rd.asked \in 0..(WORD - 1) /\ rd.ending \in 0..(WORD - 1)
      /\ rd.buf_offset <= len /\ len <= WORD - 1 /\ b \in Nat \ {0} /\ WORD \in Nat
  BY RdType, Sizes
<1>4. BufferInv' /\ Reads'
  BY <1>1, <1>2 DEF BufferInv, LoopInv, Reads
<1>5. result' \in 0..(WORD - 1)
  BY <1>1, <1>3
<1>6. ASSUME Aligned
      PROVE  /\ rd.buf_offset = IF rd.asked < rest THEN rd.asked ELSE rest
             /\ \A k \in 0..(rd.buf_offset - 1) : buf[k] = FileByte(rd.inode, rd.offset + k)
  <2>1. rd.offset % b = 0 /\ rd.offset + rd.asked < WORD /\ rd.offset \in 0..(WORD - 1)
    BY <1>3, <1>6 DEF Aligned
  <2>2. q \in Nat /\ rd.offset = b * q
    <3>1. \A a \in Nat : a \div b \in Nat /\ a = b * (a \div b) + (a % b)
      BY <1>3, Division
    <3>2. q \in Nat /\ rd.offset = b * q + (rd.offset % b)
      BY <1>3, <3>1
    <3> HIDE DEF q, b
    <3>3. b * q \in Nat
      BY <1>3, <3>2
    <3>4. QED BY <2>1, <3>2, <3>3
  <2>3. /\ len = IF rd.asked < rest THEN rd.asked ELSE rest
        /\ (rd.offset + len) % WORD = rd.offset + len
    BY <1>2, <1>3, <2>1, Cut DEF LoopInv
  <2>4. rd.ending = (rd.offset + len) \div b
    BY <1>2, <2>3 DEF LoopInv
  <2>5. rd.i = rd.ending + 1
    BY <1>1, <1>2, <1>3, <1>6 DEF LoopInv
  <2>6. Position = (rd.i - q) * b
    BY DEF Position
  <2>7. rd.buf_offset = IF Position < len THEN Position ELSE len
    BY <1>2, <1>6 DEF LoopInv
  <2> HIDE DEF q, b
  <2>8. rd.i = (b * q + len) \div b + 1
    BY <2>2, <2>4, <2>5
  <2>9. (rd.i - q) * b > len
    BY <1>3, <2>2, <2>8, LastRound
  <2>10. (rd.i - q) * b \in Int
    BY <1>3, <2>2
  <2>11. rd.buf_offset = len
    BY <1>3, <2>6, <2>7, <2>9, <2>10
  <2>12. QED BY <1>2, <1>6, <2>3, <2>11 DEF LoopInv, Copied
<1>7. ASSUME Completed', rd'.offset % DATA_BLOCK_SIZE = 0
      PROVE  Delivers'
  <2>1. Aligned
    BY <1>1, <1>7 DEF Completed, Aligned
  <2>2. QED BY <1>1, <1>6, <2>1 DEF Delivers
<1>8. AlignedRead'
  BY <1>7 DEF AlignedRead
<1>9. QED BY <1>1, <1>4, <1>5, <1>8

-----------------------------------------------------------------------------
(* The system calls. *)

CallType == /\ pc \in {"idle", "copy"} /\ call \in Calls /\ result \in -1..(WORD - 1)
            /\ Len(printed) \in {0, 3}
CallInv == CallType /\ OwnDentry /\ LongNameReads /\ AlignedRead /\ ListsFoundName

LEMMA LookedStep ==
  ASSUME NEW kind \in {"open", "read", "load", "list"},
         NEW name \in Requests \cup Commands \cup {NULL},
         NEW found \in Indices \cup {failure}, NEW m, Looked(kind, name, found, m)
  PROVE  /\ call' \in Calls /\ Len(printed') \in {0, 3}
         /\ call'.kind = kind /\ call'.name = name /\ call'.found = found
<1>1. call' = [kind |-> kind, name |-> name, found |-> found]
  BY DEF Looked
<1>2. printed' = <<>> \/ \E x, y, z : printed' = <<x, y, z>>
  <2>1. CASE found = failure
    BY <2>1 DEF Looked
  <2>2. CASE found # failure
    BY <2>2 DEF Looked, Prints
  <2>3. QED BY <2>1, <2>2
<1>3. Len(printed') \in {0, 3}
  BY <1>2
<1>4. call' \in Calls
  BY <1>1 DEF Calls
<1>5. QED BY <1>1, <1>3, <1>4

(* The lookup a driver begins with. *)
LEMMA DriverLookup ==
  ASSUME HeaderInv, NEW kind \in {"open", "read", "list"},
         NEW fname \in Requests \cup {NULL},
         ThroughCurdentry(fname), Called(kind, fname, header')
  PROVE  /\ HeaderInv' /\ OwnDentry' /\ call' \in Calls /\ Len(printed') \in {0, 3}
         /\ call'.kind = kind
         /\ \/ call'.found = failure
            \/ /\ call'.found # failure /\ call'.found \in Indices
               /\ \A a \in Addresses : a <= strlen(Directory[call'.found]) =>
                    header'[a] = Directory[call'.found][a]
               /\ Word(header', INODE) = Dentries[call'.found].inode_index
<1> DEFINE found == read_dentry_by_name(fname)
<1>1. found = failure \/ (found \in Indices /\ found # failure)
  BY Looks
<1>2. /\ call' \in Calls /\ Len(printed') \in {0, 3}
      /\ call'.kind = kind /\ call'.name = fname /\ call'.found = found
  <2>1. Looked(kind, fname, found, header')
    BY DEF Called
  <2> HIDE DEF found
  <2>2. QED BY <1>1, <2>1, LookedStep
<1>3. /\ HeaderInv'
      /\ found = failure => header' = header
      /\ found # failure => header' = CopyDentry(header, Directory[found])
  BY ThroughHeader
<1>4. OwnDentry'
  <2>1. SUFFICES ASSUME NEW i \in Plain, Asked' = NameBytes(i)
                 PROVE  call'.found = i \/ (call'.found = failure /\ dentry_num' = 0)
    BY DEF OwnDentry
  <2>2. fname = NameBytes(i)
    BY <1>2, <2>1 DEF Asked
  <2>3. found = i \/ (found = failure /\ dentry_num = 0)
    BY <2>2, NameLookup
  <2> HIDE DEF found
  <2>4. found = failure => dentry_num' = dentry_num
    BY <1>3, Zenon DEF dentry_num, Word, found
  <2>5. QED BY <1>2, <2>3, <2>4
<1> HIDE DEF found
<1>5. header \in [Addresses -> Bytes]
  BY DEF HeaderInv
<1>6. ASSUME found # failure
      PROVE  /\ \A a \in Addresses : a <= strlen(Directory[found]) =>
                  header'[a] = Directory[found][a]
             /\ Word(header', INODE) = Dentries[found].inode_index
  BY <1>1, <1>3, <1>5, <1>6, CopyType
<1>7. QED BY <1>1, <1>2, <1>3, <1>4, <1>6

LEMMA OpenStep ==
  ASSUME HeaderInv, NEW fname \in Requests \cup {NULL}, FileOpen(fname)
  PROVE  HeaderInv' /\ BufferInv' /\ CallInv'
<1>1. /\ HeaderInv' /\ OwnDentry' /\ call' \in Calls /\ Len(printed') \in {0, 3}
      /\ call'.kind = "open"
  BY DriverLookup DEF FileOpen
<1>2. PICK r \in {failure, 0} : Ends(r, Idle)
  BY DEF FileOpen, Returns
<1>3. BufferInv' /\ pc' = "idle" /\ result' = r
  BY <1>2, EndsStep, IdleType
<1>4. result' \in -1..(WORD - 1)
  BY <1>3, Sizes DEF failure
<1>5. QED BY <1>1, <1>3, <1>4
          DEF CallInv, CallType, LongNameReads, AlignedRead, Completed, ListsFoundName

(* The count that file_read tests against is its own lookup's name.        *)
LEMMA FileReadStep ==
  ASSUME HeaderInv, NEW fname \in Requests \cup {NULL},
         NEW offset \in Offsets, NEW length \in Lengths, FileRead(fname, offset, length)
  PROVE  HeaderInv' /\ BufferInv' /\ CallInv'
<1> DEFINE found == call'.found
<1>1. /\ HeaderInv' /\ OwnDentry' /\ call' \in Calls /\ Len(printed') \in {0, 3}
      /\ call'.kind = "read"
      /\ \/ found = failure
         \/ /\ found # failure /\ found \in Indices
            /\ \A a \in Addresses : a <= strlen(Directory[found]) =>
                 header'[a] = Directory[found][a]
            /\ Word(header', INODE) = Dentries[found].inode_index
  BY DriverLookup DEF FileRead
<1>2. Reads'
  BY <1>1 DEF Reads
<1>3. offset \in 0..(WORD - 1) /\ length \in 0..(WORD - 1)
  BY Sizes
<1>4. ASSUME found = failure
      PROVE  BufferInv' /\ pc' = "idle" /\ result' = failure
  <2>1. Ends(failure, Idle)
    BY <1>4 DEF FileRead, Returns
  <2>2. QED BY <2>1, EndsStep, IdleType
<1>5. ASSUME found # failure, found \in Indices
      PROVE  /\ BufferInv' /\ pc' \in {"idle", "copy"} /\ result' \in {0, failure}
             /\ pc' = "idle" => /\ result' = failure
                                /\ \/ Dentries[found].inode_index > Word(header', 4)
                                   \/ rd'.offset >
                                        IndexNodes[Dentries[found].inode_index].file_length
  <2>1. read_data(Word(header', 4), Dentries[found].inode_index, offset, length)
    BY <1>1, <1>5 DEF FileRead
  <2>2. Word(header', 4) \in Nat
    BY <1>1, WordType, Layout DEF HeaderInv
  <2>3. Dentries[found].inode_index \in DOMAIN IndexNodes
        /\ Dentries[found].inode_index \in Nat
    BY <1>5, Image
  <2> HIDE DEF found
  <2>4. QED BY <1>2, <1>3, <2>1, <2>2, <2>3, ReadDataStep
<1>6. ASSUME found # failure, found \in Named, strlen(Directory[found]) > 4
      PROVE  ~(Dentries[found].inode_index > Word(header', 4))
  <2>1. /\ found \in Indices /\ 4 \in Addresses /\ 4 < TYPE
        /\ strlen(Directory[found]) \in Nat
    <3>1. found \in Indices
      BY <1>6, NamedFirst
    <3>2. QED BY <3>1, Layout, NameLength
  <2>2. header'[4] = Directory[found][4] /\ Directory[found][4] # 0
    BY <1>1, <1>6, <2>1, NameLength
  <2>3. header'[4] > Dentries[found].inode_index
    BY <1>6, <2>1, <2>2, Characters
  <2>4. Word(header', 4) \in Nat /\ Word(header', 4) >= header'[4] /\ header'[4] \in Bytes
    BY <1>1, WordType, Layout DEF HeaderInv
  <2>5. Dentries[found].inode_index \in Nat /\ header'[4] \in Nat
    <3>1. Bytes \subseteq Nat
      BY DEF Bytes
    <3>2. QED BY <2>1, <2>4, <3>1, Image
  <2>6. QED BY <2>3, <2>4, <2>5
<1>7. LongNameReads'
  <2>1. SUFFICES ASSUME pc' = "idle", found \in Named, strlen(Directory[found]) > 4
                 PROVE  rd'.offset > IndexNodes[Dentries[found].inode_index].file_length
    BY <1>1 DEF LongNameReads
  <2>2. found \in Indices /\ found \in Nat
    BY <2>1, NamedFirst
  <2>3. found # failure
    BY <2>2 DEF failure
  <2> HIDE DEF found
  <2>4. QED BY <1>5, <1>6, <2>1, <2>2, <2>3
<1>8. /\ BufferInv' /\ pc' \in {"idle", "copy"} /\ result' \in {0, failure}
      /\ pc' = "idle" => result' = failure
  BY <1>1, <1>4, <1>5
<1>9. AlignedRead' /\ ListsFoundName'
  BY <1>1, <1>8 DEF AlignedRead, Completed, ListsFoundName
<1>10. result' \in -1..(WORD - 1)
  BY <1>8, Sizes DEF failure
<1>11. QED BY <1>1, <1>7, <1>8, <1>9, <1>10 DEF CallInv, CallType

LEMMA DirectoryReadStep ==
  ASSUME HeaderInv, NEW fname \in Requests \cup {NULL}, NEW length \in Lengths,
         DirectoryRead(fname, length)
  PROVE  HeaderInv' /\ BufferInv' /\ CallInv'
<1> DEFINE found == call'.found  len == ListLength(length)
<1>1. /\ HeaderInv' /\ OwnDentry' /\ call' \in Calls /\ Len(printed') \in {0, 3}
      /\ call'.kind = "list"
      /\ \/ found = failure
         \/ /\ found # failure /\ found \in Indices
            /\ \A a \in Addresses : a <= strlen(Directory[found]) =>
                 header'[a] = Directory[found][a]
  BY DriverLookup DEF DirectoryRead
<1>2. /\ buf' = [k \in 0..(WORD - 1) |-> IF k < len THEN <<header'[k]>> ELSE None]
      /\ result' = len /\ pc' = "idle" /\ rd' = Idle
  BY DEF DirectoryRead
<1>3. len \in 0..(WORD - 1)
  <2>1. length \in 0..(WORD - 1) /\ WORD \in Nat
    BY Sizes
  <2>2. strlen(header) \in Nat
    <3>1. RESERVED \in Nat /\ Ended(header, RESERVED)
      BY Layout DEF Ended, HeaderInv, Addresses
    <3>2. strlen(header) \in 0..RESERVED
      BY <3>1, StrlenType
    <3>3. QED BY <3>1, <3>2
  <2> DEFINE cut == IF length < WORD \div 2 /\ length > FILE_NAME_LENGTH
                    THEN FILE_NAME_LENGTH ELSE length
  <2>3. cut \in 0..(WORD - 1)
    BY <2>1, Layout
  <2>4. len = IF cut > strlen(header) THEN strlen(header) ELSE cut
    BY DEF ListLength
  <2> HIDE DEF cut
  <2>5. QED BY <2>1, <2>2, <2>3, <2>4
<1> HIDE DEF len
<1>4. ListsFoundName'
  <2>1. SUFFICES ASSUME found # failure, NEW k \in 0..(len - 1), k <= strlen(Directory[found])
                 PROVE  buf'[k] = <<Directory[found][k]>>
    BY <1>2 DEF ListsFoundName
  <2>2. k \in 0..(WORD - 1) /\ k < len /\ k \in Nat
    BY <1>3, <2>1, Sizes
  <2>3. k \in Addresses
    <3>1. strlen(Directory[found]) \in Nat /\ strlen(Directory[found]) <= RESERVED
      BY <1>1, <2>1, NameLength, Layout
    <3>2. QED BY <2>1, <2>2, <3>1, Layout
  <2>4. header'[k] = Directory[found][k]
    BY <1>1, <2>1, <2>3
  <2>5. QED BY <1>2, <2>2, <2>4
<1>5. BufferInv'
  <2>1. /\ Idle \in Locals /\ Idle.buf_offset <= Idle.length /\ Idle.length <= Idle.asked
    BY IdleType DEF Idle
  <2>2. DOMAIN buf' = 0..(WORD - 1)
    BY <1>2
  <2>3. ~Reads' /\ pc' # "copy"
    BY <1>1, <1>2 DEF Reads
  <2>4. QED BY <1>2, <2>1, <2>2, <2>3 DEF BufferInv, Locals
<1>6. LongNameReads' /\ AlignedRead'
  BY <1>1 DEF LongNameReads, AlignedRead, Completed
<1>7. result' \in -1..(WORD - 1)
  BY <1>2, <1>3
<1>8. QED BY <1>1, <1>2, <1>4, <1>5, <1>6, <1>7 DEF CallInv, CallType

LEMMA LoadStep ==
  ASSUME HeaderInv, NEW command \in Commands, NEW length \in Lengths, Load(command, length)
  PROVE  HeaderInv' /\ BufferInv' /\ CallInv'
<1> DEFINE found == read_dentry_by_name(file_command(command))
<1>1. found = failure \/ (found \in Indices /\ found # failure)
  BY Looks
<1>2. /\ Looked("load", command, found, Directory[found]) /\ header' = header
      /\ IF found = failure THEN Returns(failure)
         ELSE read_data(inodes_num, Word(Directory[found], INODE), 0, length)
  BY DEF Load
<1>3. HeaderInv'
  BY <1>2 DEF HeaderInv
<1>4. ASSUME NEW i \in Plain, FirstWord(command) = NameBytes(i)
      PROVE  found = i \/ (found = failure /\ dentry_num = 0)
  BY <1>4, CommandLookup
<1> HIDE DEF found
<1>5. /\ call' \in Calls /\ Len(printed') \in {0, 3}
      /\ call'.kind = "load" /\ call'.name = command /\ call'.found = found
  BY <1>1, <1>2, LookedStep
<1>6. OwnDentry'
  <2>1. Asked' = FirstWord(command)
    BY <1>5 DEF Asked
  <2>2. dentry_num' = dentry_num
    BY <1>2 DEF dentry_num
  <2>3. QED BY <1>4, <1>5, <2>1, <2>2 DEF OwnDentry
<1>7. Reads'
  BY <1>5 DEF Reads
<1>8. ASSUME found = failure
      PROVE  BufferInv' /\ pc' = "idle" /\ result' = failure
  <2>1. Ends(failure, Idle)
    BY <1>2, <1>8 DEF Returns
  <2>2. QED BY <2>1, EndsStep, IdleType
<1>9. ASSUME found \in Indices, found # failure
      PROVE  /\ BufferInv' /\ pc' \in {"idle", "copy"} /\ result' \in {0, failure}
             /\ pc' = "idle" => result' = failure
  <2>1. read_data(inodes_num, Dentries[found].inode_index, 0, length)
    BY <1>2, <1>9, DentryWords
  <2>2. inodes_num \in Nat
    BY WordType, Layout DEF HeaderInv, inodes_num
  <2>3. Dentries[found].inode_index \in DOMAIN IndexNodes
        /\ Dentries[found].inode_index \in Nat
    BY <1>9, Image
  <2>4. 0 \in 0..(WORD - 1) /\ length \in 0..(WORD - 1)
    BY Sizes
  <2>5. QED BY <1>7, <2>1, <2>2, <2>3, <2>4, ReadDataStep
<1>10. /\ BufferInv' /\ pc' \in {"idle", "copy"} /\ result' \in {0, failure}
       /\ pc' = "idle" => result' = failure
  BY <1>1, <1>8, <1>9
<1>11. LongNameReads' /\ AlignedRead' /\ ListsFoundName'
  BY <1>5, <1>10 DEF LongNameReads, AlignedRead, Completed, ListsFoundName
<1>12. result' \in -1..(WORD - 1)
  BY <1>10, Sizes DEF failure
<1>13. QED BY <1>3, <1>5, <1>6, <1>10, <1>11, <1>12 DEF CallInv, CallType

-----------------------------------------------------------------------------
(* The inductive invariant. *)

LEMMA Parts == IInv <=> HeaderInv /\ BufferInv /\ CallInv
<1>1. IInv => HeaderInv /\ BufferInv /\ CallInv
  BY Zenon DEF IInv, TypeOK, CallInv, CallType
<1>2. ASSUME HeaderInv, BufferInv, CallInv PROVE IInv
  <2>1. header \in [Addresses -> Bytes]
    BY <1>2 DEF HeaderInv
  <2>2. rd \in Locals /\ DOMAIN buf = 0..(WORD - 1)
    BY <1>2 DEF BufferInv, Locals
  <2>3. rd.inode \in DOMAIN IndexNodes \cup {0}
    BY <2>2 DEF Locals
  <2>4. /\ rd.offset \in 0..WORD /\ rd.asked \in 0..WORD /\ rd.length \in 0..WORD
        /\ rd.i \in 0..WORD /\ rd.ending \in 0..WORD /\ rd.buf_offset \in 0..WORD
    <3>1. 0..(WORD - 1) \subseteq 0..WORD
      BY Sizes
    <3>2. QED BY <2>2, <3>1 DEF Locals
  <2>5. DOMAIN Idle \ {"inode"} = {"offset", "asked", "length", "i", "ending", "buf_offset"}
    BY DEF Idle
  <2>6. \A f \in DOMAIN Idle \ {"inode"} : rd[f] \in 0..WORD
    BY <2>4, <2>5
  <2>7. TypeOK
    BY <1>2, <2>1, <2>2, <2>3, <2>6, Zenon DEF TypeOK, CallInv, CallType
  <2>8. QED BY <1>2, <2>7, Zenon DEF IInv, CallInv
<1>3. QED BY <1>1, <1>2

LEMMA InitInv == Init => IInv
<1> SUFFICES ASSUME Init PROVE IInv
  OBVIOUS
<1>1. HeaderInv
  BY InitHeader
<1>2. /\ pc = "idle" /\ result = 0 /\ rd = Idle /\ buf = Empty /\ printed = <<>>
      /\ call = [kind |-> "none", name |-> NULL, found |-> failure]
  BY DEF Init
<1>3. BufferInv
  <2>1. Idle \in Locals /\ Idle.buf_offset <= Idle.length /\ Idle.length <= Idle.asked
    BY IdleType DEF Idle
  <2>2. DOMAIN buf = 0..(WORD - 1)
    BY <1>2 DEF Empty
  <2>3. ~Reads /\ pc # "copy"
    BY <1>2 DEF Reads
  <2>4. QED BY <1>2, <2>1, <2>2, <2>3 DEF BufferInv, Locals
<1>4. OwnDentry
  <2>1. SUFFICES ASSUME NEW i \in Plain, Asked = NameBytes(i) PROVE FALSE
    BY DEF OwnDentry
  <2>2. Asked = NULL
    BY <1>2 DEF Asked
  <2>3. 0 \in DOMAIN NameBytes(i)
    <3>1. strlen(Directory[i]) \in Nat
      BY NamedFirst, NameLength DEF Plain
    <3>2. QED BY <3>1 DEF NameBytes
  <2>4. DOMAIN NULL = {}
    BY DEF NULL
  <2>5. QED BY <2>1, <2>2, <2>3, <2>4
<1>5. LongNameReads /\ AlignedRead /\ ListsFoundName
  BY <1>2 DEF LongNameReads, AlignedRead, Completed, ListsFoundName
<1>6. call \in Calls
  BY <1>2 DEF Calls
<1>7. result \in -1..(WORD - 1) /\ Len(printed) \in {0, 3}
  BY <1>2, Sizes
<1>8. CallInv
  BY <1>2, <1>4, <1>5, <1>6, <1>7 DEF CallInv, CallType
<1>9. QED BY <1>1, <1>3, <1>8, Parts

LEMMA StepInv == IInv /\ [Next]_vars => IInv'
<1> SUFFICES ASSUME HeaderInv, BufferInv, CallInv, [Next]_vars
             PROVE  (HeaderInv /\ BufferInv /\ CallInv)'
  BY Parts, PTL
<1>1. ASSUME NEW fname \in Requests \cup {NULL}, FileOpen(fname)
      PROVE  HeaderInv' /\ BufferInv' /\ CallInv'
  BY <1>1, OpenStep
<1>2. ASSUME NEW fname \in Requests \cup {NULL}, NEW length \in Lengths,
             NEW offset \in Offsets, FileRead(fname, offset, length)
      PROVE  HeaderInv' /\ BufferInv' /\ CallInv'
  BY <1>2, FileReadStep
<1>3. ASSUME NEW fname \in Requests \cup {NULL}, NEW length \in Lengths,
             DirectoryRead(fname, length)
      PROVE  HeaderInv' /\ BufferInv' /\ CallInv'
  BY <1>3, DirectoryReadStep
<1>4. ASSUME NEW command \in Commands, NEW length \in Lengths, Load(command, length)
      PROVE  HeaderInv' /\ BufferInv' /\ CallInv'
  BY <1>4, LoadStep
<1>5. ASSUME UNCHANGED <<header, call>>
      PROVE  HeaderInv' /\ (OwnDentry' <=> OwnDentry)
  BY <1>5 DEF HeaderInv, OwnDentry, Asked, dentry_num
<1>6. ASSUME CopyBlock PROVE HeaderInv' /\ BufferInv' /\ CallInv'
  <2>1. BufferInv'
    BY <1>6, RoundStep
  <2>2. UNCHANGED <<header, call>>
    BY <1>6 DEF CopyBlock
  <2>3. pc = "copy" /\ UNCHANGED <<pc, call, result, printed>>
    BY <1>6 DEF CopyBlock
  <2>4. Reads
    BY <2>3 DEF BufferInv, LoopInv
  <2>5. LongNameReads' /\ AlignedRead' /\ ListsFoundName'
    BY <2>3, <2>4 DEF LongNameReads, AlignedRead, Completed, ListsFoundName, Reads
  <2>6. QED BY <1>5, <2>1, <2>2, <2>3, <2>5 DEF CallInv, CallType
<1>7. ASSUME CopyDone PROVE HeaderInv' /\ BufferInv' /\ CallInv'
  <2>1. /\ BufferInv' /\ AlignedRead' /\ Reads'
        /\ pc' = "idle" /\ result' \in 0..(WORD - 1)
    BY <1>7, DoneStep
  <2>2. UNCHANGED <<header, call>> /\ printed' = printed
    BY <1>7 DEF CopyDone
  <2>3. result' \in -1..(WORD - 1) /\ result' # failure
    BY <2>1, Sizes DEF failure
  <2>4. LongNameReads' /\ ListsFoundName'
    BY <2>1, <2>3 DEF LongNameReads, ListsFoundName, Reads
  <2>5. QED BY <1>5, <2>1, <2>2, <2>3, <2>4 DEF CallInv, CallType
<1>8. ASSUME UNCHANGED vars PROVE HeaderInv' /\ BufferInv' /\ CallInv'
  <2>1. UNCHANGED <<header, pc, call, rd, buf, result, printed>>
    BY <1>8 DEF vars
  <2>2. BufferInv'
    <3>1. pc = "copy" => LoopInv'
      BY <2>1, Zenon DEF BufferInv, LoopInv, Reads, Aligned, Position, Copied
    <3>2. QED BY <2>1, <3>1, Zenon DEF BufferInv, Reads
  <2>3. LongNameReads' /\ AlignedRead' /\ ListsFoundName'
    BY <2>1, Zenon DEF CallInv, LongNameReads, AlignedRead, Completed, Delivers, ListsFoundName
  <2>4. QED BY <1>5, <2>1, <2>2, <2>3 DEF CallInv, CallType
<1>9. QED
  BY <1>1, <1>2, <1>3, <1>4, <1>6, <1>7, <1>8 DEF Next

LEMMA Inductive == Spec => []IInv
BY InitInv, StepInv, PTL DEF Spec

(* Every variable has its type: no lookup writes anything but characters   *)
(* and small numbers over the boot block, and nothing behind its dentry.   *)
THEOREM Typing == Spec => []TypeOK
BY Inductive, PTL DEF IInv

(* Whatever lookups have written over the number of dentries, it is 0 or   *)
(* no file has dropped out of the scan.                                    *)
THEOREM Covered == Spec => []CountCovers
<1>1. IInv => CountCovers
  BY Covers, Zenon DEF IInv
<1>2. QED BY <1>1, Inductive, PTL

(* A listed name, also as first word of a command, is never taken for      *)
(* another file, after any sequence of lookups.                            *)
THEOREM FindsOwn == Spec => []OwnDentry
BY Inductive, PTL DEF IInv

(* A file with a name of five characters or more is never refused because  *)
(* of the number of inodes that its own lookup has overwritten.            *)
THEOREM LongNames == Spec => []LongNameReads
BY Inductive, PTL DEF IInv

(* read_data never writes behind the length it was asked for, also when    *)
(* offset and length wrap around.                                          *)
THEOREM Bounded == Spec => []WithinRequest
<1>1. IInv => WithinRequest
  <2>1. SUFFICES ASSUME BufferInv, call.kind \in {"read", "load"},
                        NEW k \in DOMAIN buf, buf[k] # None
                 PROVE  k < rd.asked
    BY DEF IInv, WithinRequest
  <2>2. k \in 0..(WORD - 1) /\ ~(k >= rd.buf_offset)
    BY <2>1 DEF BufferInv, Reads
  <2>3. /\ rd.buf_offset \in Nat /\ rd.length \in Nat /\ rd.asked \in 0..(WORD - 1)
        /\ rd.buf_offset <= rd.length /\ rd.length <= rd.asked
    BY <2>1, RdType
  <2>4. QED BY <2>2, <2>3, Sizes
<1>2. QED BY <1>1, Inductive, PTL

(* A read from the beginning of a block delivers the file's bytes, for     *)
(* every file, block size, offset and length that do not wrap around.      *)
THEOREM Aligns == Spec => []AlignedRead
BY Inductive, PTL DEF IInv

(* A directory read hands out the name its own lookup found.               *)
THEOREM Lists == Spec => []ListsFoundName
BY Inductive, PTL DEF IInv

(* What a lookup prints if the copy it leaves holds the inode it found.    *)
LEMMA PrintStep ==
  ASSUME NEW kind, NEW name, NEW found, NEW m, Looked(kind, name, found, m),
         found # failure => /\ found \in Indices
                            /\ Word(m, INODE) = Dentries[found].inode_index
  PROVE  PrintsNumbers'
<1>1. call'.found = found
  BY DEF Looked
<1>2. SUFFICES ASSUME found # failure
               PROVE  /\ Value(printed'[1]) = Dentries[found].file_type
                      /\ Value(printed'[2]) = Dentries[found].inode_index
                      /\ Value(printed'[3]) = Dentries[found].inode_index
  BY <1>1 DEF PrintsNumbers
<1> DEFINE type == Dentries[found].file_type  inode == Dentries[found].inode_index
<1>3. type \in Nat /\ inode \in Nat
  BY <1>2, Image
<1>4. Prints(type, inode, inode)
  BY <1>2, DentryWords DEF Looked
<1> HIDE DEF type, inode
<1>5. printed' = <<Decimal(type), Decimal(inode), Decimal(inode)>>
  BY <1>4 DEF Prints
<1>6. Value(Decimal(type)) = type /\ Value(Decimal(inode)) = inode
  BY <1>3, DecimalValue
<1>7. QED BY <1>5, <1>6 DEF type, inode

LEMMA PrintDriver ==
  ASSUME HeaderInv, NEW kind \in {"open", "read", "list"},
         NEW fname \in Requests \cup {NULL},
         ThroughCurdentry(fname), Called(kind, fname, header')
  PROVE  PrintsNumbers'
<1> DEFINE found == read_dentry_by_name(fname)
<1>1. Looked(kind, fname, found, header')
  BY DEF Called
<1>2. call'.found = found
  BY <1>1 DEF Looked
<1> HIDE DEF found
<1>3. found # failure => /\ found \in Indices
                         /\ Word(header', INODE) = Dentries[found].inode_index
  BY <1>2, DriverLookup
<1>4. QED BY <1>1, <1>3, PrintStep

(* What a lookup prints are the decimal numbers of the entry it found,     *)
(* also where it has copied that entry over the counts.                    *)
THEOREM Printing == Spec => []PrintsNumbers
<1>1. Init => PrintsNumbers
  BY DEF Init, PrintsNumbers
<1>2. ASSUME IInv, PrintsNumbers, [Next]_vars PROVE PrintsNumbers'
  <2>1. HeaderInv
    BY <1>2 DEF IInv
  <2>2. ASSUME NEW fname \in Requests \cup {NULL}, FileOpen(fname) PROVE PrintsNumbers'
    BY <2>1, <2>2, PrintDriver DEF FileOpen
  <2>3. ASSUME NEW fname \in Requests \cup {NULL}, NEW length \in Lengths,
               NEW offset \in Offsets, FileRead(fname, offset, length)
        PROVE  PrintsNumbers'
    BY <2>1, <2>3, PrintDriver DEF FileRead
  <2>4. ASSUME NEW fname \in Requests \cup {NULL}, NEW length \in Lengths,
               DirectoryRead(fname, length)
        PROVE  PrintsNumbers'
    BY <2>1, <2>4, PrintDriver DEF DirectoryRead
  <2>5. ASSUME NEW command \in Commands, NEW length \in Lengths, Load(command, length)
        PROVE  PrintsNumbers'
    <3> DEFINE found == read_dentry_by_name(file_command(command))
    <3>1. Looked("load", command, found, Directory[found])
      BY <2>5 DEF Load
    <3>2. found = failure \/ found \in Indices
      BY Looks
    <3> HIDE DEF found
    <3>3. found # failure => Word(Directory[found], INODE) = Dentries[found].inode_index
      BY <3>2, DentryWords
    <3>4. QED BY <3>1, <3>2, <3>3, PrintStep
  <2>6. ASSUME UNCHANGED <<call, printed>> PROVE PrintsNumbers'
    BY <1>2, <2>6 DEF PrintsNumbers
  <2>7. CopyBlock \/ CopyDone \/ UNCHANGED vars => UNCHANGED <<call, printed>>
    BY DEF CopyBlock, CopyDone, vars
  <2>8. QED BY <1>2, <2>2, <2>3, <2>4, <2>5, <2>6, <2>7 DEF Next
<1>3. QED BY <1>1, <1>2, Inductive, PTL DEF Spec

-----------------------------------------------------------------------------
(* The boot block as module Process sees it. *)

(* A string that a lookup is given. *)
Passed(s, k) == /\ s \in [0..k -> Bytes] /\ s[k] = 0
                /\ \A a \in 0..k : s[a] \notin 1..2

LEMMA RequestPassed ==
  ASSUME NEW s \in Requests
  PROVE  \E k \in Nat : Passed(s, k)
<1>1. PICK k \in DOMAIN s : s \in [0..k -> Bytes] /\ s[k] = 0
  BY RequestAssumption, Zenon
<1>2. DOMAIN s = 0..k /\ k \in Nat
  BY <1>1
<1>3. \A a \in 0..k : s[a] \notin 1..2
  BY <1>2, NamesAssumption
<1>4. QED BY <1>1, <1>2, <1>3 DEF Passed

LEMMA CommandPassed ==
  ASSUME NEW command \in Commands
  PROVE  \E k \in Nat : Passed(file_command(command), k)
<1> DEFINE from == Blanks(command)  name == file_command(command)
<1>1. PICK k \in Nat :
        /\ command \in [0..k -> Bytes]
        /\ k - from \in Nat /\ \A a \in 0..(k - from) : a + from \in 0..k
        /\ name = [a \in 0..(k - from) |-> command[a + from]]
        /\ name \in [0..(k - from) -> Bytes] /\ name[k - from] = 0
  BY CommandName, Zenon
<1>2. \A a \in 0..k : command[a] \notin 1..2
  BY <1>1, NamesAssumption
<1> HIDE DEF from, name
<1>3. \A a \in 0..(k - from) : name[a] \notin 1..2
  <2>1. ASSUME NEW a \in 0..(k - from) PROVE name[a] \notin 1..2
    <3>1. name[a] = command[a + from] /\ a + from \in 0..k
      BY <1>1
    <3>2. QED BY <1>2, <3>1
  <2>2. QED BY <2>1
<1>4. Passed(name, k - from)
  BY <1>1, <1>3 DEF Passed
<1>5. QED BY <1>1, <1>4 DEF name

LEMMA NotNull ==
  ASSUME NEW s, NEW k \in Nat, Passed(s, k)
  PROVE  s # NULL
<1>1. DOMAIN s = 0..k /\ 0 \in 0..k /\ DOMAIN NULL = {}
  BY DEF NULL, Passed
<1>2. QED BY <1>1

(* The names a string begins with: none but those of Process, and one at   *)
(* most.                                                                   *)
LEMMA BegunPlain ==
  ASSUME NEW s, NEW k \in Nat, Passed(s, k), NEW i \in Named,
         strncmp(s, Directory[i], strlen(Directory[i])) = 0
  PROVE  i \in Begun(s)
<1> DEFINE n == strlen(Directory[i])
<1>1. i \in Indices
  BY NamedFirst
<1>2. n \in Nat /\ \A a \in 0..(n - 1) : a <= k /\ s[a] = Directory[i][a]
  BY <1>1, Compare DEF Passed
<1>3. i \in Plain
  <2>1. SUFFICES ASSUME i \notin Plain PROVE FALSE
    OBVIOUS
  <2>2. n > FILE_NAME_LENGTH
    BY <2>1, NamesAssumption
  <2>3. TYPE \in 0..(n - 1) /\ TYPE \in Nat
    BY <1>2, <2>2, Layout
  <2>4. TYPE \in 0..k /\ s[TYPE] = Directory[i][TYPE]
    BY <1>2, <2>3
  <2>5. Directory[i][TYPE] # 0
    BY <1>1, <2>3, NameLength
  <2>6. Directory[i][TYPE] \in 0..2
    BY <1>1, DirectoryType, Image
  <2>7. s[TYPE] \in 1..2
    BY <2>4, <2>5, <2>6
  <2>8. QED BY <2>4, <2>7 DEF Passed
<1>4. QED BY <1>3 DEF Begun

LEMMA BegunOnce ==
  ASSUME NEW s, NEW k \in Nat, Passed(s, k), NEW i \in Begun(s), NEW j \in Begun(s)
  PROVE  i = j
<1>1. /\ i \in Plain /\ j \in Plain /\ i \in Named /\ j \in Named
      /\ i \in Indices /\ j \in Indices
      /\ strncmp(s, Directory[i], strlen(Directory[i])) = 0
      /\ strncmp(s, Directory[j], strlen(Directory[j])) = 0
  BY NamedFirst DEF Begun, Plain
<1>2. /\ strlen(Directory[i]) \in Nat /\ strlen(Directory[j]) \in Nat
      /\ \A a \in 0..(strlen(Directory[i]) - 1) : s[a] = Directory[i][a]
      /\ \A a \in 0..(strlen(Directory[j]) - 1) : s[a] = Directory[j][a]
  BY <1>1, Compare DEF Passed
<1>3. strlen(Directory[i]) <= strlen(Directory[j]) => Prefix(i, j)
  BY <1>2 DEF Prefix
<1>4. strlen(Directory[j]) <= strlen(Directory[i]) => Prefix(j, i)
  BY <1>2 DEF Prefix
<1>5. Prefix(i, j) \/ Prefix(j, i)
  BY <1>2, <1>3, <1>4
<1>6. QED BY <1>1, <1>5 DEF Plain

LEMMA MeantOne ==
  ASSUME NEW s, NEW k \in Nat, Passed(s, k)
  PROVE  \/ Begun(s) = {} /\ Meant(s) = failure /\ Meant(s) \notin Plain
         \/ Meant(s) \in Plain /\ Begun(s) = {Meant(s)}
<1>1. CASE Begun(s) = {}
  <2>1. Meant(s) = failure
    BY <1>1 DEF Meant
  <2>2. failure \notin Plain
    <3>1. Plain \subseteq Nat
      BY NamedFirst DEF Plain
    <3>2. QED BY <3>1 DEF failure
  <2>3. QED BY <1>1, <2>1, <2>2
<1>2. CASE Begun(s) # {}
  <2>1. Meant(s) \in Begun(s)
    BY <1>2 DEF Meant
  <2>2. Begun(s) = {Meant(s)} /\ Begun(s) \subseteq Plain
    BY <2>1, BegunOnce DEF Begun
  <2>3. QED BY <2>1, <2>2
<1>3. QED BY <1>1, <1>2

-----------------------------------------------------------------------------
(* What Process says of the boot block, written out. *)
LEMMA ProcessView ==
  /\ \A f, n : P!Found(f, n) <=> (n \in Plain /\ f.names # "none") \/ f.names = "total"
  /\ \A n \in Plain : P!Lookup(n) = DentryOf(n)
  /\ \A n : n \notin Plain => P!Lookup(n).class = "empty"
  /\ \A n : P!Loads(n) <=>
       P!Found(FsOf(header), n) /\ P!Lookup(n).elf /\ FsOf(header).inodes
<1>1. P!Names = Plain
  BY DEF P!Names
<1>2. \A f, n : P!Found(f, n) <=> (n \in Plain /\ f.names # "none") \/ f.names = "total"
  BY <1>1 DEF P!Found
<1>3. \A n \in Plain : P!Lookup(n) = DentryOf(n)
  BY <1>1 DEF P!Lookup
<1>4. \A n : n \notin Plain => P!Lookup(n).class = "empty"
  BY <1>1 DEF P!Lookup, P!EmptyDentry
<1>5. QED BY <1>2, <1>3, <1>4 DEF P!Loads

LEMMA ClassOf ==
  ASSUME NEW i \in Indices
  PROVE  LET n == strlen(Directory[i])  class == DentryOf(i).class
         IN  /\ n \in Nat /\ class \in {"empty", "short", "four", "long"}
             /\ class = "empty" <=> n = 0
             /\ class = "short" <=> n # 0 /\ n < 4
             /\ class = "four" <=> n = 4
             /\ class = "long" <=> n > 4
<1> DEFINE n == strlen(Directory[i])
<1>1. n \in Nat
  BY NameLength
<1>2. DentryOf(i).class = CASE n = 0 -> "empty" [] n \in 1..3 -> "short"
                            [] n = 4 -> "four"  [] n > 4 -> "long"
  BY DEF DentryOf
<1> HIDE DEF n
<1>3. CASE n = 0
  BY <1>2, <1>3 DEF n
<1>4. CASE n # 0 /\ n < 4
  BY <1>1, <1>2, <1>4 DEF n
<1>5. CASE n = 4
  BY <1>2, <1>5 DEF n
<1>6. CASE n > 4
  BY <1>1, <1>2, <1>6 DEF n
<1>7. QED BY <1>1, <1>3, <1>4, <1>5, <1>6

(* The number of dentries as Process knows it. *)
LEMMA NamesOf ==
  ASSUME HeaderInv
  PROVE  LET count == Cardinality(Named)  names == FsOf(header).names
         IN  \/ names = "none" /\ dentry_num = 0
             \/ names = "exact" /\ dentry_num # 0 /\ dentry_num = count
             \/ names = "total" /\ dentry_num # 0 /\ count < dentry_num
<1> DEFINE count == Cardinality(Named)
<1>1. dentry_num \in Nat /\ CountCovers
  BY Covers
<1>2. count \in Indices /\ count \in Nat /\ \A j \in Indices : j \in Named <=> j < count
  BY NamedCount
<1>3. FsOf(header).names = IF dentry_num = 0 THEN "none"
                           ELSE IF dentry_num = count THEN "exact" ELSE "total"
  BY DEF FsOf, dentry_num
<1> HIDE DEF count
<1>4. ASSUME dentry_num # 0, dentry_num # count PROVE count < dentry_num
  <2>1. CASE count = 0
    BY <1>1, <1>4, <2>1
  <2>2. CASE count # 0
    <3>1. count - 1 \in Indices /\ count - 1 \in Named
      BY <1>2, <2>2, LayoutAssumption DEF Indices
    <3>2. count - 1 < dentry_num
      BY <1>1, <1>4, <3>1 DEF CountCovers
    <3>3. QED BY <1>1, <1>2, <1>4, <3>2
  <2>3. QED BY <2>1, <2>2
<1>5. QED BY <1>3, <1>4 DEF count

(* A lookup finds what Found and Lookup of Process say. *)
LEMMA Finds ==
  ASSUME HeaderInv, NEW s, NEW k \in Nat, Passed(s, k)
  PROVE  LET found == read_dentry_by_name(s)  n == Meant(s)
         IN  /\ found # failure <=> P!Found(FsOf(header), n)
             /\ found # failure => /\ found \in Indices
                                   /\ P!Lookup(n).class = DentryOf(found).class
                                   /\ n \in Plain => found = n
<1> DEFINE found == read_dentry_by_name(s)  n == Meant(s)  names == FsOf(header).names
           count == Cardinality(Named)
<1>1. \/ found = failure /\ Matches(s) = {}
      \/ /\ found \in Indices /\ found # failure /\ found \in Matches(s)
         /\ \A j \in Matches(s) : found <= j
  BY NotNull, Looks
<1>2. dentry_num \in Nat /\ CountCovers
  BY Covers
<1>3. P!Found(FsOf(header), n) <=> (n \in Plain /\ names # "none") \/ names = "total"
  BY ProcessView
<1>4. \/ Begun(s) = {} /\ n \notin Plain
      \/ n \in Plain /\ Begun(s) = {n}
  BY MeantOne
<1>5. \/ names = "none" /\ dentry_num = 0
      \/ names = "exact" /\ dentry_num # 0 /\ dentry_num = count
      \/ names = "total" /\ dentry_num # 0 /\ count < dentry_num
  BY NamesOf
<1>6. /\ count \in Indices /\ count \in Nat /\ \A j \in Indices : j \in Named <=> j < count
  BY NamedCount
<1> HIDE DEF found, n, names, count
<1>7. \A j \in Matches(s) :
                           /\ j \in Indices /\ j \in Nat /\ j < dentry_num
                           /\ strncmp(s, Directory[j], strlen(Directory[j])) = 0
                           /\ j \in Named => j \in Begun(s)
  BY NamedFirst, BegunPlain DEF Matches
<1>8. CASE names = "none"
  <2>1. Matches(s) = {}
    BY <1>2, <1>5, <1>7, <1>8
  <2>2. found = failure /\ ~P!Found(FsOf(header), n)
    BY <1>1, <1>3, <1>8, <2>1
  <2>3. QED BY <2>2 DEF found, n
<1>9. CASE names # "none" /\ n \in Plain
  <2>1. n \in Named /\ n \in Indices /\ n \in Nat /\ n \in Begun(s)
    BY <1>4, <1>9, NamedFirst DEF Plain
  <2>2. n \in Matches(s)
    BY <1>2, <1>5, <1>9, <2>1 DEF Matches, Begun, CountCovers
  <2>3. found \in Indices /\ found # failure /\ found \in Matches(s) /\ found <= n
    BY <1>1, <2>2
  <2>4. found \in Named
    <3>1. found \notin Named => n < found
      BY <2>1, <2>3, NamedFirst
    <3>2. QED BY <1>7, <2>1, <2>3, <3>1
  <2>5. found = n
    BY <1>4, <1>7, <1>9, <2>3, <2>4
  <2>6. P!Lookup(n) = DentryOf(n)
    BY <1>9, ProcessView
  <2>7. QED BY <1>3, <1>9, <2>3, <2>5, <2>6 DEF found, n
<1>10. CASE names # "none" /\ n \notin Plain
  <2>1. Begun(s) = {} /\ P!Lookup(n).class = "empty"
    BY <1>4, <1>10, ProcessView
  <2>2. \A j \in Matches(s) : j \notin Named
    BY <1>7, <2>1
  <2>3. CASE names = "total"
    <3>1. count \notin Named /\ count < dentry_num
      BY <1>5, <1>6, <2>3
    <3>2. strlen(Directory[count]) = 0
      BY <1>6, <3>1, NameLength
    <3>3. strncmp(s, Directory[count], 0) = 0
      <4>1. strncmp(s, Directory[count], strlen(Directory[count])) = 0 <=>
              \A a \in 0..(strlen(Directory[count]) - 1) : a <= k /\ s[a] = Directory[count][a]
        BY <1>6, Compare DEF Passed
      <4>2. 0..(0 - 1) = {}
        OBVIOUS
      <4>3. QED BY <3>2, <4>1, <4>2
    <3>4. count \in Matches(s)
      BY <1>6, <3>1, <3>2, <3>3 DEF Matches
    <3>5. found \in Indices /\ found # failure /\ found \notin Named
      BY <1>1, <2>2, <3>4
    <3>6. DentryOf(found).class = "empty"
      BY <3>5, NameLength, ClassOf
    <3>7. QED BY <1>3, <1>10, <2>1, <2>3, <3>5, <3>6 DEF found, n
  <2>4. CASE names # "total"
    <3>1. dentry_num = count
      BY <1>5, <1>10, <2>4
    <3>2. Matches(s) = {}
      BY <1>6, <1>7, <2>2, <3>1
    <3>3. found = failure /\ ~P!Found(FsOf(header), n)
      BY <1>1, <1>3, <1>10, <2>4, <3>2
    <3>4. QED BY <3>3 DEF found, n
  <2>5. QED BY <2>3, <2>4
<1>11. QED BY <1>8, <1>9, <1>10

LEMMA FsRecord ==
  ASSUME NEW h
  PROVE  LET f == FsOf(h)  covered == \A i \in Named : Dentries[i].inode_index <= Word(h, 4)
         IN  /\ f = [names |-> f.names, inodes |-> f.inodes]
             /\ f.inodes \in BOOLEAN
             /\ f.inodes <=> covered
             /\ Word(h, 0) = 0 => f.names = "none"
             /\ Word(h, 0) # 0 /\ Word(h, 0) # Cardinality(Named) => f.names = "total"
BY DEF FsOf

(* A lookup through curdentry leaves what ClobberedBy says. *)
LEMMA Clobbers ==
  ASSUME HeaderInv, NEW found \in Indices, NEW d, d.class = DentryOf(found).class
  PROVE  FsOf(CopyDentry(header, Directory[found])) \in P!ClobberedBy(FsOf(header), d)
<1> DEFINE n == strlen(Directory[found])  h == CopyDentry(header, Directory[found])
           count == Cardinality(Named)  f == FsOf(header)  g == FsOf(h)
<1>1. n \in Nat /\ Directory[found][n] = 0 /\ (found \in Named <=> n # 0)
  BY NameLength
<1>2. /\ h \in [Addresses -> Bytes] /\ header \in [Addresses -> Bytes]
      /\ \A a \in Addresses : a <= n => h[a] = Directory[found][a]
      /\ \A a \in Addresses : n < a /\ a < TYPE => h[a] = header[a]
  BY CopyType DEF HeaderInv
<1>3. {0, 4, 5, 6, 7} \subseteq Addresses /\ TYPE \in Nat /\ TYPE >= 8 /\ RESERVED \in Nat
      /\ RESERVED >= 8
  BY Layout
<1>4. /\ f = [names |-> f.names, inodes |-> f.inodes] /\ f.inodes \in BOOLEAN
      /\ f.inodes <=> \A i \in Named : Dentries[i].inode_index <= Word(header, 4)
  BY FsRecord
<1>5. /\ g = [names |-> g.names, inodes |-> g.inodes] /\ g.inodes \in BOOLEAN
      /\ g.inodes <=> \A i \in Named : Dentries[i].inode_index <= Word(h, 4)
      /\ Word(h, 0) = 0 => g.names = "none"
      /\ Word(h, 0) # 0 /\ Word(h, 0) # count => g.names = "total"
  BY FsRecord
<1>6. count \in Nat /\ count < 128
  <2>1. Cardinality(Named) \in Bytes
    BY ImageAssumption, Zenon
  <2>2. QED BY <2>1 DEF Bytes
<1>7. /\ Word(h, 0) \in Nat /\ Word(h, 0) >= h[0] /\ h[0] \in Bytes
      /\ h[0] = 0 => Word(h, 0) = 0 \/ Word(h, 0) >= 256
      /\ Word(h, 4) \in Nat /\ Word(h, 4) >= h[4] /\ h[4] \in Bytes
      /\ Word(header, 4) \in Nat
  <2>1. 0 + 3 <= RESERVED /\ 4 + 3 <= RESERVED
    BY <1>3
  <2> HIDE DEF h
  <2>2. QED BY <1>2, <2>1, WordType
<1>8. \A i \in Named : Dentries[i].inode_index \in Nat
  BY Image, NamedFirst
<1>9. /\ P!ClobberedBy(f, d) =
           CASE d.class = "empty" -> {[f EXCEPT !.names = x] : x \in {"total", "none"}}
             [] d.class = "short" -> {[f EXCEPT !.names = "total"]}
             [] d.class = "four"  -> {[names |-> "total", inodes |-> b] :
                                         b \in {f.inodes, FALSE}}
             [] d.class = "long"  -> {[names |-> "total", inodes |-> TRUE]}
  BY DEF P!ClobberedBy
<1>10. /\ d.class \in {"empty", "short", "four", "long"}
       /\ d.class = "empty" <=> n = 0
       /\ d.class = "short" <=> n # 0 /\ n < 4
       /\ d.class = "four" <=> n = 4
       /\ d.class = "long" <=> n > 4
  BY ClassOf
<1>11. ASSUME n # 0 PROVE g.names = "total"
  <2>1. found \in Named
    BY <1>1, <1>11
  <2>2. h[0] = Directory[found][0]
    BY <1>1, <1>2, <1>3
  <2>3. Directory[found][0] = Dentries[found].file_name[0]
    BY <1>3, DirectoryType
  <2>4. Dentries[found].file_name[0] > count
    BY <2>1, NamesAssumption
  <2> HIDE DEF count, h, g
  <2>5. h[0] > count
    BY <2>2, <2>3, <2>4
  <2>6. Word(h, 0) > count /\ Word(h, 0) # 0
    BY <1>6, <1>7, <2>5 DEF Bytes
  <2>7. QED BY <1>5, <1>6, <1>7, <2>6
<1>12. ASSUME n < 4 PROVE g.inodes = f.inodes
  <2>1. h[4] = header[4] /\ h[5] = header[5] /\ h[6] = header[6] /\ h[7] = header[7]
    BY <1>1, <1>2, <1>3, <1>12
  <2>2. Word(h, 4) = Word(header, 4)
    BY <2>1 DEF Word
  <2> HIDE DEF f, g, h
  <2>3. QED BY <1>4, <1>5, <2>2
<1> HIDE DEF f, g, h, n, count
<1>13. CASE n = 0
  <2>1. h[0] = 0
    BY <1>1, <1>2, <1>3, <1>13
  <2>2. Word(h, 0) = 0 \/ (Word(h, 0) # 0 /\ Word(h, 0) # count)
    BY <1>6, <1>7, <2>1
  <2>3. g.names \in {"total", "none"}
    BY <1>5, <2>2
  <2>4. g = [f EXCEPT !.names = g.names]
    BY <1>4, <1>5, <1>12, <1>13
  <2>5. P!ClobberedBy(f, d) = {[f EXCEPT !.names = x] : x \in {"total", "none"}}
    BY <1>9, <1>10, <1>13
  <2>6. QED BY <2>3, <2>4, <2>5 DEF f, g, h
<1>14. CASE n # 0 /\ n < 4
  <2>1. g = [f EXCEPT !.names = "total"]
    BY <1>4, <1>5, <1>11, <1>12, <1>14
  <2>2. P!ClobberedBy(f, d) = {[f EXCEPT !.names = "total"]}
    BY <1>9, <1>10, <1>14
  <2>3. QED BY <2>1, <2>2 DEF f, g, h
<1>15. CASE n = 4
  <2>1. h[4] = 0 /\ h[5] = header[5] /\ h[6] = header[6] /\ h[7] = header[7]
    BY <1>1, <1>2, <1>3, <1>15
  <2>2. header[4] \in Nat /\ header[5] \in Nat /\ header[6] \in Nat /\ header[7] \in Nat
    BY <1>2, <1>3 DEF Bytes
  <2>3. Word(h, 4) <= Word(header, 4)
    BY <2>1, <2>2 DEF Word
  <2>4. g.inodes => f.inodes
    BY <1>4, <1>5, <1>7, <1>8, <2>3
  <2>5. g.inodes \in {f.inodes, FALSE}
    BY <1>4, <1>5, <2>4
  <2>6. P!ClobberedBy(f, d) = {[names |-> "total", inodes |-> b] : b \in {f.inodes, FALSE}}
    BY <1>9, <1>10, <1>15
  <2>7. g = [names |-> "total", inodes |-> g.inodes]
    BY <1>5, <1>11, <1>15
  <2>8. QED BY <2>5, <2>6, <2>7 DEF f, g, h
<1>16. CASE n > 4
  <2>1. 4 \in Addresses /\ 4 < TYPE /\ 4 \in 0..(n - 1)
    BY <1>1, <1>3, <1>16
  <2>2. h[4] = Directory[found][4] /\ Directory[found][4] # 0
    BY <1>2, <1>16, <2>1, NameLength DEF n
  <2>3. \A i \in Named : h[4] > Dentries[i].inode_index
    BY <2>1, <2>2, Characters
  <2>4. g.inodes = TRUE
    BY <1>5, <1>7, <1>8, <2>3 DEF Bytes
  <2>5. g = [names |-> "total", inodes |-> TRUE]
    BY <1>1, <1>5, <1>11, <1>16, <2>4
  <2>6. P!ClobberedBy(f, d) = {[names |-> "total", inodes |-> TRUE]}
    BY <1>1, <1>9, <1>10, <1>16
  <2>7. QED BY <2>5, <2>6 DEF f, g, h
<1>17. QED BY <1>1, <1>13, <1>14, <1>15, <1>16

(* execute gets at a program's bytes when Loads says so. *)
LEMMA LoadsProgram ==
  ASSUME HeaderInv, NEW command \in Commands, NEW length, Load(command, length),
         Meant(file_command(command)) \in Plain,
         DentryOf(Meant(file_command(command))).elf
  PROVE  pc' = "copy" <=> P!Loads(Meant(file_command(command)))
<1> DEFINE name == file_command(command)  found == read_dentry_by_name(name)
           n == Meant(name)  f == FsOf(header)  inode == Dentries[n].inode_index
<1>1. PICK k \in Nat : Passed(name, k)
  BY CommandPassed
<1>2. /\ found # failure <=> P!Found(f, n)
      /\ found # failure => found = n
  BY <1>1, Finds, Zenon
<1>3. n \in Named /\ n \in Indices /\ Dentries[n].file_type = 2
  BY NamedFirst DEF Plain, DentryOf
<1>4. P!Loads(n) <=> found # failure /\ f.inodes
  <2>1. P!Lookup(n).elf
    BY ProcessView
  <2>2. P!Loads(n) <=> P!Found(f, n) /\ P!Lookup(n).elf /\ f.inodes
    BY ProcessView
  <2>3. QED BY <1>2, <2>1, <2>2
<1>5. IF found = failure THEN Returns(failure)
      ELSE read_data(inodes_num, Word(Directory[found], INODE), 0, length)
  BY DEF Load
<1>6. CASE found = failure
  <2>1. pc' = "idle"
    BY <1>5, <1>6 DEF Returns, Ends
  <2>2. QED BY <1>4, <1>6, <2>1
<1>7. CASE found # failure
  <2>1. found = n /\ inode \in DOMAIN IndexNodes /\ inode \in Bytes
    BY <1>2, <1>3, <1>7, Image
  <2>2. read_data(inodes_num, inode, 0, length)
    BY <1>3, <1>5, <1>7, <2>1, DentryWords
  <2>3. ~(0 > IndexNodes[inode].file_length)
    BY <2>1, Sizes
  <2> DEFINE w == Word(header, 4)
  <2>4. w \in Nat /\ w >= header[4] /\ header[4] \in Bytes
        /\ (header[4] = 0 => w = 0 \/ w >= 256)
    <3>1. header \in [Addresses -> Bytes] /\ 4 + 3 <= RESERVED
      BY Layout DEF HeaderInv
    <3>2. QED BY <3>1, WordType
  <2>5. pc' = "copy" <=> ~(inode > w)
    <3>1. inodes_num = w
      BY DEF inodes_num
    <3>2. CASE inode > w
      BY <2>2, <3>1, <3>2 DEF read_data, Refused, Ends
    <3>3. CASE ~(inode > w)
      BY <2>2, <2>3, <3>1, <3>3 DEF read_data, Begins
    <3>4. QED BY <3>2, <3>3
  <2>6. f.inodes <=> \A i \in Named : Dentries[i].inode_index <= w
    BY FsRecord
  <2>7. \A i \in Named : Dentries[i].inode_index \in 0..127
    BY Image, NamedFirst DEF Bytes
  <2>8. inode # 0
    BY <1>3, NamesAssumption
  <2>9. header[4] = 0 \/ \A i \in Named : header[4] >= Dentries[i].inode_index
    BY DEF HeaderInv
  <2> HIDE DEF w, inode
  <2>10. ASSUME ~(inode > w), NEW i \in Named PROVE Dentries[i].inode_index <= w
    <3>1. inode \in Nat
      BY <2>1 DEF Bytes
    <3>2. Dentries[i].inode_index \in 0..127
      BY <2>7
    <3>3. CASE header[4] = 0
      BY <2>4, <2>8, <2>10, <3>1, <3>2, <3>3
    <3>4. CASE header[4] # 0
      <4>1. header[4] >= Dentries[i].inode_index
        BY <2>9, <3>4
      <4> DEFINE c == header[4]  j == Dentries[i].inode_index
      <4>2. w \in Nat /\ c \in 0..127 /\ j \in 0..127 /\ w >= c /\ c >= j
        BY <2>4, <3>2, <4>1 DEF Bytes
      <4> HIDE DEF c, j
      <4>3. j <= w
        BY <4>2
      <4>4. QED BY <4>3 DEF j
    <3>5. QED BY <3>3, <3>4
  <2>11. (\A i \in Named : Dentries[i].inode_index <= w) => ~(inode > w)
    <3>1. inode = Dentries[n].inode_index /\ inode \in Nat
      BY <2>1 DEF inode, Bytes
    <3>2. QED BY <1>3, <2>4, <3>1
  <2>12. f.inodes <=> ~(inode > w)
    BY <2>6, <2>10, <2>11
  <2>13. QED BY <1>4, <1>7, <2>5, <2>12
<1>8. QED BY <1>6, <1>7

LEMMA DriverAgrees ==
  ASSUME HeaderInv, NEW kind \in {"open", "read", "list"},
         NEW fname \in Requests \cup {NULL},
         ThroughCurdentry(fname), Called(kind, fname, header')
  PROVE  AsProcessSays
<1> DEFINE found == read_dentry_by_name(fname)  n == Meant(fname)
<1>1. call' = [kind |-> kind, name |-> fname, found |-> found]
  BY DEF Called, Looked
<1>2. CASE fname = NULL
  BY <1>1, <1>2 DEF AsProcessSays
<1>3. CASE fname # NULL
  <2>1. PICK k \in Nat : Passed(fname, k)
    BY <1>3, RequestPassed
  <2>2. /\ found # failure <=> P!Found(FsOf(header), n)
        /\ found # failure => /\ found \in Indices
                              /\ P!Lookup(n).class = DentryOf(found).class
    BY <2>1, Finds, Zenon
  <2>3. found # failure => header' = CopyDentry(header, Directory[found])
    BY ThroughHeader
  <2> HIDE DEF found, n
  <2>4. found # failure => FsOf(header') \in P!ClobberedBy(FsOf(header), P!Lookup(n))
    BY <2>2, <2>3, Clobbers
  <2>5. Meant(Wanted') = n /\ call'.found = found /\ call'.kind # "load"
    BY <1>1 DEF Wanted, n
  <2>6. QED BY <2>2, <2>4, <2>5 DEF AsProcessSays
<1>4. QED BY <1>2, <1>3

LEMMA LoadAgrees ==
  ASSUME HeaderInv, NEW command \in Commands, NEW length, Load(command, length)
  PROVE  AsProcessSays
<1> DEFINE name == file_command(command)  found == read_dentry_by_name(name)
           n == Meant(name)
<1>1. call' = [kind |-> "load", name |-> command, found |-> found]
  BY DEF Load, Looked
<1>2. PICK k \in Nat : Passed(name, k)
  BY CommandPassed
<1>3. /\ found # failure <=> P!Found(FsOf(header), n)
      /\ found # failure => /\ found \in Indices
                            /\ P!Lookup(n).class = DentryOf(found).class
  BY <1>2, Finds, Zenon
<1>4. n \in Plain /\ DentryOf(n).elf => (pc' = "copy" <=> P!Loads(n))
  BY LoadsProgram
<1> HIDE DEF found, n
<1>5. Meant(Wanted') = n /\ call'.found = found /\ call'.kind = "load"
  BY <1>1 DEF Wanted, n
<1>6. QED BY <1>3, <1>4, <1>5 DEF AsProcessSays

(* Whatever names, numbers and blocks the image holds, a lookup and a load *)
(* do to the bytes of the boot block what module Process says they do.     *)
THEOREM Abstracts == Spec => ProcessAbstraction
<1>1. ASSUME IInv, [Next]_vars PROVE [AsProcessSays]_vars
  <2>1. HeaderInv
    BY <1>1 DEF IInv
  <2>2. ASSUME NEW fname \in Requests \cup {NULL}, FileOpen(fname) PROVE AsProcessSays
    BY <2>1, <2>2, DriverAgrees DEF FileOpen
  <2>3. ASSUME NEW fname \in Requests \cup {NULL}, NEW length \in Lengths,
               NEW offset \in Offsets, FileRead(fname, offset, length)
        PROVE  AsProcessSays
    BY <2>1, <2>3, DriverAgrees DEF FileRead
  <2>4. ASSUME NEW fname \in Requests \cup {NULL}, NEW length \in Lengths,
               DirectoryRead(fname, length)
        PROVE  AsProcessSays
    BY <2>1, <2>4, DriverAgrees DEF DirectoryRead
  <2>5. ASSUME NEW command \in Commands, NEW length \in Lengths, Load(command, length)
        PROVE  AsProcessSays
    BY <2>1, <2>5, LoadAgrees
  <2>6. ASSUME CopyBlock \/ CopyDone PROVE AsProcessSays
    BY <2>6 DEF CopyBlock, CopyDone, AsProcessSays
  <2>7. QED BY <1>1, <2>2, <2>3, <2>4, <2>5, <2>6 DEF Next
<1>2. QED BY <1>1, Inductive, PTL DEF Spec, ProcessAbstraction
=============================================================================
