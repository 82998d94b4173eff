-------------------------------- MODULE Lib --------------------------------
(***************************************************************************)
(* The functions of lib.c on strings and numbers that the file system      *)
(* uses.  A string is a function from 0 with a 0 byte somewhere; a number  *)
(* printed is the sequence of its digits.                                  *)
(***************************************************************************)
EXTENDS Integers, Sequences

strlen(s) == CHOOSE n \in DOMAIN s : s[n] = 0 /\ \A a \in 0..(n - 1) : s[a] # 0

(* Where strncmp stops early. *)
Stops(s1, s2, a) == s1[a] # s2[a] \/ s1[a] = 0

strncmp_OffByOne(s1, s2, n) ==
  IF \E a \in 0..(n - 2) : Stops(s1, s2, a) THEN 1 ELSE 0

strncmp(s1, s2, n) ==
  IF \E a \in 0..(n - 1) : Stops(s1, s2, a)
  THEN LET a == CHOOSE a \in 0..(n - 1) :
                  Stops(s1, s2, a) /\ \A b \in 0..(a - 1) : ~Stops(s1, s2, b)
       IN  s1[a] - s2[a]
  ELSE 0

(* memory "to" from address at on, after src was copied there. *)
strcpy(to, at, src) ==
  [a \in DOMAIN to |-> IF a \in at..(at + strlen(src)) THEN src[a - at] ELSE to[a]]

strrev_Not(s) == s

strrev(s) == [k \in 1..Len(s) |-> s[Len(s) + 1 - k]]

(* The lowest digit comes out first. *)
itoa(value, radix) ==
  LET digits[v \in Nat] ==
        IF v = 0 THEN <<>> ELSE <<v % radix>> \o digits[v \div radix]
  IN  IF value = 0 THEN <<0>> ELSE strrev(digits[value])

(* printf's %d. *)
Decimal(value) ==
  IF value < 0 THEN <<"-">> \o itoa(-value, 10) ELSE itoa(value, 10)
=============================================================================
