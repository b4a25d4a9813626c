------------------------------- MODULE Words -------------------------------
(* Bit patterns and the integers they stand for. *)
EXTENDS Integers

WordOf(n) == 0 .. 2^n - 1

\* The integer an n-bit pattern stands for in two's complement.
IntOf(v, n) == IF v < 2^(n - 1) THEN v ELSE v - 2^n

BitOf(v, p) == (v \div 2^p) % 2

BitsOf(v, n) == {p \in 0 .. n - 1 : BitOf(v, p) = 1}

\* The number each of whose bits is what the table makes of how many of the two
\* bits in its place are set.
Bitwise(a, b, table) ==
  LET from[p \in 0 .. a + b] ==
        IF a \div 2^p = 0 /\ b \div 2^p = 0 THEN 0
        ELSE 2 * from[p + 1] + table[BitOf(a, p) + BitOf(b, p)]
  IN  from[0]

a & b  == Bitwise(a, b, [n \in 0 .. 2 |-> n \div 2])
a | b  == Bitwise(a, b, [n \in 0 .. 2 |-> (n + 1) \div 2])
a ^^ b == Bitwise(a, b, [n \in 0 .. 2 |-> n % 2])
=============================================================================
