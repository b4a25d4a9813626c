----------------------------- MODULE Or1kArith -----------------------------
(***************************************************************************)
(* What the arithmetic and logic instructions mean, as the mnemonics and   *)
(* the comments beside their translation say: integers and sets of bits,   *)
(* with no reference to the code that is emitted.                          *)
(***************************************************************************)
EXTENDS Words

CONSTANT Width      \* bits of a register: 32

Half == Width \div 2            \* bits of an immediate
Byte == Width \div 4

\* A shift takes its amount from the lowest bits of a register, which are as
\* many as there are amounts.
ASSUME ArithAssumption == Width \in Nat /\ \E n \in 2 .. Width : Width = 2^n

Word == WordOf(Width)

Bits(v) == BitsOf(v, Width)

\* The bits of v, its bit number n - 1 repeated above.
Extended(v, n) == {m \in 0 .. Width - 1 :
                     (IF m < n THEN m ELSE n - 1) \in Bits(v)}

\* The quotient of a by b, rounded towards zero.
Quotient(a, b) ==
  CHOOSE q \in -(2^Width) .. 2^Width :
    LET r == a - q * b
    IN  /\ r * r < b * b
        /\ (a >= 0 => r >= 0) /\ (a <= 0 => r <= 0)

\* r is the result of op on registers a and b, immediate i and flag f.
Means(op, a, b, i, f, r) ==
  LET k == b % Width
      m == i % Width
      x == IntOf(a, Width)
      y == IntOf(b, Width)
      I == IntOf(i, Half)
      Shifted(n) == {p + n : p \in Bits(a)} \cap (0 .. Width - 1)
      Signs(n)   == IF x < 0 THEN Width - n .. Width - 1 ELSE {}
      Cong(v)    == (v - r) % 2^Width = 0
  IN  /\ op = "add"   => Cong(a + b)
      /\ op = "sub"   => Cong(a - b)
      /\ op = "addi"  => Cong(a + I)
      /\ op = "mul"   => Cong(x * y)
      /\ op = "muli"  => Cong(x * I)
      /\ op = "div" /\ b # 0  => Cong(Quotient(x, y))
      /\ op = "divu" /\ b # 0 => r = a \div b
      /\ op = "mulu"  => Cong(a * b)
      /\ op = "and"   => Bits(r) = Bits(a) \cap Bits(b)
      /\ op = "or"    => Bits(r) = Bits(a) \cup Bits(b)
      /\ op = "xor"   => \A n \in 0 .. Width - 1 :
                           n \in Bits(r) <=> (n \in Bits(a)) # (n \in Bits(b))
      /\ op = "andi"  => Bits(r) = Bits(a) \cap Bits(i)
      /\ op = "ori"   => Bits(r) = Bits(a) \cup Bits(i)
      /\ op = "xori"  => \A n \in 0 .. Width - 1 :
                           n \in Bits(r) <=>
                             (n \in Bits(a)) # (n \in Extended(i, Half))
      /\ op = "movhi" => Bits(r) = {p + Half : p \in Bits(i)}
      /\ op = "sll"   => Bits(r) = Shifted(k)
      /\ op = "slli"  => Bits(r) = Shifted(m)
      /\ op = "srl"   => Bits(r) = Shifted(-k)
      /\ op = "srli"  => Bits(r) = Shifted(-m)
      /\ op = "sra"   => Bits(r) = Shifted(-k) \cup Signs(k)
      /\ op = "srai"  => Bits(r) = Shifted(-m) \cup Signs(m)
      /\ op = "ror"   => Bits(r) = {(p - k) % Width : p \in Bits(a)}
      /\ op = "exths" => Bits(r) = Extended(a, Half)
      /\ op = "extbs" => Bits(r) = Extended(a, Byte)
      /\ op = "exthz" => r = a % 2^Half
      /\ op = "extbz" => r = a % 2^Byte
      /\ op \in {"extws", "extwz"} => r = a
      /\ op = "cmov"  => r = IF f THEN a ELSE b

\* Whether the comparison op holds of a and b. Words in two's complement are
\* in the order of the naturals once their sign bits are flipped.
Holds(op, a, b) ==
  LET Flip(v) == (v + 2^(Width - 1)) % 2^Width
      x == Flip(a)
      y == Flip(b)
  IN  \/ op = "sfeq"  /\ Bits(a) = Bits(b)
      \/ op = "sfne"  /\ Bits(a) # Bits(b)
      \/ op = "sfgtu" /\ a > b
      \/ op = "sfgeu" /\ a >= b
      \/ op = "sfltu" /\ a < b
      \/ op = "sfleu" /\ a <= b
      \/ op = "sfgts" /\ x > y
      \/ op = "sfges" /\ x >= y
      \/ op = "sflts" /\ x < y
      \/ op = "sfles" /\ x <= y

Carry(a, b) == a + b >= 2^Width
SignedOverflow(a, b) ==
  IntOf(a, Width) + IntOf(b, Width)
    \notin -(2^(Width - 1)) .. 2^(Width - 1) - 1
=============================================================================
