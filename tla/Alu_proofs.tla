------------------------------ MODULE Alu_proofs ------------------------------
(***************************************************************************)
(* What the emitted code for arithmetic computes, for registers of every   *)
(* width: that of openrisc_vm what the mnemonics say, that of riscv_vm     *)
(* what RV64I means for the operands named, and where its jumps lead.      *)
(***************************************************************************)
EXTENDS OpenriscAlu, RiscvAlu, Words_proofs

-----------------------------------------------------------------------------
(* OpenRISC: widths.                                                       *)

\* The widths of registers, immediates and bytes.
LEMMA Widths ==
  /\ Width \in Nat \ {0} /\ Half \in Nat \ {0} /\ Byte \in Nat \ {0}
  /\ Width = 2 * Half /\ Half = 2 * Byte /\ 4 =< Width
  /\ Word = WordOf(Width) /\ 2^Width \in Nat \ {0} /\ 16 =< 2^Width
  /\ Ones \in Word /\ 0 \in Word
  /\ \A w \in Word : w \in Nat
<1>1. PICK n \in Nat : 2 =< n /\ Width = 2^n
  BY ArithAssumption
<1>2. 2^n = 2^(n - 2) * 2^2 /\ n - 2 \in Nat /\ 2^(n - 2) \in Nat \ {0}
  BY <1>1, PowersGrow, Powers
<1>3. Width = 4 * 2^(n - 2)
  BY <1>1, <1>2, SmallPowers
<1>4. \A m \in Nat \ {0} : (4 * m) \div 2 = 2 * m /\ (4 * m) \div 4 = m /\ 4 * m >= 4
  OBVIOUS
<1>5. Half = 2 * 2^(n - 2) /\ Byte = 2^(n - 2) /\ Width >= 4
  BY <1>2, <1>3, <1>4 DEF Half, Byte
<1>6. Width \in Nat \ {0} /\ Half \in Nat \ {0} /\ Byte \in Nat \ {0}
      /\ Width = 2 * Half /\ Half = 2 * Byte /\ 4 =< Width
  BY <1>2, <1>3, <1>5
<1>7. 2^Width \in Nat \ {0} /\ 2^4 =< 2^Width
  BY <1>6, Powers, PowersGrow
<1>8. QED BY <1>6, <1>7, SmallPowers DEF Word, WordOf, Ones

-----------------------------------------------------------------------------
(* The status register.                                                    *)

\* The mask of a flag leaves the other ones alone.
LEMMA FlagCleared ==
  ASSUME NEW s \in 0 .. 15, NEW flag \in 0 .. 3
  PROVE  /\ s & (Ones - 2^flag) \in 0 .. 15
         /\ \A p \in Nat : BitOf(s & (Ones - 2^flag), p) = IF p = flag THEN 0 ELSE BitOf(s, p)
<1> DEFINE m == Ones - 2^flag
           t == s & m
<1>1. WordOf(4) = 0 .. 15
  BY SmallPowers DEF WordOf
<1>2. 2^flag \in WordOf(Width)
  <2>1. 0 =< flag /\ flag =< 3 /\ flag \in Nat
    OBVIOUS
  <2>2. 2^flag =< 2^3 /\ 2^flag \in Nat
    BY <2>1, Powers, PowersGrow
  <2>3. QED BY <2>2, Widths, SmallPowers DEF WordOf
<1>3. m \in WordOf(Width) /\ m \in Nat /\ s \in Nat
  BY <1>2, Widths, BitOfComplement DEF Ones, WordOf
<1>4. s \in WordOf(Width)
  BY Widths DEF WordOf
<1>5. \A p \in 0 .. Width - 1 : BitOf(m, p) = 1 - BitOf(2^flag, p)
  BY <1>2, Widths, BitOfComplement DEF Ones
<1>6. \A p \in 0 .. Width - 1 : BitOf(m, p) = IF p = flag THEN 0 ELSE 1
  <2>1. \A p \in 0 .. Width - 1 : BitOf(2^flag, p) = IF p = flag THEN 1 ELSE 0
    BY Widths, BitOfPower
  <2>2. QED BY <1>5, <2>1
<1> HIDE DEF m
<1>7. /\ t \in WordOf(Width)
      /\ \A p \in Nat : BitOf(t, p) = 1 <=> BitOf(s, p) = 1 /\ BitOf(m, p) = 1
  BY <1>3, <1>4, Widths, AndBits
<1>8. t \in Int /\ s \in Int
  BY <1>3, <1>7, Widths DEF WordOf
<1> HIDE DEF t
<1>9. ASSUME NEW p \in Nat PROVE BitOf(t, p) = IF p = flag THEN 0 ELSE BitOf(s, p)
  <2>1. BitOf(t, p) \in {0, 1} /\ BitOf(s, p) \in {0, 1}
    BY <1>8, BitValue
  <2>2. CASE p < Width
    <3>1. p \in 0 .. Width - 1
      BY <2>2, Widths
    <3>2. QED BY <1>6, <1>7, <2>1, <3>1
  <2>3. CASE ~ (p < Width)
    <3>1. Width =< p /\ p # flag
      BY <2>3, Widths
    <3>2. BitOf(s, p) = 0 /\ BitOf(t, p) = 0
      BY <1>4, <1>7, <3>1, Widths, BitsBeyond
    <3>3. QED BY <3>1, <3>2
  <2>4. QED BY <2>2, <2>3
<1>10. t \in 0 .. 15
  <2>1. ASSUME NEW p \in 4 .. Width - 1 PROVE BitOf(t, p) # 1
    <3>1. p \in Nat /\ 4 =< p /\ 4 \in Nat /\ s \in WordOf(4)
      BY <1>1
    <3>2. BitOf(s, p) = 0
      BY <3>1, BitsBeyond
    <3>3. QED BY <1>9, <3>1, <3>2
  <2>2. QED BY <1>1, <1>7, <2>1, Widths, WordWithin
<1>11. QED BY <1>9, <1>10 DEF t, m

\* gen_set_sr changes one flag.
LEMMA FlagSet ==
  ASSUME NEW s \in 0 .. 15, NEW flag \in 0 .. 3, NEW val \in {0, 1}
  PROVE  /\ gen_set_sr(s, flag, val) \in 0 .. 15
         /\ \A p \in Nat : BitOf(gen_set_sr(s, flag, val), p) = IF p = flag THEN val ELSE BitOf(s, p)
<1> DEFINE t == s & (Ones - 2^flag)
           v == val * 2^flag
<1>1. WordOf(4) = 0 .. 15
  BY SmallPowers DEF WordOf
<1>2. /\ t \in 0 .. 15
      /\ \A p \in Nat : BitOf(t, p) = IF p = flag THEN 0 ELSE BitOf(s, p)
  BY FlagCleared
<1>3. /\ v \in 0 .. 15
      /\ \A p \in Nat : BitOf(v, p) = IF p = flag THEN val ELSE 0
  <2>1. 2^flag \in 0 .. 15 /\ 2^flag \in Nat
    <3>1. 0 =< flag /\ flag =< 3 /\ flag \in Nat
      OBVIOUS
    <3>2. 2^flag =< 2^3 /\ 2^flag \in Nat
      BY <3>1, Powers, PowersGrow
    <3>3. QED BY <3>2, SmallPowers
  <2>2. CASE val = 1
    <3>1. v = 2^flag
      BY <2>1, <2>2
    <3>2. QED BY <2>1, <2>2, <3>1, BitOfPower
  <2>3. CASE val = 0
    <3>1. v = 0
      BY <2>1, <2>3
    <3>2. \A p \in Nat : BitOf(0, p) = 0
      <4>1. 0 \in Nat /\ 0 \in WordOf(0) /\ \A p \in Nat : 0 =< p
        BY PowerZero DEF WordOf
      <4>2. QED BY <4>1, BitsBeyond
    <3>3. QED BY <2>3, <3>1, <3>2
  <2>4. QED BY <2>2, <2>3
<1>4. gen_set_sr(s, flag, val) = t | v
  BY DEF gen_set_sr
<1> HIDE DEF t, v
<1>5. /\ t | v \in WordOf(4)
      /\ \A p \in Nat : BitOf(t | v, p) = 1 <=> BitOf(t, p) = 1 \/ BitOf(v, p) = 1
  <2>1. t \in Nat /\ v \in Nat /\ 4 \in Nat /\ t \in WordOf(4) /\ v \in WordOf(4)
    BY <1>1, <1>2, <1>3
  <2>2. QED BY <2>1, OrBits
<1>6. ASSUME NEW p \in Nat PROVE BitOf(t | v, p) \in {0, 1} /\ BitOf(s, p) \in {0, 1}
  <2>1. t | v \in Int /\ s \in Int
    BY <1>1, <1>5
  <2>2. QED BY <2>1, BitValue
<1>7. ASSUME NEW p \in Nat PROVE BitOf(t | v, p) = IF p = flag THEN val ELSE BitOf(s, p)
  BY <1>2, <1>3, <1>5, <1>6
<1>8. QED BY <1>1, <1>4, <1>5, <1>7

-----------------------------------------------------------------------------
(* Instructions.                                                           *)

\* What Result says, instruction by instruction.
LEMMA Results ==
  ASSUME NEW a, NEW b, NEW i, NEW s
  PROVE  /\ Result("sub", a, b, i, s) = Sub(a, b, Width)
         /\ Result("and", a, b, i, s) = a & b
         /\ Result("or", a, b, i, s) = a | b
         /\ Result("xor", a, b, i, s) = a ^^ b
         /\ Result("sll", a, b, i, s) = Shl(a, b & (Width - 1), Width)
         /\ Result("srl", a, b, i, s) = LShr(a, b & (Width - 1))
         /\ Result("sra", a, b, i, s) = AShr(a, b & (Width - 1), Width)
         /\ Result("exths", a, b, i, s) = SExt(Trunc(a, Half), Half, Width)
         /\ Result("extbs", a, b, i, s) = SExt(Trunc(a, Byte), Byte, Width)
         /\ Result("exthz", a, b, i, s) = Trunc(a, Byte)
         /\ Result("extbz", a, b, i, s) = Trunc(a, Byte)
         /\ Result("extws", a, b, i, s) = a
         /\ Result("extwz", a, b, i, s) = a
         /\ Result("cmov", a, b, i, s) = IF Trunc(LShr(s, SR_F), 1) = 1 THEN a ELSE b
         /\ Result("slli", a, b, i, s) = Shl(a, i % Width, Width)
         /\ Result("srli", a, b, i, s) = LShr(a, i % Width)
         /\ Result("srai", a, b, i, s) = AShr(a, i % Width, Width)
         /\ Result("movhi", a, b, i, s) = Shl(i, Half, Width)
         /\ Result("addi", a, b, i, s) = Add(a, SExt(i, Half, Width), Width)
         /\ Result("andi", a, b, i, s) = a & i
         /\ Result("ori", a, b, i, s) = a | i
         /\ Result("xori", a, b, i, s) = a ^^ SExt(i, Half, Width)
         /\ Result("muli", a, b, i, s) = Trunc(a * SExt(i, Half, Width), Width)
BY DEF Result

\* Every result is a word.
LEMMA ResultsAreWords ==
  ASSUME NEW a \in Word, NEW b \in Word, NEW i \in WordOf(Half), NEW s \in 0 .. 15,
         NEW op \in RegOps \cup ImmOps
  PROVE  Result(op, a, b, i, s) \in Word
<1>1. a \in Nat /\ b \in Nat /\ i \in Nat /\ i \in Word /\ Half =< Width /\ Byte =< Width
  <2>1. Half \in Nat \ {0} /\ Half =< Width /\ Byte =< Width
    BY Widths
  <2>2. WordOf(Half) \subseteq Word
    BY <2>1, Widths, WordsMade
  <2>3. QED BY <2>1, <2>2, Widths
<1>2. b & (Width - 1) \in Nat /\ i % Width \in Nat
  <2>1. Width - 1 \in Nat /\ Width \in Nat \ {0}
    BY Widths
  <2>2. i % Width \in Nat
    BY <1>1, <2>1, DivisionInt
  <2>3. QED BY <1>1, <2>1, <2>2, AndBits
<1>3. Trunc(a, Half) \in Nat /\ Trunc(a, Byte) \in Nat /\ Trunc(a, Byte) \in Word
  <2>1. /\ Trunc(a, Half) \in WordOf(Half) /\ WordOf(Half) \subseteq Word
        /\ Trunc(a, Byte) \in WordOf(Byte) /\ WordOf(Byte) \subseteq Word
    <3>1. a \in Int /\ Half \in Nat \ {0} /\ Half =< Width /\ Byte \in Nat \ {0} /\ Byte =< Width
      BY <1>1, Widths
    <3>2. \A n \in Nat \ {0} : n =< Width => Trunc(a, n) \in WordOf(n) /\ WordOf(n) \subseteq Word
      BY <3>1, Widths, WordsMade
    <3>3. QED BY <3>1, <3>2
  <2>2. QED BY <2>1, Widths
<1>4. SExt(i, Half, Width) \in Word /\ SExt(Trunc(a, Half), Half, Width) \in Word
      /\ SExt(Trunc(a, Byte), Byte, Width) \in Word
  BY <1>1, <1>3, Widths, WordsMade
<1>5. Sub(a, b, Width) \in Word
  <2>1. a - b \in Int
    BY <1>1
  <2>2. QED BY <2>1, Widths, RemainderIsWord DEF Sub
<1>6. Add(a, SExt(i, Half, Width), Width) \in Word
      /\ Trunc(a * SExt(i, Half, Width), Width) \in Word
  <2>1. a + SExt(i, Half, Width) \in Int /\ a * SExt(i, Half, Width) \in Int
    <3>1. SExt(i, Half, Width) \in Nat
      BY <1>4, Widths
    <3>2. QED BY <1>1, <3>1
  <2>2. QED BY <2>1, Widths, RemainderIsWord DEF Add, Trunc
<1>7. /\ a & b \in Word /\ a | b \in Word /\ a ^^ b \in Word
      /\ a & i \in Word /\ a | i \in Word
      /\ a ^^ SExt(i, Half, Width) \in Word
  BY <1>1, <1>4, Widths, BitsCombine
<1>8. Shl(i, Half, Width) \in Word
  BY <1>1, Widths, ShiftsMade
<1>9. /\ Shl(a, b & (Width - 1), Width) \in Word /\ LShr(a, b & (Width - 1)) \in Word
      /\ AShr(a, b & (Width - 1), Width) \in Word
  BY <1>2, Widths, ShiftsMade
<1>10. /\ Shl(a, i % Width, Width) \in Word /\ LShr(a, i % Width) \in Word
       /\ AShr(a, i % Width, Width) \in Word
  BY <1>2, Widths, ShiftsMade
<1>11. QED BY <1>3, <1>4, <1>5, <1>6, <1>7, <1>8, <1>9, <1>10, Results DEF RegOps, ImmOps

\* What Wide says, instruction by instruction.
LEMMA Wides ==
  ASSUME NEW a, NEW b, NEW s
  PROVE  LET x == IntOf(a, Width)
             y == IntOf(b, Width)
             M == 2^(2 * Width)
         IN  /\ Wide("add", a, b, s) = (x + y) % M
             /\ Wide("addc", a, b, s) = (LShr(s, SR_CY) + x + y) % M
             /\ Wide("mul", a, b, s) = (x * y) % M
             /\ Wide("div", a, b, s) = SDiv(x, y) % M
             /\ Wide("divu", a, b, s) = (a \div a) % M
             /\ Wide("mulu", a, b, s) = (a * a) % M
BY DEF Wide

\* The wide result is a number, if nothing is divided by zero.
LEMMA WideType ==
  ASSUME NEW a \in Word, NEW b \in Word, NEW s \in 0 .. 15, NEW op \in CheckedOps,
         ~ DividesByZero(op, a, b)
  PROVE  Wide(op, a, b, s) \in Int /\ Trunc(Wide(op, a, b, s), Width) \in Word
<1> DEFINE x == IntOf(a, Width)
           y == IntOf(b, Width)
           M == 2^(2 * Width)
<1>1. x \in Int /\ y \in Int /\ (op = "div" => y # 0) /\ (op = "divu" => a # 0)
  BY Widths, IntOfWord DEF DividesByZero
<1>2. M \in Nat \ {0} /\ a \in Nat
  <2>1. 2 * Width \in Nat
    BY Widths
  <2>2. QED BY <2>1, Widths, Powers
<1>3. LShr(s, SR_CY) \in Int
  <2>1. s \in Int /\ SR_CY \in Nat
    BY DEF SR_CY
  <2>2. QED BY <2>1, Powers, DivisionInt DEF LShr
<1>4. op = "div" => SDiv(x, y) \in Int
  BY <1>1, SDivType
<1>5. op = "divu" => a \div a \in Int
  BY <1>1, <1>2, DivisionInt
<1>6. x + y \in Int /\ LShr(s, SR_CY) + x + y \in Int /\ x * y \in Int /\ a * a \in Int
  <2> HIDE DEF x, y
  <2>1. QED BY <1>1, <1>2, <1>3
<1> DEFINE In(n) == n % M \in Int
<1>7. ASSUME NEW n \in Int PROVE In(n)
  <2> HIDE DEF M
  <2>1. QED BY <1>2, DivisionInt
<1>8. /\ In(x + y) /\ In(LShr(s, SR_CY) + x + y) /\ In(x * y) /\ In(a * a)
      /\ op = "div" => In(SDiv(x, y))
      /\ op = "divu" => In(a \div a)
  <2> HIDE DEF In
  <2>1. QED BY <1>4, <1>5, <1>6, <1>7
<1>9. Wide(op, a, b, s) \in Int
  BY <1>8, Wides DEF CheckedOps
<1>10. QED BY <1>9, Widths, RemainderIsWord DEF Trunc

\* The overflow check sets both flags, to the same.
LEMMA FlagsChecked ==
  ASSUME NEW s \in 0 .. 15, NEW r
  PROVE  /\ CheckedSr(s, r) \in 0 .. 15
         /\ BitOf(CheckedSr(s, r), SR_CY) = BitOf(CheckedSr(s, r), SR_OV)
         /\ BitOf(CheckedSr(s, r), SR_F) = BitOf(s, SR_F)
         /\ BitOf(CheckedSr(s, r), SR_IEE) = BitOf(s, SR_IEE)
<1> DEFINE v == CheckFlag(r)
           t == gen_set_sr(s, SR_OV, v)
           u == gen_set_sr(t, SR_CY, v)
<1>1. v \in {0, 1}
  BY DEF CheckFlag, BitIf
<1> HIDE DEF v
<1>2. /\ SR_OV = 3 /\ SR_CY = 2 /\ SR_F = 1 /\ SR_IEE = 0
  BY DEF SR_OV, SR_CY, SR_F, SR_IEE
<1>3. /\ t \in 0 .. 15
      /\ \A p \in Nat : BitOf(t, p) = IF p = SR_OV THEN v ELSE BitOf(s, p)
  BY <1>1, <1>2, FlagSet
<1> HIDE DEF t
<1>4. /\ u \in 0 .. 15
      /\ \A p \in Nat : BitOf(u, p) = IF p = SR_CY THEN v ELSE BitOf(t, p)
  BY <1>1, <1>2, <1>3, FlagSet
<1>5. CheckedSr(s, r) = u
  BY DEF CheckedSr, t, v
<1> HIDE DEF u
<1>6. QED BY <1>2, <1>3, <1>4, <1>5

\* A comparison sets the flag.
LEMMA FlagCompared ==
  ASSUME NEW s \in 0 .. 15, NEW op, NEW a, NEW b
  PROVE  /\ CompareSr(s, op, a, b) \in 0 .. 15
         /\ \A p \in Nat : BitOf(CompareSr(s, op, a, b), p) =
                             IF p = SR_F THEN BitIf(Compare(op, a, b)) ELSE BitOf(s, p)
<1>1. BitIf(Compare(op, a, b)) \in {0, 1} /\ SR_F \in 0 .. 3
  BY DEF BitIf, SR_F
<1>2. QED BY <1>1, FlagSet DEF CompareSr

\* The amount of a shift is taken modulo the width.
LEMMA Amount ==
  ASSUME NEW b \in Nat
  PROVE  b & (Width - 1) = b % Width /\ b % Width \in 0 .. Width - 1
<1>1. PICK n \in Nat : Width = 2^n
  BY ArithAssumption
<1> DEFINE N == b + n
           m == 2^n - 1
<1>2. N \in Nat /\ b =< N /\ n =< N /\ 2^n \in Nat \ {0} /\ b \in Int
  BY <1>1, Powers
<1> HIDE DEF N
<1>3. 2^b =< 2^N /\ 2^n =< 2^N /\ b < 2^b /\ 2^N \in Nat \ {0}
  BY <1>2, Powers, PowersGrow
<1>4. b \in WordOf(N) /\ m \in WordOf(N) /\ m \in Nat /\ m \in WordOf(n)
  BY <1>2, <1>3, Powers DEF WordOf
<1>5. ASSUME NEW p \in 0 .. n - 1 PROVE BitOf(m, p) = 1
  <2>1. 0 \in WordOf(n) /\ BitOf(0, p) = 0
    <3>1. 0 \in WordOf(n) /\ 0 \in WordOf(0) /\ p \in Nat /\ 0 =< p /\ 0 \in Nat
      BY <1>2, PowerZero DEF WordOf
    <3>2. QED BY <3>1, BitsBeyond
  <2>2. BitOf(2^n - 1 - 0, p) = 1 - BitOf(0, p)
    BY <2>1, BitOfComplement
  <2>3. 2^n - 1 - 0 = m
    BY <1>2
  <2>4. QED BY <2>1, <2>2, <2>3
<1> HIDE DEF m
<1>6. b & m \in WordOf(N) /\ \A p \in Nat : BitOf(b & m, p) = 1 <=> BitOf(b, p) = 1 /\ BitOf(m, p) = 1
  BY <1>2, <1>4, AndBits
<1>7. b % 2^n \in WordOf(n) /\ b % 2^n \in WordOf(N)
  <2>1. b % 2^n \in WordOf(n)
    BY <1>2, RemainderIsWord
  <2>2. QED BY <1>2, <1>3, <2>1 DEF WordOf
<1>8. ASSUME NEW p \in 0 .. N - 1
      PROVE  BitOf(b & m, p) = 1 <=> BitOf(b % 2^n, p) = 1
  <2>1. CASE p < n
    <3>1. BitOf(b % 2^n, p) = BitOf(b, p)
      BY <1>2, <2>1, BitOfRemainder
    <3>2. p \in Nat /\ p \in 0 .. n - 1
      BY <2>1
    <3>3. BitOf(m, p) = 1
      BY <1>5, <3>2
    <3>4. QED BY <1>6, <3>1, <3>2, <3>3
  <2>2. CASE ~ (p < n)
    <3>1. p \in Nat /\ n =< p
      BY <2>2
    <3>2. BitOf(b % 2^n, p) = 0 /\ BitOf(m, p) = 0
      BY <1>4, <1>7, <3>1, BitsBeyond
    <3>3. QED BY <1>6, <3>1, <3>2
  <2>3. QED BY <2>1, <2>2
<1>9. b & m = b % 2^n
  BY <1>2, <1>6, <1>7, <1>8, SameBits
<1>10. QED BY <1>1, <1>2, <1>7, <1>9 DEF m, WordOf

-----------------------------------------------------------------------------
(* The invariant.                                                          *)

\* The two flags of the overflow check are the same.
IInv == TypeOK /\ BitOf(sr, SR_CY) = BitOf(sr, SR_OV)

\* What a step is to the registers and to SR.
Stepped ==
  /\ gr' \in [0 .. 2 -> Word] /\ gr'[0] = 0
  /\ trapped' \in BOOLEAN
  /\ \/ sr' = sr
     \/ \E r : sr' = CheckedSr(sr, r)
     \/ \E op, a, b : sr' = CompareSr(sr, op, a, b)
     \/ sr' = sr & (Ones - 2^SR_F)

\* Writing a register leaves REG_GR00 zero.
LEMMA RegisterSet ==
  ASSUME TypeOK, NEW d \in 0 .. 2, NEW val \in Word, gen_set_reg(d, val)
  PROVE  gr' \in [0 .. 2 -> Word] /\ gr'[0] = 0
BY DEF TypeOK, gen_set_reg

\* Every action is such a step.
LEMMA Steps == TypeOK /\ [Next]_vars => Stepped
<1> SUFFICES ASSUME TypeOK, [Next]_vars PROVE Stepped
  OBVIOUS
<1>1. gr[1] \in Word /\ gr[2] \in Word /\ sr \in 0 .. 15 /\ gr \in [0 .. 2 -> Word] /\ gr[0] = 0
      /\ trapped \in BOOLEAN
  BY DEF TypeOK
<1>2. 0 \in WordOf(Half)
  BY Widths, Powers DEF WordOf
<1>3. ASSUME NEW op \in RegOps \cup ImmOps, NEW i \in WordOf(Half), NEW d \in 0 .. 2,
             ExecReg(op, d, i)
      PROVE  Stepped
  <2>1. Result(op, gr[1], gr[2], i, sr) \in Word
    BY <1>1, ResultsAreWords
  <2>2. gen_set_reg(d, Result(op, gr[1], gr[2], i, sr)) /\ sr' = sr /\ trapped' = trapped
    BY <1>3 DEF ExecReg
  <2>3. QED BY <1>1, <2>1, <2>2, RegisterSet DEF Stepped
<1>4. ASSUME NEW d \in 0 .. 2, ExecRor(d) PROVE Stepped
  <2>1. PICK r \in RorResults(gr[1], gr[2]) : gen_set_reg(d, r)
    BY <1>4 DEF ExecRor
  <2>2. r \in Word
    <3> DEFINE k == gr[2] & (Width - 1)
    <3>1. k \in Nat /\ Width - k \in Nat
      <4>1. gr[2] \in Nat /\ Width \in Nat
        BY <1>1, Widths
      <4>2. k \in 0 .. Width - 1
        BY <4>1, Amount
      <4> HIDE DEF k
      <4>3. QED BY <4>1, <4>2
    <3>2. RorResults(gr[1], gr[2]) =
            IF k = 0 THEN Word ELSE {LShr(gr[1], k) | Shl(gr[1], Width - k, Width)}
      BY DEF RorResults
    <3> HIDE DEF k
    <3>3. LShr(gr[1], k) \in Word /\ Shl(gr[1], Width - k, Width) \in Word
      BY <1>1, <3>1, Widths, ShiftsMade
    <3>4. LShr(gr[1], k) | Shl(gr[1], Width - k, Width) \in Word
      BY <3>3, Widths, OrBits
    <3>5. QED BY <2>1, <3>2, <3>4
  <2>3. sr' = sr /\ trapped' = trapped
    BY <1>4 DEF ExecRor
  <2>4. QED BY <1>1, <2>1, <2>2, <2>3, RegisterSet DEF Stepped
<1>5. ASSUME NEW op \in CheckedOps, NEW d \in 0 .. 2, ExecChecked(op, d) PROVE Stepped
  <2> DEFINE r == Wide(op, gr[1], gr[2], sr)
  <2>1. Trunc(r, Width) \in Word
    BY <1>1, <1>5, WideType DEF ExecChecked
  <2>2. gen_set_reg(d, Trunc(r, Width)) /\ sr' = CheckedSr(sr, r) /\ trapped' = trapped
    BY <1>5 DEF ExecChecked
  <2> HIDE DEF r
  <2>3. QED BY <1>1, <2>1, <2>2, RegisterSet DEF Stepped
<1>6. ASSUME NEW op \in CheckedOps, NEW d \in 0 .. 2, DivideByZero(op, d) PROVE Stepped
  <2>1. CASE trapped' = TRUE /\ UNCHANGED <<gr, sr>>
    BY <1>1, <2>1 DEF Stepped
  <2>2. CASE /\ \E r \in WordOf(Width + 1) :
                  gen_set_reg(d, Trunc(r, Width)) /\ sr' = CheckedSr(sr, r)
             /\ UNCHANGED trapped
    <3>1. PICK r \in WordOf(Width + 1) :
            gen_set_reg(d, Trunc(r, Width)) /\ sr' = CheckedSr(sr, r)
      BY <2>2
    <3>2. Trunc(r, Width) \in Word
      <4>1. r \in Int
        BY DEF WordOf
      <4>2. QED BY <4>1, Widths, RemainderIsWord DEF Trunc
    <3>3. QED BY <1>1, <2>2, <3>1, <3>2, RegisterSet DEF Stepped
  <2>3. QED BY <1>6, <2>1, <2>2 DEF DivideByZero
<1>7. ASSUME NEW op, ExecCompare(op) PROVE Stepped
  BY <1>1, <1>7 DEF ExecCompare, Stepped
<1>8. ASSUME NEW op, NEW i, ExecCompareImm(op, i) PROVE Stepped
  BY <1>1, <1>8 DEF ExecCompareImm, Stepped
<1>9. CASE ExecBranch
  BY <1>1, <1>9 DEF ExecBranch, Stepped
<1>10. CASE UNCHANGED vars
  BY <1>1, <1>10 DEF vars, Stepped
<1>11. CASE Next
  BY <1>2, <1>3, <1>4, <1>5, <1>6, <1>7, <1>8, <1>9, <1>11 DEF Next
<1>12. QED BY <1>10, <1>11

\* What such a step does to SR: it stays, or the check sets CY and OV, or F
\* changes.
LEMMA StatusStepped ==
  ASSUME IInv, Stepped
  PROVE  /\ sr' \in 0 .. 15
         /\ BitOf(sr', SR_CY) = BitOf(sr', SR_OV)
         /\ BitOf(sr', SR_IEE) = BitOf(sr, SR_IEE)
         /\ \/ BitOf(sr', SR_F) = BitOf(sr, SR_F)
            \/ BitOf(sr', SR_CY) = BitOf(sr, SR_CY) /\ BitOf(sr', SR_OV) = BitOf(sr, SR_OV)
<1>1. sr \in 0 .. 15 /\ BitOf(sr, SR_CY) = BitOf(sr, SR_OV)
  BY DEF IInv, TypeOK
<1>2. SR_OV = 3 /\ SR_CY = 2 /\ SR_F = 1 /\ SR_IEE = 0
  BY DEF SR_OV, SR_CY, SR_F, SR_IEE
<1>3. CASE sr' = sr
  BY <1>1, <1>3
<1>4. CASE \E r : sr' = CheckedSr(sr, r)
  BY <1>1, <1>4, FlagsChecked
<1>5. CASE \E op, a, b : sr' = CompareSr(sr, op, a, b)
  <2>1. /\ sr' \in 0 .. 15
        /\ \A p \in Nat : p # SR_F => BitOf(sr', p) = BitOf(sr, p)
    BY <1>1, <1>5, FlagCompared
  <2>2. QED BY <1>1, <1>2, <2>1
<1>6. CASE sr' = sr & (Ones - 2^SR_F)
  <2>1. /\ sr' \in 0 .. 15
        /\ \A p \in Nat : p # SR_F => BitOf(sr', p) = BitOf(sr, p)
    BY <1>1, <1>2, <1>6, FlagCleared
  <2>2. QED BY <1>1, <1>2, <2>1
<1>7. QED BY <1>3, <1>4, <1>5, <1>6 DEF Stepped

\* The machine starts with no flag set but, perhaps, the one of interrupts.
LEMMA InitInv == Init => IInv
<1> SUFFICES ASSUME Init PROVE IInv
  OBVIOUS
<1>1. sr \in {0, 1}
  BY PowerZero DEF Init, SR_IEE
<1>2. TypeOK
  <2>1. gr \in [0 .. 2 -> Word] /\ gr[0] = 0 /\ trapped \in BOOLEAN
    BY DEF Init
  <2>2. QED BY <1>1, <2>1 DEF TypeOK
<1>3. BitOf(sr, 2) = 0 /\ BitOf(sr, 3) = 0
  <2>1. sr \in WordOf(1) /\ 1 \in Nat /\ 2 \in Nat /\ 3 \in Nat /\ 1 =< 2 /\ 1 =< 3
    BY <1>1, SmallPowers DEF WordOf
  <2>2. QED BY <2>1, BitsBeyond
<1>4. QED BY <1>2, <1>3 DEF IInv, SR_CY, SR_OV

\* A step keeps the invariant.
LEMMA StepInv == IInv /\ [Next]_vars => IInv'
<1> SUFFICES ASSUME IInv, [Next]_vars PROVE IInv'
  OBVIOUS
<1>1. Stepped
  BY Steps DEF IInv
<1>2. sr' \in 0 .. 15 /\ BitOf(sr', SR_CY) = BitOf(sr', SR_OV)
  BY <1>1, StatusStepped
<1>3. QED BY <1>1, <1>2 DEF IInv, TypeOK, Stepped

\* The inductive invariant of the emitted arithmetic.
THEOREM Invariance == Spec => []IInv
BY InitInv, StepInv, PTL DEF Spec

\* Registers hold words, REG_GR00 reads as zero and SR has no other flags
\* (gen_set_reg, gen_set_sr).
THEOREM TypeCorrect == Spec => []TypeOK
<1>1. IInv => TypeOK
  BY DEF IInv
<1>2. QED BY <1>1, Invariance, PTL

\* No instruction enables or masks interrupts, and none changes both the flag and
\* the carry (gen_set_sr, gen_arith_code_with_ovf_check).
THEOREM FlagsArePrivate == Spec => FlagsPrivate
<1> DEFINE A == /\ Flag(sr', SR_IEE) = Flag(sr, SR_IEE)
                /\ \/ Flag(sr', SR_F) = Flag(sr, SR_F)
                   \/ /\ Flag(sr', SR_CY) = Flag(sr, SR_CY)
                      /\ Flag(sr', SR_OV) = Flag(sr, SR_OV)
<1>1. \A s, flag : Flag(s, flag) <=> BitOf(s, flag) = 1
  BY DEF Flag, LShr, BitOf
<1>2. IInv /\ [Next]_vars => [A]_vars
  <2> SUFFICES ASSUME IInv, [Next]_vars PROVE A
    OBVIOUS
  <2>1. Stepped
    BY Steps DEF IInv
  <2>2. QED BY <1>1, <2>1, StatusStepped
<1>3. QED BY <1>2, Invariance, PTL DEF Spec, FlagsPrivate

-----------------------------------------------------------------------------
(* Masks and flags.                                                        *)

\* What all bits and no bits are to the operators.
LEMMA Masks ==
  ASSUME NEW a \in Word
  PROVE  /\ a & Ones = a /\ a & 0 = 0 /\ a | 0 = a /\ 0 | a = a
         /\ 0 ^^ Ones = Ones /\ Ones ^^ Ones = 0
<1>1. a \in Nat /\ Ones \in Nat /\ 0 \in Nat /\ a \in WordOf(Width) /\ Ones \in WordOf(Width)
      /\ 0 \in WordOf(Width) /\ Width \in Nat
  BY Widths
<1>2. ASSUME NEW p \in 0 .. Width - 1 PROVE BitOf(0, p) = 0 /\ BitOf(Ones, p) = 1
  <2>1. 0 \in WordOf(0) /\ p \in Nat /\ 0 =< p
    BY PowerZero DEF WordOf
  <2>2. BitOf(0, p) = 0
    BY <1>1, <2>1, BitsBeyond
  <2>3. BitOf(2^Width - 1 - 0, p) = 1 - BitOf(0, p)
    BY <1>1, BitOfComplement
  <2>4. 2^Width - 1 - 0 = Ones
    BY Widths DEF Ones
  <2>5. QED BY <2>2, <2>3, <2>4
<1>3. \A p \in 0 .. Width - 1 : p \in Nat
  OBVIOUS
<1>4. a & Ones \in WordOf(Width) /\ a & 0 \in WordOf(Width) /\ a | 0 \in WordOf(Width)
      /\ 0 | a \in WordOf(Width) /\ 0 ^^ Ones \in WordOf(Width) /\ Ones ^^ Ones \in WordOf(Width)
  BY <1>1, BitsCombine
<1>5. ASSUME NEW p \in 0 .. Width - 1
      PROVE  /\ BitOf(a & Ones, p) = 1 <=> BitOf(a, p) = 1
             /\ BitOf(a & 0, p) = 1 <=> BitOf(0, p) = 1
             /\ BitOf(a | 0, p) = 1 <=> BitOf(a, p) = 1
             /\ BitOf(0 | a, p) = 1 <=> BitOf(a, p) = 1
             /\ BitOf(0 ^^ Ones, p) = 1 <=> BitOf(Ones, p) = 1
             /\ BitOf(Ones ^^ Ones, p) = 1 <=> BitOf(0, p) = 1
  <2>1. p \in Nat
    OBVIOUS
  <2>2. ASSUME NEW x \in Nat, NEW y \in Nat
        PROVE  /\ BitOf(x & y, p) = 1 <=> BitOf(x, p) = 1 /\ BitOf(y, p) = 1
               /\ BitOf(x | y, p) = 1 <=> BitOf(x, p) = 1 \/ BitOf(y, p) = 1
               /\ BitOf(x ^^ y, p) = 1 <=> BitOf(x, p) # BitOf(y, p)
    <3>1. \A q \in Nat :
            /\ BitOf(x & y, q) = 1 <=> BitOf(x, q) = 1 /\ BitOf(y, q) = 1
            /\ BitOf(x | y, q) = 1 <=> BitOf(x, q) = 1 \/ BitOf(y, q) = 1
            /\ BitOf(x ^^ y, q) = 1 <=> BitOf(x, q) # BitOf(y, q)
      BY BitsCombine
    <3>2. QED BY <2>1, <3>1
  <2>3. QED BY <1>1, <1>2, <2>2
<1>6. a & Ones = a /\ a & 0 = 0
  BY <1>1, <1>4, <1>5, SameBits
<1>7. a | 0 = a /\ 0 | a = a
  BY <1>1, <1>4, <1>5, SameBits
<1>8. 0 ^^ Ones = Ones /\ Ones ^^ Ones = 0
  BY <1>1, <1>4, <1>5, SameBits
<1>9. QED BY <1>6, <1>7, <1>8

\* gen_cond_code selects one of two words.
LEMMA CondSelects ==
  ASSUME NEW t \in Word, NEW f \in Word
  PROVE  gen_cond_code(1, t, f) = t /\ gen_cond_code(0, t, f) = f
<1>1. Sub(1, 1, Width) = 0
  <2>1. 1 - 1 = 0 /\ 0 \in 0 .. 2^Width - 1
    BY Widths
  <2>2. QED BY <2>1, Widths, ModInRange DEF Sub
<1>2. Sub(0, 1, Width) = Ones
  <2>1. 0 - 1 \in Int /\ -1 \in Int /\ Ones \in Int /\ 0 =< Ones /\ Ones < 2^Width
        /\ 0 - 1 = (-1) * 2^Width + Ones
    BY Widths DEF Ones
  <2>2. QED BY <2>1, Widths, QuotientOf DEF Sub
<1>3. gen_cond_code(1, t, f) = (t & (0 ^^ Ones)) | (f & 0)
  BY <1>1 DEF gen_cond_code
<1>4. gen_cond_code(0, t, f) = (t & (Ones ^^ Ones)) | (f & Ones)
  BY <1>2 DEF gen_cond_code
<1>5. /\ 0 ^^ Ones = Ones /\ Ones ^^ Ones = 0
      /\ t & Ones = t /\ t & 0 = 0 /\ f & Ones = f /\ f & 0 = 0
      /\ t | 0 = t /\ 0 | f = f
  BY Masks
<1>6. QED BY <1>3, <1>4, <1>5

\* The mask arithmetic of l.bf, l.bnf and l.jalr selects one of two words
\* (gen_cond_code).
THEOREM BranchesSelect == Spec => []BranchSelects
<1>1. IInv => BranchSelects
  <2> SUFFICES ASSUME IInv, NEW b \in BOOLEAN
               PROVE  gen_cond_code(BitIf(b), gr[1], gr[2]) = IF b THEN gr[1] ELSE gr[2]
    BY DEF BranchSelects
  <2>1. gr[1] \in Word /\ gr[2] \in Word
    BY DEF IInv, TypeOK
  <2>2. QED BY <2>1, CondSelects DEF BitIf
<1>2. QED BY <1>1, Invariance, PTL

-----------------------------------------------------------------------------
(* Sums.                                                                   *)

\* The same twice, and the wide result truncated.
LEMMA WideTruncated ==
  ASSUME NEW x \in Int
  PROVE  \E q \in Int : Trunc(x % 2^(2 * Width), Width) = x - q * 2^Width
<1> DEFINE M == 2^Width
           y == x % 2^(2 * Width)
<1>1. M \in Nat \ {0} /\ 2 * Width \in Nat /\ 2^(2 * Width) = M * M
  <2>1. Width \in Nat /\ 2 * Width = Width + Width /\ 2 * Width \in Nat
    BY Widths
  <2>2. 2^(Width + Width) = 2^Width * 2^Width
    BY <2>1, Powers
  <2>3. QED BY <2>1, <2>2, Powers
<1>2. PICK p \in Int : y = x - p * 2^(2 * Width)
  BY <1>1, Truncated
<1>3. y \in Int
  BY <1>1, <1>2
<1>4. PICK q \in Int : y % M = y - q * M
  <2> HIDE DEF y
  <2>1. QED BY <1>3, Widths, Truncated
<1>5. Trunc(y, Width) = y % M
  BY DEF Trunc
<1> HIDE DEF y, M
<1>6. y % M = x - (p * M + q) * M /\ p * M + q \in Int
  BY <1>1, <1>2, <1>3, <1>4
<1>7. QED BY <1>5, <1>6 DEF y, M

\* What l.add and l.addc compute is the sum of what they add.
LEMMA SumMeans ==
  ASSUME NEW a \in Word, NEW b \in Word, NEW e \in Int, NEW s
  PROVE  Means("add", (a + e) % 2^Width, b, 0, FALSE,
               Trunc((e + IntOf(a, Width) + IntOf(b, Width)) % 2^(2 * Width), Width))
<1> DEFINE M == 2^Width
           x == IntOf(a, Width)
           y == IntOf(b, Width)
           r == Trunc((e + x + y) % 2^(2 * Width), Width)
           u == (a + e) % M
<1>1. M \in Nat \ {0} /\ Width \in Nat /\ a \in Int /\ b \in Int
  BY Widths
<1>2. PICK p \in Int : x = a - p * M
  BY Widths, IntIsWord
<1>3. PICK q \in Int : y = b - q * M
  BY Widths, IntIsWord
<1>4. x \in Int /\ y \in Int
  BY Widths, IntIsWord
<1>5. PICK t \in Int : r = (e + x + y) - t * M
  <2> HIDE DEF x, y, M
  <2>1. e + x + y \in Int
    BY <1>4
  <2>2. QED BY <2>1, WideTruncated DEF M
<1>6. PICK v \in Int : u = (a + e) - v * M
  <2>1. a + e \in Int
    BY <1>1
  <2>2. QED BY <1>1, <2>1, Truncated
<1> HIDE DEF x, y, r, u, M
<1>7. (u + b) - r = (t + p + q - v) * M
  BY <1>1, <1>2, <1>3, <1>4, <1>5, <1>6
<1>8. t + p + q - v \in Int /\ (u + b) - r \in Int
  BY <1>1, <1>4, <1>5, <1>6
<1>9. ((u + b) - r) % M = 0
  BY <1>1, <1>7, <1>8, NoRemainder
<1>10. Means("add", u, b, 0, FALSE, r) <=> ((u + b) - r) % M = 0
  BY DEF Means, M
<1>11. Means("add", u, b, 0, FALSE, r)
  BY <1>9, <1>10
<1>12. QED BY <1>11 DEF r, x, y, u, M

\* Whatever ran before, l.addc adds 0 or 3 to the sum: it takes SR[OV] with
\* SR[CY], and the overflow check always leaves them equal (disas_arith,
\* gen_arith_code_with_ovf_check).
THEOREM CarryIn == Spec => []CarryInIsZeroOrThree
<1>1. IInv => CarryInIsZeroOrThree
  <2> SUFFICES ASSUME IInv PROVE CarryInIsZeroOrThree
    OBVIOUS
  <2>1. gr[1] \in Word /\ gr[2] \in Word /\ sr \in 0 .. 15 /\ BitOf(sr, 2) = BitOf(sr, 3)
    BY DEF IInv, TypeOK, SR_CY, SR_OV
  <2>2. LShr(sr, SR_CY) \in {0, 3}
    <3>1. sr \in Int /\ sr \in WordOf(4)
      BY <2>1, SmallPowers DEF WordOf
    <3>2. sr \div 2^2 = 2 * (sr \div 2^(2 + 1)) + BitOf(sr, 2) /\ BitOf(sr, 2) \in {0, 1}
      BY <3>1, BitValue
    <3>3. sr \div 2^3 = 2 * (sr \div 2^(3 + 1)) + BitOf(sr, 3)
      BY <3>1, BitValue
    <3>4. sr \div 2^4 = 0
      <4>1. 4 \in Nat /\ 4 =< 4
        OBVIOUS
      <4>2. QED BY <3>1, <4>1, BitsBeyond
    <3>5. 2 + 1 = 3 /\ 3 + 1 = 4 /\ 2 * 0 + 0 = 0 /\ 2 * 0 + 1 = 1 /\ 2 * 1 + 1 = 3
      OBVIOUS
    <3>6. sr \div 2^2 = 0 \/ sr \div 2^2 = 3
      BY <2>1, <3>2, <3>3, <3>4, <3>5
    <3>7. QED BY <3>6 DEF LShr, SR_CY
  <2>3. PICK e \in {0, 3} : e = LShr(sr, SR_CY)
    BY <2>2
  <2>4. Wide("addc", gr[1], gr[2], sr) =
          (e + IntOf(gr[1], Width) + IntOf(gr[2], Width)) % 2^(2 * Width)
    BY <2>3, Wides
  <2>5. e \in Int
    OBVIOUS
  <2>6. Means("add", (gr[1] + e) % 2^Width, gr[2], 0, FALSE,
              Trunc(Wide("addc", gr[1], gr[2], sr), Width))
    BY <2>1, <2>4, <2>5, SumMeans
  <2>7. QED BY <2>6 DEF CarryInIsZeroOrThree
<1>2. QED BY <1>1, Invariance, PTL

-----------------------------------------------------------------------------
(* Comparisons.                                                            *)

\* The order of words whose sign bits are flipped is that of their integers.
LEMMA Flipped ==
  ASSUME NEW v \in Word
  PROVE  (v + 2^(Width - 1)) % 2^Width = IntOf(v, Width) + 2^(Width - 1)
<1> DEFINE H == 2^(Width - 1)
           M == 2^Width
<1>1. H \in Nat \ {0} /\ M = 2 * H /\ M \in Nat \ {0} /\ v \in Nat /\ v < M
  BY Widths, BitOfInt DEF WordOf
<1>2. IntOf(v, Width) = IF v < H THEN v ELSE v - M
  BY DEF IntOf
<1> HIDE DEF H, M
<1>3. CASE v < H
  <2>1. v + H \in 0 .. M - 1
    BY <1>1, <1>3
  <2>2. (v + H) % M = v + H
    BY <1>1, <2>1, ModInRange
  <2>3. QED BY <1>2, <1>3, <2>2 DEF H, M
<1>4. CASE ~ (v < H)
  <2>1. v + H \in Int /\ v - H \in Int /\ 0 =< v - H /\ v - H < M /\ v + H = 1 * M + (v - H)
    BY <1>1, <1>4
  <2>2. (v + H) % M = v - H
    BY <1>1, <2>1, QuotientOf
  <2>3. v - H = (v - M) + H
    BY <1>1
  <2>4. QED BY <1>2, <1>4, <2>2, <2>3 DEF H, M
<1>5. QED BY <1>3, <1>4

\* LLVM's comparisons are those of the mnemonics.
LEMMA Comparisons ==
  ASSUME NEW a \in Word, NEW b \in Word, NEW op \in CompareOps
  PROVE  Compare(op, a, b) <=> Holds(op, a, b)
<1> DEFINE H == 2^(Width - 1)
           Flip(v) == (v + H) % 2^Width
           x == IntOf(a, Width)
           y == IntOf(b, Width)
<1>1. a \in Int /\ b \in Int /\ x \in Int /\ y \in Int /\ H \in Int
  BY Widths, IntOfWord, BitOfInt
<1>2. Flip(a) = x + H /\ Flip(b) = y + H
  BY Flipped
<1>3. a = b <=> Bits(a) = Bits(b)
  BY Widths, SameSets DEF Bits
<1>4. /\ UGT(a, b) <=> a > b
      /\ UGT(b, a) <=> b > a
      /\ SGT(a, b, Width) <=> x > y
      /\ SGT(b, a, Width) <=> y > x
  BY DEF UGT, SGT
<1> HIDE DEF x, y, H
<1>5. /\ Flip(a) > Flip(b) <=> x > y
      /\ Flip(a) >= Flip(b) <=> ~ (y > x)
      /\ Flip(a) < Flip(b) <=> y > x
      /\ Flip(a) <= Flip(b) <=> ~ (x > y)
  BY <1>1, <1>2
<1> HIDE DEF Flip
<1>6. /\ a >= b <=> ~ (b > a)
      /\ a < b <=> b > a
      /\ a <= b <=> ~ (a > b)
  BY <1>1
<1>7. Holds(op, a, b) <=>
        \/ op = "sfeq"  /\ Bits(a) = Bits(b)
        \/ op = "sfne"  /\ Bits(a) # Bits(b)
        \/ op = "sfgtu" /\ a > b
        \/ op = "sfgeu" /\ a >= b
        \/ op = "sfltu" /\ a < b
        \/ op = "sfleu" /\ a <= b
        \/ op = "sfgts" /\ Flip(a) > Flip(b)
        \/ op = "sfges" /\ Flip(a) >= Flip(b)
        \/ op = "sflts" /\ Flip(a) < Flip(b)
        \/ op = "sfles" /\ Flip(a) <= Flip(b)
  BY Zenon DEF Holds, Flip, H
<1>8. QED BY <1>3, <1>4, <1>5, <1>6, <1>7 DEF Compare

\* SR[F] after a comparison, register or immediate, is what the mnemonic says
\* (disas_compare, disas_compare_immediate, gen_set_sr).
THEOREM FlagsCompare == Spec => []FlagIsComparison
<1>1. IInv => FlagIsComparison
  <2> SUFFICES ASSUME IInv PROVE FlagIsComparison
    OBVIOUS
  <2>1. gr[1] \in Word /\ gr[2] \in Word /\ sr \in 0 .. 15
    BY DEF IInv, TypeOK
  <2>2. ASSUME NEW op \in CompareOps, NEW a \in Word, NEW b \in Word
        PROVE  Flag(CompareSr(sr, op, a, b), SR_F) <=> Holds(op, a, b)
    <3>1. BitOf(CompareSr(sr, op, a, b), SR_F) = BitIf(Compare(op, a, b))
      BY <2>1, FlagCompared DEF SR_F
    <3>2. Flag(CompareSr(sr, op, a, b), SR_F) <=> BitIf(Compare(op, a, b)) = 1
      BY <3>1 DEF Flag, LShr, BitOf
    <3>3. BitIf(Compare(op, a, b)) = 1 <=> Compare(op, a, b)
      BY DEF BitIf
    <3>4. QED BY <3>2, <3>3, Comparisons
  <2>3. ASSUME NEW i \in WordOf(Half) PROVE SExt(i, Half, Width) \in Word
    <3>1. i \in Int /\ Half \in Nat \ {0} /\ Half =< Width
      BY Widths DEF WordOf
    <3>2. QED BY <3>1, Widths, WordsMade
  <2>4. CompareImmOps \subseteq CompareOps
    BY DEF CompareImmOps
  <2>5. QED BY <2>1, <2>2, <2>3, <2>4 DEF FlagIsComparison
<1>2. QED BY <1>1, Invariance, PTL

-----------------------------------------------------------------------------
(* Division.                                                               *)

\* It is in the range where it is looked for.
LEMMA SDivInRange ==
  ASSUME NEW a \in Word, NEW b \in Word, IntOf(b, Width) # 0
  PROVE  SDiv(IntOf(a, Width), IntOf(b, Width)) \in -(2^Width) .. 2^Width
<1> DEFINE M == 2^Width
           x == IntOf(a, Width)
           y == IntOf(b, Width)
           q == AbsOf(x) \div AbsOf(y)
<1>1. x \in Int /\ y \in Int /\ y # 0 /\ -M =< x /\ x =< M /\ M \in Nat
  <2>1. M \in Nat /\ a \in Int /\ a < M /\ 0 =< a
    BY Widths DEF WordOf
  <2>2. QED BY <2>1, Widths, IntOfWord DEF IntOf
<1> HIDE DEF x, y, M
<1>2. AbsOf(x) \in Nat /\ AbsOf(y) \in Nat \ {0} /\ q \in Int /\ SDiv(x, y) \in Int
  BY <1>1, SDivType
<1>3. AbsOf(x) =< M
  BY <1>1 DEF AbsOf
<1>4. AbsOf(x) % AbsOf(y) \in 0 .. AbsOf(y) - 1
      /\ AbsOf(x) = q * AbsOf(y) + (AbsOf(x) % AbsOf(y))
  <2> DEFINE u == AbsOf(x)
             v == AbsOf(y)
  <2>1. u \in Int /\ v \in Nat \ {0}
    BY <1>2
  <2> HIDE DEF u, v
  <2>2. u % v \in 0 .. v - 1 /\ u = (u \div v) * v + (u % v)
    BY <2>1, DivisionInt
  <2>3. QED BY <2>2 DEF u, v
<1>5. SDiv(x, y) = q \/ SDiv(x, y) = -q
  BY DEF SDiv
<1> DEFINE d == AbsOf(y)
           s == AbsOf(x) % AbsOf(y)
<1> HIDE DEF q, d, s
<1>6. q >= 0
  <2>1. CASE -q >= 1
    <3>1. (-q) * d >= d
      BY <1>2, <2>1, MultipleAtLeast DEF d
    <3>2. (-q) * d = -(q * d) /\ q * d \in Int /\ d \in Int /\ s < d
      BY <1>2, <1>4 DEF d, s
    <3>3. AbsOf(x) = q * d + s /\ s \in Int
      BY <1>4 DEF d, s
    <3>4. QED BY <1>2, <3>1, <3>2, <3>3
  <2>2. QED BY <1>2, <2>1
<1>7. q =< AbsOf(x)
  <2>1. q * d >= q
    <3>1. d >= 1 /\ d \in Int /\ d - 1 \in Nat
      BY <1>2 DEF d
    <3>2. q * d = q * (d - 1) + q /\ q * (d - 1) >= 0 /\ q * (d - 1) \in Int
      BY <1>2, <1>6, <3>1
    <3>3. QED BY <1>2, <3>2
  <2>2. AbsOf(x) = q * d + s /\ s \in Int /\ s >= 0 /\ q * d \in Int
    BY <1>2, <1>4 DEF d, s
  <2>3. QED BY <1>2, <2>1, <2>2
<1>8. QED BY <1>1, <1>2, <1>3, <1>5, <1>6, <1>7 DEF M, x, y

\* LLVM's quotient is the one of the mnemonics.
LEMMA QuotientIsSDiv ==
  ASSUME NEW a \in Word, NEW b \in Word, b # 0
  PROVE  Quotient(IntOf(a, Width), IntOf(b, Width)) = SDiv(IntOf(a, Width), IntOf(b, Width))
<1> DEFINE x == IntOf(a, Width)
           y == IntOf(b, Width)
           R == -(2^Width) .. 2^Width
           Right(q) == LET r == x - q * y
                       IN  r * r < y * y /\ (x >= 0 => r >= 0) /\ (x <= 0 => r <= 0)
           Near(q)  == LET r == x - q * y
                       IN  /\ -AbsOf(y) < r /\ r < AbsOf(y)
                           /\ (x >= 0 => r >= 0) /\ (x <= 0 => r <= 0)
<1>1. x \in Int /\ y \in Int /\ y # 0
  BY Widths, IntOfWord
<1>2. SDiv(x, y) \in R /\ R \subseteq Int
  BY <1>1, SDivInRange, Widths
<1>3. Quotient(x, y) = CHOOSE q \in R : Right(q)
  BY DEF Quotient
<1> HIDE DEF x, y, R
<1>4. ASSUME NEW q \in Int PROVE Right(q) <=> Near(q)
  <2> DEFINE r == x - q * y
             d == AbsOf(y)
  <2>1. r \in Int /\ d \in Nat \ {0} /\ y * y = d * d
    BY <1>1 DEF AbsOf
  <2> HIDE DEF r, d
  <2>2. r * r < d * d <=> -d < r /\ r < d
    BY <2>1, SquareLess
  <2>3. QED BY <2>1, <2>2 DEF r, d
<1>5. Near(SDiv(x, y))
  BY <1>1, SDivRemainder
<1>6. ASSUME NEW q \in R, Near(q) PROVE q = SDiv(x, y)
  BY <1>1, <1>2, <1>5, <1>6, QuotientUnique
<1> HIDE DEF Right, Near
<1>7. \A q \in R : Right(q) <=> q = SDiv(x, y)
  BY <1>2, <1>4, <1>5, <1>6
<1>8. QED BY <1>2, <1>3, <1>7 DEF x, y

-----------------------------------------------------------------------------
(* Results.                                                                *)

\* The integer of an immediate, and what its extension differs from it by.
LEMMA Immediate ==
  ASSUME NEW i \in WordOf(Half)
  PROVE  /\ IntOf(i, Half) \in Int /\ SExt(i, Half, Width) \in Word
         /\ \E q \in Int : SExt(i, Half, Width) = IntOf(i, Half) - q * 2^Width
<1>1. i \in Int /\ Half \in Nat \ {0} /\ Half =< Width /\ Width \in Nat
  BY Widths DEF WordOf
<1>2. IntOf(i, Half) \in Int /\ SExt(i, Half, Width) \in Word
  BY <1>1, Widths, WordsMade
<1>3. \E q \in Int : IntOf(i, Half) % 2^Width = IntOf(i, Half) - q * 2^Width
  BY <1>1, <1>2, Truncated
<1>4. QED BY <1>2, <1>3 DEF SExt

\* Sums and differences.
LEMMA SumsMean ==
  ASSUME NEW a \in Word, NEW b \in Word, NEW i \in WordOf(Half), NEW f, NEW s
  PROVE  /\ Means("sub", a, b, i, f, Result("sub", a, b, i, s))
         /\ Means("addi", a, b, i, f, Result("addi", a, b, i, s))
         /\ Means("add", a, b, i, f, Trunc(Wide("add", a, b, s), Width))
<1> DEFINE M == 2^Width
           x == IntOf(a, Width)
           y == IntOf(b, Width)
           I == IntOf(i, Half)
           I16 == SExt(i, Half, Width)
<1>1. M \in Nat \ {0} /\ Width \in Nat /\ a \in Int /\ b \in Int /\ x \in Int /\ y \in Int
      /\ I \in Int /\ I16 \in Int
  BY Widths, IntIsWord, Immediate
<1>2. PICK p \in Int : x = a - p * M
  BY Widths, IntIsWord
<1>3. PICK q \in Int : y = b - q * M
  BY Widths, IntIsWord
<1>4. PICK t \in Int : I16 = I - t * M
  BY Immediate
<1> HIDE DEF x, y, I, I16
<1>5. Means("sub", a, b, i, f, Sub(a, b, Width))
  <2> DEFINE r == (a - b) % M
  <2>1. PICK k \in Int : r = (a - b) - k * M
    <3>1. a - b \in Int
      BY <1>1
    <3>2. QED BY <1>1, <3>1, Truncated
  <2> HIDE DEF r
  <2>2. ((a - b) - r) % M = 0
    <3>1. a - b \in Int
      BY <1>1
    <3>2. QED BY <2>1, <3>1, Widths, Congruent
  <2>3. Means("sub", a, b, i, f, r)
    BY <2>2 DEF Means
  <2>4. QED BY <2>3 DEF Sub, r
<1>6. Means("addi", a, b, i, f, Add(a, I16, Width))
  <2> DEFINE r == (a + I16) % M
  <2>1. PICK k \in Int : r = (a + I16) - k * M
    <3>1. a + I16 \in Int
      BY <1>1
    <3>2. QED BY <1>1, <3>1, Truncated
  <2> HIDE DEF r, M
  <2>2. r = (a + I) - (t + k) * M /\ t + k \in Int /\ a + I \in Int
    BY <1>1, <1>4, <2>1
  <2>3. ((a + I) - r) % M = 0
    BY <2>2, Widths, Congruent DEF M
  <2>4. Means("addi", a, b, i, f, r)
    BY <2>3 DEF Means, I, M
  <2>5. QED BY <2>4 DEF Add, r, M
<1>7. Means("add", a, b, i, f, Trunc((x + y) % 2^(2 * Width), Width))
  <2> DEFINE r == Trunc((x + y) % 2^(2 * Width), Width)
  <2>1. PICK k \in Int : r = (x + y) - k * M
    <3>1. x + y \in Int
      BY <1>1
    <3>2. QED BY <3>1, WideTruncated
  <2> HIDE DEF r, M
  <2>2. r = (a + b) - (p + q + k) * M /\ p + q + k \in Int /\ a + b \in Int
    BY <1>1, <1>2, <1>3, <2>1
  <2>3. ((a + b) - r) % M = 0
    BY <2>2, Widths, Congruent DEF M
  <2>4. Means("add", a, b, i, f, r)
    BY <2>3 DEF Means, M
  <2>5. QED BY <2>4 DEF r
<1>8. Wide("add", a, b, s) = (x + y) % 2^(2 * Width)
  BY Wides DEF x, y
<1>9. QED BY <1>5, <1>6, <1>7, <1>8, Results DEF I16

\* Products and quotients.
LEMMA ProductsMean ==
  ASSUME NEW a \in Word, NEW b \in Word, NEW i \in WordOf(Half), NEW f, NEW s
  PROVE  /\ Means("mul", a, b, i, f, Trunc(Wide("mul", a, b, s), Width))
         /\ Means("muli", a, b, i, f, Result("muli", a, b, i, s))
         /\ b # 0 => Means("div", a, b, i, f, Trunc(Wide("div", a, b, s), Width))
<1> DEFINE M == 2^Width
           x == IntOf(a, Width)
           y == IntOf(b, Width)
           I == IntOf(i, Half)
           I16 == SExt(i, Half, Width)
<1>1. M \in Nat \ {0} /\ Width \in Nat /\ a \in Int /\ b \in Int /\ x \in Int /\ y \in Int
      /\ I \in Int /\ I16 \in Int /\ (b # 0 => y # 0)
  BY Widths, IntIsWord, IntOfWord, Immediate
<1>2. PICK p \in Int : x = a - p * M
  BY Widths, IntIsWord
<1>3. PICK t \in Int : I16 = I - t * M
  BY Immediate
<1>4. b # 0 => Quotient(x, y) = SDiv(x, y) /\ SDiv(x, y) \in Int
  BY <1>1, QuotientIsSDiv, SDivType
<1>5. /\ Wide("mul", a, b, s) = (x * y) % 2^(2 * Width)
      /\ Wide("div", a, b, s) = SDiv(x, y) % 2^(2 * Width)
  BY Wides
<1> HIDE DEF x, y, I, I16
<1>6. Means("mul", a, b, i, f, Trunc((x * y) % 2^(2 * Width), Width))
  <2> DEFINE v == x * y
             r == Trunc(v % 2^(2 * Width), Width)
  <2>1. v \in Int
    BY <1>1
  <2>2. PICK k \in Int : r = v - k * M
    <3> HIDE DEF v
    <3>1. QED BY <2>1, WideTruncated
  <2> HIDE DEF r, v
  <2>3. (v - r) % M = 0
    BY <2>1, <2>2, Widths, Congruent
  <2>4. Means("mul", a, b, i, f, r)
    BY <2>3 DEF Means, x, y, v
  <2>5. QED BY <2>4 DEF r, v
<1>7. Means("muli", a, b, i, f, Trunc(a * I16, Width))
  <2> DEFINE w == a * I16
             r == w % M
             v == x * I
  <2>1. w \in Int /\ v \in Int
    BY <1>1
  <2>2. PICK k \in Int : r = w - k * M
    <3> HIDE DEF w
    <3>1. QED BY <1>1, <2>1, Truncated
  <2>3. w = v + ((p * I) - (a * t)) * M
    <3>1. w = (a * I) - (a * t) * M
      <4>1. a * (t * M) = (a * t) * M /\ a * t \in Int /\ t * M \in Int
        BY <1>1
      <4>2. a * (I - t * M) = (a * I) - (a * (t * M))
        BY <1>1, <4>1
      <4>3. QED BY <1>3, <4>1, <4>2
    <3>2. v = (a * I) - (p * I) * M
      <4>1. (p * M) * I = (p * I) * M /\ p * M \in Int /\ p * I \in Int
        BY <1>1
      <4>2. (a - p * M) * I = (a * I) - ((p * M) * I)
        BY <1>1, <4>1
      <4>3. QED BY <1>2, <4>1, <4>2
    <3> DEFINE g == p * I
               h == a * t
               e == a * I
    <3>3. g \in Int /\ h \in Int /\ e \in Int
      BY <1>1
    <3>4. w = e - h * M /\ v = e - g * M
      BY <3>1, <3>2
    <3> HIDE DEF g, h, e, w, v
    <3>5. w = v + (g - h) * M
      BY <1>1, <3>3, <3>4
    <3>6. QED BY <3>5 DEF g, h
  <2> DEFINE z == (p * I) - (a * t)
  <2>4. z \in Int /\ w = v + z * M
    BY <1>1, <2>3
  <2>5. Means("muli", a, b, i, f, r) <=> (v - r) % M = 0
    <3> HIDE DEF r
    <3>1. QED BY DEF Means, x, I
  <2> HIDE DEF r, w, v, z, M
  <2>6. r = v - (k - z) * M /\ k - z \in Int
    BY <1>1, <2>1, <2>2, <2>4
  <2>7. (v - r) % M = 0
    BY <2>1, <2>6, Widths, Congruent DEF M
  <2>8. Means("muli", a, b, i, f, r)
    BY <2>5, <2>7
  <2>9. QED BY <2>8 DEF Trunc, r, w, M
<1>8. ASSUME b # 0
      PROVE  Means("div", a, b, i, f, Trunc(SDiv(x, y) % 2^(2 * Width), Width))
  <2> DEFINE v == SDiv(x, y)
             r == Trunc(v % 2^(2 * Width), Width)
  <2>1. v \in Int /\ v = Quotient(x, y)
    BY <1>4, <1>8
  <2>2. PICK k \in Int : r = v - k * M
    <3> HIDE DEF v
    <3>1. QED BY <2>1, WideTruncated
  <2> HIDE DEF r, v
  <2>3. (v - r) % M = 0
    BY <2>1, <2>2, Widths, Congruent
  <2>4. Means("div", a, b, i, f, r)
    BY <2>1, <2>3 DEF Means, x, y
  <2>5. QED BY <2>4 DEF r, v
<1>9. QED BY <1>5, <1>6, <1>7, <1>8, Results DEF I16

-----------------------------------------------------------------------------
(* Sets of bits.                                                           *)

\* What is in the set of a register's bits, and of its extension.
LEMMA RegisterSets ==
  ASSUME NEW v
  PROVE  /\ Bits(v) \subseteq 0 .. Width - 1
         /\ \A p \in 0 .. Width - 1 : p \in Bits(v) <=> BitOf(v, p) = 1
BY DEF Bits, BitsOf

\* An extended pattern has the bits of the pattern, the last repeated.
LEMMA RegisterExtended ==
  ASSUME NEW v \in Nat, NEW n \in Nat \ {0}, n =< Width
  PROVE  /\ Bits(SExt(Trunc(v, n), n, Width)) = Extended(v, n)
         /\ v \in WordOf(n) => Bits(SExt(v, n, Width)) = Extended(v, n)
BY Widths, ExtensionBits DEF Bits, Extended

\* What shifts make of the bits.
LEMMA RegisterShifted ==
  ASSUME NEW a \in Word, NEW k \in 0 .. Width - 1
  PROVE  LET R == 0 .. Width - 1
             Signs == IF IntOf(a, Width) < 0 THEN Width - k .. Width - 1 ELSE {}
         IN  /\ Bits(Shl(a, k, Width)) = {p + k : p \in Bits(a)} \cap R
             /\ Bits(LShr(a, k)) = {p + (-k) : p \in Bits(a)} \cap R
             /\ Bits(AShr(a, k, Width)) = ({p + (-k) : p \in Bits(a)} \cap R) \cup Signs
BY Widths, ShiftedSets DEF Bits

\* Logic and extension.
LEMMA LogicMeans ==
  ASSUME NEW a \in Word, NEW b \in Word, NEW i \in WordOf(Half), NEW f, NEW s
  PROVE  \A op \in {"and", "or", "xor", "andi", "ori", "xori", "exths", "extbs"} :
           Means(op, a, b, i, f, Result(op, a, b, i, s))
<1> DEFINE R == 0 .. Width - 1
           I16 == SExt(i, Half, Width)
<1>1. a \in Nat /\ b \in Nat /\ i \in Nat /\ I16 \in Nat /\ Half \in Nat \ {0} /\ Half =< Width
      /\ Byte \in Nat \ {0} /\ Byte =< Width
  <2>1. Half \in Nat \ {0} /\ Half =< Width /\ Byte \in Nat \ {0} /\ Byte =< Width
        /\ a \in Nat /\ b \in Nat
    BY Widths
  <2>2. i \in Nat
    BY DEF WordOf
  <2>3. I16 \in Word
    BY Immediate
  <2>4. QED BY <2>1, <2>2, <2>3, Widths
<1>2. Bits(I16) = Extended(i, Half)
  BY <1>1, RegisterExtended
<1>3. ASSUME NEW v \in Nat, NEW w \in Nat
      PROVE  /\ Bits(v & w) = Bits(v) \cap Bits(w)
             /\ Bits(v | w) = Bits(v) \cup Bits(w)
             /\ \A n \in R : n \in Bits(v ^^ w) <=> (n \in Bits(v)) # (n \in Bits(w))
  BY Widths, LogicSets DEF Bits
<1> HIDE DEF I16
<1>4. /\ Means("and", a, b, i, f, a & b) /\ Means("or", a, b, i, f, a | b)
      /\ Means("andi", a, b, i, f, a & i) /\ Means("ori", a, b, i, f, a | i)
  BY <1>1, <1>3 DEF Means
<1>5. Means("xor", a, b, i, f, a ^^ b)
  BY <1>1, <1>3 DEF Means
<1>6. Means("xori", a, b, i, f, a ^^ I16)
  BY <1>1, <1>2, <1>3 DEF Means
<1>7. Means("exths", a, b, i, f, SExt(Trunc(a, Half), Half, Width))
  <2>1. Bits(SExt(Trunc(a, Half), Half, Width)) = Extended(a, Half)
    BY <1>1, RegisterExtended
  <2>2. QED BY <2>1 DEF Means
<1>8. Means("extbs", a, b, i, f, SExt(Trunc(a, Byte), Byte, Width))
  <2>1. Bits(SExt(Trunc(a, Byte), Byte, Width)) = Extended(a, Byte)
    BY <1>1, RegisterExtended
  <2>2. QED BY <2>1 DEF Means
<1>9. QED BY <1>4, <1>5, <1>6, <1>7, <1>8, Results DEF I16

-----------------------------------------------------------------------------
(* Shifts.                                                                 *)

\* The shifts by a register and by an immediate.
LEMMA ShiftsMean ==
  ASSUME NEW a \in Word, NEW b \in Word, NEW i \in WordOf(Half), NEW f, NEW s
  PROVE  \A op \in {"sll", "srl", "sra", "slli", "srli", "srai"} :
           Means(op, a, b, i, f, Result(op, a, b, i, s))
<1> DEFINE k == b % Width
           m == i % Width
<1>1. b & (Width - 1) = k /\ k \in 0 .. Width - 1
  <2>1. b \in Nat
    BY Widths
  <2>2. QED BY <2>1, Amount
<1>2. m \in 0 .. Width - 1
  <2>1. i \in Int /\ Width \in Nat \ {0}
    BY Widths DEF WordOf
  <2>2. QED BY <2>1, DivisionInt
<1> HIDE DEF k, m
<1>3. /\ Means("sll", a, b, i, f, Shl(a, k, Width))
      /\ Means("srl", a, b, i, f, LShr(a, k))
      /\ Means("sra", a, b, i, f, AShr(a, k, Width))
  BY <1>1, RegisterShifted DEF Means, k
<1>4. /\ Means("slli", a, b, i, f, Shl(a, m, Width))
      /\ Means("srli", a, b, i, f, LShr(a, m))
      /\ Means("srai", a, b, i, f, AShr(a, m, Width))
  BY <1>2, RegisterShifted DEF Means, m
<1>5. QED BY <1>1, <1>3, <1>4, Results DEF m

\* l.ror, unless the amount is zero.
LEMMA RorMeans ==
  ASSUME NEW a \in Word, NEW b \in Word, NEW i, NEW f, b % Width # 0,
         NEW r \in RorResults(a, b)
  PROVE  Means("ror", a, b, i, f, r)
<1> DEFINE R == 0 .. Width - 1
           k == b % Width
           From(p) == IF p + k < Width THEN p + k ELSE (p + k) - Width
<1>1. b & (Width - 1) = k /\ k \in R /\ k # 0 /\ Width \in Nat \ {0}
  <2>1. b \in Nat
    BY Widths
  <2>2. QED BY <2>1, Widths, Amount
<1> HIDE DEF k
<1> DEFINE j == Width - k
           u == LShr(a, k)
           v == Shl(a, j, Width)
<1>2. k \in 0 .. Width /\ j \in 0 .. Width /\ k \in Nat /\ j \in Nat /\ j = Width - k /\ 0 < k
  BY <1>1
<1>3. r = u | v
  BY <1>1 DEF RorResults
<1>4. u \in Nat /\ v \in Nat
  <2>1. u \in Word /\ v \in Word
    BY <1>2, Widths, ShiftsMade
  <2>2. QED BY <2>1, Widths
<1>5. \A w : Bits(w) \subseteq R /\ \A p \in R : p \in Bits(w) <=> BitOf(w, p) = 1
  BY RegisterSets
<1>6. ASSUME NEW p \in R
      PROVE  /\ BitOf(u, p) = BitOf(a, p + k)
             /\ Width =< p + k => BitOf(a, p + k) = 0
             /\ BitOf(v, p) = IF p < j THEN 0 ELSE BitOf(a, p - j)
  BY <1>2, Widths, ShiftedBits
<1> HIDE DEF u, v, j
<1>7. \A p \in Nat : BitOf(u | v, p) = 1 <=> BitOf(u, p) = 1 \/ BitOf(v, p) = 1
  BY <1>4, OrBits
<1>8. ASSUME NEW p \in R PROVE p \in Bits(r) <=> From(p) \in Bits(a)
  <2>1. p \in Bits(r) <=> BitOf(u, p) = 1 \/ BitOf(v, p) = 1
    BY <1>3, <1>5, <1>7
  <2>2. CASE p + k < Width
    <3>1. p < j /\ p + k \in R /\ From(p) = p + k
      BY <1>1, <1>2, <2>2
    <3>2. QED BY <1>5, <1>6, <2>1, <3>1
  <2>3. CASE ~ (p + k < Width)
    <3>1. ~ (p < j) /\ Width =< p + k /\ p - j = (p + k) - Width
          /\ (p + k) - Width \in R /\ From(p) = (p + k) - Width
      BY <1>1, <1>2, <2>3
    <3>2. BitOf(u, p) = 0 /\ BitOf(v, p) = BitOf(a, From(p))
      BY <1>6, <3>1
    <3>3. From(p) \in Bits(a) <=> BitOf(a, From(p)) = 1
      BY <1>5, <3>1
    <3>4. QED BY <2>1, <3>2, <3>3
  <2>4. QED BY <2>2, <2>3
<1>9. ASSUME NEW q \in R
      PROVE  (q - k) % Width \in R /\ \A p \in R : p = (q - k) % Width <=> q = From(p)
  <2>1. CASE q >= k
    <3>1. q - k \in R /\ q - k \in 0 .. Width - 1
      BY <1>1, <2>1
    <3>2. (q - k) % Width = q - k
      BY <1>1, <3>1, ModInRange
    <3>3. \A p \in R : p = q - k <=> q = From(p)
      BY <1>1, <1>2, <2>1
    <3>4. QED BY <3>1, <3>2, <3>3
  <2>2. CASE ~ (q >= k)
    <3>1. (q - k) + Width \in R /\ q - k \in Int /\ (q - k) + Width \in Int
          /\ 0 =< (q - k) + Width /\ (q - k) + Width < Width
          /\ q - k = (-1) * Width + ((q - k) + Width) /\ -1 \in Int
      BY <1>1, <2>2
    <3>2. (q - k) % Width = (q - k) + Width
      <4> DEFINE x == q - k
                 y == (q - k) + Width
      <4>1. x \in Int /\ y \in Int /\ 0 =< y /\ y < Width /\ x = (-1) * Width + y
        BY <3>1
      <4> HIDE DEF x, y
      <4>2. x % Width = y
        BY <1>1, <3>1, <4>1, QuotientOf
      <4>3. QED BY <4>2 DEF x, y
    <3>3. \A p \in R : p = (q - k) + Width <=> q = From(p)
      BY <1>1, <1>2, <2>2
    <3>4. QED BY <3>1, <3>2, <3>3
  <2>3. QED BY <1>2, <2>1, <2>2
<1>10. Bits(r) = {(q - k) % Width : q \in Bits(a)}
  <2>1. Bits(a) \subseteq R /\ Bits(r) \subseteq R
    BY <1>5
  <2>2. ASSUME NEW p \in R PROVE From(p) \in R
    BY <1>1, <1>2
  <2> HIDE DEF R, From
  <2>3. QED BY <1>8, <1>9, <2>1, <2>2
<1>11. QED BY <1>10 DEF Means, k

\* l.movhi, the truncations and l.cmov.
LEMMA OthersMean ==
  ASSUME NEW a \in Word, NEW b \in Word, NEW i \in WordOf(Half), NEW s \in 0 .. 15
  PROVE  \A op \in {"movhi", "extbz", "extws", "extwz", "cmov"} :
           Means(op, a, b, i, Flag(s, SR_F), Result(op, a, b, i, s))
<1> DEFINE R == 0 .. Width - 1
           f == Flag(s, SR_F)
           r == Shl(i, Half, Width)
<1>1. /\ Half \in Nat \ {0} /\ Width = 2 * Half /\ Half \in R /\ i \in Word /\ i \in Nat
  <2>1. Half \in Nat \ {0} /\ Half =< Width /\ Width = 2 * Half
    BY Widths
  <2>2. WordOf(Half) \subseteq Word
    BY <2>1, Widths, WordsMade
  <2>3. QED BY <2>1, <2>2 DEF WordOf
<1>2. Bits(r) = {p + Half : p \in Bits(i)} \cap R
  BY <1>1, RegisterShifted
<1>3. \A p \in Bits(i) : p + Half \in R
  <2>1. ASSUME NEW p \in Bits(i) PROVE p < Half
    <3>1. p \in R /\ BitOf(i, p) = 1
      BY RegisterSets
    <3>2. p \in Nat
      BY <3>1
    <3>3. Half =< p => BitOf(i, p) = 0
      BY <1>1, <3>2, BitsBeyond
    <3>4. QED BY <1>1, <3>1, <3>2, <3>3
  <2>2. Bits(i) \subseteq R
    BY RegisterSets
  <2>3. QED BY <1>1, <2>1, <2>2
<1> HIDE DEF r
<1>4. Bits(r) = {p + Half : p \in Bits(i)}
  BY <1>2, <1>3
<1>5. Means("movhi", a, b, i, f, r)
  BY <1>4 DEF Means
<1>6. Means("extbz", a, b, i, f, Trunc(a, Byte))
  BY DEF Means, Trunc
<1>7. Means("extws", a, b, i, f, a) /\ Means("extwz", a, b, i, f, a)
  BY DEF Means
<1>8. Means("cmov", a, b, i, f, IF Trunc(LShr(s, SR_F), 1) = 1 THEN a ELSE b)
  <2>1. Trunc(LShr(s, SR_F), 1) = 1 <=> f
    BY SmallPowers DEF Trunc, Flag
  <2> HIDE DEF f
  <2>2. Means("cmov", a, b, i, f, IF f THEN a ELSE b)
    BY DEF Means
  <2>3. QED BY <2>1, <2>2
<1>9. QED BY <1>5, <1>6, <1>7, <1>8, Results DEF r

\* The emitted code computes what the mnemonic says, for every instruction
\* but l.divu, l.mulu, l.exthz and l.addc (disas_arith, disas_logical and
\* disas_others), whatever the registers and the immediate hold.
THEOREM ResultsMean == Spec => []ResultIsMnemonic
<1>1. IInv => ResultIsMnemonic
  <2> SUFFICES ASSUME IInv PROVE ResultIsMnemonic
    OBVIOUS
  <2> DEFINE a == gr[1]
             b == gr[2]
             f == Flag(sr, SR_F)
  <2>1. a \in Word /\ b \in Word /\ sr \in 0 .. 15 /\ 0 \in WordOf(Half)
    <3>1. 0 \in WordOf(Half)
      BY Widths, Powers DEF WordOf
    <3>2. QED BY <3>1 DEF IInv, TypeOK
  <2> HIDE DEF a, b, f
  <2>2. ASSUME NEW op \in (RegOps \cup ImmOps) \ {"exthz"}, NEW i \in WordOf(Half)
        PROVE  Means(op, a, b, i, f, Result(op, a, b, i, sr))
    <3>1. CASE op \in {"sub", "addi"}
      BY <2>1, <3>1, SumsMean
    <3>2. CASE op = "muli"
      BY <2>1, <3>2, ProductsMean
    <3>3. CASE op \in {"and", "or", "xor", "andi", "ori", "xori", "exths", "extbs"}
      BY <2>1, <3>3, LogicMeans
    <3>4. CASE op \in {"sll", "srl", "sra", "slli", "srli", "srai"}
      BY <2>1, <3>4, ShiftsMean
    <3>5. CASE op \in {"movhi", "extbz", "extws", "extwz", "cmov"}
      BY <2>1, <3>5, OthersMean DEF f
    <3>6. QED BY <3>1, <3>2, <3>3, <3>4, <3>5 DEF RegOps, ImmOps
  <2>3. ASSUME NEW op \in {"add", "mul", "div"}, ~ DividesByZero(op, a, b)
        PROVE  Means(op, a, b, 0, f, Trunc(Wide(op, a, b, sr), Width))
    <3>1. CASE op = "add"
      BY <2>1, <3>1, SumsMean
    <3>2. CASE op = "mul"
      BY <2>1, <3>2, ProductsMean
    <3>3. CASE op = "div"
      BY <2>1, <2>3, <3>3, ProductsMean DEF DividesByZero
    <3>4. QED BY <3>1, <3>2, <3>3
  <2>4. ASSUME b % Width # 0, NEW r \in RorResults(a, b)
        PROVE  Means("ror", a, b, 0, f, r)
    BY <2>1, <2>4, RorMeans
  <2>5. QED BY <2>1, <2>2, <2>3, <2>4 DEF ResultIsMnemonic, RegOps, ImmOps, a, b, f
<1>2. QED BY <1>1, Invariance, PTL

-----------------------------------------------------------------------------
(* RISC-V: widths.                                                         *)

\* The fields of an instruction fit into a word, and words into registers.
LEMMA RvWidths ==
  /\ XLEN \in Nat \ {0} /\ HalfBits \in Nat \ {0} /\ ShBits \in Nat
  /\ ImmBits \in Nat \ {0} /\ UpBits \in Nat \ {0}
  /\ XLEN = 2 * HalfBits /\ ImmBits + UpBits = HalfBits /\ ShBits + 3 =< ImmBits
  /\ ImmBits < HalfBits /\ UpBits + 1 =< XLEN /\ ImmBits + 1 =< XLEN
  /\ 2^ShBits = HalfBits /\ 2^(ShBits + 1) = XLEN
  /\ 2^XLEN \in Nat \ {0} /\ 16 =< 2^XLEN
<1>1. PICK n \in Nat : 4 =< n /\ XLEN = 2^n
  BY WidthAssumption
<1> DEFINE m == n - 1
<1>2. m \in Nat /\ 3 =< m /\ n = m + 1
  BY <1>1
<1> HIDE DEF m
<1>3. 2^m \in Nat \ {0} /\ XLEN = 2 * 2^m /\ m < 2^m
  BY <1>1, <1>2, Powers, PowerSuccessor
<1>4. HalfBits = 2^m
  <2>1. \A h \in Nat : (2 * h) \div 2 = h
    OBVIOUS
  <2>2. QED BY <1>3, <2>1 DEF HalfBits
<1>5. ShBits \in 0 .. HalfBits /\ 2^ShBits = HalfBits
  <2>1. m \in 0 .. HalfBits /\ 2^m = HalfBits
    BY <1>2, <1>3, <1>4
  <2>2. QED BY <2>1 DEF ShBits
<1>6. 2^(ShBits + 1) = 2 * 2^ShBits
  BY <1>5, <1>3, <1>4, PowerSuccessor
<1>7. XLEN \in Nat \ {0} /\ 4 =< XLEN /\ HalfBits \in Nat \ {0} /\ XLEN = 2 * HalfBits
  BY <1>2, <1>3, <1>4
<1>8. 2^XLEN \in Nat \ {0} /\ 2^4 =< 2^XLEN
  <2>1. XLEN \in Nat /\ 4 \in Nat
    BY <1>7
  <2>2. QED BY <1>7, <2>1, Powers, PowersGrow
<1>9. ImmBits \in ShBits + 3 .. HalfBits - 1 /\ UpBits = HalfBits - ImmBits
  BY WidthAssumption DEF UpBits
<1>10. QED BY <1>5, <1>6, <1>7, <1>8, <1>9, SmallPowers

-----------------------------------------------------------------------------
(* The invariant.                                                          *)

\* What an executed instruction left, of its operands.
Ran ==
  \/ \E op \in RvImmOps, i \in WordOf(ImmBits) :
       /\ ImmOp(op, i) /\ insn = [op |-> op, i |-> i]
       /\ rd = integer_imm(op, rs1, i) /\ pnext_pc = None
  \/ \E op \in RvRegOps :
       /\ insn = [op |-> op, i |-> 0]
       /\ rd = integer_reg(op, rs1, rs2) /\ pnext_pc = None
  \/ \E op \in UpOps, i \in WordOf(UpBits) :
       /\ insn = [op |-> op, i |-> i]
       /\ rd = load_imm(op, i, pc) /\ pnext_pc = None
  \/ \E i \in WordOf(ImmBits) :
       /\ insn = [op |-> "addiw", i |-> i]
       /\ rd = addiw(rs1, i) /\ pnext_pc = None
  \/ \E op \in BranchOps, i \in WordOf(ImmBits + 1) :
       /\ insn = [op |-> op, i |-> i] /\ rd = None
       /\ pnext_pc = IF taken(op, rs1, rs2) THEN next_pc(pc, i, ImmBits + 1)
                     ELSE Add(pc, 4, XLEN)
  \/ \E i \in WordOf(ImmBits) :
       /\ insn = [op |-> "jalr", i |-> i] /\ rd = Add(pc, 4, XLEN)
       /\ pnext_pc = next_pc(rs1, i, ImmBits)
  \/ \E i \in WordOf(UpBits + 1) :
       /\ insn = [op |-> "jal", i |-> i] /\ rd = Add(pc, 4, XLEN)
       /\ pnext_pc = next_pc(pc, i, UpBits + 1)

\* Registers hold words; an instruction was executed or none was.
RvIInv ==
  /\ rs1 \in WordOf(XLEN) /\ rs2 \in WordOf(XLEN) /\ pc \in WordOf(XLEN)
  /\ \/ insn = NoInsn /\ rd = None /\ pnext_pc = None
     \/ Ran

\* An even number of n bits is one of n bits.
LEMMA EvenWord ==
  ASSUME NEW n \in Nat \ {0}
  PROVE  Even(n) \subseteq WordOf(n)
<1>1. n - 1 \in Nat /\ n = (n - 1) + 1
  OBVIOUS
<1>2. 2^n = 2 * 2^(n - 1) /\ 2^(n - 1) \in Nat
  BY <1>1, PowerSuccessor
<1>3. ASSUME NEW k \in WordOf(n - 1) PROVE 2 * k \in WordOf(n)
  BY <1>2 DEF WordOf
<1>4. QED BY <1>3 DEF Even

\* One instruction is executed, on what it finds.
LEMMA RvStepInv == RvIInv /\ [RvNext]_rv_vars => RvIInv'
<1> SUFFICES ASSUME RvIInv, [RvNext]_rv_vars PROVE RvIInv'
  OBVIOUS
<1>1. CASE UNCHANGED rv_vars
  <2>1. /\ rs1' = rs1 /\ rs2' = rs2 /\ pc' = pc /\ insn' = insn /\ rd' = rd
        /\ pnext_pc' = pnext_pc
    BY <1>1 DEF rv_vars
  <2>2. Ran => Ran'
    BY <2>1 DEF Ran
  <2>3. QED BY <2>1, <2>2 DEF RvIInv
<1>2. CASE RvNext
  <2>1. rs1' = rs1 /\ rs2' = rs2 /\ pc' = pc
    BY <1>2 DEF RvNext, disas_insn_integer_imm, disas_insn_integer_reg, disas_insn_load_imm,
      disas_insn_64bit_integer, disas_insn_cond_branch, disas_insn_jump, Computes
  <2>2. ~ Ran
    <3>1. insn = NoInsn
      BY <1>2 DEF RvNext, disas_insn_integer_imm, disas_insn_integer_reg, disas_insn_load_imm,
        disas_insn_64bit_integer, disas_insn_cond_branch, disas_insn_jump, Computes, Done
    <3>2. insn.op = "none"
      BY <3>1 DEF NoInsn
    <3>3. QED BY <3>2 DEF Ran, RvImmOps, RvRegOps, UpOps, BranchOps
  <2>3. rd = None /\ pnext_pc = None
    BY <2>2 DEF RvIInv
  <2>4. ASSUME NEW op \in RvImmOps, NEW i \in WordOf(ImmBits), disas_insn_integer_imm(op, i)
        PROVE  Ran'
    BY <2>1, <2>3, <2>4 DEF disas_insn_integer_imm, Computes, Done, Ran
  <2>5. ASSUME NEW op \in RvRegOps, disas_insn_integer_reg(op) PROVE Ran'
    BY <2>1, <2>3, <2>5 DEF disas_insn_integer_reg, Computes, Done, Ran
  <2>6. ASSUME NEW op \in UpOps, NEW i \in WordOf(UpBits), disas_insn_load_imm(op, i)
        PROVE  Ran'
    BY <2>1, <2>3, <2>6 DEF disas_insn_load_imm, Computes, Done, Ran
  <2>7. ASSUME NEW i \in WordOf(ImmBits), disas_insn_64bit_integer(i) PROVE Ran'
    BY <2>1, <2>3, <2>7 DEF disas_insn_64bit_integer, Computes, Done, Ran
  <2>8. ASSUME NEW op \in BranchOps, NEW i \in Even(ImmBits + 1),
               disas_insn_cond_branch(op, i)
        PROVE  Ran'
    <3>1. i \in WordOf(ImmBits + 1)
      <4>1. ImmBits + 1 \in Nat \ {0}
        BY RvWidths
      <4>2. QED BY <4>1, EvenWord
    <3>2. QED BY <2>1, <2>3, <2>8, <3>1 DEF disas_insn_cond_branch, Done, Ran
  <2>9. ASSUME NEW i \in WordOf(ImmBits), disas_insn_jump("jalr", i) PROVE Ran'
    BY <2>1, <2>9 DEF disas_insn_jump, Done, Ran
  <2>10. ASSUME NEW i \in Even(UpBits + 1), disas_insn_jump("jal", i) PROVE Ran'
    <3>1. i \in WordOf(UpBits + 1)
      <4>1. UpBits + 1 \in Nat \ {0}
        BY RvWidths
      <4>2. QED BY <4>1, EvenWord
    <3>2. QED BY <2>1, <2>10, <3>1 DEF disas_insn_jump, Done, Ran
  <2>11. Ran'
    BY <1>2, <2>4, <2>5, <2>6, <2>7, <2>8, <2>9, <2>10 DEF RvNext
  <2>12. QED BY <2>1, <2>11 DEF RvIInv
<1>3. QED BY <1>1, <1>2

\* The inductive invariant of the emitted arithmetic: registers of XLEN bits hold
\* words, and what an instruction leaves is what was emitted for it.
THEOREM RvInvariance == RvSpec => []RvIInv
<1>1. RvInit => RvIInv
  BY DEF RvInit, RvIInv
<1>2. QED BY <1>1, RvStepInv, PTL DEF RvSpec

-----------------------------------------------------------------------------
(* What each operation computes.                                           *)

\* The code for op left r: a word that op means if op is sound, else none.
Right(op, a, b, i, at, r) ==
  (r \in WordOf(XLEN) /\ RvMeans(op, a, b, i, at, r)) <=> Sound(op, b, i)

\* A sum or a difference is kept modulo the size of a register, whether an
\* operand is extended before or not.
LEMMA Sums ==
  ASSUME NEW x \in Int, NEW y \in Int
  PROVE  /\ Add(x, y, XLEN) \in WordOf(XLEN) /\ Sub(x, y, XLEN) \in WordOf(XLEN)
         /\ x % 2^XLEN \in WordOf(XLEN)
         /\ ((x + y) - Add(x, y, XLEN)) % 2^XLEN = 0
         /\ ((x + y) - Add(x % 2^XLEN, y, XLEN)) % 2^XLEN = 0
         /\ ((x + y) - Add(y, x % 2^XLEN, XLEN)) % 2^XLEN = 0
         /\ ((x - y) - Sub(x, y, XLEN)) % 2^XLEN = 0
         /\ (x - (x % 2^XLEN)) % 2^XLEN = 0
<1> DEFINE M == 2^XLEN
           z == x % M
<1>1. XLEN \in Nat \ {0} /\ XLEN \in Nat /\ M \in Nat \ {0}
  BY RvWidths
<1>2. x + y \in Int /\ x - y \in Int
  OBVIOUS
<1>3. PICK q \in Int : z = x - q * M
  BY <1>1, Truncated
<1>4. z \in Int /\ z \in WordOf(XLEN)
  BY <1>1, DivisionInt DEF WordOf
<1>5. z + y \in Int /\ y + z \in Int
  BY <1>4
<1>6. PICK k \in Int : (x + y) % M = (x + y) - k * M
  BY <1>1, <1>2, Truncated
<1>7. PICK l \in Int : (x - y) % M = (x - y) - l * M
  BY <1>1, <1>2, Truncated
<1>8. PICK m \in Int : (z + y) % M = (z + y) - m * M
  BY <1>1, <1>5, Truncated
<1>9. (x + y) % M \in WordOf(XLEN) /\ (x - y) % M \in WordOf(XLEN)
  BY <1>1, <1>2, RemainderIsWord
<1>10. (z + y) % M = (x + y) - (m + q) * M /\ y + z = z + y
  <2>1. m * M + q * M = (m + q) * M
    BY <1>1
  <2>2. m * M \in Int /\ q * M \in Int
    BY <1>1
  <2> HIDE DEF M, z
  <2>3. QED BY <1>3, <1>4, <1>8, <2>1, <2>2
<1>11. /\ ((x + y) - ((x + y) % M)) % M = 0
       /\ ((x - y) - ((x - y) % M)) % M = 0
       /\ ((x + y) - ((z + y) % M)) % M = 0
       /\ (x - z) % M = 0
  <2>1. m + q \in Int
    OBVIOUS
  <2>2. QED BY <1>1, <1>2, <1>3, <1>6, <1>7, <1>10, <2>1, Congruent
<1>12. QED BY <1>4, <1>9, <1>10, <1>11 DEF Add, Sub

\* The immediate of n bits as an operand.
LEMMA Immediates ==
  ASSUME NEW n \in Nat \ {0}, n =< XLEN, NEW i \in WordOf(n)
  PROVE  /\ IntOf(i, n) \in Int /\ i \in Nat
         /\ SExt(i, n, XLEN) = IntOf(i, n) % 2^XLEN
         /\ SExt(i, n, XLEN) \in WordOf(XLEN) /\ SExt(i, n, XLEN) \in Nat
<1>1. i \in Nat /\ i \in Int /\ IntOf(i, n) \in Int
  BY WordSize, IntOfWord
<1>2. SExt(i, n, XLEN) \in WordOf(XLEN)
  BY <1>1, RvWidths, WordsMade
<1>3. QED BY <1>1, <1>2, RvWidths, WordSize DEF SExt

\* Sums and links.
LEMMA SumsRight ==
  ASSUME NEW a \in WordOf(XLEN), NEW b \in WordOf(XLEN), NEW at \in WordOf(XLEN),
         NEW i \in WordOf(ImmBits), NEW j
  PROVE  /\ Right("addi", a, b, i, at, integer_imm("addi", a, i))
         /\ Right("add", a, b, 0, at, integer_reg("add", a, b))
         /\ Right("sub", a, b, 0, at, integer_reg("sub", a, b))
         /\ Right("jal", a, b, j, at, Add(at, 4, XLEN))
         /\ Right("jalr", a, b, j, at, Add(at, 4, XLEN))
<1>1. a \in Int /\ b \in Int /\ at \in Int /\ 4 \in Int
  BY RvWidths, WordSize
<1>2. IntOf(i, ImmBits) \in Int /\ SExt(i, ImmBits, XLEN) = IntOf(i, ImmBits) % 2^XLEN
  <2>1. ImmBits \in Nat \ {0} /\ ImmBits =< XLEN
    BY RvWidths
  <2>2. QED BY <2>1, Immediates
<1>3. /\ integer_imm("addi", a, i) = Add(SExt(i, ImmBits, XLEN), a, XLEN)
      /\ integer_reg("add", a, b) = Add(a, b, XLEN)
      /\ integer_reg("sub", a, b) = Sub(a, b, XLEN)
  BY DEF integer_imm, integer_reg
<1>4. /\ Sound("addi", b, i) /\ Sound("add", b, 0) /\ Sound("sub", b, 0)
      /\ Sound("jal", b, j) /\ Sound("jalr", b, j)
  BY DEF Sound, UpOps
<1>5. integer_imm("addi", a, i) \in WordOf(XLEN) /\ RvMeans("addi", a, b, i, at, integer_imm("addi", a, i))
  <2> DEFINE r == integer_imm("addi", a, i)
             I == IntOf(i, ImmBits)
  <2>1. r \in WordOf(XLEN) /\ ((I + a) - r) % 2^XLEN = 0
    <3>1. I \in Int /\ r = Add(I % 2^XLEN, a, XLEN)
      BY <1>2, <1>3
    <3> HIDE DEF I, r
    <3>2. I % 2^XLEN \in Int
      BY <3>1, RvWidths, DivisionInt
    <3>3. QED BY <1>1, <3>1, <3>2, Sums
  <2>2. I + a = a + I
    BY <1>1, <1>2
  <2> HIDE DEF r
  <2>3. RvMeans("addi", a, b, i, at, r)
    BY <2>1, <2>2 DEF RvMeans
  <2>4. QED BY <2>1, <2>3 DEF r
<1>6. integer_reg("add", a, b) \in WordOf(XLEN) /\ RvMeans("add", a, b, 0, at, integer_reg("add", a, b))
  <2> DEFINE r == integer_reg("add", a, b)
  <2>1. r \in WordOf(XLEN) /\ ((a + b) - r) % 2^XLEN = 0
    BY <1>1, <1>3, Sums
  <2> HIDE DEF r
  <2>2. RvMeans("add", a, b, 0, at, r)
    BY <2>1 DEF RvMeans
  <2>3. QED BY <2>1, <2>2 DEF r
<1>7. integer_reg("sub", a, b) \in WordOf(XLEN) /\ RvMeans("sub", a, b, 0, at, integer_reg("sub", a, b))
  <2> DEFINE r == integer_reg("sub", a, b)
  <2>1. r \in WordOf(XLEN) /\ ((a - b) - r) % 2^XLEN = 0
    BY <1>1, <1>3, Sums
  <2> HIDE DEF r
  <2>2. RvMeans("sub", a, b, 0, at, r)
    BY <2>1 DEF RvMeans
  <2>3. QED BY <2>1, <2>2 DEF r
<1>8. /\ Add(at, 4, XLEN) \in WordOf(XLEN)
      /\ RvMeans("jal", a, b, j, at, Add(at, 4, XLEN)) /\ RvMeans("jalr", a, b, j, at, Add(at, 4, XLEN))
  <2> DEFINE r == Add(at, 4, XLEN)
  <2>1. r \in WordOf(XLEN) /\ ((at + 4) - r) % 2^XLEN = 0
    BY <1>1, Sums
  <2> HIDE DEF r
  <2>2. RvMeans("jal", a, b, j, at, r)
    BY <2>1 DEF RvMeans
  <2>3. RvMeans("jalr", a, b, j, at, r)
    BY <2>1 DEF RvMeans
  <2>4. QED BY <2>1, <2>2, <2>3 DEF r
<1>9. QED BY <1>4, <1>5, <1>6, <1>7, <1>8 DEF Right

\* The operations on bits make words with the bits of both, of either, of one.
LEMMA RvBits ==
  ASSUME NEW u \in WordOf(XLEN), NEW v \in WordOf(XLEN)
  PROVE  LET U == BitsOf(u, XLEN)
             V == BitsOf(v, XLEN)
         IN  /\ u & v \in WordOf(XLEN) /\ u | v \in WordOf(XLEN) /\ u ^^ v \in WordOf(XLEN)
             /\ BitsOf(u & v, XLEN) = U \cap V /\ BitsOf(u | v, XLEN) = U \cup V
             /\ BitsOf(u ^^ v, XLEN) = (U \cup V) \ (U \cap V)
<1> DEFINE R == 0 .. XLEN - 1
           U == BitsOf(u, XLEN)
           V == BitsOf(v, XLEN)
           X == BitsOf(u ^^ v, XLEN)
<1>1. u \in Nat /\ v \in Nat /\ XLEN \in Nat \ {0} /\ XLEN \in Nat
  BY RvWidths, WordSize
<1>2. U \subseteq R /\ V \subseteq R /\ X \subseteq R
  BY BitSets
<1>3. \A p \in R : p \in X <=> (p \in U) # (p \in V)
  BY <1>1, LogicSets
<1> HIDE DEF U, V, X, R
<1>4. X = (U \cup V) \ (U \cap V)
  BY <1>2, <1>3
<1>5. BitsOf(u & v, XLEN) = U \cap V /\ BitsOf(u | v, XLEN) = U \cup V
  BY <1>1, LogicSets DEF U, V
<1>6. u & v \in WordOf(XLEN) /\ u | v \in WordOf(XLEN) /\ u ^^ v \in WordOf(XLEN)
  BY <1>1, BitsCombine
<1>7. QED BY <1>4, <1>5, <1>6 DEF U, V, X

\* The operations on bits.
LEMMA BitsRight ==
  ASSUME NEW a \in WordOf(XLEN), NEW b \in WordOf(XLEN), NEW at,
         NEW i \in WordOf(ImmBits)
  PROVE  /\ Right("xori", a, b, i, at, integer_imm("xori", a, i))
         /\ Right("ori", a, b, i, at, integer_imm("ori", a, i))
         /\ Right("andi", a, b, i, at, integer_imm("andi", a, i))
         /\ Right("xor", a, b, 0, at, integer_reg("xor", a, b))
         /\ Right("or", a, b, 0, at, integer_reg("or", a, b))
         /\ Right("and", a, b, 0, at, integer_reg("and", a, b))
<1> DEFINE e == SExt(i, ImmBits, XLEN)
<1>1. e \in WordOf(XLEN) /\ e = IntOf(i, ImmBits) % 2^XLEN
  <2>1. ImmBits \in Nat \ {0} /\ ImmBits =< XLEN
    BY RvWidths
  <2>2. QED BY <2>1, Immediates
<1>2. /\ integer_imm("xori", a, i) = e ^^ a
      /\ integer_imm("ori", a, i) = e | a
      /\ integer_imm("andi", a, i) = e & a
      /\ integer_reg("xor", a, b) = a ^^ b
      /\ integer_reg("or", a, b) = a | b
      /\ integer_reg("and", a, b) = a & b
  BY DEF integer_imm, integer_reg
<1>3. /\ Sound("xori", b, i) /\ Sound("ori", b, i) /\ Sound("andi", b, i)
      /\ Sound("xor", b, 0) /\ Sound("or", b, 0) /\ Sound("and", b, 0)
  BY DEF Sound, UpOps
<1> HIDE DEF e
<1>4. integer_imm("xori", a, i) \in WordOf(XLEN) /\ RvMeans("xori", a, b, i, at, integer_imm("xori", a, i))
  <2> DEFINE r == integer_imm("xori", a, i)
  <2>1. r \in WordOf(XLEN) /\ BitsOf(r, XLEN) = (BitsOf(e, XLEN) \cup BitsOf(a, XLEN)) \ (BitsOf(e, XLEN) \cap BitsOf(a, XLEN))
    BY <1>1, <1>2, RvBits
  <2> HIDE DEF r
  <2>2. RvMeans("xori", a, b, i, at, r)
    BY <1>1, <2>1 DEF RvMeans
  <2>3. QED BY <2>1, <2>2 DEF r
<1>5. integer_imm("ori", a, i) \in WordOf(XLEN) /\ RvMeans("ori", a, b, i, at, integer_imm("ori", a, i))
  <2> DEFINE r == integer_imm("ori", a, i)
  <2>1. r \in WordOf(XLEN) /\ BitsOf(r, XLEN) = BitsOf(e, XLEN) \cup BitsOf(a, XLEN)
    BY <1>1, <1>2, RvBits
  <2> HIDE DEF r
  <2>2. RvMeans("ori", a, b, i, at, r)
    BY <1>1, <2>1 DEF RvMeans
  <2>3. QED BY <2>1, <2>2 DEF r
<1>6. integer_imm("andi", a, i) \in WordOf(XLEN) /\ RvMeans("andi", a, b, i, at, integer_imm("andi", a, i))
  <2> DEFINE r == integer_imm("andi", a, i)
  <2>1. r \in WordOf(XLEN) /\ BitsOf(r, XLEN) = BitsOf(e, XLEN) \cap BitsOf(a, XLEN)
    BY <1>1, <1>2, RvBits
  <2> HIDE DEF r
  <2>2. RvMeans("andi", a, b, i, at, r)
    BY <1>1, <2>1 DEF RvMeans
  <2>3. QED BY <2>1, <2>2 DEF r
<1>7. integer_reg("xor", a, b) \in WordOf(XLEN) /\ RvMeans("xor", a, b, 0, at, integer_reg("xor", a, b))
  <2> DEFINE r == integer_reg("xor", a, b)
  <2>1. r \in WordOf(XLEN) /\ BitsOf(r, XLEN) = (BitsOf(a, XLEN) \cup BitsOf(b, XLEN)) \ (BitsOf(a, XLEN) \cap BitsOf(b, XLEN))
    BY <1>1, <1>2, RvBits
  <2> HIDE DEF r
  <2>2. RvMeans("xor", a, b, 0, at, r)
    BY <1>1, <2>1 DEF RvMeans
  <2>3. QED BY <2>1, <2>2 DEF r
<1>8. integer_reg("or", a, b) \in WordOf(XLEN) /\ RvMeans("or", a, b, 0, at, integer_reg("or", a, b))
  <2> DEFINE r == integer_reg("or", a, b)
  <2>1. r \in WordOf(XLEN) /\ BitsOf(r, XLEN) = BitsOf(a, XLEN) \cup BitsOf(b, XLEN)
    BY <1>1, <1>2, RvBits
  <2> HIDE DEF r
  <2>2. RvMeans("or", a, b, 0, at, r)
    BY <1>1, <2>1 DEF RvMeans
  <2>3. QED BY <2>1, <2>2 DEF r
<1>9. integer_reg("and", a, b) \in WordOf(XLEN) /\ RvMeans("and", a, b, 0, at, integer_reg("and", a, b))
  <2> DEFINE r == integer_reg("and", a, b)
  <2>1. r \in WordOf(XLEN) /\ BitsOf(r, XLEN) = BitsOf(a, XLEN) \cap BitsOf(b, XLEN)
    BY <1>1, <1>2, RvBits
  <2> HIDE DEF r
  <2>2. RvMeans("and", a, b, 0, at, r)
    BY <1>1, <2>1 DEF RvMeans
  <2>3. QED BY <2>1, <2>2 DEF r
<1>10. QED BY <1>3, <1>4, <1>5, <1>6, <1>7, <1>8, <1>9 DEF Right

\* What a destination holds that is no word.
LEMMA NoWord == Asserts \notin WordOf(XLEN) /\ Poison \notin WordOf(XLEN) /\ Narrow \notin WordOf(XLEN)
BY DEF Asserts, Poison, Narrow, WordOf

\* The bit that says arithmetic makes an amount as large as the register.
LEMMA AmountTooLarge ==
  ASSUME NEW i \in Nat, (i & Arithmetic) # 0
  PROVE  XLEN =< i
<1> DEFINE n == ImmBits - 2
<1>1. n \in Nat /\ n + 1 \in Nat /\ XLEN =< 2^n /\ 2^n \in Nat /\ XLEN \in Nat
  <2>1. n \in Nat /\ ShBits + 1 \in Nat /\ ShBits + 1 =< n
    BY RvWidths
  <2> HIDE DEF n
  <2>2. 2^(ShBits + 1) =< 2^n /\ 2^n \in Nat
    BY <2>1, PowersGrow, Powers
  <2>3. QED BY <2>1, <2>2, RvWidths
<1>2. Arithmetic = 2^n
  BY <1>1 DEF Arithmetic
<1> HIDE DEF n
<1>3. SUFFICES ASSUME i < XLEN PROVE FALSE
  BY <1>1
<1> DEFINE A == 2^n
           x == i & A
<1>4. i \in WordOf(n)
  BY <1>1, <1>3 DEF WordOf
<1>5. A \in WordOf(n + 1) /\ i \in WordOf(n + 1) /\ A \in Nat /\ 0 \in WordOf(n + 1) /\ 0 \in WordOf(0)
  <2>1. 2^(n + 1) = 2 * 2^n /\ 2^n \in Nat \ {0} /\ 2^0 = 1
    BY <1>1, PowerSuccessor, Powers, PowerZero
  <2>2. QED BY <1>4, <2>1 DEF WordOf
<1> HIDE DEF A
<1>6. /\ x \in WordOf(n + 1)
      /\ \A p \in Nat : BitOf(x, p) = 1 <=> BitOf(i, p) = 1 /\ BitOf(A, p) = 1
  BY <1>1, <1>5, AndBits
<1>7. ASSUME NEW p \in 0 .. (n + 1) - 1 PROVE BitOf(x, p) = 1 <=> BitOf(0, p) = 1
  <2>1. p \in Nat /\ p =< n /\ 0 =< p /\ 0 \in Nat
    BY <1>1
  <2>2. BitOf(0, p) = 0
    BY <1>5, <2>1, BitsBeyond
  <2>3. CASE p = n
    <3>1. n =< p
      BY <1>1, <2>3
    <3>2. BitOf(i, p) = 0
      BY <1>1, <1>4, <2>1, <3>1, BitsBeyond
    <3>3. QED BY <1>6, <2>1, <2>2, <3>2
  <2>4. CASE p # n
    <3>1. BitOf(A, p) = 0
      BY <1>1, <2>1, <2>4, BitOfPower DEF A
    <3>2. QED BY <1>6, <2>1, <2>2, <3>1
  <2>5. QED BY <2>3, <2>4
<1>8. x = 0
  BY <1>1, <1>5, <1>6, <1>7, SameBits
<1>9. QED BY <1>2, <1>8 DEF A

\* A shift by k bits, less than a register has, moves the bits by k places.
LEMMA RvShiftsMean ==
  ASSUME NEW a \in WordOf(XLEN), NEW k \in 0 .. XLEN - 1
  PROVE  LET R == 0 .. XLEN - 1
             Signs == IF IntOf(a, XLEN) < 0 THEN XLEN - k .. XLEN - 1 ELSE {}
         IN  /\ LShr(a, k) \in WordOf(XLEN) /\ Shl(a, k, XLEN) \in WordOf(XLEN)
             /\ AShr(a, k, XLEN) \in WordOf(XLEN)
             /\ BitsOf(Shl(a, k, XLEN), XLEN) = {p + k : p \in BitsOf(a, XLEN)} \cap R
             /\ BitsOf(LShr(a, k), XLEN) = {p + (-k) : p \in BitsOf(a, XLEN)} \cap R
             /\ BitsOf(AShr(a, k, XLEN), XLEN) = ({p + (-k) : p \in BitsOf(a, XLEN)} \cap R) \cup Signs
<1>1. XLEN \in Nat \ {0} /\ k \in Nat
  BY RvWidths
<1>2. QED BY <1>1, ShiftsMade, ShiftedSets

\* The shifts by a register: those by less than the register's width.
LEMMA ShiftsRight ==
  ASSUME NEW a \in WordOf(XLEN), NEW b \in WordOf(XLEN), NEW at
  PROVE  /\ Right("sll", a, b, 0, at, integer_reg("sll", a, b))
         /\ Right("srl", a, b, 0, at, integer_reg("srl", a, b))
         /\ Right("sra", a, b, 0, at, integer_reg("sra", a, b))
<1> DEFINE k == b % XLEN
<1>1. k \in 0 .. XLEN - 1 /\ b \in Nat /\ XLEN \in Nat
  BY RvWidths, WordSize, Division
<1>2. /\ integer_reg("sll", a, b) = IF b < XLEN THEN Shl(a, k, XLEN) ELSE Poison
      /\ integer_reg("srl", a, b) = IF b < XLEN THEN LShr(a, k) ELSE Poison
      /\ integer_reg("sra", a, b) = IF b < XLEN THEN AShr(a, k, XLEN) ELSE Poison
  BY DEF integer_reg, Shift
<1>3. /\ Sound("sll", b, 0) <=> b < XLEN
      /\ Sound("srl", b, 0) <=> b < XLEN
      /\ Sound("sra", b, 0) <=> b < XLEN
  BY DEF Sound, UpOps
<1>4. CASE ~ (b < XLEN)
  BY <1>2, <1>3, <1>4, NoWord DEF Right
<1>5. CASE b < XLEN
  <2>1. integer_reg("sll", a, b) \in WordOf(XLEN) /\ RvMeans("sll", a, b, 0, at, integer_reg("sll", a, b))
    <3> DEFINE r == integer_reg("sll", a, b)
    <3>1. r = Shl(a, k, XLEN)
      BY <1>2, <1>5
    <3>2. k = b % XLEN
      OBVIOUS
    <3> HIDE DEF k, r
    <3>3. r \in WordOf(XLEN) /\ BitsOf(r, XLEN) = ({p + k : p \in BitsOf(a, XLEN)} \cap (0 .. XLEN - 1))
      BY <1>1, <3>1, RvShiftsMean
    <3>4. RvMeans("sll", a, b, 0, at, r)
      BY <3>2, <3>3 DEF RvMeans
    <3>5. QED BY <3>3, <3>4 DEF r
  <2>2. integer_reg("srl", a, b) \in WordOf(XLEN) /\ RvMeans("srl", a, b, 0, at, integer_reg("srl", a, b))
    <3> DEFINE r == integer_reg("srl", a, b)
    <3>1. r = LShr(a, k)
      BY <1>2, <1>5
    <3>2. k = b % XLEN
      OBVIOUS
    <3> HIDE DEF k, r
    <3>3. r \in WordOf(XLEN) /\ BitsOf(r, XLEN) = ({p + (-k) : p \in BitsOf(a, XLEN)} \cap (0 .. XLEN - 1))
      BY <1>1, <3>1, RvShiftsMean
    <3>4. RvMeans("srl", a, b, 0, at, r)
      BY <3>2, <3>3 DEF RvMeans
    <3>5. QED BY <3>3, <3>4 DEF r
  <2>3. integer_reg("sra", a, b) \in WordOf(XLEN) /\ RvMeans("sra", a, b, 0, at, integer_reg("sra", a, b))
    <3> DEFINE r == integer_reg("sra", a, b)
    <3>1. r = AShr(a, k, XLEN)
      BY <1>2, <1>5
    <3>2. k = b % XLEN
      OBVIOUS
    <3> HIDE DEF k, r
    <3>3. r \in WordOf(XLEN) /\ BitsOf(r, XLEN) = ({p + (-k) : p \in BitsOf(a, XLEN)} \cap (0 .. XLEN - 1)) \cup (IF IntOf(a, XLEN) < 0 THEN XLEN - k .. XLEN - 1 ELSE {})
      BY <1>1, <3>1, RvShiftsMean
    <3>4. RvMeans("sra", a, b, 0, at, r)
      BY <3>2, <3>3 DEF RvMeans
    <3>5. QED BY <3>3, <3>4 DEF r
  <2>4. QED BY <1>3, <1>5, <2>1, <2>2, <2>3 DEF Right
<1>6. QED BY <1>4, <1>5

\* The shifts by an immediate: those by less than half the register's width, and
\* no arithmetic one.
LEMMA ImmShiftsRight ==
  ASSUME NEW a \in WordOf(XLEN), NEW b, NEW at, NEW i \in WordOf(ImmBits)
  PROVE  /\ Right("slli", a, b, i, at, integer_imm("slli", a, i))
         /\ Right("srli", a, b, i, at, integer_imm("srli", a, i))
         /\ ImmOp("srai", i) => Right("srai", a, b, i, at, integer_imm("srai", a, i))
<1> DEFINE k == i % XLEN
<1>1. k \in 0 .. XLEN - 1 /\ i \in Nat /\ i \in Int /\ XLEN \in Nat
  <2>1. i \in Nat /\ XLEN \in Nat \ {0}
    BY RvWidths, WordSize
  <2>2. QED BY <2>1, Division
<1>2. /\ integer_imm("slli", a, i) =
           IF i \div 2^ShBits = 0 THEN IF i < XLEN THEN Shl(a, k, XLEN) ELSE Poison ELSE Asserts
      /\ integer_imm("srli", a, i) =
           IF i \div 2^ShBits = 0 THEN IF i < XLEN THEN LShr(a, k) ELSE Poison ELSE Asserts
      /\ integer_imm("srai", a, i) \in
           IF i < XLEN THEN {AShr(a, k, XLEN), Asserts} ELSE {Poison, Asserts}
  BY DEF integer_imm, Shift, funct7
<1>3. /\ Sound("slli", b, i) <=> i < HalfBits
      /\ Sound("srli", b, i) <=> i < HalfBits
      /\ ~ Sound("srai", b, i)
  BY DEF Sound, UpOps
<1>4. i \div 2^ShBits = 0 <=> i < HalfBits
  <2> DEFINE H == HalfBits
             q == i \div H
  <2>1. H \in Nat \ {0} /\ 2^ShBits = H
    BY RvWidths
  <2> HIDE DEF H
  <2>2. i % H \in 0 .. H - 1 /\ q \in Int /\ i = q * H + (i % H)
    BY <1>1, <2>1, DivisionInt
  <2>3. i < H => q = 0
    <3>1. ASSUME i < H PROVE q = 0
      <4>1. 0 =< i /\ i = 0 * H + i
        BY <1>1, <2>1
      <4>2. QED BY <1>1, <2>1, <3>1, <4>1, QuotientOf
    <3>2. QED BY <3>1
  <2>4. q = 0 => i < H
    <3> HIDE DEF q
    <3>1. ASSUME q = 0 PROVE i < H
      <4>1. q * H = 0
        BY <2>1, <3>1
      <4>2. QED BY <2>1, <2>2, <4>1
    <3>2. QED BY <3>1
  <2>5. QED BY <2>1, <2>3, <2>4 DEF H
<1>5. ImmOp("srai", i) => Right("srai", a, b, i, at, integer_imm("srai", a, i))
  <2>1. ASSUME ImmOp("srai", i) PROVE integer_imm("srai", a, i) \notin WordOf(XLEN)
    <3>1. (i & Arithmetic) # 0
      BY <2>1 DEF ImmOp
    <3>2. ~ (i < XLEN)
      BY <1>1, <3>1, AmountTooLarge
    <3>3. QED BY <1>2, <3>2, NoWord
  <2>2. QED BY <1>3, <2>1 DEF Right
<1>6. CASE ~ (i < HalfBits)
  BY <1>2, <1>3, <1>4, <1>5, <1>6, NoWord DEF Right
<1>7. CASE i < HalfBits
  <2>0. i < XLEN
    BY <1>1, <1>7, RvWidths
  <2>1. integer_imm("slli", a, i) \in WordOf(XLEN) /\ RvMeans("slli", a, b, i, at, integer_imm("slli", a, i))
    <3> DEFINE r == integer_imm("slli", a, i)
    <3>1. r = Shl(a, k, XLEN)
      BY <1>2, <1>4, <1>7, <2>0
    <3>2. k = i % XLEN
      OBVIOUS
    <3> HIDE DEF k, r
    <3>3. r \in WordOf(XLEN) /\ BitsOf(r, XLEN) = ({p + k : p \in BitsOf(a, XLEN)} \cap (0 .. XLEN - 1))
      BY <1>1, <3>1, RvShiftsMean
    <3>4. RvMeans("slli", a, b, i, at, r)
      BY <3>2, <3>3 DEF RvMeans
    <3>5. QED BY <3>3, <3>4 DEF r
  <2>2. integer_imm("srli", a, i) \in WordOf(XLEN) /\ RvMeans("srli", a, b, i, at, integer_imm("srli", a, i))
    <3> DEFINE r == integer_imm("srli", a, i)
    <3>1. r = LShr(a, k)
      BY <1>2, <1>4, <1>7, <2>0
    <3>2. k = i % XLEN
      OBVIOUS
    <3> HIDE DEF k, r
    <3>3. r \in WordOf(XLEN) /\ BitsOf(r, XLEN) = ({p + (-k) : p \in BitsOf(a, XLEN)} \cap (0 .. XLEN - 1))
      BY <1>1, <3>1, RvShiftsMean
    <3>4. RvMeans("srli", a, b, i, at, r)
      BY <3>2, <3>3 DEF RvMeans
    <3>5. QED BY <3>3, <3>4 DEF r
  <2>3. QED BY <1>3, <1>5, <1>7, <2>1, <2>2 DEF Right
<1>8. QED BY <1>6, <1>7

\* A comparison leaves one bit.
LEMMA ComparisonsRight ==
  ASSUME NEW a, NEW b, NEW at, NEW i
  PROVE  /\ Right("slti", a, b, i, at, integer_imm("slti", a, i))
         /\ Right("sltiu", a, b, i, at, integer_imm("sltiu", a, i))
         /\ Right("slt", a, b, i, at, integer_reg("slt", a, b))
         /\ Right("sltu", a, b, i, at, integer_reg("sltu", a, b))
<1>1. /\ integer_imm("slti", a, i) = Narrow /\ integer_imm("sltiu", a, i) = Narrow
      /\ integer_reg("slt", a, b) = Narrow /\ integer_reg("sltu", a, b) = Narrow
  BY DEF integer_imm, integer_reg
<1>2. /\ ~ Sound("slti", b, i) /\ ~ Sound("sltiu", b, i)
      /\ ~ Sound("slt", b, i) /\ ~ Sound("sltu", b, i)
  BY DEF Sound
<1>3. QED BY <1>1, <1>2, NoWord DEF Right

\* The powers of two that separate an immediate from its extension.
LEMMA Halves ==
  /\ 2^HalfBits \in Nat \ {0} /\ 2^HalfBits < 2^XLEN /\ 2^XLEN \in Nat \ {0}
  /\ 2^ImmBits \in Nat \ {0} /\ 2^ImmBits < 2^HalfBits
  /\ 2^UpBits \in Nat /\ 2^UpBits * 2^ImmBits = 2^HalfBits
<1>1. ASSUME NEW m \in Nat, NEW n \in Nat, m < n
      PROVE  2^m \in Nat \ {0} /\ 2^m < 2^n /\ 2^n \in Nat
  <2>1. m + 1 \in Nat /\ m + 1 =< n
    BY <1>1
  <2>2. 2^(m + 1) =< 2^n /\ 2^(m + 1) = 2 * 2^m /\ 2^m \in Nat \ {0} /\ 2^n \in Nat
    BY <2>1, PowersGrow, PowerSuccessor, Powers
  <2>3. QED BY <2>2
<1>2. /\ HalfBits \in Nat /\ XLEN \in Nat /\ ImmBits \in Nat /\ UpBits \in Nat
      /\ HalfBits < XLEN /\ ImmBits < HalfBits /\ UpBits + ImmBits = HalfBits
  BY RvWidths
<1>3. 2^(UpBits + ImmBits) = 2^UpBits * 2^ImmBits /\ 2^UpBits \in Nat
  BY <1>2, Powers
<1>4. 2^XLEN \in Nat \ {0}
  BY <1>2, Powers
<1>5. QED BY <1>1, <1>2, <1>3, <1>4

\* The immediates of the upper part, whose sign is not extended.
LEMMA UpperRight ==
  ASSUME NEW a, NEW b, NEW at \in WordOf(XLEN), NEW i \in WordOf(UpBits), NEW op \in UpOps
  PROVE  Right(op, a, b, i, at, load_imm(op, i, at))
<1> DEFINE M == 2^XLEN
           N == 2^ImmBits
           c == IF op = "auipc" THEN at ELSE 0
           x == i * N
           r == load_imm(op, i, at)
           I == IntOf(i, UpBits)
<1>1. /\ i \in Nat /\ at \in Nat /\ M \in Nat \ {0} /\ N \in Nat \ {0} /\ N < 2^HalfBits
      /\ 2^HalfBits \in Nat \ {0} /\ 2^HalfBits < M /\ 2^UpBits \in Nat /\ 2^UpBits * N = 2^HalfBits
  <2>1. i \in Nat /\ at \in Nat
    BY RvWidths, WordSize
  <2>2. QED BY <2>1, Halves
<1>2. c \in Int /\ x \in Int
  BY <1>1
<1>3. r = Add(x % M, c, XLEN)
  BY DEF load_imm, Shl
<1>4. I = (IF i < 2^(UpBits - 1) THEN i ELSE i - 2^UpBits) /\ 2^(UpBits - 1) \in Nat
  <2>1. UpBits - 1 \in Nat
    BY RvWidths
  <2>2. QED BY <2>1, Powers DEF IntOf
<1>5. Sound(op, b, i) <=> i < 2^(UpBits - 1)
  BY DEF Sound, UpOps
<1>6. RvMeans(op, a, b, i, at, r) <=> ((c + I * N) - r) % M = 0
  <2>1. op = "lui" \/ op = "auipc"
    BY DEF UpOps
  <2>2. I * N \in Int
    BY <1>1, <1>4
  <2> HIDE DEF r
  <2>3. CASE op = "lui"
    <3>1. c + I * N = I * N
      BY <2>2, <2>3
    <3>2. QED BY <2>3, <3>1 DEF RvMeans
  <2>4. CASE op = "auipc"
    BY <2>4 DEF RvMeans
  <2>5. QED BY <2>1, <2>3, <2>4
<1> HIDE DEF M, N, c, x, I
<1>7. r \in WordOf(XLEN) /\ ((x + c) - r) % M = 0 /\ r \in Int
  <2>1. x % M \in Int
    BY <1>1, <1>2, DivisionInt
  <2>2. r \in WordOf(XLEN) /\ ((x + c) - r) % M = 0
    BY <1>2, <1>3, <2>1, Sums DEF M
  <2>3. QED BY <2>2, RvWidths, WordSize
<1> HIDE DEF r
<1>8. CASE i < 2^(UpBits - 1)
  <2>1. I * N = x
    BY <1>4, <1>8 DEF x
  <2>2. c + I * N = x + c
    BY <1>2, <2>1
  <2>3. QED BY <1>5, <1>6, <1>7, <1>8, <2>2 DEF Right, r
<1>9. CASE ~ (i < 2^(UpBits - 1))
  <2>1. I * N = x - 2^HalfBits
    <3>1. (i - 2^UpBits) * N = i * N - 2^UpBits * N
      BY <1>1
    <3>2. QED BY <1>1, <1>4, <1>9, <3>1 DEF x
  <2> DEFINE u == (x + c) - r
             v == (c + I * N) - r
  <2>2. u \in Int /\ v \in Int /\ u - v = 2^HalfBits /\ v - u = -(2^HalfBits)
    BY <1>1, <1>2, <1>7, <2>1
  <2> HIDE DEF u, v
  <2>3. u # v /\ u - v < M /\ v - u < M
    BY <1>1, <2>2
  <2>4. u % M # v % M
    BY <1>1, <2>2, <2>3, NotCongruent
  <2>5. v % M # 0
    BY <1>7, <2>4 DEF u
  <2>6. QED BY <1>5, <1>6, <1>9, <2>5 DEF Right, r, v
<1>10. QED BY <1>8, <1>9

\* The addition of words, whose immediate's sign is not extended.
LEMMA AddiwRight ==
  ASSUME NEW a \in WordOf(XLEN), NEW b, NEW at, NEW i \in WordOf(ImmBits)
  PROVE  Right("addiw", a, b, i, at, addiw(a, i))
<1> DEFINE M == 2^XLEN
           H == 2^HalfBits
           N == 2^ImmBits
           I == IntOf(i, ImmBits)
           w == (a + I) % H
           y == (i + (a % H)) % H
           r == addiw(a, i)
<1>1. /\ M \in Nat \ {0} /\ H \in Nat \ {0} /\ N \in Nat \ {0} /\ H < M /\ N < H
      /\ HalfBits \in Nat \ {0} /\ HalfBits \in Nat /\ a \in Nat /\ i \in Nat /\ i < N
  <2>1. HalfBits \in Nat \ {0} /\ HalfBits \in Nat /\ a \in Nat /\ i \in Nat /\ i < N
    BY RvWidths, WordSize
  <2>2. QED BY <2>1, Halves
<1>2. I = (IF i < 2^(ImmBits - 1) THEN i ELSE i - N) /\ 2^(ImmBits - 1) \in Nat /\ I \in Int
  <2>1. ImmBits - 1 \in Nat
    BY RvWidths
  <2>2. QED BY <1>1, <2>1, Powers DEF IntOf
<1>3. Sound("addiw", b, i) <=> i < 2^(ImmBits - 1)
  BY DEF Sound, UpOps
<1>4. r = IntOf(y, HalfBits) % M
  BY DEF addiw, SExt, Add, Trunc
<1>5. RvMeans("addiw", a, b, i, at, r) <=> (IntOf(w, HalfBits) - r) % M = 0
  BY DEF RvMeans
<1>6. w \in WordOf(HalfBits) /\ y \in WordOf(HalfBits)
  <2>1. a + I \in Int /\ i + (a % H) \in Int
    BY <1>1, <1>2, DivisionInt
  <2>2. QED BY <1>1, <2>1, RemainderIsWord
<1>7. /\ IntOf(w, HalfBits) \in Int /\ IntOf(y, HalfBits) \in Int
      /\ IntOf(w, HalfBits) = w \/ IntOf(w, HalfBits) = w - H
      /\ IntOf(y, HalfBits) = y \/ IntOf(y, HalfBits) = y - H
  <2>1. IntOf(w, HalfBits) \in Int /\ IntOf(y, HalfBits) \in Int
    BY <1>1, <1>6, IntOfWord
  <2>2. QED BY <2>1 DEF IntOf
<1>8. IntOf(w, HalfBits) % H = w /\ IntOf(y, HalfBits) % H = y
  BY <1>1, <1>6, BitOfInt
<1>9. /\ IntOf(w, HalfBits) - IntOf(y, HalfBits) < M
      /\ IntOf(y, HalfBits) - IntOf(w, HalfBits) < M
  <2>1. H = 2 * 2^(HalfBits - 1) /\ 2^(HalfBits - 1) \in Nat
        /\ IntOf(w, HalfBits) \in -(2^(HalfBits - 1)) .. 2^(HalfBits - 1) - 1
        /\ IntOf(y, HalfBits) \in -(2^(HalfBits - 1)) .. 2^(HalfBits - 1) - 1
    BY <1>1, <1>6, BitOfInt
  <2> HIDE DEF M, H, w, y
  <2>2. QED BY <1>1, <2>1
<1>10. y = (a + i) % H
  <2>1. PICK q \in Int : a % H = a - q * H
    <3>1. a \in Int /\ HalfBits \in Nat
      BY <1>1
    <3>2. \E q \in Int : a % 2^HalfBits = a - q * 2^HalfBits
      BY <3>1, Truncated, Zenon
    <3>3. QED BY <3>2
  <2> HIDE DEF H
  <2>2. i + (a % H) = (a + i) + (-q) * H /\ -q \in Int /\ a + i \in Int
    BY <1>1, <2>1
  <2>3. ((a + i) + (-q) * H) % H = (a + i) % H
    BY <1>1, <2>2, MultipleAdded
  <2>4. QED BY <2>2, <2>3
<1> DEFINE s == IntOf(w, HalfBits)
           t == IntOf(y, HalfBits)
<1> HIDE DEF M, H, N, I, w, y, s, t
<1>11. r \in WordOf(XLEN) /\ (t - r) % M = 0 /\ r \in Int
  <2>1. r \in WordOf(XLEN) /\ (t - r) % M = 0
    BY <1>4, <1>7, Sums DEF M, t
  <2>2. QED BY <2>1, RvWidths, WordSize
<1> HIDE DEF r
<1>12. CASE i < 2^(ImmBits - 1)
  <2>1. w = y
    BY <1>2, <1>10, <1>12 DEF w
  <2>2. QED BY <1>3, <1>5, <1>11, <1>12, <2>1 DEF Right, t, r
<1>13. CASE ~ (i < 2^(ImmBits - 1))
  <2> DEFINE u == a + I
             v == a + i
  <2>1. u \in Int /\ v \in Int /\ u # v /\ u - v < H /\ v - u < H
    BY <1>1, <1>2, <1>13
  <2> HIDE DEF u, v
  <2>2. u % H # v % H
    BY <1>1, <2>1, NotCongruent
  <2>3. w # y
    BY <1>10, <2>2 DEF w, u, v
  <2>4. s # t
    BY <1>8, <2>3 DEF s, t
  <2> DEFINE d == s - r
             e == t - r
  <2>5. d \in Int /\ e \in Int /\ d # e /\ d - e < M /\ e - d < M
    <3>1. s \in Int /\ t \in Int /\ s - t < M /\ t - s < M
      BY <1>7, <1>9 DEF s, t
    <3>2. QED BY <1>1, <1>11, <2>4, <3>1
  <2> HIDE DEF d, e
  <2>6. d % M # e % M
    BY <1>1, <2>5, NotCongruent
  <2>7. d % M # 0
    BY <1>11, <2>6 DEF e
  <2>8. QED BY <1>3, <1>5, <1>13, <2>7 DEF Right, d, s, r
<1>14. QED BY <1>12, <1>13

-----------------------------------------------------------------------------
(* Where control goes.                                                     *)

\* The emitted condition is the one the mnemonic means.
LEMMA BranchesLead ==
  ASSUME NEW a \in WordOf(XLEN), NEW b \in WordOf(XLEN), NEW at \in WordOf(XLEN),
         NEW op \in BranchOps, NEW i \in WordOf(ImmBits + 1)
  PROVE  Leads(op, a, b, IntOf(i, ImmBits + 1), at,
               IF taken(op, a, b) THEN next_pc(at, i, ImmBits + 1) ELSE Add(at, 4, XLEN))
<1> DEFINE n == ImmBits + 1
           offset == IntOf(i, n)
           to == IF taken(op, a, b) THEN next_pc(at, i, n) ELSE Add(at, 4, XLEN)
<1>1. n \in Nat \ {0} /\ n =< XLEN /\ XLEN \in Nat \ {0}
  BY RvWidths
<1>2. offset \in Int /\ SExt(i, n, XLEN) = offset % 2^XLEN
  BY <1>1, Immediates
<1>3. a \in Nat /\ b \in Nat /\ at \in Int /\ 4 \in Int
      /\ IntOf(a, XLEN) \in Int /\ IntOf(b, XLEN) \in Int
  BY <1>1, WordSize, IntOfWord
<1>4. next_pc(at, i, n) = Add(at, offset % 2^XLEN, XLEN)
  BY <1>2 DEF next_pc
<1> HIDE DEF n, offset
<1>5. /\ ((at + offset) - Add(at, offset % 2^XLEN, XLEN)) % 2^XLEN = 0
      /\ ((at + 4) - Add(at, 4, XLEN)) % 2^XLEN = 0
  <2>1. ((offset + at) - Add(at, offset % 2^XLEN, XLEN)) % 2^XLEN = 0
    BY <1>2, <1>3, Sums
  <2>2. offset + at = at + offset
    BY <1>2, <1>3
  <2>3. ((at + 4) - Add(at, 4, XLEN)) % 2^XLEN = 0
    BY <1>3, Sums
  <2>4. QED BY <2>1, <2>2, <2>3
<1>6. taken(op, a, b) <=>
        /\ op = "beq"  => a = b
        /\ op = "bne"  => a # b
        /\ op = "blt"  => IntOf(a, XLEN) < IntOf(b, XLEN)
        /\ op = "bge"  => IntOf(a, XLEN) >= IntOf(b, XLEN)
        /\ op = "bltu" => a < b
        /\ op = "bgeu" => a >= b
  <2> DEFINE x == IntOf(a, XLEN)
             y == IntOf(b, XLEN)
  <2>1. taken(op, a, b) <=> \/ op = "beq"  /\ a = b
                            \/ op = "bne"  /\ a # b
                            \/ op = "blt"  /\ y > x
                            \/ op = "bge"  /\ ~ (y > x)
                            \/ op = "bltu" /\ b > a
                            \/ op = "bgeu" /\ ~ (b > a)
    BY DEF taken, SGT, UGT
  <2>2. x \in Int /\ y \in Int
    BY <1>3
  <2> HIDE DEF x, y
  <2>3. (y > x <=> x < y) /\ (~ (y > x) <=> x >= y) /\ (b > a <=> a < b) /\ (~ (b > a) <=> a >= b)
    BY <1>3, <2>2
  <2>4. QED BY <2>1, <2>3 DEF BranchOps, x, y
<1>7. op # "jalr"
  BY DEF BranchOps
<1>8. CASE taken(op, a, b)
  <2>1. to = Add(at, offset % 2^XLEN, XLEN)
    BY <1>4, <1>8
  <2> HIDE DEF to
  <2>2. Leads(op, a, b, offset, at, to)
    BY <1>5, <1>6, <1>7, <1>8, <2>1 DEF Leads
  <2>3. QED BY <2>2 DEF to, offset, n
<1>9. CASE ~ taken(op, a, b)
  <2>1. to = Add(at, 4, XLEN)
    BY <1>9
  <2> HIDE DEF to
  <2>2. Leads(op, a, b, offset, at, to)
    BY <1>5, <1>6, <1>7, <1>9, <2>1 DEF Leads
  <2>3. QED BY <2>2 DEF to, offset, n
<1>10. QED BY <1>8, <1>9

\* A jump leads to where its offset says.
LEMMA JalLeads ==
  ASSUME NEW a, NEW b, NEW at \in WordOf(XLEN), NEW i \in WordOf(UpBits + 1)
  PROVE  Leads("jal", a, b, IntOf(i, UpBits + 1), at, next_pc(at, i, UpBits + 1))
<1> DEFINE n == UpBits + 1
           offset == IntOf(i, n)
           to == next_pc(at, i, n)
<1>1. n \in Nat \ {0} /\ n =< XLEN /\ XLEN \in Nat \ {0}
  BY RvWidths
<1>2. offset \in Int /\ SExt(i, n, XLEN) = offset % 2^XLEN
  BY <1>1, Immediates
<1>3. at \in Int
  BY <1>1, WordSize
<1>4. to = Add(at, offset % 2^XLEN, XLEN)
  BY <1>2 DEF next_pc
<1> HIDE DEF n, offset
<1>5. ((at + offset) - to) % 2^XLEN = 0
  <2>1. ((offset + at) - to) % 2^XLEN = 0
    BY <1>2, <1>3, <1>4, Sums
  <2>2. offset + at = at + offset
    BY <1>2, <1>3
  <2>3. QED BY <2>1, <2>2
<1> HIDE DEF to
<1>6. Leads("jal", a, b, offset, at, to)
  BY <1>5 DEF Leads
<1>7. QED BY <1>6 DEF to, offset, n

\* A jump through a register does if the address is even.
LEMMA JalrLeads ==
  ASSUME NEW a \in WordOf(XLEN), NEW b, NEW at, NEW i \in WordOf(ImmBits)
  PROVE  Leads("jalr", a, b, IntOf(i, ImmBits), at, next_pc(a, i, ImmBits))
           <=> (a + IntOf(i, ImmBits)) % 2 = 0
<1> DEFINE M == 2^XLEN
           offset == IntOf(i, ImmBits)
           to == next_pc(a, i, ImmBits)
           d == a + offset
           even == 2 * (d \div 2)
<1>1. ImmBits \in Nat \ {0} /\ ImmBits =< XLEN /\ M \in Nat /\ 1 < M
  BY RvWidths
<1>2. offset \in Int /\ SExt(i, ImmBits, XLEN) = offset % M
  BY <1>1, Immediates
<1>3. a \in Int
  BY RvWidths, WordSize
<1>4. to = Add(a, offset % M, XLEN)
  BY <1>2 DEF next_pc
<1> HIDE DEF offset
<1>5. ((offset + a) - to) % M = 0 /\ to \in WordOf(XLEN)
  <2>1. ((offset + a) - to) % M = 0
    BY <1>2, <1>3, <1>4, Sums
  <2>2. offset % M \in Int
    BY <1>1, <1>2, DivisionInt
  <2>3. to \in WordOf(XLEN)
    BY <1>3, <1>4, <2>2, Sums
  <2>4. QED BY <2>1, <2>3
<1>6. to \in Int
  BY <1>5, RvWidths, WordSize
<1> HIDE DEF to, M
<1>7. Leads("jalr", a, b, offset, at, to) <=> (even - to) % M = 0
  BY DEF Leads, M
<1>8. d \in Int /\ offset + a = d
  BY <1>2, <1>3
<1> HIDE DEF d
<1>9. even \in Int /\ (d % 2 = 0 => even = d) /\ (d % 2 # 0 => even = d - 1)
  <2>1. 2 \in Nat \ {0}
    OBVIOUS
  <2>2. d % 2 \in 0 .. 1 /\ d \div 2 \in Int /\ d = (d \div 2) * 2 + (d % 2)
    BY <1>8, <2>1, DivisionInt
  <2>3. QED BY <1>8, <2>2
<1> HIDE DEF even
<1>10. CASE d % 2 = 0
  BY <1>5, <1>7, <1>8, <1>9, <1>10 DEF to, offset, d
<1>11. CASE d % 2 # 0
  <2> DEFINE u == d - to
             v == even - to
  <2>1. u \in Int /\ v \in Int /\ u # v /\ u - v < M /\ v - u < M
    BY <1>1, <1>6, <1>8, <1>9, <1>11
  <2> HIDE DEF u, v
  <2>2. M \in Nat \ {0}
    BY <1>1
  <2>3. u % M # v % M
    BY <2>1, <2>2, NotCongruent
  <2>4. v % M # 0
    BY <1>5, <1>8, <2>3 DEF u
  <2>5. QED BY <1>7, <1>11, <2>4 DEF v, to, offset, d
<1>12. QED BY <1>10, <1>11

-----------------------------------------------------------------------------
(* The properties.                                                         *)

\* Every operation leaves what it means exactly for the operands that are sound.
LEMMA InvSound == RvIInv => SoundExactly
<1> SUFFICES ASSUME RvIInv, rd # None
             PROVE  Right(insn.op, rs1, rs2, insn.i, pc, rd)
  BY DEF SoundExactly, Right
<1>1. rs1 \in WordOf(XLEN) /\ rs2 \in WordOf(XLEN) /\ pc \in WordOf(XLEN) /\ Ran
  BY DEF RvIInv
<1>2. ASSUME NEW op \in RvImmOps, NEW i \in WordOf(ImmBits), ImmOp(op, i),
             insn = [op |-> op, i |-> i], rd = integer_imm(op, rs1, i)
      PROVE  Right(insn.op, rs1, rs2, insn.i, pc, rd)
  <2>1. Right(op, rs1, rs2, i, pc, integer_imm(op, rs1, i))
    <3>1. CASE op = "addi"
      BY <1>1, <3>1, SumsRight
    <3>2. CASE op \in {"xori", "ori", "andi"}
      BY <1>1, <3>2, BitsRight
    <3>3. CASE op \in {"slli", "srli", "srai"}
      BY <1>1, <1>2, <3>3, ImmShiftsRight
    <3>4. CASE op \in {"slti", "sltiu"}
      BY <3>4, ComparisonsRight
    <3>5. QED BY <3>1, <3>2, <3>3, <3>4 DEF RvImmOps
  <2>2. insn.op = op /\ insn.i = i
    BY <1>2
  <2>3. QED BY <1>2, <2>1, <2>2
<1>3. ASSUME NEW op \in RvRegOps, insn = [op |-> op, i |-> 0], rd = integer_reg(op, rs1, rs2)
      PROVE  Right(insn.op, rs1, rs2, insn.i, pc, rd)
  <2>1. Right(op, rs1, rs2, 0, pc, integer_reg(op, rs1, rs2))
    <3>1. CASE op \in {"add", "sub"}
      <4>1. 0 \in WordOf(ImmBits)
        BY RvWidths, WordSize DEF WordOf
      <4>2. QED BY <1>1, <3>1, <4>1, SumsRight
    <3>2. CASE op \in {"xor", "or", "and"}
      <4>1. 0 \in WordOf(ImmBits)
        BY RvWidths, WordSize DEF WordOf
      <4>2. QED BY <1>1, <3>2, <4>1, BitsRight
    <3>3. CASE op \in {"sll", "srl", "sra"}
      BY <1>1, <3>3, ShiftsRight
    <3>4. CASE op \in {"slt", "sltu"}
      BY <3>4, ComparisonsRight
    <3>5. QED BY <3>1, <3>2, <3>3, <3>4 DEF RvRegOps
  <2>2. insn.op = op /\ insn.i = 0
    BY <1>3
  <2>3. QED BY <1>3, <2>1, <2>2
<1>4. ASSUME NEW op \in UpOps, NEW i \in WordOf(UpBits),
             insn = [op |-> op, i |-> i], rd = load_imm(op, i, pc)
      PROVE  Right(insn.op, rs1, rs2, insn.i, pc, rd)
  <2>1. Right(op, rs1, rs2, i, pc, load_imm(op, i, pc))
    BY <1>1, UpperRight
  <2>2. insn.op = op /\ insn.i = i
    BY <1>4
  <2>3. QED BY <1>4, <2>1, <2>2
<1>5. ASSUME NEW i \in WordOf(ImmBits), insn = [op |-> "addiw", i |-> i], rd = addiw(rs1, i)
      PROVE  Right(insn.op, rs1, rs2, insn.i, pc, rd)
  <2>1. Right("addiw", rs1, rs2, i, pc, addiw(rs1, i))
    BY <1>1, AddiwRight
  <2>2. insn.op = "addiw" /\ insn.i = i
    BY <1>5
  <2>3. QED BY <1>5, <2>1, <2>2
<1>6. ASSUME NEW op \in {"jal", "jalr"}, NEW i, insn = [op |-> op, i |-> i],
             rd = Add(pc, 4, XLEN)
      PROVE  Right(insn.op, rs1, rs2, insn.i, pc, rd)
  <2>1. 0 \in WordOf(ImmBits)
    BY RvWidths, WordSize DEF WordOf
  <2>2. Right(op, rs1, rs2, i, pc, Add(pc, 4, XLEN))
    BY <1>1, <2>1, SumsRight
  <2>3. insn.op = op /\ insn.i = i
    BY <1>6
  <2>4. QED BY <1>6, <2>2, <2>3
<1>7. QED BY <1>1, <1>2, <1>3, <1>4, <1>5, <1>6 DEF Ran

\* Branches and jumps lead where they say.
LEMMA InvLeads == RvIInv => LeadsThere
<1> SUFFICES ASSUME RvIInv, pnext_pc # None
             PROVE  LeadsThere
  BY DEF LeadsThere
<1>1. rs1 \in WordOf(XLEN) /\ rs2 \in WordOf(XLEN) /\ pc \in WordOf(XLEN) /\ Ran
  BY DEF RvIInv
<1>2. ASSUME NEW op \in BranchOps, NEW i \in WordOf(ImmBits + 1), insn = [op |-> op, i |-> i],
             pnext_pc = IF taken(op, rs1, rs2) THEN next_pc(pc, i, ImmBits + 1)
                        ELSE Add(pc, 4, XLEN)
      PROVE  LeadsThere
  <2>1. insn.op = op /\ insn.i = i /\ op # "jalr" /\ op # "jal"
    BY <1>2 DEF BranchOps
  <2>2. Leads(op, rs1, rs2, IntOf(i, ImmBits + 1), pc, pnext_pc)
    BY <1>1, <1>2, BranchesLead
  <2>3. QED BY <2>1, <2>2 DEF LeadsThere, BranchOps
<1>3. ASSUME NEW i \in WordOf(ImmBits), insn = [op |-> "jalr", i |-> i],
             pnext_pc = next_pc(rs1, i, ImmBits)
      PROVE  LeadsThere
  <2>1. insn.op = "jalr" /\ insn.i = i
    BY <1>3
  <2>2. Leads("jalr", rs1, rs2, IntOf(i, ImmBits), pc, pnext_pc)
          <=> (rs1 + IntOf(i, ImmBits)) % 2 = 0
    BY <1>1, <1>3, JalrLeads
  <2>3. QED BY <2>1, <2>2 DEF LeadsThere, BranchOps
<1>4. ASSUME NEW i \in WordOf(UpBits + 1), insn = [op |-> "jal", i |-> i],
             pnext_pc = next_pc(pc, i, UpBits + 1)
      PROVE  LeadsThere
  <2>1. insn.op = "jal" /\ insn.i = i
    BY <1>4
  <2>2. Leads("jal", rs1, rs2, IntOf(i, UpBits + 1), pc, pnext_pc)
    BY <1>1, <1>4, JalLeads
  <2>3. QED BY <2>1, <2>2 DEF LeadsThere, BranchOps
<1>5. QED BY <1>1, <1>2, <1>3, <1>4 DEF Ran

\* For every width of the registers and every operand, the code riscv_vm emits
\* computes what RV64I means by the mnemonic exactly for the operands Sound
\* says (disas_insn_integer_imm, _integer_reg, _load_imm, _64bit_integer).
THEOREM ComputesExactly == RvSpec => []SoundExactly
BY RvInvariance, InvSound, PTL

\* For every width, address and offset a branch or a jump leads where its
\* condition and its offset say, but for jalr to an odd address
\* (disas_insn_cond_branch, disas_insn_jump).
THEOREM JumpsLead == RvSpec => []LeadsThere
BY RvInvariance, InvLeads, PTL
=============================================================================
