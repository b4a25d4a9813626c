----------------------------- MODULE RiscvArith -----------------------------
(***************************************************************************)
(* What the RV64I mnemonics beside riscv_vm's translation stand for, as    *)
(* integers and sets of bits, for a register of XLEN bits, half of it a    *)
(* word, and immediates of ImmBits.                                        *)
(***************************************************************************)
EXTENDS Words, RiscvWidth

\* r is the value of register rd after op on rs1 = a and rs2 = b, or on a and
\* the immediate i, at address pc.
RvMeans(op, a, b, i, pc, r) ==
  LET x == IntOf(a, XLEN)
      y == IntOf(b, XLEN)
      I == IntOf(i, ImmBits)
      Ib == BitsOf(I % 2^XLEN, XLEN)
      k == IF op \in {"slli", "srli", "srai"} THEN i % XLEN ELSE b % XLEN
      A == BitsOf(a, XLEN)
      B == BitsOf(b, XLEN)
      R == BitsOf(r, XLEN)
      Shifted(n) == {p + n : p \in A} \cap (0 .. XLEN - 1)
      Signs == IF x < 0 THEN XLEN - k .. XLEN - 1 ELSE {}
      Cong(v) == (v - r) % 2^XLEN = 0
      Xor(S, T) == (S \cup T) \ (S \cap T)
      OneIf(c) == r = IF c THEN 1 ELSE 0
  IN  /\ op = "addi"  => Cong(a + I)
      /\ op = "add"   => Cong(a + b)
      /\ op = "sub"   => Cong(a - b)
      /\ op = "xori"  => R = Xor(A, Ib)
      /\ op = "ori"   => R = A \cup Ib
      /\ op = "andi"  => R = A \cap Ib
      /\ op = "xor"   => R = Xor(A, B)
      /\ op = "or"    => R = A \cup B
      /\ op = "and"   => R = A \cap B
      /\ op \in {"slli", "sll"} => R = Shifted(k)
      /\ op \in {"srli", "srl"} => R = Shifted(-k)
      /\ op \in {"srai", "sra"} => R = Shifted(-k) \cup Signs
      /\ op = "slti"  => OneIf(x < I)
      /\ op = "sltiu" => OneIf(a < I % 2^XLEN)
      /\ op = "slt"   => OneIf(x < y)
      /\ op = "sltu"  => OneIf(a < b)
      /\ op = "lui"   => Cong(IntOf(i, UpBits) * 2^ImmBits)
      /\ op = "auipc" => Cong(pc + IntOf(i, UpBits) * 2^ImmBits)
      /\ op = "addiw" => Cong(IntOf((a + I) % 2^HalfBits, HalfBits))
      /\ op \in {"jal", "jalr"} => Cong(pc + 4)

\* Where control goes after a jump or a branch at pc; i is its signed offset.
Leads(op, a, b, i, pc, to) ==
  LET x == IntOf(a, XLEN)
      y == IntOf(b, XLEN)
      Holds == /\ op = "beq"  => a = b
               /\ op = "bne"  => a # b
               /\ op = "blt"  => x < y
               /\ op = "bge"  => x >= y
               /\ op = "bltu" => a < b
               /\ op = "bgeu" => a >= b
      Cong(v) == (v - to) % 2^XLEN = 0
  IN  IF op = "jalr" THEN Cong(2 * ((a + i) \div 2))
      ELSE Cong(pc + IF Holds THEN i ELSE 4)
=============================================================================
