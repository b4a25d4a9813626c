---------------------------- MODULE OpenriscAlu ----------------------------
(***************************************************************************)
(* The code openrisc_vm emits for the arithmetic, logic and comparison     *)
(* instructions, over words of Width bits: disas_arith, disas_logical,     *)
(* disas_compare, disas_compare_immediate and the plain instructions of    *)
(* disas_others that compute. A value is its bit pattern, as in LLVM.      *)
(***************************************************************************)
EXTENDS Or1kArith, LlvmInt

VARIABLES
  gr,              \* rA and rB are read from gr[1] and gr[2]; gr[0] is REG_GR00
  sr,              \* REG_SR without the bits no instruction sets
  trapped          \* the process was killed by a division

vars == <<gr, sr, trapped>>

\* sr_flag_e. CY and OV are neighbours and nothing is above them.
SR_IEE == 0
SR_F   == 1
SR_CY  == 2
SR_OV  == 3

-----------------------------------------------------------------------------
BitIf(c) == IF c THEN 1 ELSE 0

Ones == 2^Width - 1

\* Variant: the mask of t is made for one bit.
gen_cond_code_bit(cond, t, f) ==
  LET f_mask == Sub(cond, 1, Width)
      t_mask == f_mask ^^ 1
  IN  (t & t_mask) | (f & f_mask)

gen_cond_code(cond, t, f) ==
  LET f_mask == Sub(cond, 1, Width)
      t_mask == f_mask ^^ Ones
  IN  (t & t_mask) | (f & f_mask)

\* Variant: the mask is made of the number of the flag.
gen_set_sr_number(s, flag, val) == (s & (Ones - flag)) | (val * 2^flag)

gen_set_sr(s, flag, val) == (s & (Ones - 2^flag)) | (val * 2^flag)

-----------------------------------------------------------------------------
(* Instructions.                                                           *)

\* Their results; those the overflow check goes with are in CheckedOps.
RegOps == {"sub", "and", "or", "xor", "sll", "srl", "sra", "exths", "extbs",
           "exthz", "extbz", "extws", "extwz", "cmov"}
ImmOps == {"slli", "srli", "srai", "movhi", "addi", "andi", "ori", "xori",
           "muli"}
CheckedOps == {"add", "addc", "mul", "div", "divu", "mulu"}

CompareOps    == {"sfeq", "sfne", "sfgtu", "sfgeu", "sfltu", "sfleu",
                  "sfgts", "sfges", "sflts", "sfles"}
CompareImmOps == CompareOps \ {"sfgeu", "sfltu"}

\* The result of op on rA, rB, an immediate and SR.
Result(op, a, b, i, s) ==
  LET k   == b & (Width - 1)
      L   == i % Width
      I16 == SExt(i, Half, Width)
  IN  CASE op = "sub"   -> Sub(a, b, Width)
        [] op = "and"   -> a & b
        [] op = "or"    -> a | b
        [] op = "xor"   -> a ^^ b
        [] op = "sll"   -> Shl(a, k, Width)
        [] op = "srl"   -> LShr(a, k)
        [] op = "sra"   -> AShr(a, k, Width)
        [] op = "exths" -> SExt(Trunc(a, Half), Half, Width)
        [] op = "extbs" -> SExt(Trunc(a, Byte), Byte, Width)
        [] op = "exthz" -> Trunc(a, Byte)
        [] op = "extbz" -> Trunc(a, Byte)
        [] op \in {"extws", "extwz"} -> a
        [] op = "cmov"  -> IF Trunc(LShr(s, SR_F), 1) = 1 THEN a ELSE b
        [] op = "slli"  -> Shl(a, L, Width)
        [] op = "srli"  -> LShr(a, L)
        [] op = "srai"  -> AShr(a, L, Width)
        [] op = "movhi" -> Shl(i, Half, Width)
        [] op = "addi"  -> Add(a, I16, Width)
        [] op = "andi"  -> a & i
        [] op = "ori"   -> a | i
        [] op = "xori"  -> a ^^ I16
        [] op = "muli"  -> Trunc(a * I16, Width)

\* l.ror. A shift by the width of the register is undefined.
RorResults(a, b) ==
  LET k == b & (Width - 1)
  IN  IF k = 0 THEN Word ELSE {LShr(a, k) | Shl(a, Width - k, Width)}

\* The 64-bit result of a checked instruction that divides by no zero. Both
\* operands of l.divu and l.mulu are rA; l.addc adds all of SR from CY up.
Wide(op, a, b, s) ==
  LET x == IntOf(a, Width)
      y == IntOf(b, Width)
  IN  (CASE op = "add"  -> x + y
         [] op = "addc" -> LShr(s, SR_CY) + x + y
         [] op = "mul"  -> x * y
         [] op = "div"  -> SDiv(x, y)
         [] op = "divu" -> a \div a
         [] op = "mulu" -> a * a) % 2^(2 * Width)

DividesByZero(op, a, b) == (op = "div" /\ b = 0) \/ (op = "divu" /\ a = 0)

\* gen_arith_code_with_ovf_check: what it makes of SR.
CheckFlag(r) == BitIf((LShr(r, Width - 1) & 3) \in {0, 3})

\* Variant: the second flag is left as it was.
CheckedSr_ov(s, r) == gen_set_sr(s, SR_OV, CheckFlag(r))

CheckedSr(s, r) ==
  gen_set_sr(gen_set_sr(s, SR_OV, CheckFlag(r)), SR_CY, CheckFlag(r))

\* The condition a comparison stores into SR[F].
Compare(op, a, b) ==
  \/ op = "sfeq"  /\ a = b
  \/ op = "sfne"  /\ a # b
  \/ op = "sfgtu" /\ UGT(a, b)
  \/ op = "sfgeu" /\ ~ UGT(b, a)
  \/ op = "sfltu" /\ UGT(b, a)
  \/ op = "sfleu" /\ ~ UGT(a, b)
  \/ op = "sfgts" /\ SGT(a, b, Width)
  \/ op = "sfges" /\ ~ SGT(b, a, Width)
  \/ op = "sflts" /\ SGT(b, a, Width)
  \/ op = "sfles" /\ ~ SGT(a, b, Width)

CompareSr(s, op, a, b) == gen_set_sr(s, SR_F, BitIf(Compare(op, a, b)))

-----------------------------------------------------------------------------
(* Execution, one instruction at a time.                                   *)

\* Variant: REG_GR00 is written like any other register.
gen_set_reg_any(d, val) == gr' = [gr EXCEPT ![d] = val]

gen_set_reg(d, val) == gr' = IF d = 0 THEN gr ELSE [gr EXCEPT ![d] = val]

Init ==
  /\ gr \in {g \in [0 .. 2 -> Word] : g[0] = 0}
  /\ sr \in {0, 2^SR_IEE}
  /\ trapped = FALSE

ExecReg(op, d, i) ==
  /\ ~ trapped
  /\ gen_set_reg(d, Result(op, gr[1], gr[2], i, sr))
  /\ UNCHANGED <<sr, trapped>>

ExecRor(d) ==
  /\ ~ trapped
  /\ \E r \in RorResults(gr[1], gr[2]) : gen_set_reg(d, r)
  /\ UNCHANGED <<sr, trapped>>

ExecChecked(op, d) ==
  /\ ~ trapped
  /\ ~ DividesByZero(op, gr[1], gr[2])
  /\ LET r == Wide(op, gr[1], gr[2], sr)
     IN  gen_set_reg(d, Trunc(r, Width)) /\ sr' = CheckedSr(sr, r)
  /\ UNCHANGED trapped

\* Undefined: the host's instruction traps, or the result is anything.
DivideByZero(op, d) ==
  /\ ~ trapped
  /\ DividesByZero(op, gr[1], gr[2])
  /\ \/ trapped' = TRUE /\ UNCHANGED <<gr, sr>>
     \/ /\ \E r \in WordOf(Width + 1) :
             gen_set_reg(d, Trunc(r, Width)) /\ sr' = CheckedSr(sr, r)
        /\ UNCHANGED trapped

ExecCompare(op) ==
  /\ ~ trapped
  /\ sr' = CompareSr(sr, op, gr[1], gr[2])
  /\ UNCHANGED <<gr, trapped>>

ExecCompareImm(op, i) ==
  /\ ~ trapped
  /\ sr' = CompareSr(sr, op, gr[1], SExt(i, Half, Width))
  /\ UNCHANGED <<gr, trapped>>

\* l.bf and l.bnf clear the flag they branch on.
ExecBranch ==
  /\ ~ trapped
  /\ sr' = sr & (Ones - 2^SR_F)
  /\ UNCHANGED <<gr, trapped>>

Next ==
  \/ \E d \in 0 .. 2 :
       \/ \E op \in RegOps : ExecReg(op, d, 0)
       \/ \E op \in ImmOps, i \in WordOf(Half) : ExecReg(op, d, i)
       \/ ExecRor(d)
       \/ \E op \in CheckedOps : ExecChecked(op, d) \/ DivideByZero(op, d)
  \/ \E op \in CompareOps : ExecCompare(op)
  \/ \E op \in CompareImmOps, i \in WordOf(Half) : ExecCompareImm(op, i)
  \/ ExecBranch

Spec == Init /\ [][Next]_vars

-----------------------------------------------------------------------------
(* Properties.                                                             *)

Flag(s, flag) == LShr(s, flag) % 2 = 1

\* Registers hold words and REG_GR00 reads as zero.
TypeOK ==
  /\ gr \in [0 .. 2 -> Word] /\ gr[0] = 0
  /\ sr \in 0 .. 15
  /\ trapped \in BOOLEAN

\* The emitted code computes what the mnemonic says, for every instruction
\* but l.divu, l.mulu, l.exthz and l.addc (disas_arith, disas_logical and
\* disas_others). A rotation by zero and a division by zero are undefined.
ResultIsMnemonic ==
  LET a == gr[1]
      b == gr[2]
      M(op, i, r) == Means(op, a, b, i, Flag(sr, SR_F), r)
  IN  /\ \A op \in RegOps \ {"exthz"} : M(op, 0, Result(op, a, b, 0, sr))
      /\ \A op \in ImmOps, i \in WordOf(Half) :
           M(op, i, Result(op, a, b, i, sr))
      /\ \A op \in {"add", "mul", "div"} :
           ~ DividesByZero(op, a, b) =>
             M(op, 0, Trunc(Wide(op, a, b, sr), Width))
      /\ b % Width # 0 => \A r \in RorResults(a, b) : M("ror", 0, r)

\* SR[F] after a comparison, register or immediate, is what the mnemonic says
\* (disas_compare, disas_compare_immediate).
FlagIsComparison ==
  /\ \A op \in CompareOps :
       Flag(CompareSr(sr, op, gr[1], gr[2]), SR_F) <=> Holds(op, gr[1], gr[2])
  /\ \A op \in CompareImmOps, i \in WordOf(Half) :
       LET I16s == SExt(i, Half, Width)
       IN  Flag(CompareSr(sr, op, gr[1], I16s), SR_F) <=> Holds(op, gr[1], I16s)

\* No instruction modelled here enables or masks interrupts, and none changes
\* both the flag and the carry (gen_set_sr rewrites the whole register).
FlagsPrivate ==
  [][ /\ Flag(sr', SR_IEE) = Flag(sr, SR_IEE)
      /\ \/ Flag(sr', SR_F) = Flag(sr, SR_F)
         \/ /\ Flag(sr', SR_CY) = Flag(sr, SR_CY)
            /\ Flag(sr', SR_OV) = Flag(sr, SR_OV)
    ]_vars

\* Whatever ran before, l.addc adds 0 or 3 to the sum: it takes SR[OV] with
\* SR[CY], and the overflow check always leaves them equal.
CarryInIsZeroOrThree ==
  \E c \in {0, 3} : Means("add", (gr[1] + c) % 2^Width, gr[2], 0, FALSE,
                          Trunc(Wide("addc", gr[1], gr[2], sr), Width))

\* The mask arithmetic of l.bf, l.bnf and l.jalr selects one of two words.
BranchSelects ==
  \A c \in BOOLEAN :
    gen_cond_code(BitIf(c), gr[1], gr[2]) = IF c THEN gr[1] ELSE gr[2]

\* What the comments beside l.add say of the flags: SR[CY] = unsigned
\* overflow(carry), SR[OV] = signed overflow.
FlagsAsCommented ==
  LET s == CheckedSr(sr, Wide("add", gr[1], gr[2], sr))
  IN  /\ Flag(s, SR_CY) = Carry(gr[1], gr[2])
      /\ Flag(s, SR_OV) = SignedOverflow(gr[1], gr[2])

\* What the comment beside l.divu says: the divisor is rB.
DivisorIsRB ==
  gr[1] # 0 => Means("divu", gr[1], gr[2], 0, FALSE,
                     Trunc(Wide("divu", gr[1], gr[2], sr), Width))
=============================================================================
