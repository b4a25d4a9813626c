------------------------------ MODULE RiscvAlu ------------------------------
(***************************************************************************)
(* The code riscv_vm emits for the instructions that compute and for the   *)
(* targets of those that jump: disas_insn_load_imm, _integer_imm,          *)
(* _integer_reg, _64bit_integer, _cond_branch and _jump. One instruction   *)
(* is translated and executed on the registers and the pc it finds; a      *)
(* longer run is RiscvVm's business and the registers' is RegCache's.      *)
(***************************************************************************)
EXTENDS RiscvArith, LlvmInt

CONSTANTS Samples,      \* what registers hold
          PcSamples,    \* where the instruction is
          None          \* no value yet

VARIABLES
  rs1, rs2,        \* the source registers
  pc,
  insn,            \* what was executed: the mnemonic and the immediate field
  rd,              \* what the destination holds, or None
  pnext_pc         \* REG_PNEXT_PC if the instruction sets it, or None

rv_vars == <<rs1, rs2, pc, insn, rd, pnext_pc>>

\* What a destination holds that is no word: an assertion failed instead; LLVM
\* defines no result; the value has one bit, not a register's.
Asserts == -1
Poison  == -2
Narrow  == -3

\* LLVM defines no shift by the width of the register or more.
Shift(r, k) == IF k < XLEN THEN r ELSE Poison

-----------------------------------------------------------------------------
(* Translation.                                                            *)

RvImmOps == {"addi", "slli", "slti", "sltiu", "xori", "srli", "srai", "ori",
           "andi"}
RvRegOps == {"add", "sub", "sll", "slt", "sltu", "xor", "srl", "sra", "or",
           "and"}
UpOps  == {"lui", "auipc"}
BranchOps == {"beq", "bne", "blt", "bge", "bltu", "bgeu"}

\* The bit of the immediate that says arithmetic: 0x20 of bit_sub<25, 7>.
Arithmetic == 2^(ImmBits - 2)

\* The right shifts have one funct3.
ImmOp(op, i) ==
  op \in {"srli", "srai"} => (op = "srai" <=> (i & Arithmetic) # 0)

\* bit_sub<25, 7>, without that bit for the right shifts.
funct7(op, i) == (IF op = "srai" THEN i - Arithmetic ELSE i) \div 2^ShBits

\* Shifts take the whole immediate as their amount.
integer_imm(op, a, i) ==
  LET extended == SExt(i, ImmBits, XLEN)
      Shifted(r) == IF funct7(op, i) = 0 THEN Shift(r, i) ELSE Asserts
  IN  CASE op = "addi" -> Add(extended, a, XLEN)
        [] op = "slli" -> Shifted(Shl(a, i % XLEN, XLEN))
        [] op = "srli" -> Shifted(LShr(a, i % XLEN))
        [] op = "srai" -> Shifted(AShr(a, i % XLEN, XLEN))
        [] op \in {"slti", "sltiu"} -> Narrow
        [] op = "xori" -> extended ^^ a
        [] op = "ori"  -> extended | a
        [] op = "andi" -> extended & a

integer_reg(op, a, b) ==
  CASE op = "add" -> Add(a, b, XLEN)
    [] op = "sub" -> Sub(a, b, XLEN)
    [] op = "sll" -> Shift(Shl(a, b % XLEN, XLEN), b)
    [] op = "srl" -> Shift(LShr(a, b % XLEN), b)
    [] op = "sra" -> Shift(AShr(a, b % XLEN, XLEN), b)
    [] op \in {"slt", "sltu"} -> Narrow
    [] op = "xor" -> a ^^ b
    [] op = "or"  -> a | b
    [] op = "and" -> a & b

\* The immediate is a constant of the register's type.
load_imm(op, i, at) ==
  Add(Shl(i, ImmBits, XLEN), IF op = "auipc" THEN at ELSE 0, XLEN)

\* Variants: one that sign-extends, one that keeps the high half of rs1.
addiw_signed(a, i) ==
  SExt(Add(SExt(i, ImmBits, HalfBits), Trunc(a, HalfBits), HalfBits), HalfBits, XLEN)
addiw_wide(a, i) == Add(i, a, XLEN)

addiw(a, i) == SExt(Add(i, Trunc(a, HalfBits), HalfBits), HalfBits, XLEN)

taken(op, a, b) ==
  \/ op = "beq"  /\ a = b
  \/ op = "bne"  /\ a # b
  \/ op = "blt"  /\ SGT(b, a, XLEN)
  \/ op = "bge"  /\ ~ SGT(b, a, XLEN)
  \/ op = "bltu" /\ UGT(b, a)
  \/ op = "bgeu" /\ ~ UGT(b, a)

\* Variant: the offset is not sign-extended.
next_pc_zext(base, i, n) == Add(base, i, XLEN)

\* i is the offset's field, of n bits.
next_pc(base, i, n) == Add(base, SExt(i, n, XLEN), XLEN)

-----------------------------------------------------------------------------
NoInsn == [op |-> "none", i |-> 0]

RvInit ==
  /\ rs1 \in Samples \cap WordOf(XLEN) /\ rs2 \in Samples \cap WordOf(XLEN)
  /\ pc \in PcSamples \cap WordOf(XLEN)
  /\ insn = NoInsn /\ rd = None /\ pnext_pc = None

Done(op, i) == insn = NoInsn /\ insn' = [op |-> op, i |-> i]

Computes(op, i, r) ==
  /\ Done(op, i)
  /\ rd' = r
  /\ UNCHANGED <<rs1, rs2, pc, pnext_pc>>

disas_insn_integer_imm(op, i) ==
  ImmOp(op, i) /\ Computes(op, i, integer_imm(op, rs1, i))

disas_insn_integer_reg(op) == Computes(op, 0, integer_reg(op, rs1, rs2))

disas_insn_load_imm(op, i) == Computes(op, i, load_imm(op, i, pc))

disas_insn_64bit_integer(i) == Computes("addiw", i, addiw(rs1, i))

\* The offset of a branch has one bit more than an immediate and is even.
disas_insn_cond_branch(op, i) ==
  /\ Done(op, i)
  /\ pnext_pc' = IF taken(op, rs1, rs2) THEN next_pc(pc, i, ImmBits + 1)
                 ELSE Add(pc, 4, XLEN)
  /\ UNCHANGED <<rs1, rs2, pc, rd>>

disas_insn_jump(op, i) ==
  /\ Done(op, i)
  /\ rd' = Add(pc, 4, XLEN)
  /\ pnext_pc' = IF op = "jalr" THEN next_pc(rs1, i, ImmBits)
                 ELSE next_pc(pc, i, UpBits + 1)
  /\ UNCHANGED <<rs1, rs2, pc>>

Even(n) == {2 * k : k \in WordOf(n - 1)}

RvNext ==
  \/ \E op \in RvImmOps, i \in WordOf(ImmBits) : disas_insn_integer_imm(op, i)
  \/ \E op \in RvRegOps : disas_insn_integer_reg(op)
  \/ \E op \in UpOps, i \in WordOf(UpBits) : disas_insn_load_imm(op, i)
  \/ \E i \in WordOf(ImmBits) : disas_insn_64bit_integer(i)
  \/ \E op \in BranchOps, i \in Even(ImmBits + 1) : disas_insn_cond_branch(op, i)
  \/ \E i \in WordOf(ImmBits) : disas_insn_jump("jalr", i)
  \/ \E i \in Even(UpBits + 1) : disas_insn_jump("jal", i)

RvSpec == RvInit /\ [][RvNext]_rv_vars

-----------------------------------------------------------------------------
(* Properties.                                                             *)

\* The operands for which op computes what its mnemonic says: no comparison
\* does, nor srai, whose amount holds the bit that says arithmetic; a shift by
\* half the register or more fails an assertion, or by a register too large is
\* undefined; lui, auipc and addiw do not extend the sign of their immediate.
Sound(op, b, i) ==
  /\ op \notin {"slti", "sltiu", "slt", "sltu", "srai"}
  /\ op \in {"slli", "srli"} => i < HalfBits
  /\ op \in {"sll", "srl", "sra"} => b < XLEN
  /\ op \in UpOps => i < 2^(UpBits - 1)
  /\ op = "addiw" => i < 2^(ImmBits - 1)

\* The emitted code computes what RV64I means by the mnemonic exactly for the
\* operands Sound says (disas_insn_integer_imm and the others).
SoundExactly ==
  rd # None =>
    (/\ rd \in WordOf(XLEN)
     /\ RvMeans(insn.op, rs1, rs2, insn.i, pc, rd)) <=> Sound(insn.op, rs2, insn.i)

\* A branch or a jump leads where its condition and its signed offset say, but
\* for jalr to an odd address, which is not made even.
LeadsThere ==
  pnext_pc # None =>
    LET bits   == CASE insn.op \in BranchOps -> ImmBits + 1
                    [] insn.op = "jal"  -> UpBits + 1
                    [] insn.op = "jalr" -> ImmBits
        offset == IntOf(insn.i, bits)
    IN  Leads(insn.op, rs1, rs2, offset, pc, pnext_pc)
          <=> (insn.op = "jalr" => (rs1 + offset) % 2 = 0)
=============================================================================
