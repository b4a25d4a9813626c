---------------------------- MODULE OpenriscInsn ----------------------------
(***************************************************************************)
(* The OpenRISC guest code as the translator sees it: instruction words,   *)
(* what each does to the registers, and the translation of guest memory    *)
(* into a basic block (openrisc_vm::disas, disas_insn, disas_others).      *)
(*                                                                         *)
(* Addresses count 32-bit words, and there are Words of them: address 0    *)
(* follows address Words - 1, as 0 follows 0xFFFFFFFC in target_ulong.     *)
(* Instructions that differ only in arithmetic are one instruction here.   *)
(***************************************************************************)
EXTENDS Naturals, Sequences, FiniteSetsExt

CONSTANTS Words,    \* number of words of guest address space
          Null      \* the null pointer

ASSUME WordsAssumption == Words \in Nat /\ Words > 1
ASSUME NullAssumption == Null \notin Nat

Addr == 0 .. Words - 1

\* target_ulong arithmetic.
Wrap(a) == a % Words

JumpOps  == {"j", "jal", "jr", "jalr", "bf", "bnf"}
PlainOps == {"nop", "li", "addi", "mflr", "mtlr", "sfeq", "sw"}
Op == JumpOps \cup PlainOps \cup {"rfe", "unsupported"}

\* An instruction word: k is its immediate (a jump target, a store address or
\* a constant), already resolved to an address.
Insn == [op : Op, k : Addr]

IsJump(i) == i.op \in JumpOps
IsPlain(i) == i.op \in PlainOps
\* disas_insn returns true: the instruction ends the block.
Ends(i) == IsJump(i) \/ i.op = "rfe"
\* disas_insn fails jcpu_or_disas_assert("Not implemented yet").
Unsupported(i) == i.op = "unsupported"

\* The registers that decide control. LR is r9; GR stands for the general
\* registers an instruction reads its operand from.
Regs == [PC : Addr, PNEXT_PC : Addr, EPCR0 : Addr, SR_IEE : BOOLEAN,
         SR_F : BOOLEAN, LR : Addr, GR : Addr]

-----------------------------------------------------------------------------
(* What the code generated for one instruction does to the registers.      *)
(* l.bf and l.bnf also clear SR_F. l.jal links before its delay slot,      *)
(* l.jalr only after it (see BlockEnd): a slot that reads LR tells one     *)
(* from the other, as mflr does, and what a slot of l.jalr writes to LR,   *)
(* as mtlr does, is lost. Both stand for any instruction of disas_others   *)
(* or disas_arith with r9 among its registers. A store changes memory and  *)
(* no register.                                                            *)

Branch(i, flag, pc) == IF flag = (i.op = "bf") THEN i.k ELSE Wrap(pc + 2)

\* Variant of ReturnPc: computed wider than target_ulong.
ReturnPc_wide(pc) == pc + 2

\* The address after a jump and its delay slot.
ReturnPc(pc) == Wrap(pc + 2)

\* Variant of Jalr: links before the delay slot, as l.jal does.
Jalr_linksAtOnce(pc, r) == [r EXCEPT !.PNEXT_PC = r.GR, !.LR = ReturnPc(pc)]

Jalr(pc, r) == [r EXCEPT !.PNEXT_PC = r.GR]

Execute(i, pc, r) ==
  CASE i.op = "j"    -> [r EXCEPT !.PNEXT_PC = i.k]
    [] i.op = "jal"  -> [r EXCEPT !.PNEXT_PC = i.k, !.LR = ReturnPc(pc)]
    [] i.op = "jr"   -> [r EXCEPT !.PNEXT_PC = r.LR]
    [] i.op = "jalr" -> Jalr(pc, r)
    [] i.op \in {"bf", "bnf"} ->
         [r EXCEPT !.PNEXT_PC = Branch(i, r.SR_F, pc), !.SR_F = FALSE]
    [] i.op = "rfe"  -> [r EXCEPT !.PNEXT_PC = r.EPCR0, !.SR_IEE = FALSE]
    [] i.op = "li"   -> [r EXCEPT !.GR = i.k]
    [] i.op = "addi" -> [r EXCEPT !.GR = Wrap(r.GR + 1)]
    [] i.op = "mflr" -> [r EXCEPT !.GR = r.LR]
    [] i.op = "mtlr" -> [r EXCEPT !.LR = r.GR]
    [] i.op = "sfeq" -> [r EXCEPT !.SR_F = (r.GR = i.k)]
    [] OTHER -> r

-----------------------------------------------------------------------------
(* Translation. disas_insn recurses into the delay slot of every jump, so  *)
(* a call at n consumes n and the words after it up to the first that is   *)
(* not a jump, then fails if that recursion went deeper than one plain     *)
(* instruction.                                                            *)

SlotEnds(m, n) == {d \in 1 .. Words : ~ IsJump(m[Wrap(n + d)])}

\* disas_insn(n) returns.
Accepts(m, n) ==
  IF IsJump(m[n]) THEN IsPlain(m[Wrap(n + 1)]) ELSE ~ Unsupported(m[n])

\* The number of instructions it emits code for, whether or not it returns.
Emitted(m, n) ==
  LET depth == IF IsJump(m[n]) THEN Min(SlotEnds(m, n)) ELSE 0
  IN  IF Unsupported(m[Wrap(n + depth)]) THEN depth ELSE depth + 1

\* How far from start the scan of a block can stop; bp is the nearest breakpoint
\* or Null. The scan does not see the end of the address space: pc += 4 wraps.
Stops(m, start, bp) ==
  {d \in 0 .. Words - 1 :
     LET a == Wrap(start + d) IN a = bp \/ Ends(m[a]) \/ Unsupported(m[a])}

\* The block's last call of disas_insn is so many words after start, or the
\* breakpoint it stops in front of.
Reach(m, start, step, bp) == IF step THEN 0 ELSE Min(Stops(m, start, bp))
LastPc(m, start, step, bp) == Wrap(start + Reach(m, start, step, bp))

\* end_pc. A step over a jump or l.rfe says that it spans two words.
EndPc(m, start, step, bp) ==
  LET n == LastPc(m, start, step, bp)
  IN  CASE ~ step /\ n = bp     -> n - 1
        [] step /\ Ends(m[n])   -> Wrap(n + 1)
        [] OTHER                -> n

\* No block comes of it and nothing runs: the scan goes around the address
\* space for ever, the recursion never ends, or jcpu_assert(start_pc <= end_pc)
\* fails, because the scan ended well but beyond address 0, or the last word
\* of the address space is stepped and ends a block.
DisasCrashes(m, start, step, bp) ==
  \/ ~ step /\ Stops(m, start, bp) = {}
  \/ LET n == LastPc(m, start, step, bp)
     IN  /\ n # bp
         /\ \/ IsJump(m[n]) /\ SlotEnds(m, n) = {}
            \/ Accepts(m, n) /\ EndPc(m, start, step, bp) < start

\* basic_block: code is the instructions in the order emitted, with their
\* addresses; fall says that the code ends by setting PNEXT_PC to the address
\* after the block; ok is FALSE if the translation failed an assertion of
\* disas_insn, which runs the code generated so far and then aborts. A block
\* that is not ok may go past address 0.
disas(m, start, step, bp) ==
  LET n    == LastPc(m, start, step, bp)
      stop == ~ step /\ n = bp
      len  == Reach(m, start, step, bp) + (IF stop THEN 0 ELSE Emitted(m, n))
  IN  [start    |-> start,
       end      |-> EndPc(m, start, step, bp),
       code     |-> [i \in 1 .. len |-> [pc   |-> Wrap(start + i - 1),
                                         insn |-> m[Wrap(start + i - 1)]]],
       num_insn |-> len,
       fall     |-> stop \/ (step /\ ~ Ends(m[n])),
       ok       |-> stop \/ Accepts(m, n)]

Block == [start : Addr, end : Addr,
          code : Seq([pc : Addr, insn : Insn]), num_insn : Nat,
          fall : BOOLEAN, ok : BOOLEAN]

\* Variant of BlockEnd: without end_func's last write to PC.
BlockEnd_noPc(bb, r) ==
  LET n    == Len(bb.code)
      next == IF bb.fall THEN Wrap(bb.start + n) ELSE r.PNEXT_PC
  IN  [r EXCEPT !.PNEXT_PC = next]

\* The end of the generated code: l.jalr's link, the fall-through address and
\* end_func's copy of PNEXT_PC to PC.
BlockEnd(bb, r) ==
  LET n    == Len(bb.code)
      linked == IF n > 1 /\ bb.code[n - 1].insn.op = "jalr"
                THEN [r EXCEPT !.LR = ReturnPc(bb.code[n - 1].pc)] ELSE r
      next == IF bb.fall THEN Wrap(bb.start + n) ELSE r.PNEXT_PC
  IN  [linked EXCEPT !.PNEXT_PC = next, !.PC = next]

\* The i-th instruction is not a delay slot.
IsHead(bb, i) == i = 1 \/ ~ IsJump(bb.code[i - 1].insn)
=============================================================================
