------------------------ MODULE OpenriscVmRefinement ------------------------
(***************************************************************************)
(* OpenriscVm implements Or1kMachine. While a block executes, the abstract *)
(* machine is at the block's next instruction and has the registers of the *)
(* block's code. It is dead from the moment a translation fails.           *)
(***************************************************************************)
EXTENDS OpenriscVm

Dead == state = "aborted" \/ (Executing /\ ~ bb.ok)

InSlot == Executing /\ ~ Dead /\ idx > 1 /\ idx <= Len(bb.code)
          /\ IsJump(bb.code[idx - 1].insn)

\* The delay slot of l.jalr is done; BlockEnd links next.
LinkDue == Executing /\ ~ Dead /\ Len(bb.code) > 1 /\ idx > Len(bb.code)
           /\ bb.code[Len(bb.code) - 1].insn.op = "jalr"

Core(r) == [EPCR0 |-> r.EPCR0, SR_IEE |-> r.SR_IEE, SR_F |-> r.SR_F,
            LR |-> IF LinkDue THEN ReturnPc(bb.code[Len(bb.code) - 1].pc)
                   ELSE r.LR,
            GR |-> r.GR]

AbstractPc ==
  CASE Dead -> Null
    [] Executing /\ ~ Dead -> IF idx <= Len(bb.code) THEN bb.code[idx].pc
                             ELSE BlockEnd(bb, shadow).PC
    [] Dispatching -> pc
    [] state = "stopped" -> regs.PC

AbstractMode ==
  CASE Dead -> "dead"
    [] Executing /\ ~ Dead -> IF ~ is_step THEN "running"
                             ELSE IF idx <= Len(bb.code) THEN "stepping"
                             ELSE "stepped"
    [] Dispatching -> "running"
    [] state = "stopped" -> "stopped"

Machine == INSTANCE Or1kMachine WITH
  cpu  <- IF Dead THEN Null ELSE Core(shadow),
  npc  <- AbstractPc,
  slot <- IF InSlot THEN shadow.PNEXT_PC ELSE Null,
  link <- IF InSlot /\ bb.code[idx - 1].insn.op = "jalr"
          THEN ReturnPc(bb.code[idx - 1].pc) ELSE Null,
  mode <- AbstractMode,
  bps  <- bps_by_addr,
  irq  <- irq_status

\* Blocks, the cache of them, the write-back of registers at their end and the
\* interrupt check between them cannot be told from a machine that executes
\* one instruction at a time, unless by the freedoms Or1kMachine names.
ImplementsOr1k == Machine!Spec
=============================================================================
