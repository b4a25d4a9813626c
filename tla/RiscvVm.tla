------------------------------ MODULE RiscvVm ------------------------------
(***************************************************************************)
(* The RISC-V virtual machine under its debugger: riscv_vm. The engine is  *)
(* that of OpenriscVm without delay slots and without interrupts: the line *)
(* is stored (interrupt, reset) and nothing reads it.                      *)
(*                                                                         *)
(* Addresses count 16-bit parcels, since jumps may go to any even address  *)
(* and breakpoints may be set on any: the instruction at a takes parcels a *)
(* and a + 1, and the scan goes on at a + 2. The code of a block works on  *)
(* regs, as RegCache allows.                                               *)
(***************************************************************************)
EXTENDS Naturals, Sequences, FiniteSetsExt

CONSTANTS Parcels,       \* size of the address space
          Null,
          Parcel,        \* what a parcel of memory may hold
          Decode,        \* the instruction two parcels make
          ResetPc,       \* 0x10000
          Programs,      \* the memory images the guest may be loaded with
          Stored,        \* the two parcels the guest's stores write
          BreakAddrs,    \* where the debugger may set breakpoints
          IcountWidth    \* total_icount counts modulo IcountWidth

Addr == 0 .. Parcels - 1

\* k is an immediate: the target of a jump, the address of a store, or a value.
\* "unsupported" is any word disas_insn or a function it calls asserts on.
Op   == {"jal", "jalr", "beq", "li", "addi", "sw", "unsupported"}
Insn == [op : Op, k : Addr]

ASSUME RiscvAssumption ==
  /\ Parcels \in Nat /\ Parcels > 2 /\ Parcels % 2 = 0
  /\ Null \notin Nat
  /\ Decode \in [Parcel \X Parcel -> Insn]
  /\ ResetPc \in Addr
  /\ Programs \subseteq [Addr -> Parcel]
  /\ Stored \in Parcel \X Parcel
  /\ BreakAddrs \subseteq Addr
  /\ IcountWidth \in Nat \ {0}

Regs == [PC : Addr, PNEXT_PC : Addr, LR : Addr, GR : Addr]

VARIABLES
  mem, regs,
  bb_by_start, bps_by_addr, total_icount,
  state,           \* "stopped", "dispatch", "running" or "stepping" a block,
                   \* "aborted"
  pc,              \* run()'s local pc, Null outside of run()
  bb, idx          \* the block being executed and its next instruction

\* History, read by properties only.
VARIABLES
  next,            \* where the instructions executed so far lead
  retired          \* how many they are, modulo IcountWidth

block == <<bb, idx>>
history == <<next, retired>>
vars == <<mem, regs, bb_by_start, bps_by_addr, total_icount, state, pc,
          block, history>>

-----------------------------------------------------------------------------
(* Translation.                                                            *)

Ends(i) == i.op \in {"jal", "jalr", "beq"}

\* target_ulong arithmetic on addresses.
Wrap(a) == a % Parcels

\* mem_read of the four bytes at a.
Fetch(m, a) == Decode[<<m[a], m[Wrap(a + 1)]>>]

\* The addresses the scan visits before pc wraps around.
Scanned(start) == {a \in start .. Parcels - 1 : (a - start) % 2 = 0}

\* Where the scan can stop: at the breakpoint it was given, or an instruction.
Stops(m, start, bp) ==
  {a \in Scanned(start) :
     a = bp \/ Ends(Fetch(m, a)) \/ Fetch(m, a).op = "unsupported"}

\* An assertion fails: an instruction is not supported, or start_pc <= end_pc
\* is false because pc has wrapped around.
DisasFails(m, start, step, bp) ==
  IF step
  THEN \/ Fetch(m, start).op = "unsupported"
       \/ Ends(Fetch(m, start)) /\ start + 2 >= Parcels
  ELSE \/ Stops(m, start, bp) = {}
       \/ LET n == Min(Stops(m, start, bp))
          IN  n # bp /\ Fetch(m, n).op = "unsupported"

\* Variants of Fall: the address of the last instruction; no wrap.
Fall_last(start, n) == Wrap(start + 2 * (n - 1))
Fall_wide(start, n) == start + 2 * n

\* PNEXT_PC after a block of n instructions that does not end in a jump.
Fall(start, n) == Wrap(start + 2 * n)

\* The address of the i-th instruction of a block.
At(start, i) == start + 2 * (i - 1)

\* basic_block; fall is the address it falls through to, or Null.
disas(m, start, step, bp) ==
  LET last == IF step THEN start ELSE Min(Stops(m, start, bp))
      cut  == ~ step /\ last = bp
      n    == (last - start) \div 2 + (IF cut THEN 0 ELSE 1)
  IN  [start |-> start, num_insn |-> n,
       code  |-> [i \in 1 .. n |-> [pc   |-> At(start, i),
                                    insn |-> Fetch(m, At(start, i))]],
       fall  |-> IF ~ cut /\ Ends(Fetch(m, last)) THEN Null
                 ELSE Fall(start, n)]

-----------------------------------------------------------------------------
(* Breakpoints and blocks: jcpu_vm_base.                                   *)

find_nearest(a) ==
  LET above == {b \in bps_by_addr : b >= a}
  IN  IF above = {} THEN Null ELSE Min(above)

NoBlocks == [a \in {} |-> Null]

WithBlock(blocks, b) ==
  [a \in DOMAIN blocks \cup {b.start} |->
     IF a = b.start THEN b ELSE blocks[a]]

\* Variant of invalidate: only the block that starts at the address.
invalidate_starts(a) ==
  bb_by_start' = [b \in DOMAIN bb_by_start \ {a} |-> bb_by_start[b]]

invalidate(a) == bb_by_start' = NoBlocks

\* Variant of Counted: blocks rather than instructions.
Counted_blocks(b) == (total_icount + 1) % IcountWidth

Counted(b) == (total_icount + b.num_insn) % IcountWidth

\* Start the code of block b; the prologue copies PNEXT_PC to PC.
Enter(b, as) ==
  /\ state' = as
  /\ bb' = b
  /\ idx' = 1
  /\ regs' = [regs EXCEPT !.PC = regs.PNEXT_PC]

-----------------------------------------------------------------------------
Init ==
  /\ mem \in Programs
  /\ regs = [PC |-> ResetPc, PNEXT_PC |-> ResetPc, LR |-> 0, GR |-> 0]
  /\ bb_by_start = NoBlocks
  /\ bps_by_addr = {}
  /\ total_icount = 0
  /\ state = "stopped"
  /\ pc = Null
  /\ bb = Null
  /\ idx = 0
  /\ next = ResetPc
  /\ retired = 0

(* The debugger. *)

Continue ==
  /\ state = "stopped"
  /\ state' = "dispatch"
  /\ pc' = regs.PC
  /\ UNCHANGED <<mem, regs, bb_by_start, bps_by_addr, total_icount, block,
                 history>>

\* step_exec(): nothing happens at a breakpoint; otherwise every block is
\* dropped and one instruction translated.
Step ==
  /\ state = "stopped"
  /\ LET near == find_nearest(regs.PC) IN
     /\ near # regs.PC
     /\ IF DisasFails(mem, regs.PC, TRUE, near)
        THEN /\ state' = "aborted"
             /\ invalidate(regs.PC)
             /\ UNCHANGED <<regs, block>>
        ELSE LET b == disas(mem, regs.PC, TRUE, near) IN
             /\ Enter(b, "stepping")
             /\ bb_by_start' = WithBlock(NoBlocks, b)
  /\ UNCHANGED <<mem, bps_by_addr, total_icount, pc, history>>

SetBreakPoint(a) ==
  /\ state = "stopped"
  /\ bps_by_addr' = bps_by_addr \cup {a}
  /\ invalidate(a)
  /\ UNCHANGED <<mem, regs, total_icount, state, pc, block, history>>

\* Removing a breakpoint that is not there fails an assertion.
UnsetBreakPoint(a) ==
  /\ state = "stopped"
  /\ bps_by_addr' = bps_by_addr \ {a}
  /\ state' = IF a \in bps_by_addr THEN state ELSE "aborted"
  /\ UNCHANGED <<mem, regs, bb_by_start, total_icount, pc, block, history>>

(* run()'s loop. *)

HitBreakPoint ==
  /\ state = "dispatch"
  /\ find_nearest(pc) = pc
  /\ state' = "stopped"
  /\ pc' = Null
  /\ UNCHANGED <<mem, regs, bb_by_start, bps_by_addr, total_icount, block,
                 history>>

RunCached ==
  /\ state = "dispatch"
  /\ find_nearest(pc) # pc
  /\ pc \in DOMAIN bb_by_start
  /\ Enter(bb_by_start[pc], "running")
  /\ UNCHANGED <<mem, bb_by_start, bps_by_addr, total_icount, pc, history>>

RunTranslated ==
  /\ state = "dispatch"
  /\ LET near == find_nearest(pc) IN
     /\ near # pc
     /\ pc \notin DOMAIN bb_by_start
     /\ IF DisasFails(mem, pc, FALSE, near)
        THEN /\ state' = "aborted"
             /\ UNCHANGED <<regs, bb_by_start, block>>
        ELSE LET b == disas(mem, pc, FALSE, near) IN
             /\ Enter(b, "running")
             /\ bb_by_start' = WithBlock(bb_by_start, b)
  /\ UNCHANGED <<mem, bps_by_addr, total_icount, pc, history>>

(* The generated code. *)

Executing == state \in {"running", "stepping"}

\* PNEXT_PC as the jump i at a sets it. Registers hold parcels' addresses: the
\* odd ones jalr can jump to, too, are RiscvAlu's.
Target(i, a, r) ==
  CASE i.op = "jalr" -> r.GR
    [] i.op = "beq" /\ r.GR # 0 -> Wrap(a + 2)
    [] OTHER -> i.k

Execute(i, a, r) ==
  CASE i.op \in {"jal", "jalr"} ->
         [r EXCEPT !.LR = Wrap(a + 2), !.PNEXT_PC = Target(i, a, r)]
    [] i.op = "beq"  -> [r EXCEPT !.PNEXT_PC = Target(i, a, r)]
    [] i.op = "li"   -> [r EXCEPT !.GR = i.k]
    [] i.op = "addi" -> [r EXCEPT !.GR = Wrap(@ + 1)]
    [] OTHER -> r

ExecInsn ==
  /\ Executing
  /\ idx <= bb.num_insn
  /\ LET i == bb.code[idx].insn
         a == bb.code[idx].pc
     IN
     /\ regs' = Execute(i, a, regs)
     /\ mem' = IF i.op = "sw"
               THEN [mem EXCEPT ![i.k] = Stored[1], ![Wrap(i.k + 1)] = Stored[2]]
               ELSE mem
     /\ next' = IF Ends(i) THEN Target(i, a, regs) ELSE Wrap(a + 2)
  /\ idx' = idx + 1
  /\ retired' = (retired + 1) % IcountWidth
  /\ UNCHANGED <<bb_by_start, bps_by_addr, total_icount, state, pc, bb>>

\* The end of the block sets PNEXT_PC if no jump did, and copies it to PC; run()
\* goes on there, step_exec() returns.
FinishBlock ==
  /\ Executing
  /\ idx > bb.num_insn
  /\ LET to == IF bb.fall = Null THEN regs.PNEXT_PC ELSE bb.fall IN
     /\ regs' = [regs EXCEPT !.PC = to, !.PNEXT_PC = to]
     /\ IF state = "running" THEN state' = "dispatch" /\ pc' = to
        ELSE state' = "stopped" /\ UNCHANGED pc
  /\ total_icount' = Counted(bb)
  /\ bb' = Null
  /\ idx' = 0
  /\ UNCHANGED <<mem, bb_by_start, bps_by_addr, history>>

-----------------------------------------------------------------------------
Debugger ==
  \/ Continue
  \/ Step
  \/ \E a \in BreakAddrs : SetBreakPoint(a)
  \/ \E a \in BreakAddrs : UnsetBreakPoint(a)

Engine ==
  \/ HitBreakPoint
  \/ RunCached
  \/ RunTranslated
  \/ ExecInsn
  \/ FinishBlock

Next == Debugger \/ Engine

Spec == Init /\ [][Next]_vars

-----------------------------------------------------------------------------
(* Properties.                                                             *)

Block == {b \in [start : Addr, num_insn : Nat,
                 code : Seq([pc : Addr, insn : Insn]), fall : Addr \cup {Null}] :
            Len(b.code) = b.num_insn}

\* Every variable has its type, and a block is at hand while one executes.
TypeOK ==
  /\ mem \in [Addr -> Parcel]
  /\ regs \in Regs
  /\ DOMAIN bb_by_start \subseteq Addr
  /\ \A a \in DOMAIN bb_by_start : bb_by_start[a] \in Block
  /\ bps_by_addr \subseteq BreakAddrs
  /\ total_icount \in 0 .. IcountWidth - 1
  /\ retired \in 0 .. IcountWidth - 1
  /\ state \in {"stopped", "dispatch", "running", "stepping", "aborted"}
  /\ state \in {"dispatch", "running"} => pc \in Addr
  /\ Executing => bb \in Block /\ idx \in 1 .. bb.num_insn + 1
  /\ next \in Addr

\* No instruction executes while a breakpoint is set on it, although a scan
\* knows only the nearest breakpoint and visits every other parcel: this needs
\* the breakpoints to be all in even or all in odd parcels.
BreakpointHonoured ==
  Executing /\ idx <= bb.num_insn => bb.code[idx].pc \notin bps_by_addr

\* Control goes where the instructions lead it, whether a block is cut short in
\* front of a breakpoint, is a single step or was translated earlier, and the
\* debugger finds REG_PC there.
FollowsProgram ==
  /\ state = "stopped" => next = regs.PC
  /\ state = "dispatch" => next = pc
  /\ Executing =>
       next = IF idx <= bb.num_insn THEN bb.code[idx].pc
              ELSE IF bb.fall = Null THEN regs.PNEXT_PC ELSE bb.fall

\* Between blocks get_total_insn_count() is exact, single steps included.
IcountExact ==
  state \in {"stopped", "dispatch"} => total_icount = retired
=============================================================================
