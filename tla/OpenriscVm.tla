----------------------------- MODULE OpenriscVm -----------------------------
(***************************************************************************)
(* The OpenRISC virtual machine under its debugger: openrisc_vm with the   *)
(* bb_manager (translated blocks by start address) and the bp_manager      *)
(* (breakpoints) of jcpu_vm_base.                                          *)
(*                                                                         *)
(* Three actors take steps: the GDB server's thread, which calls run(),    *)
(* step_exec() and set_unset_break_point() and waits for each to return;   *)
(* the generated code, one guest instruction per step; and the device,     *)
(* which raises and lowers the interrupt line at any time (it is called    *)
(* from the guest's stores, or runs in a thread of its own).               *)
(***************************************************************************)
EXTENDS OpenriscInsn

CONSTANTS ResetPc,        \* 0x100
          IrqVector,      \* exception_vector[EXC_IRQ]
          Programs,       \* the memory images the guest may be loaded with
          StoredWord,     \* the word the guest's stores write
          BreakAddrs,     \* where the debugger may set breakpoints
          IcountWidth     \* total_icount counts modulo IcountWidth

ASSUME VmAssumption ==
  /\ ResetPc \in Addr /\ IrqVector \in Addr
  /\ Programs \subseteq [Addr -> Insn]
  /\ StoredWord \in Insn
  /\ BreakAddrs \subseteq Addr
  /\ IcountWidth \in Nat \ {0}

VARIABLES
  mem,            \* guest memory, behind jcpu_ext_if
  regs,           \* the register file of the generated code
  bb_by_start,    \* bb_manager: translated blocks by start address
  bps_by_addr,    \* bp_manager: addresses of the breakpoints
  irq_status,     \* level of the interrupt line
  total_icount,
  state,          \* "stopped": waiting for the debugger, "dispatch": at the
                  \* head of run()'s loop, "executing": in a block, "aborted"
  is_step,        \* step_exec() rather than run() is active
  pc,             \* run()'s local pc, Null outside of the loop
  bb,             \* the block being executed, Null if none
  idx,            \* its next instruction
  shadow          \* registers as the block's code has them; regs when no
                  \* block is executing (the block writes back when it ends)

\* History, read by properties only.
VARIABLES
  held,           \* the words each address held since the last invalidate
  retired,        \* instructions executed, modulo IcountWidth
  accepted        \* an interrupt was accepted and no block has started since

engine  == <<state, is_step, pc, bb, idx, shadow>>
history == <<held, retired, accepted>>
vars == <<mem, regs, bb_by_start, bps_by_addr, irq_status, total_icount,
          engine, history>>

-----------------------------------------------------------------------------
NoBlocks == [a \in {} |-> Null]

\* bp_manager::find_nearest, std::map::lower_bound
find_nearest(a) ==
  LET above == {b \in bps_by_addr : b >= a}
  IN  IF above = {} THEN Null ELSE Min(above)

\* Variant of invalidate: what its FIXME asks for, taken as the blocks that
\* start in the range rather than those that meet it.
invalidate_starts(from, to) ==
  /\ bb_by_start' = [a \in DOMAIN bb_by_start \ (from .. to - 1) |->
                       bb_by_start[a]]
  /\ held' = [a \in Addr |-> {mem[a]}]

\* bb_manager::invalidate ignores its range and drops every block.
invalidate(from, to) ==
  /\ bb_by_start' = NoBlocks
  /\ held' = [a \in Addr |-> {mem[a]}]

\* bb_manager::add
WithBlock(blocks, b) ==
  [a \in DOMAIN blocks \cup {b.start} |->
     IF a = b.start THEN b ELSE blocks[a]]

\* Variant of IrqPending: SR_IEE as the architecture has it (set enables).
IrqPending_enabled(r) == irq_status /\ r.SR_IEE

IrqPending(r) == irq_status /\ ~ r.SR_IEE  \* SR_IEE masks while it is set

\* "jump to exception handler"
TakeIrq(r, epc) ==
  [r EXCEPT !.EPCR0 = epc, !.PNEXT_PC = IrqVector, !.SR_IEE = TRUE]

\* run() or step_exec() returns.
Stop ==
  /\ state' = "stopped"
  /\ is_step' = FALSE
  /\ pc' = Null

\* Start the code of block b on registers r; start_func's prologue copies
\* PNEXT_PC to PC.
Enter(b, r) ==
  /\ state' = "executing"
  /\ bb' = b
  /\ idx' = 1
  /\ shadow' = [r EXCEPT !.PC = r.PNEXT_PC]
  /\ accepted' = FALSE

Abort ==
  /\ state' = "aborted"
  /\ UNCHANGED <<is_step, pc, bb, idx, shadow>>

\* Variant of SteppedBlock: a cached block is preferred, as in run().
SteppedBlock_cached(start, near) ==
  IF start \in DOMAIN bb_by_start THEN bb_by_start[start]
  ELSE disas(mem, start, TRUE, near)

\* The block step_exec() runs: invalidate() has just dropped every other.
SteppedBlock(start, near) == disas(mem, start, TRUE, near)

\* Variant of NextPc: REG_PC is trusted.
NextPc_register(take, r) == r.PC

\* Where run() goes on after a block left registers r.
NextPc(take, r) == IF take THEN IrqVector ELSE r.PC

\* Variant of Counted: delay slots are not counted.
Counted_heads(b) ==
  (total_icount + Cardinality({i \in 1 .. b.num_insn : IsHead(b, i)}))
     % IcountWidth

Counted(b) == (total_icount + b.num_insn) % IcountWidth

-----------------------------------------------------------------------------
Init ==
  /\ mem \in Programs
  /\ regs = [PC |-> ResetPc, PNEXT_PC |-> ResetPc, EPCR0 |-> 0,
             SR_IEE |-> FALSE, SR_F |-> FALSE, LR |-> 0, GR |-> 0]
  /\ bb_by_start = NoBlocks
  /\ bps_by_addr = {}
  /\ irq_status = FALSE
  /\ total_icount = 0
  /\ state = "stopped"
  /\ is_step = FALSE
  /\ pc = Null
  /\ bb = Null
  /\ idx = 0
  /\ shadow = regs
  /\ held = [a \in Addr |-> {mem[a]}]
  /\ retired = 0
  /\ accepted = FALSE

(* The debugger. *)

\* run_continue(false): run() starts at REG_PC.
Continue ==
  /\ state = "stopped"
  /\ state' = "dispatch"
  /\ pc' = regs.PC
  /\ UNCHANGED <<mem, regs, bb_by_start, bps_by_addr, irq_status,
                 total_icount, is_step, bb, idx, shadow, history>>

\* run_continue(true): step_exec() accepts a pending interrupt, then honours a
\* breakpoint, then translates one instruction afresh and runs it.
Step ==
  /\ state = "stopped"
  /\ LET take  == IrqPending(regs)
         start == IF take THEN IrqVector ELSE regs.PC
         near  == find_nearest(start)
     IN
     /\ regs' = IF take THEN TakeIrq(regs, regs.PC) ELSE regs
     /\ \/ /\ near = start                         \* RUN_STAT_BREAK
           /\ accepted' = (take \/ accepted)
           /\ shadow' = regs'
           /\ UNCHANGED <<bb_by_start, held, state, is_step, pc, bb, idx>>
        \/ /\ near # start
           /\ DisasCrashes(mem, start, TRUE, near)
           /\ state' = "aborted"
           /\ invalidate(start, start + 1)
           /\ shadow' = regs'
           /\ UNCHANGED <<is_step, pc, bb, idx, accepted>>
        \/ /\ near # start
           /\ ~ DisasCrashes(mem, start, TRUE, near)
           /\ LET b == SteppedBlock(start, near) IN
              /\ Enter(b, regs')
              /\ bb_by_start' = IF b.ok THEN WithBlock(NoBlocks, b) ELSE NoBlocks
           /\ held' = [a \in Addr |-> {mem[a]}]
           /\ is_step' = TRUE
           /\ pc' = start
  /\ UNCHANGED <<mem, bps_by_addr, irq_status, total_icount, retired>>

\* Packet Z: a second breakpoint at the same address changes nothing.
SetBreakPoint(a) ==
  /\ state = "stopped"
  /\ bps_by_addr' = bps_by_addr \cup {a}
  /\ invalidate(a, a + 1)
  /\ UNCHANGED <<mem, regs, irq_status, total_icount, engine, retired, accepted>>

\* Packet z: the blocks cut short in front of the breakpoint stay, and removing
\* a breakpoint that is not there fails an assertion.
UnsetBreakPoint(a) ==
  /\ state = "stopped"
  /\ IF a \in bps_by_addr
     THEN /\ bps_by_addr' = bps_by_addr \ {a}
          /\ UNCHANGED engine
     ELSE Abort /\ UNCHANGED bps_by_addr
  /\ UNCHANGED <<mem, regs, bb_by_start, irq_status, total_icount, history>>

(* run()'s loop. *)

Dispatching == state = "dispatch"

\* RUN_STAT_BREAK
HitBreakPoint ==
  /\ Dispatching
  /\ find_nearest(pc) = pc
  /\ Stop
  /\ UNCHANGED <<mem, regs, bb_by_start, bps_by_addr, irq_status,
                 total_icount, bb, idx, shadow, history>>

RunCached ==
  /\ Dispatching
  /\ find_nearest(pc) # pc
  /\ pc \in DOMAIN bb_by_start
  /\ Enter(bb_by_start[pc], regs)
  /\ UNCHANGED <<mem, regs, bb_by_start, bps_by_addr, irq_status,
                 total_icount, is_step, pc, held, retired>>

RunTranslated ==
  /\ Dispatching
  /\ LET near == find_nearest(pc) IN
     /\ near # pc
     /\ pc \notin DOMAIN bb_by_start
     /\ IF DisasCrashes(mem, pc, FALSE, near)
        THEN /\ Abort
             /\ UNCHANGED <<bb_by_start, accepted>>
        ELSE LET b == disas(mem, pc, FALSE, near) IN
             /\ Enter(b, regs)
             /\ bb_by_start' = IF b.ok THEN WithBlock(bb_by_start, b)
                               ELSE bb_by_start
             /\ UNCHANGED <<is_step, pc>>
  /\ UNCHANGED <<mem, regs, bps_by_addr, irq_status, total_icount, held,
                 retired>>

(* The generated code. *)

Executing == state = "executing"

ExecInsn ==
  /\ Executing
  /\ idx <= Len(bb.code)
  /\ LET i == bb.code[idx].insn IN
     /\ shadow' = Execute(i, bb.code[idx].pc, shadow)
     /\ IF i.op = "sw"
        THEN /\ mem' = [mem EXCEPT ![i.k] = StoredWord]
             /\ held' = [held EXCEPT ![i.k] = @ \cup {StoredWord}]
        ELSE UNCHANGED <<mem, held>>
  /\ idx' = idx + 1
  /\ retired' = (retired + 1) % IcountWidth
  /\ UNCHANGED <<regs, bb_by_start, bps_by_addr, irq_status, total_icount,
                 state, is_step, pc, bb, accepted>>

\* The block returns: its registers are written back, its instructions
\* counted, and run() then looks at the interrupt line, which step_exec() does
\* not.
FinishBlock ==
  /\ Executing
  /\ idx > Len(bb.code)
  /\ bb.ok
  /\ LET r    == BlockEnd(bb, shadow)
         take == ~ is_step /\ IrqPending(r)
     IN
     /\ regs' = IF take THEN TakeIrq(r, r.PNEXT_PC) ELSE r
     /\ accepted' = take
     /\ IF is_step THEN Stop
        ELSE /\ state' = "dispatch"
             /\ pc' = NextPc(take, r)
             /\ UNCHANGED is_step
  /\ shadow' = regs'
  /\ total_icount' = Counted(bb)
  /\ bb' = Null
  /\ idx' = 0
  /\ UNCHANGED <<mem, bb_by_start, bps_by_addr, irq_status, held, retired>>

\* A translation that failed: what was generated has run, then abort().
FinishAborting ==
  /\ Executing
  /\ idx > Len(bb.code)
  /\ ~ bb.ok
  /\ Abort
  /\ UNCHANGED <<mem, regs, bb_by_start, bps_by_addr, irq_status,
                 total_icount, history>>

(* The device. *)

interrupt(enable) ==
  /\ state # "aborted"
  /\ irq_status' = enable
  /\ UNCHANGED <<mem, regs, bb_by_start, bps_by_addr, total_icount, engine,
                 history>>

\* openrisc_vm::reset drops the interrupt and leaves everything else.
reset ==
  /\ state # "aborted"
  /\ irq_status' = FALSE
  /\ UNCHANGED <<mem, regs, bb_by_start, bps_by_addr, total_icount, engine,
                 history>>

-----------------------------------------------------------------------------
Debugger ==
  \/ Continue
  \/ Step
  \/ \E a \in BreakAddrs : SetBreakPoint(a)
  \/ \E a \in BreakAddrs : UnsetBreakPoint(a)

Engine ==
  \/ HitBreakPoint
  \/ RunCached
  \/ RunTranslated
  \/ ExecInsn
  \/ FinishBlock
  \/ FinishAborting

Device == \E enable \in BOOLEAN : interrupt(enable)

Next == Debugger \/ Engine \/ Device \/ reset

\* A call of run() or step_exec() keeps executing; nothing obliges the
\* debugger or the device to do anything.
Spec == Init /\ [][Next]_vars /\ WF_vars(Engine)

-----------------------------------------------------------------------------
(* Properties.                                                             *)

\* Every variable has its type; a block is at hand exactly while one executes,
\* and the registers are written back whenever none does.
TypeOK ==
  /\ mem \in [Addr -> Insn]
  /\ regs \in Regs
  /\ shadow \in Regs
  /\ DOMAIN bb_by_start \subseteq Addr
  /\ \A a \in DOMAIN bb_by_start : bb_by_start[a] \in Block
  /\ bps_by_addr \subseteq BreakAddrs
  /\ irq_status \in BOOLEAN
  /\ total_icount \in 0 .. IcountWidth - 1
  /\ retired \in 0 .. IcountWidth - 1
  /\ state \in {"stopped", "dispatch", "executing", "aborted"}
  /\ is_step \in BOOLEAN
  /\ accepted \in BOOLEAN
  /\ held \in [Addr -> SUBSET Insn]
  /\ state = "stopped" => pc = Null /\ bb = Null /\ shadow = regs
  /\ state = "dispatch" => pc \in Addr /\ bb = Null /\ shadow = regs
  /\ state = "executing" =>
       pc \in Addr /\ bb \in Block /\ idx \in 1 .. Len(bb.code) + 1

\* No instruction executes while a breakpoint is set on it, delay slots apart:
\* not from a block translated before the breakpoint was set (bb_manager has
\* no trace of what a block spans, run() only compares block starts), nor from
\* one whose scan knew only the nearest breakpoint, nor in a single step. The
\* exception is a scan that went past address 0, where it knows no breakpoint,
\* and failed there: what it emitted runs, over breakpoints too, and the
\* process ends.
BreakpointHonoured ==
  Executing /\ idx <= Len(bb.code) /\ IsHead(bb, idx) =>
    \/ bb.code[idx].pc \notin bps_by_addr
    \/ ~ bb.ok /\ bb.code[idx].pc < bb.start

\* Translated code, cached or executing, is made of words its addresses have
\* held since the debugger last made the VM invalidate; only the guest's own
\* stores can make it differ from memory.
CodeWasInMemory ==
  LET FromMemory(b) ==
        \A i \in 1 .. Len(b.code) : b.code[i].insn \in held[b.code[i].pc]
  IN  /\ \A a \in DOMAIN bb_by_start : FromMemory(bb_by_start[a])
      /\ Executing => FromMemory(bb)

\* A single step executes what memory holds when it is asked for, even where
\* a cached block has gone stale under the guest's stores.
StepRunsMemory ==
  [][state = "stopped" /\ state' = "executing" =>
       \A i \in 1 .. Len(bb'.code) : bb'.code[i].insn = mem[bb'.code[i].pc]]_vars

\* "jump to exception handler": the next block to start after an interrupt was
\* accepted (EPCR0 saved, further interrupts masked) is the handler's.
HandlerEntered ==
  [][accepted /\ state # "executing" /\ state' = "executing" =>
       bb'.start = IrqVector]_vars

\* Whenever the VM is about to start a block, or the debugger may look, REG_PC
\* is where execution goes on, which is what PNEXT_PC says: run() resumes from
\* the one and the generated code from the other. (While run() is dispatching
\* to the interrupt vector, its local pc alone has it.)
ResumesWhereItStopped ==
  /\ state = "stopped" => regs.PC = regs.PNEXT_PC
  /\ Dispatching => pc = regs.PNEXT_PC

\* get_total_insn_count() is exact between blocks, delay slots and stepped
\* instructions included; a device that asks during a block misses just the
\* instructions of that block.
IcountExact ==
  state # "aborted" =>
    retired = IF Executing THEN (total_icount + idx - 1) % IcountWidth
              ELSE total_icount

\* An interrupt that stays asserted and is not masked is accepted, as long as
\* the guest runs: every loop the guest makes passes the end of a block.
IrqAccepted ==
  (state \in {"dispatch", "executing"} /\ irq_status /\ ~ regs.SR_IEE) ~>
    (regs.SR_IEE \/ ~ irq_status \/ state \in {"stopped", "aborted"})
=============================================================================
