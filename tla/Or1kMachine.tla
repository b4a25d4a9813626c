---------------------------- MODULE Or1kMachine ----------------------------
(***************************************************************************)
(* What the virtual machine promises the guest and the debugger: an        *)
(* OpenRISC that executes one instruction at a time, with no blocks and no *)
(* translation. Its freedoms are those the translator takes: a word may be *)
(* executed as it was at some moment since the last invalidation, an       *)
(* interrupt may be accepted late, though only between instructions, and   *)
(* the machine may die (it aborts on what it cannot translate).            *)
(***************************************************************************)
EXTENDS OpenriscInsn

CONSTANTS ResetPc, IrqVector, Programs, StoredWord, BreakAddrs

VARIABLES
  mem,       \* guest memory
  held,      \* the words an address may be executed as
  cpu,       \* the registers but the program counter
  npc,       \* address of the next instruction
  slot,      \* in a delay slot, where the jump goes; Null elsewhere
  link,      \* in the slot of l.jalr, the address it has yet to put in LR
  mode,      \* "stopped", "running", "stepping", "stepped" or "dead"
  bps,       \* breakpoints
  irq        \* level of the interrupt line

vars == <<mem, held, cpu, npc, slot, link, mode, bps, irq>>

\* The registers an instruction at npc works on, and back.
WithPc(c) == [PC |-> npc, PNEXT_PC |-> npc, EPCR0 |-> c.EPCR0,
              SR_IEE |-> c.SR_IEE, SR_F |-> c.SR_F, LR |-> c.LR, GR |-> c.GR]
Core(r) == [EPCR0 |-> r.EPCR0, SR_IEE |-> r.SR_IEE, SR_F |-> r.SR_F,
            LR |-> r.LR, GR |-> r.GR]

\* The call instructions: l.jal links before its delay slot; l.jalr leaves
\* LR to the slot as it was, and links over whatever the slot left there.
Linked(i, c) ==
  CASE i.op = "jal"  -> [c EXCEPT !.LR = ReturnPc(npc)]
    [] i.op = "jalr" -> [c EXCEPT !.LR = cpu.LR]
    [] OTHER         -> IF link # Null THEN [c EXCEPT !.LR = link] ELSE c

Current == held' = [a \in Addr |-> {mem[a]}]

Init ==
  /\ mem \in Programs
  /\ held = [a \in Addr |-> {mem[a]}]
  /\ cpu = [EPCR0 |-> 0, SR_IEE |-> FALSE, SR_F |-> FALSE, LR |-> 0, GR |-> 0]
  /\ npc = ResetPc
  /\ slot = Null /\ link = Null
  /\ mode = "stopped"
  /\ bps = {}
  /\ irq = FALSE

-----------------------------------------------------------------------------
Continue ==
  /\ mode = "stopped"
  /\ mode' = "running"
  /\ UNCHANGED <<mem, held, cpu, npc, slot, link, bps, irq>>

\* An interrupt is accepted between two instructions, if it is not masked.
Accept ==
  /\ irq /\ ~ cpu.SR_IEE
  /\ cpu' = [cpu EXCEPT !.EPCR0 = npc, !.SR_IEE = TRUE]
  /\ npc' = IrqVector

AcceptIrq ==
  /\ mode = "running"
  /\ slot = Null
  /\ Accept
  /\ UNCHANGED <<mem, held, slot, link, mode, bps, irq>>

\* A step accepts the interrupt first, and sees memory as it is now.
Step ==
  /\ mode = "stopped"
  /\ Accept \/ (~ (irq /\ ~ cpu.SR_IEE) /\ UNCHANGED <<cpu, npc>>)
  /\ npc' \notin bps
  /\ mode' = "stepping"
  /\ Current
  /\ UNCHANGED <<mem, slot, link, bps, irq>>

Break ==
  /\ mode = "running" /\ slot = Null
  /\ npc \in bps
  /\ mode' = "stopped"
  /\ UNCHANGED <<mem, held, cpu, npc, slot, link, bps, irq>>

Stepped ==
  /\ mode = "stepped"
  /\ mode' = "stopped"
  /\ UNCHANGED <<mem, held, cpu, npc, slot, link, bps, irq>>

SetBreakPoint(a) ==
  /\ mode = "stopped"
  /\ bps' = bps \cup {a}
  /\ Current
  /\ UNCHANGED <<mem, cpu, npc, slot, link, mode, irq>>

UnsetBreakPoint(a) ==
  /\ mode = "stopped"
  /\ bps' = bps \ {a}
  /\ UNCHANGED <<mem, held, cpu, npc, slot, link, mode, irq>>

-----------------------------------------------------------------------------
\* The effect of instruction i on everything but the flow of control.
Perform(i) ==
  /\ cpu' = Linked(i, Core(Execute(i, npc, WithPc(cpu))))
  /\ IF i.op = "sw"
     THEN /\ mem' = [mem EXCEPT ![i.k] = StoredWord]
          /\ held' = [held EXCEPT ![i.k] = @ \cup {StoredWord}]
     ELSE UNCHANGED <<mem, held>>
  /\ UNCHANGED <<bps, irq>>

Done == mode' = IF mode = "stepping" THEN "stepped" ELSE mode

\* An instruction at an address without a breakpoint.
Instruction ==
  /\ mode \in {"running", "stepping"}
  /\ slot = Null
  /\ npc \notin bps
  /\ \E i \in held[npc] :
       /\ ~ Unsupported(i)
       /\ Perform(i)
       /\ LET target == Execute(i, npc, WithPc(cpu)).PNEXT_PC IN
          IF IsJump(i)
          THEN /\ npc' = Wrap(npc + 1) /\ slot' = target
               /\ link' = IF i.op = "jalr" THEN ReturnPc(npc) ELSE Null
               /\ UNCHANGED mode
          ELSE /\ npc' = IF i.op = "rfe" THEN target ELSE Wrap(npc + 1)
               /\ UNCHANGED <<slot, link>>
               /\ Done

\* The instruction after a jump, breakpoint or not, then the jump's target.
DelaySlot ==
  /\ mode \in {"running", "stepping"}
  /\ slot # Null
  /\ \E i \in held[npc] : IsPlain(i) /\ Perform(i)
  /\ npc' = slot
  /\ slot' = Null /\ link' = Null
  /\ Done

Device ==
  /\ mode # "dead"
  /\ irq' \in BOOLEAN
  /\ UNCHANGED <<mem, held, cpu, npc, slot, link, mode, bps>>

\* abort(); the dying machine may still store and be interrupted.
Die ==
  /\ mode' = "dead"
  /\ cpu' = Null /\ npc' = Null /\ slot' = Null /\ link' = Null
  /\ UNCHANGED bps

-----------------------------------------------------------------------------
Next ==
  \/ Continue \/ AcceptIrq \/ Step \/ Break \/ Stepped
  \/ \E a \in BreakAddrs : SetBreakPoint(a) \/ UnsetBreakPoint(a)
  \/ Instruction \/ DelaySlot
  \/ Device \/ Die

Spec == Init /\ [][Next]_vars
=============================================================================
