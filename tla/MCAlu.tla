------------------------------- MODULE MCAlu -------------------------------
(***************************************************************************)
(* The arithmetic of both targets: the virtual machine is one or the       *)
(* other. OpenRISC's words have Width bits, all of them tried; RISC-V's    *)
(* have XLEN, and the values around its boundaries are.                    *)
(***************************************************************************)
EXTENDS OpenriscAlu, RiscvAlu

RvSamples   == {1, XLEN, 2^(XLEN \div 2 - 1), 2^(XLEN - 1), 2^XLEN - 1}
RvPcSamples == {0, 2^XLEN - 4}

VARIABLE target

MCInit ==
  /\ target \in {"openrisc", "riscv"}
  /\ IF target = "openrisc"
     THEN /\ Init
          /\ rs1 = 0 /\ rs2 = 0 /\ pc = 0
          /\ insn = NoInsn /\ rd = None /\ pnext_pc = None
     ELSE /\ RvInit
          /\ gr = [r \in 0 .. 2 |-> 0] /\ sr = 0 /\ trapped = FALSE

MCNext ==
  /\ UNCHANGED target
  /\ \/ target = "openrisc" /\ Next /\ UNCHANGED rv_vars
     \/ target = "riscv" /\ RvNext /\ UNCHANGED vars

MCSpec == MCInit /\ [][MCNext]_<<vars, target, rv_vars>>
=============================================================================
