----------------------------- MODULE LoadStore -----------------------------
(***************************************************************************)
(* Loads and stores of both targets, from the emitted code through the     *)
(* helper it calls to the memory of the test programs (dummy_mem). A byte  *)
(* has ByteBits bits and a word four bytes; a register of OpenRISC is a    *)
(* word and one of RISC-V two. An access finds its operands in rA and rB;  *)
(* which instructions follow each other is up to the guest.                *)
(***************************************************************************)
EXTENDS LlvmInt

CONSTANTS
  ByteBits,        \* bits of a byte: 8
  NWords,          \* words of memory
  ImmBits,         \* bits of an offset: 16 on OpenRISC, 12 on RISC-V
  LowBits,         \* bits of I11
  PutChar, Exit,   \* the devices, 0x60000004 and 0x60000008
  Images,          \* what memory may hold when the program starts
  Bases, Values,   \* what the guest has in rA and rB
  MaxAccesses,     \* bound: accesses of a behaviour
  None             \* no access yet

MemSize  == 4 * NWords
WordBits == 4 * ByteBits

\* 0xFFFFFFFF, which may be read without being there.
AllOnes == 2^WordBits - 1

ASSUME LoadStoreAssumption ==
  /\ ByteBits \in Nat \ {0} /\ NWords \in Nat \ {0}
  /\ LowBits \in 1 .. ImmBits /\ ImmBits \in 1 .. WordBits
  /\ {PutChar, Exit} \subseteq Nat /\ \A a \in {PutChar, Exit, AllOnes} : a >= MemSize
  /\ PutChar # Exit
  /\ Images \subseteq [0 .. NWords - 1 -> WordOf(WordBits)] /\ Bases \subseteq Nat

VARIABLES
  target,          \* "openrisc" or "riscv"
  tmp_mem,
  state,           \* "running", or how the process ended
  rD,              \* what the last access, if a load, loaded
  access,          \* the last access that did not end the process
  accesses         \* how many there were

vars == <<target, tmp_mem, state, rD, access, accesses>>

-----------------------------------------------------------------------------
(* The emitted code.                                                       *)

RegBits == IF target = "openrisc" THEN WordBits ELSE 2 * WordBits

Loads  == IF target = "openrisc" THEN {"lwz", "lbz", "lbs"}
          ELSE {"lb", "lbu", "lh", "lhu", "lw", "lwu", "ld"}
Stores == {"sb", "sh", "sw"} \cup IF target = "riscv" THEN {"sd"} ELSE {}

Bytes(op) == CASE op \in {"lbz", "lbs", "lb", "lbu", "sb"} -> 1
               [] op \in {"lh", "lhu", "sh"} -> 2
               [] op \in {"lwz", "lw", "lwu", "sw"} -> 4
               [] op \in {"ld", "sd"} -> 8

SignExtends(op) == op \in {"lbs", "lb", "lh", "lw"}

\* Variant: offsets are not negative.
Offset_zext(op, imm) == IF op = "lwz" THEN Trunc(imm, LowBits) ELSE imm

\* l.lwz takes its offset from I11.
Offset(op, imm) ==
  IF op = "lwz" THEN SExt(Trunc(imm, LowBits), LowBits, RegBits)
  ELSE SExt(imm, ImmBits, RegBits)

EA(op, base, imm) == Add(base, Offset(op, imm), RegBits)

\* gen_lw truncates what the helper returns; the instruction extends it.
Loaded(op, dat) ==
  LET n == Bytes(op) * ByteBits
      v == Trunc(dat, n)
  IN  IF SignExtends(op) THEN SExt(v, n, RegBits) ELSE v

-----------------------------------------------------------------------------
(* dummy_mem. Its words are the host's, which is little-endian.            *)

\* Instead of a value: the program ended by abort(), or it read past the end of
\* the vector and anything may follow.
Abort   == -1
Overrun == -2

swap_endian(v) ==
  LET u(k) == Trunc(LShr(v, k * ByteBits), ByteBits)
  IN  Shl(u(0), 3 * ByteBits, WordBits) + Shl(u(1), 2 * ByteBits, WordBits)
        + Shl(u(2), ByteBits, WordBits) + u(3)

\* Variant: words are kept as the guest has them.
Stored_host(v) == v

\* How a word of the guest is kept in tmp_mem, and back.
Stored(v) == IF target = "openrisc" THEN swap_endian(v) ELSE v

\* The halves of a word are found for the addresses 0 and 4 only, and of the
\* two words RISC-V reads it returns one, but reads the other, too.
mem_read(addr, size) ==
  IF addr >= MemSize THEN IF addr = AllOnes THEN 0 ELSE Abort
  ELSE LET v == tmp_mem[addr \div 4]
       IN  CASE size = 1 -> Trunc(LShr(v, (addr % 4) * ByteBits), ByteBits)
             [] size = 2 -> CASE addr = 0 -> LShr(v, 2 * ByteBits)
                              [] addr = 4 -> Trunc(v, 2 * ByteBits)
                              [] OTHER    -> Abort
             [] size = 4 -> Stored(v)
             [] size = 8 -> IF addr \div 4 + 1 < NWords THEN v ELSE Overrun

\* Variant: the byte's place is taken from the other end of the word.
WithByte_mirrored(v, k, val) ==
  (v & (AllOnes - Shl(2^ByteBits - 1, (3 - k) * ByteBits, WordBits)))
    | Shl(val, (3 - k) * ByteBits, WordBits)

\* Byte k of the word is replaced, and all of val put in from there up.
WithByte(v, k, val) ==
  (v & (AllOnes - Shl(2^ByteBits - 1, k * ByteBits, WordBits)))
    | Shl(val, k * ByteBits, WordBits)

Put(w, v) == tmp_mem' = [tmp_mem EXCEPT ![w] = v] /\ UNCHANGED state
End(how)  == state' = how /\ UNCHANGED tmp_mem

\* A double word, of RISC-V, at the last word is written past the end of the
\* vector, and anything may follow.
WriteBoth(w, val) ==
  LET low == [tmp_mem EXCEPT ![w] = Trunc(val, WordBits)]
  IN  \/ /\ w + 1 < NWords
         /\ tmp_mem' = [low EXCEPT ![w + 1] = LShr(val, WordBits)]
         /\ UNCHANGED state
      \/ w + 1 >= NWords /\ tmp_mem' = low /\ state' = "overrun"

mem_write(addr, size, val) ==
  LET w == addr \div 4
  IN  \/ /\ addr < MemSize
         /\ \/ size = 4 /\ Put(w, Stored(Trunc(val, WordBits)))
            \/ size = 1 /\ Put(w, WithByte(tmp_mem[w], addr % 4, val))
            \/ size = 2 /\ End("aborted")
            \/ size = 8 /\ WriteBoth(w, val)
      \/ addr = PutChar /\ UNCHANGED <<tmp_mem, state>>
      \/ addr = Exit /\ End("exited")
      \/ addr >= MemSize /\ addr \notin {PutChar, Exit} /\ End("aborted")

-----------------------------------------------------------------------------
(* The helpers find their function by its place in jcpu_ext_if's table.    *)

jcpu_ext_if == <<"mem_read", "mem_write", "mem_read_dbg", "mem_write_dbg">>

Slot(n) == jcpu_ext_if[n + 1]

helper_mem_read(addr, size) ==
  IF Slot(0) \in {"mem_read", "mem_read_dbg"} THEN mem_read(addr, size)
  ELSE Abort

helper_mem_write(addr, size, val) ==
  Slot(1) \in {"mem_write", "mem_write_dbg"} /\ mem_write(addr, size, val)

-----------------------------------------------------------------------------
Init ==
  /\ target \in {"openrisc", "riscv"}
  /\ tmp_mem \in Images
  /\ state = "running" /\ rD = None /\ access = None /\ accesses = 0

Accesses(op, base, imm, val) ==
  /\ state = "running" /\ accesses < MaxAccesses
  /\ accesses' = accesses + 1
  /\ access' = [op |-> op, base |-> base, imm |-> imm,
                addr |-> EA(op, base, imm), val |-> val]
  /\ UNCHANGED target

disas_insn_load(op, base, imm) ==
  LET dat == helper_mem_read(EA(op, base, imm), Bytes(op))
      Fails(how) == /\ state = "running" /\ accesses < MaxAccesses
                    /\ state' = how
                    /\ UNCHANGED <<target, tmp_mem, rD, access, accesses>>
  IN  \/ dat = Abort /\ Fails("aborted")
      \/ dat = Overrun /\ Fails("overrun")
      \/ /\ dat \notin {Abort, Overrun}
         /\ Accesses(op, base, imm, None)
         /\ rD' = Loaded(op, dat)
         /\ UNCHANGED <<tmp_mem, state>>

disas_insn_store(op, base, imm, val) ==
  /\ Accesses(op, base, imm, val)
  /\ helper_mem_write(EA(op, base, imm), Bytes(op), val)
  /\ rD' = None

Next ==
  \E base \in Bases, imm \in WordOf(ImmBits) :
    \/ \E op \in Loads : disas_insn_load(op, base, imm)
    \/ \E op \in Stores, val \in Values \cap WordOf(RegBits) :
         disas_insn_store(op, base, imm, val)

Spec == Init /\ [][Next]_vars

-----------------------------------------------------------------------------
(* Properties.                                                             *)

Byte(m, p) == Trunc(LShr(m[p \div 4], (p % 4) * ByteBits), ByteBits)

\* Byte k of a register of n bytes, in the order the target keeps them.
ByteOf(v, k, n) ==
  LET j == IF target = "openrisc" THEN n - 1 - k ELSE k
  IN  Trunc(LShr(v, j * ByteBits), ByteBits)

Aligned(op, addr) == Bytes(op) = 1 \/ addr % 4 = 0

\* A byte, or an aligned word, is loaded as the bytes memory holds, in the
\* target's order and extended as the mnemonic says; a half word is found at the
\* addresses 0, where it is the other half of the word, and 4, or not at all
\* (disas_insn_load, l.lwz, l.lbz and l.lbs over gen_lw and dummy_mem::mem_read).
LoadsBytes ==
  rD # None =>
    LET n == Bytes(access.op)
        at == access.addr
        from == IF n = 2 /\ at = 0 THEN 2 ELSE at
        top == Byte(tmp_mem, from + IF target = "openrisc" THEN 0 ELSE n - 1)
        negative == SignExtends(access.op) /\ top >= 2^(ByteBits - 1)
    IN  at < MemSize /\ n \in {1, 2, 4} /\ (n = 4 => at % 4 = 0) =>
          /\ n = 2 => at \in {0, 4}
          /\ \A k \in 0 .. n - 1 : ByteOf(rD, k, n) = Byte(tmp_mem, from + k)
          /\ LShr(rD, n * ByteBits) =
               IF negative THEN 2^(RegBits - n * ByteBits) - 1 ELSE 0

\* An aligned store puts the register's bytes at its address and changes no
\* other, but for a byte store of a register that holds more than a byte: it
\* sets bits in the bytes above, up to the end of the word (gen_sw passes the
\* whole register, dummy_mem::mem_write does not cut it).
StoresBytes ==
  [][ LET op == access'.op
          at == access'.addr
          n  == Bytes(op)
          spills == n = 1 /\ access'.val >= 2^ByteBits
      IN  accesses' # accesses /\ op \in Stores /\ at < MemSize
            /\ Aligned(op, at) /\ state' = "running" =>
          \A p \in 0 .. MemSize - 1 :
            LET old == Byte(tmp_mem, p)
                new == Byte(tmp_mem', p)
            IN  IF p \in at .. at + n - 1 THEN new = ByteOf(access'.val, p - at, n)
                ELSE \/ new = old
                     \/ /\ spills /\ p > at /\ p \div 4 = at \div 4
                        /\ new = (old | new)
    ]_vars

\* Whether a load of register width gives back a register stored before.
Survives(op, val) ==
  CASE op = "lwz" -> TRUE
    [] op = "lw"  -> val = SExt(Trunc(val, WordBits), WordBits, RegBits)
    [] op \in {"lwu", "ld"} -> val < 2^WordBits

\* A register stored and loaded again with the same base and offset comes back
\* exactly when it survives; but l.lwz finds the word l.sw wrote only if the
\* offset fits I11.
SpillReload ==
  [][ LET op == access'.op
      IN  /\ access # None /\ accesses' # accesses /\ rD = None /\ rD' # None
          /\ access.op \in {"sw", "sd"} /\ Bytes(access.op) = Bytes(op)
          /\ access.base = access'.base /\ access.imm = access'.imm
          /\ access.addr < MemSize
          => LET fits == op = "lwz" => IntOf(access.imm, ImmBits)
                                        \in -(2^(LowBits - 1)) .. 2^(LowBits - 1) - 1
             IN  /\ fits = (access.addr = access'.addr)
                 /\ fits => (rD' = access.val) = Survives(op, access.val)
    ]_vars
=============================================================================
