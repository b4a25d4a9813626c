# JCPU in TLA+

JCPU executes guest code of an OpenRISC or RISC-V processor. It translates it,
one basic block at a time, to native code through LLVM, keeps the blocks in a
cache, and lets a GDB client stop, step and inspect the guest over TCP. This
directory holds its specification: TLA+ modules translated from the source,
configurations for TLC, and theorems checked by TLAPS. File names without a
directory are relative to `src/`; `OR` is `src/target-openrisc/jcpu_openrisc.cpp`,
`RV` is `src/target-riscv/jcpu_riscv.cpp`, `VM` is `src/jcpu_vm.h` and `GDB` is
`src/gdbserver.cpp`.

## The system

| part | state | operations |
|------|-------|------------|
| virtual machine (OR, RV) | guest registers (an array the generated code works on), `irq_status`, `total_icount` | `run`, `step_exec`, `disas`, `disas_insn`, `interrupt`, `reset` |
| block cache (`bb_manager`, VM 102-139) | translated blocks by start and by end address | `add`, find, `invalidate`, which drops everything |
| breakpoints (`bp_manager`, VM 142-170) | breakpoints by address | `add`, `remove`, `find_nearest` |
| register cache (`general_reg_cache`, VM 29-58) | per register: the latest LLVM value, and whether it must be written back | `get`, `set`, `flush_and_clear`, `clear` |
| GDB server (GDB) | the stream, the message being parsed or built | command loop of `wait_and_run`, packet codec, retry of ports |
| front end (`jcpu.cpp`, classes `openrisc`, `riscv`) | the VM, created at the first `run` | `run`, `interrupt`, `reset`, `get_total_insn_count` |
| code emission (`jcpu_vm.cpp`, `jcpu_vm_helpers.cpp`) | none of its own | `get_reg`, `set_reg`, memory access as LLVM functions |

How they interact. The program calls `run` of the front end, which either runs
the VM or hands it to the GDB server. The server reads a packet, calls the VM
through `gdb_target_if` (`run_continue`, `set_unset_break_point`,
`get_reg_value`, `read_mem_dbg`), waits for it to return and answers. `run`
looks for a breakpoint at the program counter, finds or translates the block
there, and calls it; the generated code reads and writes the register array and
calls the program's memory (`jcpu_ext_if`), from which a device may call
`interrupt` back while the block is half executed. Only after the block has
returned does `run` look at `irq_status`.

What is hard, and what should hold:

* *Blocks and memory.* A store into translated code does not invalidate it. So
  what executes is not what memory holds, and the promise is weaker: words
  memory held since the last `invalidate`, and memory itself in a single step.
* *Blocks and breakpoints.* A block is cut at the nearest breakpoint when it is
  translated; later breakpoints are honoured only because setting one drops the
  whole cache. No instruction with a breakpoint on it may execute.
* *Two program counters.* The debugger reads and `run` starts from `REG_PC`, the
  code starts from `REG_PNEXT_PC`, `run` has a local `pc` besides. They have to
  agree whenever control passes from one to another.
* *Interrupts* arrive at any moment and are accepted between blocks; one that
  stays asserted must be accepted, and its handler must be what runs next.
* *Delay slots* belong to the jump before them: in a step, in the instruction
  count, at a breakpoint, at the end of the address space.
* *Partial failure.* A word that cannot be translated ends the process, after
  the code in front of it has run.
* *The session.* The client's beliefs (breakpoints, program counter, that its
  command has arrived) have to be true of a target it hears of only through
  ordered packets, one of which may take for ever to answer.
* *The wire.* Characters are damaged or lost, the stream ends in the middle of a
  packet, ports are taken. The server computes checksums and looks at none.
* *Calls in any order.* The VM exists from the first `run` on; what devices and the
  application ask of it before that must be dropped without harm.
* *Bits.* Every immediate, shift amount, extension and byte lane is written down by hand
  for some sixty instructions, and is right or wrong at boundaries only.

`PROJECT.json` lists these hazards, each at its line, with the properties that
cover it, or why none does.

## Modules

| module | models | kind |
|--------|--------|------|
| `OpenriscInsn` | control-flow instructions, `disas_insn`, `disas`, `end_func` | constants |
| `OpenriscVm` | `run`, `step_exec`, cache, breakpoints, interrupts | state machine |
| `Or1kMachine` | what `OpenriscVm` promises: one instruction at a time | abstract specification |
| `OpenriscVmRefinement` | the mapping from the one to the other | refinement |
| `GdbSession` | client, connection and command loop, composed with `OpenriscVm` | composition |
| `RegCache`, `RegFile` | the register cache, and the register file it promises | state machine, abstract specification |
| `RiscvVm` | the RISC-V machine | state machine |
| `OpenriscAlu`, `Or1kArith` | emitted OpenRISC arithmetic over small words, and what the mnemonics mean | state machine, reference definitions |
| `RiscvAlu`, `RiscvArith`, `RiscvWidth` | the same for RISC-V, and the targets of its jumps | state machine, reference definitions |
| `Words`, `LlvmInt` | words of some bits; the integer operations `ir_builder_wrapper` builds | operators |
| `LoadStore` | loads and stores from the emitted code to the bytes of memory, both targets | state machine |
| `GdbTransport` | framing, escapes, checksums, faults of the line | actions and operators of `FrontEnd` |
| `FrontEnd` | the classes `openrisc` and `riscv`, the retry of ports, and a session on top of `GdbTransport` | state machine |
| `MC*` | guests, samples and bounds for TLC; `MCAlu` runs both ALUs | instances |
| `*_proofs` | theorems; `Words_proofs` the lemmas about numbers and bits they share | proofs |

Operators named `X_something` in front of `X` are variants of `X`: slips the code
could contain. No module uses them; putting one in place of `X` breaks the
property it is paired with in `PROJECT.json`, which shows that the property
depends on that line of code.

### OpenriscInsn and OpenriscVm

An address is the number of a word, and a word of memory is the instruction it
decodes to. All jumps with delay slots are there (`l.j`, `l.jal`, `l.bf`, `l.bnf`,
`l.jr`, `l.jalr`) and `l.rfe`; of the plain instructions, one that sets a
register, one that computes, one that reads the link register and one that writes it, one
that sets the flag, one that stores and one that does nothing. `unsupported` is any word
on which an assertion fails at translation time. Addresses wrap as 32-bit ones do (`Wrap`).

`l.jal` links before its delay slot (OR 562), `l.jalr` after it (OR 622-627). A slot of
`l.jalr` that reads LR finds the old one, and what it writes there is lost: guests with
such slots are among the instances. A scan that finds no end of its block goes on at
address 0. If a word there ends the block, `start_pc <= end_pc` fails (OR 263) before anything
runs (`DisasCrashes`); if a word there cannot be translated, what was emitted in front of it
runs first.

| state | code |
|-------|------|
| `mem` | the program's memory behind `jcpu_ext_if` |
| `regs` | the `regs` array of the generated code |
| `shadow` | registers as the code of the running block has them in its cache |
| `bb_by_start`, `bps_by_addr`, `irq_status`, `total_icount` | members of the same names |
| `state`, `is_step`, `pc`, `bb`, `idx` | where `run` or `step_exec` is: their locals, and the next instruction of the block |
| `held`, `retired`, `accepted` | history, for properties |

`Continue`, `Step`, `SetBreakPoint` and `UnsetBreakPoint` are calls by the
debugger. `HitBreakPoint`, `RunCached` and `RunTranslated` are the three ways
through the head of `run`'s loop; `ExecInsn` executes one guest instruction;
`FinishBlock` is the return of a block with the write-back of registers, the
instruction count and the interrupt check; `FinishAborting` is the end of a block
cut short by a word that cannot be translated. `interrupt` may come between any
two of these. `disas` gives a block as its list of instructions with their
addresses, delay slots in place, and the fall-through address.

`Or1kMachine` has no blocks and no cache. It executes the instruction at `npc`, or
the one in a delay slot, from the words that address has *held* since the last
invalidation, accepts an interrupt between any two instructions, and may die.
These three are its only freedoms. In the slot of `l.jalr` it keeps the address it has yet
to link (`link`). `OpenriscVmRefinement` maps a VM in the middle
of a block to the machine at the block's next instruction.

### GdbSession

The two directions of the TCP connection are sequences of packets,
acknowledgements and an end of stream. The server's actions follow
`wait_and_run`: it reads the next element, calls the VM, and sends `+`, the
reply and another `+` when the call has returned. Packets answered with a
constant are one packet `q`; those that only read the target are `g`, and `bad` is a
packet without its tokens or a `p` of a register that is not there, which end the process. The
client is modelled by what the server relies on: one packet at a time, waits
for an acknowledgement, then for the reply, removes only breakpoints it set, may
press Ctrl-C or hang up. What becomes of a packet's characters is `GdbTransport`'s.

### RegCache

One general register, `GR00`, `PC` and `PNEXT_PC` are enough to have all the code
distinguishes. Emitting an instruction and executing it is one step, because which registers are
cached and which are dirty does not depend on the values. `RegFile` writes at
once; the mapping reads the cache where it has a value and the file elsewhere.

### RiscvVm

The engine again, without delay slots and without interrupts (the line is
stored, nothing reads it). Addresses count 16-bit parcels because jumps may go
to any even address: an instruction can then be entered in its middle, and
`Decode` says what two parcels make. That `jalr` may also go to an odd address cannot be said
in parcels; `LeadsThere` of `RiscvAlu` says it of bytes.

### OpenriscAlu

Two source registers, SR and every computing instruction, over words of
`Width` bits with half- and quarter-width immediates and extensions. The operators
follow the LLVM calls (`SExt`, `AShr`, `Trunc`, `gen_set_sr`, the double-width overflow check);
`Or1kArith` says the same with integers and sets of bits. SR is its four bits in
use, in their order. A rotation by zero is a shift by the register's width
and a division by zero is undefined in LLVM: any result, or the death of the
process.

### RiscvAlu

The operations on registers (`disas_insn_load_imm`, `_integer_imm`, `_integer_reg`,
`_64bit_integer`), and the branches and jumps with the program counter they leave.
One instruction is one step, from the registers and the address it finds. The
destination holds a word, or one of three things that are no word: an assertion of
the translator failed, LLVM leaves the result undefined, or the value has one bit.
`RiscvArith` says what RV64I's mnemonics mean. `Sound` names the operands for which
the two agree, and `SoundExactly` claims that they differ on all others: `slti`, `sltiu`
and `addiw` with a negative immediate (zero-extended), `slt` and `sltu` (one bit), `srai`
(keeps bit 10 in its amount) and shifts of 32 and more (an assertion). A repair of
the code makes the property fail just as a new slip does.

### LoadStore

One access: its effective address, the helper found by its place in the table of
`jcpu_ext_if`, the test program's memory with its two devices, and the truncation
and extension of what comes back. A word of memory is the host's; OpenRISC words are swapped on
the way, RISC-V's are not. An access may end the process (an address that is no
memory; a half word, which OpenRISC reads only at 0 and 4 and neither writes), or
write or read past the end of the vector (`sd` and `ld` at the last word).

### GdbTransport and FrontEnd

`GdbTransport` is the server's side of a byte stream, one character a step:
`ReceiveIdle`, `ReceiveBody`, `ReceiveDigit` and `ReceiveEof` are the states of `gdb_rcv_msg`,
`Serve` the turn of `wait_and_run`'s loop that carries a message out and writes a
reply, which for `c` is the moment `run_continue` returns (`Running` until then), `Garbled` and `Unsupported` the assertions that end the process. The client
sends packets of `Payloads`, and the line does at most one thing to them: it damages a
character, loses one, or ends. What a command does is left to `GdbSession`.

`FrontEnd` has the calls of an application (`set_ext_interface`, `run`, `reset`,
`interrupt`, `get_total_insn_count`) and the thread in `run`: it makes and
resets the VM the first time, then stays in the VM or tries one port after another,
accepts a client and serves it. `reset` and `interrupt` may come at any time, from
devices and other threads. Of the VM there is only whether it exists and its
`irq_status`. Calls the code does not guard (no VM, no interface) are undefined
behaviour and end the behaviour.

## Runs

| run | question | instance | result |
|-----|----------|----------|--------|
| `vm_safety` | is the VM an OpenRISC? | 13 guests of 7 words, 3 breakpoints, count modulo 4 | holds |
| `vm_liveness` | is an interrupt accepted? | 2 guests, 1 breakpoint | holds |
| `vector_breakpoint` | also with a breakpoint on the vector? | breakpoints at 2 and the vector | **violated** |
| `gdb_session` | does the client see the truth? | 2 guests of 5 words, 2 breakpoints | holds |
| `two_breakpoint_types` | also with two types of breakpoint? | types 0 and 1 | **violated** |
| `reg_cache` | is the cache invisible? | 4 registers, 3 values | holds |
| `riscv` | does control follow the program? | 4 guests of 8 parcels, breakpoints at even parcels | holds |
| `alu` | do the instructions compute what they say? | all words of 4 bits; RISC-V: 5 boundary values of 16 bits, immediates of 6 | holds, with exceptions |
| `load_store` | do bytes keep their place and order? | bytes of 1 bit, 2 words, 4 bases, 8 offsets, 2 accesses | holds, with exceptions |
| `front_end` | what of an application's and a client's calls reaches the VM? | 2 ports, up to 2 packets of 3, one fault | holds |
| `alu_flags` | are carry and overflow as commented? | the same | **violated** |
| `alu_divu` | does `l.divu` divide by rB? | the same | **violated** |

The guests are chosen to reach the cases named above: stores over the block that
is executing, over a cached one and over the interrupt handler; a store that
puts a jump into a delay slot; a call and its return; a jump in the last
word with its delay slot in word 0; a scan that passes the last word; direct and indirect
calls whose delay slots read or write LR; an unsupported word. Seven words
hold two blocks and a handler, and a third breakpoint is the first that is
neither the nearest nor the one behind it. The count wraps (modulo 4, 3) so
that only its difference to the number of executed instructions matters. Device
and debugger are unconstrained, so every interleaving with them is explored.
Four-bit words have every case of sign, carry, shift amount and
extension; all pairs are explored. RISC-V's instructions split into 16-bit and
32-bit halves, so that its words have 16 bits, and its immediates the least that a shift
amount of a register, the bit for arithmetic and one more fit in, that is 6; registers hold one, the width, the
sign bits of both halves and all ones. A byte of one bit is enough to see where a byte
goes and whether it is extended; a register of OpenRISC has four, one of RISC-V eight.
Two accesses are a store and a load of it. Two ports are the first one and the
last; two packets are the least with an acknowledgement between them, and their
texts are a command of one token, one of two, and one with a character to escape. The
damaged character becomes any that means something to the receiver, or one that means
nothing. Deadlock is not checked where the process may end (`abort`, a trap, undefined
behaviour), where a bound on steps is reached (`load_store`, and the ALUs, where one
instruction of RISC-V is a behaviour), and in `front_end`, where a client may never
come.

What the violated runs show:

* `vector_breakpoint`: accepting an interrupt sets `REG_PNEXT_PC` and `run`'s local
  `pc` to the vector (OR 804-809) but not `REG_PC`. With a breakpoint on the vector
  the loop returns before a block starts, and the next `run` starts from
  `REG_PC`, in the interrupted code, with interrupts masked: the handler is skipped.
* `two_breakpoint_types`: `Z0` and `Z1` at one address are one breakpoint; after `z0`
  the assertion in `bp_manager::remove` (VM 157) fails on `z1`.
* `alu_flags`: `gen_arith_code_with_ovf_check` (OR 709-725) sets SR[CY] and SR[OV] when
  bits 31 and 32 of the wide result are *equal*, that is when there is no
  overflow, while the comment at OR 282 says carry and overflow.
* `alu_divu`: both operands of `l.divu` (OR 399-400) are rA.

`alu` excepts `l.divu`, `l.mulu` (the same slip at OR 408), `l.exthz` (truncates to 8
bits, OR 349) and `l.addc`. Of the last `CarryInIsZeroOrThree` says what it
does: it adds all of SR from CY up, and since the overflow check leaves CY and
OV equal, the carry it adds is 0 or 3.

`SoundExactly` excepts what the section on `RiscvAlu` lists. The exceptions of
`load_store`: a byte store of a register that holds more than a byte sets bits in the
bytes above, since `gen_sw` passes the whole register and `dummy_mem` does not cut it;
`ld` gives back the low word of what `sd` wrote, because the read returns one of
the two words it has; and `l.lwz` takes its offset from `I11` (OR 632), while the comment on
the same line gives `sext(I)` and `l.sw` uses all 16 bits, so that a word stored beyond
the reach of 11 bits is not found again. `front_end` shows what faults of the line
cost: one damaged or lost character makes the server carry out at most one command
that was not sent. `check_csum`, that nobody calls, would have rejected it wherever a sum
can tell (`Weighs`), together with every packet that has an escaped character (its sum is
taken after unescaping). A sum cannot tell when the fault moves the end of the packet: with
its `?` damaged to `#`, the text `c?63` arrives as `c` with the digits `63`, which are its sum.

`BreakpointHonoured` of `RiscvVm` holds for breakpoints of one parity. With
breakpoints at parcels 3 and 4 (`MixedBreaks`) it fails: `find_nearest` gives 3, the
scan visits 0, 2, 4 and does not meet it, and the one at 4 is executed over. That of
`OpenriscVm` excepts a block whose scan went past address 0, where it knows of no breakpoint,
and met a word it cannot translate: it executes over breakpoints, and ends the process.

## Fairness

`Spec` of `OpenriscVm` has `WF_vars(Engine)` and nothing else: a call of `run` or
`step_exec` is a loop in a thread that keeps executing, while nothing obliges
debugger or device to act. `IrqAccepted` needs only that; it holds because
every loop of a guest passes the end of a block. `SessionSpec` adds weak fairness
of the server's loop and of a client that reads while it waits for a reply; that
the user types anything is not assumed. `Answered` does not promise the reply to
`c`: a guest need not stop. `Spec` of `FrontEnd` has `WF_vars(Server)`, the thread inside
`run`; nobody is obliged to call `run`, a port to be free or a client to
come. Nor is `run_continue(false)` obliged to return: `ContinueReturns` is an action of
its own without fairness, and packets behind a `c` wait in the socket for as long as the target
runs. `Serves` says that the loop over the ports ends, and that a session whose packets
arrive whole carries all of them out, unless a `c` has not returned or the process ends.

## Theorems

Each proof module proves its results for all values of the constants under the
`ASSUME` of the module it extends (addresses form an initial segment of the
naturals, the vector is an address, and the like).

`OpenriscVm_proofs`. `TypeOK` is not inductive, since nothing in it says that cached
blocks are any good. `IInv` adds `GoodBlocks`, of every block cached or executing:
it is well formed, its addresses are consecutive with delay slots in place, no
head of it carries a breakpoint, its words were held; and `HeldNow`, that memory
is among what it held. A scan stops at the nearest breakpoint, so a new block
has none on a head; setting a breakpoint drops all blocks; removing one only
helps; a store adds to `held`. From it follow `TypeCorrect`, `BreakpointsHonoured`,
`CodeFromMemory` and `StepsRunMemory`. `Resumption` and `HandlersEntered` need
another invariant, `RInv`, and the assumption that no breakpoint can be on
the interrupt vector: `vector_breakpoint` shows it is needed. `CountsExactly` says that
`total_icount` and the number of executed instructions differ by the part of the
block that has been executed, whatever the bound they wrap at; a block adds its
length when it returns, an instruction adds one, and `Words_proofs` has what this needs
of remainders (`RemainderUnique`, `ModSuccessor`).

Its second half is the refinement: `VmImplementsMachine` proves `ImplementsOr1k`: a VM that
translates blocks, caches them and takes interrupts between them is a machine that
executes one instruction at a time. `Shown` reads the refinement mapping in each state of the
VM, and one lemma per action (`RunSimulated`, `ExecSimulated`, ..., `StepSimulated`) shows that
it is a step of the machine or leaves it alone. `IInv` and `RInv` say where blocks come from,
but not where they end, and a block that ended in the middle of a jump would lose its
delay slot, and the link of `l.jalr` with it, when its successor is looked up. So a third invariant, `CutInv`, says
that every block is a run of plain instructions that ends in a jump and its delay slot, in
`l.rfe`, or by falling through (`WellCut`), and that a step is one instruction with its delay
slot if it has one (`OneInsn`). The assumption that no breakpoint can be
on the interrupt vector is `RInv`'s.

`GdbSession_proofs`. Every step of a session is a step of the VM or leaves it
alone, so `SessionSpec => Spec`, and what is proved of the VM under any
debugger holds under the server (`SessionHonoursBreakpoints`). The invariants that speak of the
connection follow from `SessionInvariance`. Its `SInv` says what can be on the wire: an
idle client and empty channels up to acknowledgements (`WireIdle`); one packet the
server has not read (`WireUnread`); a packet being served and nothing sent yet
(`WireServing`); a reply the client has not read, between its acknowledgements
(`WireReplied`); and in each of them whose picture of the breakpoints and of the program
counter is the current one. An action of the client or of the server moves from
one of the four to the next. `SessionTypes`, `RunsAcknowledged` and `ViewsCurrent` need
nothing more. `BreakPointsAgreed` and `RemovalsFind` assume that the client uses one type
of breakpoint (`OneBreakType`; `two_breakpoint_types` shows what happens otherwise), `RunsMove`
also that none is on the interrupt vector.

`RegCache_proofs`. The invariant (a dirty register has a value; a clean cached value
is the file's; nothing is cached between blocks) and, step by step, the
refinement of `RegFile`.

`RiscvVm_proofs`. `Invariance`, then `TypeCorrect`, `ProgramFollowed` and, assuming
breakpoints of one parity (`SameParity`), `BreakpointsHonoured`. `FollowsProgram`
becomes inductive with `PcAgrees` (where the generated code starts is
where `run` believes it starts) and `GoodBlocks` (a block's fall-through address is
the one behind its last instruction, or it ends in a jump). `CountsExactly` as above; a
block carries the number it adds, so that the invariant also says what that number
is (`CountAgrees`).

`FrontEnd_proofs`. `Invariance` for every number of ports, every set of commands,
packets and faults; from it `TypeCorrect`, `LineFollowed` (the interrupt the VM has is the
line's, unless the VM was not there or was reset when the device spoke) and
`GivesUpRightly` (`run` gives up only after every port was refused).

Its second half is the session of `FrontEnd`, for packets of any number, length and
content and every fault. A packet that arrives whole is read as it was written: `Body`
escapes, `ReceiveBody` unescapes, and the server must not lose its place in between.
`Sent` and `Body` are folds, and no induction over data is to be had from the library; in its
place stands the least-number principle (`LeastNat` of `Words_proofs`): were there an
offset at which a claim fails, there would be a least one. From it come what is left of a
stream behind each packet (`StreamLeft`, `BodyLeft`) and the sums of texts
(`SumsExist`, `Sum8Last`, `SumAppend`). So what is left to read is always one of six places
of the stream that was sent: between two packets (`Behind`), in a body
(`AtBody`), behind an escape (`AtEscaped`), at the frame's start (`AtOpen`) or at a digit of
its sum (`AtHigh`, `AtLow`); and the state of `gdb_rcv_msg` and what it has collected are
determined by the place (`Following`). `SessionInv` is the invariant. It says in
which of five ways a session stands: the fault is still to come (`Whole`); the stream
ended and what arrived of a packet is still to be carried out (`Ended`) or has been
(`Partial`); the fault is behind and the server reads off its place (`Astray`); it is back
in its place, with at most one command behind it that was not sent (`Recovered`). From `SessionInvariance` follow `ExecutesRightly` and
`RepliesVerify` (no reply has a character to be escaped: `TransportAssumption`).
`ChecksTell` needs one more invariant, `Tells`: where a sum can tell, a packet that was hit
either is being read with a text and the rest of a sum that disagree, or has been read with a
sum that is wrong (`Told`, of `Misread` and `WrongSum`); one character more, less or other
changes a sum modulo 256 unless it weighs nothing (`SumsDiffer`).

`Words_proofs`. What arithmetic on bit patterns needs, for every width. The prover knows
nothing of powers, so `Powers` derives `2^(m+n) = 2^m * 2^n` and the rest from the number of
subsets of a set (`FS_SUBSET`) and the least-number principle. `BitOf` is the bit of any integer,
negative ones in infinite two's complement, and each LLVM operator is described by
the bits it leaves: quotients and multiples shift (`BitOfQuotient`, `BitOfMultiple`),
remainders cut (`BitOfRemainder`), `IntOf` repeats the last bit (`BitOfInt`), `2^n - 1 - x`
complements (`BitOfComplement`). `Bitwise`, a recursive function, is shown to exist
(`DigitsExist`) and to have the bits its table says (`BitOfBitwise`). Two words with
the same bits are the same (`BitsDetermine`), which turns equations between words into
equations between sets of bits (`LogicSets`, `ShiftedSets`, `ExtensionBits`).

`Alu_proofs`. The words of `OpenriscAlu` have any number of bits that is a power of two
(`ArithAssumption`: the code takes a shift amount with the mask `Width - 1`). `IInv` is
`TypeOK` and CY = OV, which the overflow check leaves equal and which
`CarryIn` needs. `ResultsMean`, `FlagsCompare` and `BranchesSelect` are statements about the last
instruction; the operand values it used are in the state, so each operation is a lemma
about all words. Quotients round to zero: `SDivRemainder` and `QuotientUnique` say that no other
number leaves such a remainder.

The registers of `RiscvAlu`, in its second half, have any number of bits from 16 that is a power of two,
and an I-immediate any number that holds the amount of a shift with two bits above it and is less
than a word's (`WidthAssumption`). RV64I, with registers of 64 and immediates of 12 bits, is an
instance; the one TLC checks has 16 and 6. `RvIInv` says that what an
instruction left is what was emitted for it, of the operands the state still holds (`Ran`).
`ComputesExactly` is an equivalence and needs both directions: each sound operand gives the
mnemonic's result, and every other gives something else, by `NotCongruent` (the missing sign
extension is off by less than the register's size), `AmountTooLarge` (the bit that
says arithmetic, left in the amount, makes it at least the width) or because what is left is no
word. `JumpsLead` is `BranchesLead`, `JalLeads` and `JalrLeads`.

`LoadStore_proofs`. A byte has any number of bits, memory any number of words, an offset any
number of bits up to a word's. `IInv` says that memory holds words, that a load left in
`rD` what memory still gives, and that a stored word is in memory. A byte of a number is
`Field`, and each thing the code does to a number is described by where it leaves the
bytes: `Trunc` and `LShr` (`FieldOfTrunc`, `FieldOfShift`), `swap_endian`, which takes them in the
other order (`Swapped`, hence `SwappedTwice`), the extensions (`LoadedParts`) and the masks of a
byte store (`ReplacedFields`, which says what a register with more than a byte spills). So
`LoadsRight` and `StoresRight` compare bytes, not words. `Reloads` is an equivalence in both of
its parts: an offset and its low bits stand for the same integer exactly if it fits them
(`FitsLow`), and different ones lead to different addresses (`AddressesMeet`).

Checked by TLC only: `IrqAccepted`, `Answered` and `Serves` (liveness is out of the
prover's reach).

## Not modelled

* The structure of the generated code: LLVM types and declarations, the JIT, `dump_regs`. What
  the operators and helpers compute is in `LlvmInt` and `LoadStore`.
* The socket library but for what the server uses of it. `sockmanager`, the resolver and
  the client side are never called.
* Loading the ELF file into the test programs' memory (a set of initial images
  stands for it), and `experiments/`, an earlier draft of `gdbserver.cpp` that
  nothing builds on.
* The index of blocks by end address, which nothing reads; debug output.
* More than one fault in a session, and a client that answers a fault: the server
  never asks for a packet again, so a second fault meets the same code. A NACK reaches the
  server only as a damaged `+`; it ends the process, and `Serves` promises nothing then.

## What could follow

A sharper `Or1kMachine`, which dies only of a word it cannot translate or at the end of the
address space.
