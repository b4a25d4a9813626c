-------------------------- MODULE RiscvVm_proofs --------------------------
(***************************************************************************)
(* Proofs about RiscvVm, for every guest, every size of the address space  *)
(* and every encoding of instructions.                                     *)
(***************************************************************************)
EXTENDS RiscvVm, TLAPS, WellFoundedInduction, Words_proofs

\* Every nonempty set of natural numbers has a least element, which Min finds.
LEMMA MinLeast ==
  ASSUME NEW T, T \subseteq Nat, T # {}
  PROVE  Min(T) \in T /\ \A y \in T : Min(T) =< y
<1>1. PICK x \in T : \A y \in T : <<y, x>> \notin OpToRel(<, Nat)
  BY WFMin, NatLessThanWellFounded, Zenon
<1>2. \A y \in T : ~ (y < x)
  BY <1>1, Zenon DEF OpToRel
<1>3. \A y \in T : x =< y
  BY <1>2
<1>4. QED BY <1>3 DEF Min

\* Addresses are naturals below Parcels.
LEMMA AddrNat ==
  /\ Parcels \in Nat /\ Parcels > 2
  /\ \A a : a \in Addr <=> a \in Nat /\ a < Parcels
<1>1. Parcels \in Nat /\ Parcels > 2
  BY RiscvAssumption
<1>2. QED BY <1>1 DEF Addr

\* Address arithmetic stays in the address space, and only wraps at its end.
LEMMA WrapAddr ==
  ASSUME NEW a \in Nat
  PROVE  Wrap(a) \in Addr /\ (a < Parcels => Wrap(a) = a)
<1>1. Parcels \in Nat /\ Parcels > 0
  BY AddrNat
<1>2. a % Parcels \in 0 .. Parcels - 1
  BY <1>1
<1>3. a < Parcels => a % Parcels = a
  BY <1>1
<1>4. QED BY <1>2, <1>3 DEF Wrap, Addr

\* An instruction is fetched from anywhere.
LEMMA FetchInsn ==
  ASSUME NEW m \in [Addr -> Parcel], NEW a \in Addr
  PROVE  Fetch(m, a) \in Insn
<1>1. Wrap(a + 1) \in Addr
  BY WrapAddr, AddrNat
<1>2. <<m[a], m[Wrap(a + 1)]>> \in Parcel \X Parcel
  BY <1>1
<1>3. QED BY <1>2, RiscvAssumption DEF Fetch

\* The breakpoints handed to a scan that starts at a: none is nearer.
LEMMA NearestLeast ==
  ASSUME NEW a \in Addr, bps_by_addr \subseteq Addr
  PROVE  \A b \in bps_by_addr : b >= a =>
           /\ find_nearest(a) \in bps_by_addr
           /\ a =< find_nearest(a) /\ find_nearest(a) =< b
<1> DEFINE above == {b \in bps_by_addr : b >= a}
<1>1. SUFFICES ASSUME NEW b \in bps_by_addr, b >= a
      PROVE  /\ find_nearest(a) \in bps_by_addr
             /\ a =< find_nearest(a) /\ find_nearest(a) =< b
  OBVIOUS
<1>2. above \subseteq Nat /\ b \in above
  BY <1>1, AddrNat
<1>3. Min(above) \in above /\ \A y \in above : Min(above) =< y
  BY <1>2, MinLeast
<1>4. find_nearest(a) = Min(above)
  BY <1>2 DEF find_nearest
<1>5. QED BY <1>2, <1>3, <1>4

-----------------------------------------------------------------------------
(* Translation.                                                            *)

\* What every block is: consecutive instructions of which only the last can be
\* a jump, and the address behind the last if it is not.
WellFormed(b) ==
  /\ b.num_insn > 0
  /\ \A i \in 1 .. b.num_insn :
       /\ b.code[i].pc = At(b.start, i) /\ At(b.start, i) \in Addr
       /\ i < b.num_insn => ~ Ends(b.code[i].insn)
  /\ b.fall = IF Ends(b.code[b.num_insn].insn) THEN Null
              ELSE Fall(b.start, b.num_insn)

\* No breakpoint is on an instruction of the block.
Free(b, bps) == \A i \in 1 .. b.num_insn : b.code[i].pc \notin bps

\* Where the scan ends.
LastPc(m, start, step, bp) ==
  IF step THEN start ELSE Min(Stops(m, start, bp))

\* The number of instructions translated.
Count(m, start, step, bp) ==
  (LastPc(m, start, step, bp) - start) \div 2
    + (IF ~ step /\ LastPc(m, start, step, bp) = bp THEN 0 ELSE 1)

\* The scan visits every other parcel up to the first at which it can stop, and
\* the instruction there is not translated if the breakpoint is on it.
LEMMA ScanEnds ==
  ASSUME NEW m \in [Addr -> Parcel], NEW start \in Addr, NEW step \in BOOLEAN,
         NEW bp, ~ DisasFails(m, start, step, bp)
  PROVE  LET last == LastPc(m, start, step, bp)
         IN  /\ last \in Addr /\ start =< last /\ (last - start) % 2 = 0
             /\ step => last = start
             /\ ~ step => \A a \in Stops(m, start, bp) : last =< a
<1>1. CASE step
  BY <1>1, AddrNat DEF LastPc
<1>2. CASE ~ step
  <2> DEFINE S == Stops(m, start, bp)
  <2>1. S # {}
    BY <1>2 DEF DisasFails
  <2>2. \A a \in S : a \in Addr /\ start =< a /\ (a - start) % 2 = 0
    BY AddrNat DEF Stops, Scanned
  <2>3. Min(S) \in S /\ \A a \in S : Min(S) =< a
    BY <2>1, <2>2, MinLeast, AddrNat
  <2>4. LastPc(m, start, step, bp) = Min(S)
    BY <1>2 DEF LastPc
  <2>5. QED BY <1>2, <2>2, <2>3, <2>4
<1>3. QED BY <1>1, <1>2

\* The arithmetic of the scan: q instructions lie in front of the one it ends at.
LEMMA ScanLength ==
  ASSUME NEW start \in Addr, NEW last \in Addr,
         start =< last, (last - start) % 2 = 0
  PROVE  \E q \in Nat : (last - start) \div 2 = q /\ last = start + 2 * q
<1>1. start \in Nat /\ last \in Nat
  BY AddrNat
<1>2. QED BY <1>1

\* A translation that succeeds, of a block that does not start at the breakpoint
\* it was given, is a well-formed block.
LEMMA DisasBlock ==
  ASSUME NEW m \in [Addr -> Parcel], NEW start \in Addr, NEW step \in BOOLEAN,
         NEW bp, bp # start, ~ DisasFails(m, start, step, bp)
  PROVE  LET b == disas(m, start, step, bp)
         IN  /\ b \in Block /\ WellFormed(b) /\ b.start = start
             /\ \A i \in 1 .. b.num_insn :
                  /\ b.code[i].pc \in Addr
                  /\ step => b.code[i].pc = start
                  /\ ~ step => /\ (b.code[i].pc - start) % 2 = 0
                               /\ start =< b.code[i].pc
                               /\ \A a \in Stops(m, start, bp) :
                                    a = bp => b.code[i].pc < a
<1> DEFINE b    == disas(m, start, step, bp)
           last == LastPc(m, start, step, bp)
           cut  == ~ step /\ last = bp
           n    == Count(m, start, step, bp)
           S    == Stops(m, start, bp)
<1>1. /\ last \in Addr /\ start =< last /\ (last - start) % 2 = 0
      /\ step => last = start
      /\ ~ step => \A a \in S : last =< a
  BY ScanEnds
<1>2. PICK q \in Nat : (last - start) \div 2 = q /\ last = start + 2 * q
  BY <1>1, ScanLength
<1>3. /\ b.start = start
      /\ b.num_insn = n
      /\ b.code = [i \in 1 .. n |-> [pc   |-> At(start, i),
                                     insn |-> Fetch(m, At(start, i))]]
      /\ b.fall = IF ~ cut /\ Ends(Fetch(m, last)) THEN Null ELSE Fall(start, n)
      /\ b = [start |-> b.start, num_insn |-> b.num_insn, code |-> b.code,
              fall |-> b.fall]
  BY DEF disas, LastPc, Count
<1>4. n = q + (IF cut THEN 0 ELSE 1)
  BY <1>2 DEF Count
<1>5. cut => q > 0
  BY <1>2, AddrNat
<1>6. n \in Nat /\ n > 0
  BY <1>4, <1>5
<1> HIDE DEF b, last, cut, n, S
<1>7. ASSUME NEW i \in 1 .. n
      PROVE  /\ At(start, i) \in Addr /\ start =< At(start, i)
             /\ (At(start, i) - start) % 2 = 0
             /\ At(start, i) =< last
             /\ i < n \/ cut => At(start, i) < last
             /\ i = n /\ ~ cut => At(start, i) = last
  <2>1. start \in Nat /\ last \in Nat /\ last < Parcels /\ Parcels \in Nat
    BY <1>1, AddrNat
  <2>2. PICK j \in Nat : i = j + 1
    BY <1>6
  <2>3. At(start, i) = start + 2 * j
    BY <2>1, <2>2 DEF At
  <2>4. j =< q /\ (i < n \/ cut => j < q) /\ (i = n /\ ~ cut => j = q)
    BY <1>4, <2>2
  <2>5. (At(start, i) - start) % 2 = 0
    BY <2>1, <2>3
  <2>6. QED BY <1>2, <2>1, <2>3, <2>4, <2>5, AddrNat
<1>8. ASSUME NEW i \in 1 .. n, i < n \/ cut
      PROVE  ~ Ends(Fetch(m, At(start, i)))
  <2>1. ~ step
    <3>1. step => last = start /\ q = 0
      BY <1>1, <1>2, AddrNat
    <3>2. step => n = 1
      BY <3>1, <1>4 DEF cut
    <3>3. QED BY <1>8, <3>2 DEF cut
  <2>2. At(start, i) \in Scanned(start)
    BY <1>7, AddrNat DEF Scanned
  <2>3. At(start, i) \notin S
    <3>1. At(start, i) < last /\ At(start, i) \in Nat /\ last \in Nat
      BY <1>1, <1>7, <1>8, AddrNat
    <3>2. QED BY <1>1, <2>1, <3>1
  <2>4. QED BY <2>2, <2>3 DEF S, Stops
<1>9. b \in Block
  <2>1. b.code \in Seq([pc : Addr, insn : Insn]) /\ Len(b.code) = n
    <3>1. \A i \in 1 .. n : [pc |-> At(start, i), insn |-> Fetch(m, At(start, i))]
                              \in [pc : Addr, insn : Insn]
      BY <1>7, FetchInsn
    <3>2. b.code \in [1 .. n -> [pc : Addr, insn : Insn]]
      BY <1>3, <3>1, Zenon
    <3>3. \A T : \A f \in [1 .. n -> T] : f \in Seq(T) /\ Len(f) = n
      BY <1>6
    <3>4. QED BY <3>2, <3>3
  <2>2. Fall(start, n) \in Addr
    BY <1>6, AddrNat, WrapAddr DEF Fall
  <2>3. b.fall \in Addr \cup {Null}
    BY <1>3, <2>2
  <2>4. b \in [start : Addr, num_insn : Nat,
               code : Seq([pc : Addr, insn : Insn]), fall : Addr \cup {Null}]
    BY <1>3, <1>6, <2>1, <2>3
  <2>5. QED BY <1>3, <2>1, <2>4 DEF Block
<1>10. WellFormed(b)
  <2>1. \A i \in 1 .. n : /\ b.code[i].pc = At(start, i)
                          /\ b.code[i].insn = Fetch(m, At(start, i))
    BY <1>3
  <2>2. Ends(b.code[n].insn) <=> ~ cut /\ Ends(Fetch(m, last))
    <3>1. CASE cut
      BY <3>1, <1>6, <1>8, <2>1
    <3>2. CASE ~ cut
      BY <3>2, <1>6, <1>7, <2>1
    <3>3. QED BY <3>1, <3>2
  <2>3. \A i \in 1 .. n : i < n => ~ Ends(b.code[i].insn)
    BY <1>8, <2>1
  <2>4. b.fall = IF Ends(b.code[n].insn) THEN Null ELSE Fall(start, n)
    BY <1>3, <2>2
  <2>5. QED BY <1>3, <1>6, <1>7, <2>1, <2>3, <2>4 DEF WellFormed
<1>11. ASSUME NEW i \in 1 .. n, ~ step, NEW a \in S, a = bp
       PROVE  At(start, i) < a
  <2>1. last \in Nat /\ a \in Nat /\ At(start, i) \in Nat
    BY <1>1, <1>7, AddrNat DEF S, Stops, Scanned
  <2>2. last =< a
    BY <1>1, <1>11
  <2>3. CASE cut
    BY <1>7, <2>1, <2>2, <2>3
  <2>4. CASE ~ cut
    <3>1. last # a
      BY <1>11, <2>4 DEF cut
    <3>2. QED BY <1>7, <2>1, <2>2, <3>1
  <2>5. QED BY <2>3, <2>4
<1>12. \A i \in 1 .. n : b.code[i].pc = At(start, i)
  BY <1>3
<1>13. step => n = 1 /\ At(start, 1) = start
  BY <1>1, <1>2, <1>4, AddrNat DEF cut, At
<1>14. \A i \in 1 .. n : step => At(start, i) = start
  BY <1>13
<1>15. QED BY <1>3, <1>7, <1>9, <1>10, <1>11, <1>12, <1>14 DEF b, S

\* The part of it that does not concern breakpoints.
LEMMA DisasGood ==
  ASSUME NEW m \in [Addr -> Parcel], NEW start \in Addr, NEW step \in BOOLEAN,
         NEW bp, bp # start, ~ DisasFails(m, start, step, bp)
  PROVE  /\ disas(m, start, step, bp) \in Block
         /\ WellFormed(disas(m, start, step, bp))
         /\ disas(m, start, step, bp).start = start
BY DisasBlock

\* Breakpoints that are all in even or all in odd parcels.
SameParity == \A a, b \in BreakAddrs : a % 2 = b % 2

\* A block translated up to the nearest breakpoint, or of the one instruction
\* stepped, has no breakpoint on it.
LEMMA DisasFree ==
  ASSUME NEW m \in [Addr -> Parcel], NEW start \in Addr, NEW step \in BOOLEAN,
         bps_by_addr \subseteq BreakAddrs, SameParity,
         find_nearest(start) # start,
         ~ DisasFails(m, start, step, find_nearest(start))
  PROVE  Free(disas(m, start, step, find_nearest(start)), bps_by_addr)
<1> DEFINE near == find_nearest(start)
           b    == disas(m, start, step, near)
<1>1. \A a \in bps_by_addr : a \in Addr
  BY RiscvAssumption
<1>2. \A i \in 1 .. b.num_insn :
        /\ b.code[i].pc \in Addr
        /\ step => b.code[i].pc = start
        /\ ~ step => /\ (b.code[i].pc - start) % 2 = 0
                     /\ start =< b.code[i].pc
                     /\ \A a \in Stops(m, start, near) :
                          a = near => b.code[i].pc < a
  BY DisasBlock
<1> HIDE DEF b
<1>3. SUFFICES ASSUME NEW i \in 1 .. b.num_insn, b.code[i].pc \in bps_by_addr
      PROVE  FALSE
  BY DEF Free, b
<1> DEFINE a == b.code[i].pc
<1>4. a \in Addr /\ start =< a
  BY <1>2, AddrNat
<1>5. near \in bps_by_addr /\ near \in Addr /\ start =< near /\ near =< a
  BY <1>1, <1>3, <1>4, NearestLeast, AddrNat
<1>6. ~ step
  <2>1. step => a = start
    BY <1>2
  <2>2. QED BY <1>4, <1>5, <2>1, AddrNat
<1>7. near % 2 = a % 2
  BY <1>3, <1>5 DEF SameParity
<1>8. (a - start) % 2 = 0
  BY <1>2, <1>6
<1>9. (near - start) % 2 = 0
  <2>1. near \in Nat /\ a \in Nat /\ start \in Nat
    BY <1>4, <1>5, AddrNat
  <2> HIDE DEF a, near
  <2>2. QED BY <1>7, <1>8, <2>1
<1>10. near \in Stops(m, start, near)
  BY <1>5, <1>9, AddrNat DEF Stops, Scanned
<1>11. a < near
  BY <1>2, <1>6, <1>10
<1>12. QED BY <1>4, <1>5, <1>11, AddrNat

-----------------------------------------------------------------------------
(* The inductive invariant.                                                *)

\* Cached blocks are filed under their start, and they and the block being
\* executed are well formed.
GoodBlocks ==
  /\ \A a \in DOMAIN bb_by_start :
       WellFormed(bb_by_start[a]) /\ bb_by_start[a].start = a
  /\ Executing => WellFormed(bb)

\* run() looks up its local pc, and the generated code resumes from REG_PC.
PcAgrees ==
  /\ state = "dispatch" => regs.PC = pc
  /\ state \in {"dispatch", "stopped"} => regs.PNEXT_PC = regs.PC

IInv == TypeOK /\ GoodBlocks /\ PcAgrees /\ FollowsProgram

\* The initial states satisfy it.
LEMMA InitInv == Init => IInv
<1>1. SUFFICES ASSUME Init PROVE IInv
  OBVIOUS
<1>2. TypeOK
  BY <1>1, RiscvAssumption, AddrNat DEF Init, TypeOK, Regs, NoBlocks, Executing
<1>3. GoodBlocks /\ PcAgrees /\ FollowsProgram
  BY <1>1 DEF Init, GoodBlocks, PcAgrees, FollowsProgram, NoBlocks, Executing
<1>4. QED BY <1>2, <1>3 DEF IInv
\* What every cached block satisfies.
Filed(blocks) ==
  \A a \in DOMAIN blocks :
    /\ a \in Addr /\ blocks[a] \in Block
    /\ WellFormed(blocks[a]) /\ blocks[a].start = a

\* A well-formed block can be filed.
LEMMA FileBlock ==
  ASSUME NEW blocks, Filed(blocks), NEW b \in Block, WellFormed(b)
  PROVE  Filed(WithBlock(blocks, b))
<1>1. /\ DOMAIN WithBlock(blocks, b) = DOMAIN blocks \cup {b.start}
      /\ \A a \in DOMAIN blocks \cup {b.start} :
           WithBlock(blocks, b)[a] = IF a = b.start THEN b ELSE blocks[a]
  BY DEF WithBlock
<1>2. b.start \in Addr
  BY DEF Block
<1>3. QED BY <1>1, <1>2 DEF Filed

\* Entering a well-formed block at the address control has come to.
LEMMA EnterInv ==
  ASSUME IInv, NEW b \in Block, WellFormed(b), b.start = next,
         NEW as \in {"running", "stepping"}, Enter(b, as),
         as = "running" => pc \in Addr,
         UNCHANGED <<mem, bps_by_addr, total_icount, pc, history>>,
         Filed(bb_by_start')
  PROVE  IInv'
<1>1. TypeOK'
  <2>1. regs' \in Regs
    BY DEF IInv, TypeOK, Enter, Regs
  <2>2. b.num_insn \in Nat
    BY DEF Block
  <2>3. idx' \in 1 .. bb'.num_insn + 1 /\ bb' \in Block
    BY <2>2 DEF Enter
  <2>4. state' \in {"running", "stepping"}
    BY DEF Enter
  <2>5. /\ (mem \in [Addr -> Parcel])' /\ (bps_by_addr \subseteq BreakAddrs)'
        /\ (total_icount \in 0 .. IcountWidth - 1)'
        /\ (retired \in 0 .. IcountWidth - 1)'
        /\ (next \in Addr)'
    BY DEF IInv, TypeOK, history
  <2>6. (state \in {"dispatch", "running"} => pc \in Addr)'
    BY DEF Enter
  <2>7. QED BY <2>1, <2>3, <2>4, <2>5, <2>6 DEF TypeOK, Executing, Filed
<1>2. GoodBlocks' /\ PcAgrees'
  BY DEF Enter, GoodBlocks, Executing, PcAgrees, Filed
<1>3. FollowsProgram'
  <2>1. b.num_insn \in Nat /\ b.num_insn > 0
    BY DEF Block, WellFormed
  <2>2. b.start \in Addr
    BY DEF Block
  <2>3. b.code[1].pc = b.start
    BY <2>1, <2>2, AddrNat DEF WellFormed, At
  <2>4. /\ state' \in {"running", "stepping"}
        /\ bb' = b /\ idx' = 1 /\ next' = next
    BY DEF Enter, history
  <2>5. idx' <= bb'.num_insn /\ bb'.code[idx'].pc = next'
    BY <2>1, <2>3, <2>4
  <2>6. QED BY <2>4, <2>5 DEF FollowsProgram
<1>4. QED BY <1>1, <1>2, <1>3 DEF IInv

\* Executing an instruction follows it.
LEMMA ExecInv == IInv /\ ExecInsn => IInv'
<1>1. SUFFICES ASSUME IInv, ExecInsn PROVE IInv'
  OBVIOUS
<1> DEFINE i == bb.code[idx].insn
           a == bb.code[idx].pc
<1>2. /\ Executing /\ Executing'
      /\ idx <= bb.num_insn
      /\ regs' = Execute(i, a, regs)
      /\ next' = IF Ends(i) THEN Target(i, a, regs) ELSE Wrap(a + 2)
      /\ idx' = idx + 1 /\ bb' = bb
      /\ UNCHANGED <<bb_by_start, bps_by_addr, total_icount, state, pc>>
  BY <1>1 DEF ExecInsn, Executing
<1>3. bb \in Block /\ WellFormed(bb) /\ idx \in 1 .. bb.num_insn
  <2>1. bb.num_insn \in Nat /\ idx \in 1 .. bb.num_insn + 1
    BY <1>1, <1>2 DEF IInv, TypeOK, Block
  <2>2. QED BY <1>1, <1>2, <2>1 DEF IInv, TypeOK, GoodBlocks
<1>4. i \in Insn /\ a \in Addr
  <2>1. bb.code \in Seq([pc : Addr, insn : Insn]) /\ Len(bb.code) = bb.num_insn
    BY <1>3 DEF Block
  <2>2. \A T : \A s \in Seq(T) : \A j \in 1 .. Len(s) : s[j] \in T
    OBVIOUS
  <2>3. bb.code[idx] \in [pc : Addr, insn : Insn]
    BY <1>3, <2>1, <2>2
  <2>4. QED BY <2>3
<1>5. /\ i.k \in Addr
      /\ Wrap(a + 2) \in Addr /\ Wrap(i.k + 1) \in Addr /\ Wrap(regs.GR + 1) \in Addr
  BY <1>1, <1>4, AddrNat, WrapAddr DEF IInv, TypeOK, Regs, Insn
<1> HIDE DEF i, a
<1>6. Target(i, a, regs) \in Addr
  BY <1>1, <1>5 DEF Target, IInv, TypeOK, Regs
<1>7. regs' \in Regs
  BY <1>1, <1>2, <1>5, <1>6 DEF Execute, IInv, TypeOK, Regs
<1>8. Ends(i) => regs'.PNEXT_PC = Target(i, a, regs)
  BY <1>1, <1>2 DEF Execute, Ends, IInv, TypeOK, Regs
<1>9. TypeOK'
  <2>1. mem' \in [Addr -> Parcel]
    <3>1. /\ mem \in [Addr -> Parcel] /\ Stored \in Parcel \X Parcel
          /\ mem' = IF i.op = "sw"
                    THEN [mem EXCEPT ![i.k] = Stored[1],
                                     ![Wrap(i.k + 1)] = Stored[2]]
                    ELSE mem
      BY <1>1, RiscvAssumption DEF IInv, TypeOK, ExecInsn, i
    <3>2. Stored[1] \in Parcel /\ Stored[2] \in Parcel
      BY <3>1
    <3>3. QED BY <3>1, <3>2
  <2>2. next' \in Addr
    BY <1>2, <1>5, <1>6
  <2>3. retired' \in 0 .. IcountWidth - 1
    <3>1. retired' = (retired + 1) % IcountWidth
      BY <1>1 DEF ExecInsn
    <3>2. IcountWidth \in Nat /\ IcountWidth > 0
      BY RiscvAssumption
    <3>3. retired \in Nat
      BY <1>1, <3>2 DEF IInv, TypeOK
    <3>4. QED BY <3>1, <3>2, <3>3
  <2>4. bb.num_insn \in Nat /\ idx' \in 1 .. bb.num_insn + 1
    BY <1>2, <1>3 DEF Block
  <2>5. QED BY <1>1, <1>2, <1>3, <1>7, <2>1, <2>2, <2>3, <2>4
            DEF IInv, TypeOK, Executing
<1>10. GoodBlocks' /\ PcAgrees'
  BY <1>1, <1>2 DEF IInv, GoodBlocks, PcAgrees, Executing
<1>11. FollowsProgram'
  <2>1. bb.num_insn \in Nat /\ bb.start \in Addr
    BY <1>3 DEF Block
  <2>2. /\ a = At(bb.start, idx)
        /\ idx < bb.num_insn => ~ Ends(i)
        /\ idx = bb.num_insn =>
             bb.fall = IF Ends(i) THEN Null ELSE Fall(bb.start, idx)
    BY <1>3 DEF WellFormed, i, a
  <2>3. CASE idx < bb.num_insn
    <3>1. idx + 1 \in 1 .. bb.num_insn
      BY <1>3, <2>1, <2>3
    <3>2. bb.code[idx + 1].pc = At(bb.start, idx + 1) /\ At(bb.start, idx + 1) \in Addr
      BY <1>3, <3>1 DEF WellFormed
    <3>3. At(bb.start, idx + 1) = a + 2
      BY <1>3, <2>1, <2>2, AddrNat DEF At
    <3>4. Wrap(a + 2) = a + 2
      BY <1>4, <3>2, <3>3, AddrNat, WrapAddr
    <3>5. next' = bb'.code[idx'].pc
      BY <1>2, <2>2, <2>3, <3>2, <3>3, <3>4
    <3>6. idx' <= bb'.num_insn
      BY <1>2, <3>1
    <3>7. QED BY <1>2, <3>5, <3>6 DEF FollowsProgram, Executing
  <2>4. CASE idx = bb.num_insn
    <3>1. ~ (idx' <= bb'.num_insn)
      BY <1>2, <1>3, <2>1, <2>4
    <3>2. CASE Ends(i)
      BY <1>2, <1>8, <2>2, <2>4, <3>1, <3>2 DEF FollowsProgram, Executing
    <3>3. CASE ~ Ends(i)
      <4>1. bb.start + 2 * idx = a + 2
        BY <1>3, <2>1, <2>2, AddrNat DEF At
      <4>2. bb.fall = Wrap(a + 2)
        BY <2>2, <2>4, <3>3, <4>1 DEF Fall
      <4>3. bb.fall # Null
        BY <4>2, <1>5, AddrNat, RiscvAssumption
      <4>4. QED BY <1>2, <3>1, <3>3, <4>2, <4>3 DEF FollowsProgram, Executing
    <3>4. QED BY <3>2, <3>3
  <2>5. QED BY <1>3, <2>1, <2>3, <2>4
<1>12. QED BY <1>9, <1>10, <1>11 DEF IInv
\* A block ends where its last instruction led.
LEMMA FinishInv == IInv /\ FinishBlock => IInv'
<1>1. SUFFICES ASSUME IInv, FinishBlock PROVE IInv'
  OBVIOUS
<1> DEFINE to == IF bb.fall = Null THEN regs.PNEXT_PC ELSE bb.fall
<1>2. /\ Executing /\ ~ (idx <= bb.num_insn) /\ bb \in Block
      /\ regs' = [regs EXCEPT !.PC = to, !.PNEXT_PC = to]
      /\ \/ state' = "dispatch" /\ pc' = to
         \/ state = "stepping" /\ state' = "stopped" /\ pc' = pc
      /\ total_icount' = Counted(bb)
      /\ UNCHANGED <<mem, bb_by_start, bps_by_addr, next, retired>>
  <2>1. bb \in Block /\ idx \in 1 .. bb.num_insn + 1 /\ bb.num_insn \in Nat
    BY <1>1 DEF FinishBlock, IInv, TypeOK, Block
  <2>2. QED BY <1>1, <2>1 DEF FinishBlock, history, Executing
<1>3. to \in Addr
  BY <1>1, <1>2 DEF IInv, TypeOK, Regs, Block
<1>4. next = to
  BY <1>1, <1>2 DEF IInv, FollowsProgram
<1> HIDE DEF to
<1>5. TypeOK'
  <2>1. regs' \in Regs
    BY <1>1, <1>2, <1>3 DEF IInv, TypeOK, Regs
  <2>2. total_icount' \in 0 .. IcountWidth - 1
    <3>1. bb.num_insn \in Nat
      BY <1>2 DEF Block
    <3>2. IcountWidth \in Nat /\ IcountWidth > 0
      BY RiscvAssumption
    <3>3. total_icount \in Nat
      BY <1>1, <3>2 DEF IInv, TypeOK
    <3>4. QED BY <1>2, <3>1, <3>2, <3>3 DEF Counted
  <2>3. QED BY <1>1, <1>2, <1>3, <2>1, <2>2 DEF IInv, TypeOK, Executing
<1>6. GoodBlocks'
  BY <1>1, <1>2 DEF IInv, GoodBlocks, Executing
<1>7. PcAgrees' /\ FollowsProgram'
  <2>1. regs'.PC = to /\ regs'.PNEXT_PC = to
    BY <1>1, <1>2 DEF IInv, TypeOK, Regs
  <2>2. QED BY <1>2, <1>4, <2>1 DEF PcAgrees, FollowsProgram, Executing
<1>8. QED BY <1>5, <1>6, <1>7 DEF IInv

\* Every step preserves the invariant.
LEMMA StepInv == IInv /\ [Next]_vars => IInv'
<1>1. SUFFICES ASSUME IInv, [Next]_vars PROVE IInv'
  OBVIOUS
<1>2. CASE Continue
  <2>1. regs.PC \in Addr
    BY <1>1 DEF IInv, TypeOK, Regs
  <2>2. QED
    BY <1>1, <1>2, <2>1 DEF Continue, IInv, TypeOK, GoodBlocks, PcAgrees,
       FollowsProgram, Executing, block, history
<1>3. CASE Step
  <2> DEFINE near == find_nearest(regs.PC)
             b    == disas(mem, regs.PC, TRUE, near)
  <2>1. regs.PC \in Addr /\ near # regs.PC /\ next = regs.PC
    BY <1>1, <1>3 DEF Step, IInv, TypeOK, Regs, FollowsProgram
  <2>2. mem \in [Addr -> Parcel]
    BY <1>1 DEF IInv, TypeOK
  <2>3. CASE DisasFails(mem, regs.PC, TRUE, near)
    <3>1. state' = "aborted" /\ bb_by_start' = NoBlocks
          /\ UNCHANGED <<regs, bb, idx, mem, bps_by_addr, total_icount, pc, next, retired>>
      BY <1>3, <2>3 DEF Step, invalidate, block, history
    <3>2. QED
      BY <1>1, <3>1 DEF IInv, TypeOK, GoodBlocks, PcAgrees, FollowsProgram,
         Executing, NoBlocks
  <2>4. CASE ~ DisasFails(mem, regs.PC, TRUE, near)
    <3>1. /\ Enter(b, "stepping")
          /\ bb_by_start' = WithBlock(NoBlocks, b)
          /\ UNCHANGED <<mem, bps_by_addr, total_icount, pc, history>>
      BY <1>3, <2>4 DEF Step
    <3>2. b \in Block /\ WellFormed(b) /\ b.start = regs.PC
      BY <2>1, <2>4, <2>2, DisasGood
    <3> HIDE DEF b
    <3>3. Filed(NoBlocks)
      BY <1>1 DEF Filed, IInv, TypeOK, GoodBlocks, NoBlocks
    <3>4. Filed(bb_by_start')
      BY <3>1, <3>2, <3>3, FileBlock
    <3>5. QED BY <1>1, <2>1, <3>1, <3>2, <3>4, EnterInv
  <2>5. QED BY <2>3, <2>4
<1>4. ASSUME NEW a \in BreakAddrs, SetBreakPoint(a)
      PROVE  IInv'
  BY <1>1, <1>4 DEF SetBreakPoint, invalidate, NoBlocks, IInv, TypeOK,
     GoodBlocks, PcAgrees, FollowsProgram, Executing, block, history
<1>5. ASSUME NEW a \in BreakAddrs, UnsetBreakPoint(a)
      PROVE  IInv'
  BY <1>1, <1>5 DEF UnsetBreakPoint, IInv, TypeOK, GoodBlocks, PcAgrees,
     FollowsProgram, Executing, block, history
<1>6. CASE HitBreakPoint
  BY <1>1, <1>6 DEF HitBreakPoint, IInv, TypeOK, GoodBlocks, PcAgrees,
     FollowsProgram, Executing, block, history
<1>7. CASE RunCached
  <2>1. /\ pc \in Addr /\ pc \in DOMAIN bb_by_start /\ next = pc
        /\ Enter(bb_by_start[pc], "running")
        /\ UNCHANGED <<mem, bb_by_start, bps_by_addr, total_icount, pc, history>>
    BY <1>1, <1>7 DEF RunCached, IInv, TypeOK, FollowsProgram
  <2>2. Filed(bb_by_start)
    BY <1>1 DEF Filed, IInv, TypeOK, GoodBlocks
  <2>3. /\ bb_by_start[pc] \in Block /\ WellFormed(bb_by_start[pc])
        /\ bb_by_start[pc].start = next
    BY <2>1, <2>2 DEF Filed
  <2>4. Filed(bb_by_start')
    BY <2>1, <2>2
  <2>5. QED BY <1>1, <2>1, <2>3, <2>4, EnterInv
<1>8. CASE RunTranslated
  <2> DEFINE near == find_nearest(pc)
             b    == disas(mem, pc, FALSE, near)
  <2>1. pc \in Addr /\ near # pc /\ next = pc
    BY <1>1, <1>8 DEF RunTranslated, IInv, TypeOK, FollowsProgram
  <2>2. mem \in [Addr -> Parcel]
    BY <1>1 DEF IInv, TypeOK
  <2>3. CASE DisasFails(mem, pc, FALSE, near)
    <3>1. /\ state' = "aborted"
          /\ UNCHANGED <<regs, bb_by_start, bb, idx, mem, bps_by_addr,
                         total_icount, pc, next, retired>>
      BY <1>8, <2>3 DEF RunTranslated, block, history
    <3>2. QED
      BY <1>1, <3>1 DEF IInv, TypeOK, GoodBlocks, PcAgrees, FollowsProgram,
         Executing
  <2>4. CASE ~ DisasFails(mem, pc, FALSE, near)
    <3>1. /\ Enter(b, "running")
          /\ bb_by_start' = WithBlock(bb_by_start, b)
          /\ UNCHANGED <<mem, bps_by_addr, total_icount, pc, history>>
      BY <1>8, <2>4 DEF RunTranslated
    <3>2. b \in Block /\ WellFormed(b) /\ b.start = pc
      BY <2>1, <2>4, <2>2, DisasGood
    <3> HIDE DEF b
    <3>3. Filed(bb_by_start)
      BY <1>1 DEF Filed, IInv, TypeOK, GoodBlocks, NoBlocks
    <3>4. Filed(bb_by_start')
      BY <3>1, <3>2, <3>3, FileBlock
    <3>5. QED BY <1>1, <2>1, <3>1, <3>2, <3>4, EnterInv
  <2>5. QED BY <2>3, <2>4
<1>9. CASE ExecInsn
  BY <1>1, <1>9, ExecInv
<1>10. CASE FinishBlock
  BY <1>1, <1>10, FinishInv
<1>11. CASE UNCHANGED vars
  BY <1>1, <1>11 DEF vars, IInv, TypeOK, GoodBlocks, PcAgrees, FollowsProgram,
     Executing, block, history
<1>12. QED
  BY <1>1, <1>2, <1>3, <1>4, <1>5, <1>6, <1>7, <1>8, <1>9, <1>10, <1>11
     DEF Next, Debugger, Engine

\* Whatever the guest, its types are right and its blocks well formed.
THEOREM Invariance == Spec => []IInv
BY InitInv, StepInv, PTL DEF Spec

\* No register, block or local pc leaves the address space.
THEOREM TypeCorrect == Spec => []TypeOK
<1>1. IInv => TypeOK
  BY DEF IInv
<1>2. QED BY <1>1, Invariance, PTL

\* Control goes where the instructions lead it.
THEOREM ProgramFollowed == Spec => []FollowsProgram
<1>1. IInv => FollowsProgram
  BY DEF IInv
<1>2. QED BY <1>1, Invariance, PTL

-----------------------------------------------------------------------------
(* Breakpoints.                                                            *)

\* No cached block and no block being executed has a breakpoint on it.
FreeBlocks ==
  /\ \A a \in DOMAIN bb_by_start : Free(bb_by_start[a], bps_by_addr)
  /\ Executing => Free(bb, bps_by_addr)

\* Breakpoints that leave are no obstacle, those that come empty the cache, and
\* blocks are translated up to the next.
LEMMA FreeStep ==
  ASSUME SameParity
  PROVE  IInv /\ FreeBlocks /\ [Next]_vars => FreeBlocks'
<1>1. SUFFICES ASSUME IInv, FreeBlocks, [Next]_vars PROVE FreeBlocks'
  OBVIOUS
<1>2. /\ mem \in [Addr -> Parcel] /\ bps_by_addr \subseteq BreakAddrs
      /\ regs.PC \in Addr
      /\ state = "dispatch" => pc \in Addr
  BY <1>1 DEF IInv, TypeOK, Regs
<1>3. CASE Step
  <2> DEFINE near == find_nearest(regs.PC)
             b    == disas(mem, regs.PC, TRUE, near)
  <2>1. near # regs.PC /\ bps_by_addr' = bps_by_addr
    BY <1>3 DEF Step
  <2>2. CASE DisasFails(mem, regs.PC, TRUE, near)
    BY <1>3, <2>2 DEF Step, invalidate, FreeBlocks, Executing, NoBlocks
  <2>3. CASE ~ DisasFails(mem, regs.PC, TRUE, near)
    <3>1. Free(b, bps_by_addr)
      BY <1>2, <2>1, <2>3, DisasFree
    <3>2. bb_by_start' = WithBlock(NoBlocks, b) /\ bb' = b
      BY <1>3, <2>3 DEF Step, Enter
    <3> HIDE DEF b
    <3>3. QED BY <2>1, <3>1, <3>2 DEF FreeBlocks, WithBlock, NoBlocks
  <2>4. QED BY <2>2, <2>3
<1>4. CASE RunTranslated
  <2> DEFINE near == find_nearest(pc)
             b    == disas(mem, pc, FALSE, near)
  <2>1. near # pc /\ bps_by_addr' = bps_by_addr /\ pc \in Addr
    BY <1>2, <1>4 DEF RunTranslated
  <2>2. CASE DisasFails(mem, pc, FALSE, near)
    BY <1>1, <1>4, <2>2 DEF RunTranslated, FreeBlocks, Executing
  <2>3. CASE ~ DisasFails(mem, pc, FALSE, near)
    <3>1. Free(b, bps_by_addr)
      BY <1>2, <2>1, <2>3, DisasFree
    <3>2. bb_by_start' = WithBlock(bb_by_start, b) /\ bb' = b
      BY <1>4, <2>3 DEF RunTranslated, Enter
    <3> HIDE DEF b
    <3>3. QED BY <1>1, <2>1, <3>1, <3>2 DEF FreeBlocks, WithBlock
  <2>4. QED BY <2>2, <2>3
<1>5. CASE RunCached
  BY <1>1, <1>5 DEF RunCached, Enter, FreeBlocks
<1>6. ASSUME NEW a \in BreakAddrs, SetBreakPoint(a)
      PROVE  FreeBlocks'
  BY <1>6 DEF SetBreakPoint, invalidate, NoBlocks, FreeBlocks, Executing
<1>7. ASSUME NEW a \in BreakAddrs, UnsetBreakPoint(a)
      PROVE  FreeBlocks'
  BY <1>1, <1>7 DEF UnsetBreakPoint, FreeBlocks, Free, Executing, block
<1>8. CASE Continue \/ HitBreakPoint \/ FinishBlock
  BY <1>1, <1>8 DEF Continue, HitBreakPoint, FinishBlock, FreeBlocks, Executing,
     block
<1>9. CASE ExecInsn \/ UNCHANGED vars
  BY <1>1, <1>9 DEF ExecInsn, vars, block, FreeBlocks, Executing
<1>10. QED
  BY <1>1, <1>3, <1>4, <1>5, <1>6, <1>7, <1>8, <1>9 DEF Next, Debugger, Engine

\* If the breakpoints are all in even or all in odd parcels, no instruction
\* executes while a breakpoint is set on it.
THEOREM BreakpointsHonoured ==
  ASSUME SameParity
  PROVE  Spec => []BreakpointHonoured
<1>1. Init => FreeBlocks
  BY DEF Init, FreeBlocks, NoBlocks, Executing
<1>2. IInv /\ FreeBlocks /\ [Next]_vars => FreeBlocks'
  BY FreeStep
<1>3. IInv /\ FreeBlocks => BreakpointHonoured
  <2>1. SUFFICES ASSUME IInv, FreeBlocks, Executing, idx <= bb.num_insn
        PROVE  bb.code[idx].pc \notin bps_by_addr
    BY DEF BreakpointHonoured
  <2>2. bb \in Block /\ idx \in 1 .. bb.num_insn + 1
    BY <2>1 DEF IInv, TypeOK
  <2>3. idx \in 1 .. bb.num_insn
    BY <2>1, <2>2 DEF Block
  <2>4. QED BY <2>1, <2>3 DEF FreeBlocks, Free
<1>4. QED BY <1>1, <1>2, <1>3, Invariance, PTL DEF Spec

-----------------------------------------------------------------------------
(* The instruction count.                                                  *)

\* What has been counted one by one, in terms of what total_icount knows.
CountAgrees ==
  state # "aborted" =>
    retired = IF Executing THEN (total_icount + idx - 1) % IcountWidth
              ELSE total_icount

\* Every step keeps the two counts together.
LEMMA CountStep ==
  ASSUME IInv, CountAgrees, [Next]_vars
  PROVE  CountAgrees'
<1>0. /\ IcountWidth \in Nat \ {0}
      /\ total_icount \in 0 .. IcountWidth - 1
      /\ total_icount % IcountWidth = total_icount
  BY RiscvAssumption, ModInRange DEF IInv, TypeOK
<1>1. ASSUME UNCHANGED <<state, retired, total_icount, idx>> \/ state' = "aborted"
      PROVE  CountAgrees'
  BY <1>1 DEF CountAgrees, Executing
<1>2. ASSUME UNCHANGED <<retired, total_icount>>,
             ~ Executing, state # "aborted", ~ Executing'
      PROVE  CountAgrees'
  BY <1>2 DEF CountAgrees
<1>3. ASSUME UNCHANGED <<retired, total_icount>>,
             ~ Executing, state # "aborted", Executing', idx' = 1
      PROVE  CountAgrees'
  <2>1. (total_icount + 1) - 1 = total_icount
    BY <1>0
  <2>2. QED BY <1>0, <1>3, <2>1 DEF CountAgrees
<1>4. CASE Continue \/ HitBreakPoint
  BY <1>2, <1>4 DEF Continue, HitBreakPoint, history, Executing
<1>5. CASE Step \/ RunCached \/ RunTranslated
  <2>1. /\ state \in {"stopped", "dispatch"}
        /\ UNCHANGED <<retired, total_icount>>
        /\ state' = "aborted" \/ (Executing' /\ idx' = 1)
    BY <1>5 DEF Step, RunCached, RunTranslated, Enter, history, Executing
  <2>2. QED BY <1>1, <1>3, <2>1 DEF Executing
<1>6. ASSUME NEW a \in BreakAddrs, SetBreakPoint(a) \/ UnsetBreakPoint(a)
      PROVE  CountAgrees'
  BY <1>1, <1>6 DEF SetBreakPoint, UnsetBreakPoint, block, history
<1>7. CASE ExecInsn
  <2> DEFINE n == total_icount + idx - 1
  <2>1. /\ Executing /\ Executing' /\ state # "aborted" /\ idx' = idx + 1
        /\ retired' = (retired + 1) % IcountWidth
        /\ total_icount' = total_icount
    BY <1>7 DEF ExecInsn, Executing
  <2>2. idx \in Nat \ {0} /\ n \in Nat
    <3>1. idx \in Nat /\ idx >= 1
      BY <2>1 DEF IInv, TypeOK, Block
    <3>2. QED BY <3>1, <1>0
  <2>3. retired = n % IcountWidth
    BY <2>1 DEF CountAgrees
  <2>4. total_icount' + idx' - 1 = n + 1
    BY <1>0, <2>1, <2>2
  <2> HIDE DEF n
  <2>5. retired' = (n + 1) % IcountWidth
    BY <1>0, <2>1, <2>2, <2>3, ModSuccessor
  <2>6. QED BY <2>1, <2>4, <2>5 DEF CountAgrees
<1>8. CASE FinishBlock
  <2>1. /\ Executing /\ idx > bb.num_insn /\ state # "aborted"
        /\ total_icount' = Counted(bb) /\ retired' = retired
        /\ ~ Executing'
    BY <1>8 DEF FinishBlock, Executing, history
  <2>2. bb.num_insn \in Nat /\ idx \in 1 .. bb.num_insn + 1
    BY <2>1 DEF IInv, TypeOK, Block
  <2>3. total_icount + idx - 1 = total_icount + bb.num_insn
    <3>1. idx = bb.num_insn + 1
      BY <2>1, <2>2
    <3>2. QED BY <1>0, <2>2, <3>1
  <2>4. retired = (total_icount + bb.num_insn) % IcountWidth
    BY <2>1, <2>3 DEF CountAgrees
  <2>5. QED BY <2>1, <2>4 DEF CountAgrees, Counted
<1>9. CASE UNCHANGED vars
  BY <1>1, <1>9 DEF vars, block, history
<1>10. QED
  BY <1>4, <1>5, <1>6, <1>7, <1>8, <1>9 DEF Next, Debugger, Engine

\* Between blocks get_total_insn_count() is exact, single steps included, for a
\* counter of any width.
THEOREM CountsExactly == Spec => []IcountExact
<1>1. Init => CountAgrees
  BY DEF Init, CountAgrees, Executing
<1>2. IInv /\ CountAgrees /\ [Next]_vars => CountAgrees'
  BY CountStep
<1>3. CountAgrees => IcountExact
  BY DEF CountAgrees, IcountExact, Executing
<1>4. QED BY <1>1, <1>2, <1>3, Invariance, PTL DEF Spec
=============================================================================
