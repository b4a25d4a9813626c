------------------------- MODULE OpenriscVm_proofs -------------------------
(***************************************************************************)
(* Proofs about OpenriscVm, for every guest program, every number of       *)
(* words, every set of breakpoint addresses: what it keeps, and that it    *)
(* implements Or1kMachine (OpenriscVmRefinement's ImplementsOr1k).         *)
(***************************************************************************)
EXTENDS OpenriscVmRefinement, TLAPS, Words_proofs

\* What Min returns.
LEMMA MinLeast ==
  ASSUME NEW T, T \subseteq Nat, T # {}
  PROVE  Min(T) \in T /\ \A y \in T : Min(T) =< y
BY LeastNat DEF Min

\* Addresses are naturals below Words.
LEMMA AddrNat == Addr \subseteq Nat /\ \A a \in Addr : a < Words
BY WordsAssumption DEF Addr

\* Address arithmetic stays in the address space, where it wraps once for
\* sums of two addresses.
LEMMA WrapAddr ==
  ASSUME NEW a \in Nat
  PROVE  /\ Wrap(a) \in Addr
         /\ a < Words => Wrap(a) = a
         /\ Words =< a /\ a < 2 * Words => Wrap(a) = a - Words
<1>0. Words \in Nat \ {0} /\ a \in Int
  BY WordsAssumption
<1>1. Wrap(a) \in Addr
  BY <1>0, DivisionInt DEF Wrap, Addr
<1>2. ASSUME a < Words PROVE Wrap(a) = a
  <2>1. a \in 0 .. Words - 1
    BY <1>0, <1>2
  <2>2. QED BY <1>0, <2>1, ModInRange DEF Wrap
<1>3. ASSUME Words =< a, a < 2 * Words PROVE Wrap(a) = a - Words
  <2> DEFINE q == 1
             r == a - Words
  <2>1. q \in Int /\ r \in Int /\ 0 =< r /\ r < Words /\ a = q * Words + r
    BY <1>0, <1>3
  <2> HIDE DEF q, r
  <2>2. a % Words = r
    BY <1>0, <2>1, QuotientOf
  <2>3. QED BY <2>2 DEF Wrap, r
<1>4. QED BY <1>1, <1>2, <1>3

\* Wrapping a part of a sum does not change where it leads.
LEMMA WrapSum ==
  ASSUME NEW a \in Nat, NEW b \in Nat
  PROVE  Wrap(Wrap(a) + b) = Wrap(a + b)
<1> DEFINE q == a \div Words
           x == Wrap(a) + b
<1>1. Words \in Nat \ {0} /\ a \in Int
  BY WordsAssumption
<1>2. q \in Int /\ Wrap(a) \in Nat /\ a = q * Words + Wrap(a)
  BY <1>1, DivisionInt DEF Wrap
<1> HIDE DEF q
<1>3. x \in Int /\ a + b = x + q * Words
  BY <1>1, <1>2
<1> HIDE DEF x
<1>4. (a + b) % Words = x % Words
  BY <1>1, <1>2, <1>3, MultipleAdded
<1>5. QED BY <1>4 DEF Wrap, x

\* The addresses an instruction computes from its own: the next, and the one
\* after its delay slot.
LEMMA WrapNext ==
  ASSUME NEW a \in Addr
  PROVE  /\ Wrap(a + 1) \in Addr /\ Wrap(a + 2) \in Addr /\ ReturnPc(a) \in Addr
         /\ Wrap(a + 0) = a /\ Wrap(a) = a
<1>1. a \in Nat /\ a < Words /\ a + 1 \in Nat /\ a + 2 \in Nat /\ a + 0 = a
  BY AddrNat
<1>2. QED BY <1>1, WrapAddr DEF ReturnPc

\* The instructions of a block.
LEMMA CodeElem ==
  ASSUME NEW b \in Block, NEW i \in 1 .. Len(b.code)
  PROVE  b.code[i].pc \in Addr /\ b.code[i].insn \in Insn
<1>1. b.code \in Seq([pc : Addr, insn : Insn])
  BY DEF Block
<1>2. \A S : \A s \in Seq(S) : \A j \in 1 .. Len(s) : s[j] \in S
  OBVIOUS
<1>3. b.code[i] \in [pc : Addr, insn : Insn]
  BY <1>1, <1>2
<1>4. QED BY <1>3

\* find_nearest returns the least breakpoint at or above an address.
LEMMA NearestLeast ==
  ASSUME NEW a \in Addr, bps_by_addr \subseteq Addr
  PROVE  /\ \A b \in bps_by_addr : b >= a =>
              /\ find_nearest(a) \in bps_by_addr
              /\ a =< find_nearest(a) /\ find_nearest(a) =< b
         /\ find_nearest(a) = Null
            \/ (find_nearest(a) \in Addr /\ a =< find_nearest(a))
<1> DEFINE above == {b \in bps_by_addr : b >= a}
<1>1. above \subseteq Nat
  BY AddrNat
<1>2. CASE above = {}
  BY <1>2 DEF find_nearest
<1>3. CASE above # {}
  <2>1. Min(above) \in above /\ \A y \in above : Min(above) =< y
    BY <1>1, <1>3, MinLeast
  <2>2. find_nearest(a) = Min(above)
    BY <1>3 DEF find_nearest
  <2>3. QED BY <2>1, <2>2
<1>4. QED BY <1>2, <1>3

\* A breakpoint that is not at the address is above it.
LEMMA NearestAbove ==
  ASSUME NEW a \in Addr, bps_by_addr \subseteq Addr, find_nearest(a) # a
  PROVE  find_nearest(a) = Null
         \/ (find_nearest(a) \in Addr /\ a < find_nearest(a))
<1> DEFINE near == find_nearest(a)
<1>1. near = Null \/ (near \in Addr /\ a =< near)
  BY NearestLeast
<1>2. near # a /\ a \in Nat /\ (near \in Addr => near \in Nat)
  BY AddrNat
<1> HIDE DEF near
<1>3. near = Null \/ (near \in Addr /\ a < near)
  BY <1>1, <1>2
<1>4. QED BY <1>3 DEF near

-----------------------------------------------------------------------------
(* Translation.                                                            *)

\* Where a scan ends: at the stepped instruction, or at the first one that can
\* end the block.
LEMMA LastPcFirst ==
  ASSUME NEW m \in [Addr -> Insn], NEW start \in Addr, NEW step \in BOOLEAN,
         NEW bp, ~ DisasCrashes(m, start, step, bp)
  PROVE  LET d == Reach(m, start, step, bp)
         IN  /\ d \in 0 .. Words - 1
             /\ LastPc(m, start, step, bp) = Wrap(start + d)
             /\ LastPc(m, start, step, bp) \in Addr
             /\ step => d = 0
             /\ ~ step => /\ d \in Stops(m, start, bp)
                          /\ \A e \in Stops(m, start, bp) : d =< e
<1> DEFINE S == Stops(m, start, bp)
           d == Reach(m, start, step, bp)
<1>1. d \in 0 .. Words - 1 /\ (step => d = 0)
      /\ (~ step => d \in S /\ \A e \in S : d =< e)
  <2>1. CASE step
    BY <2>1, WordsAssumption DEF Reach
  <2>2. CASE ~ step
    <3>1. S # {}
      BY <2>2 DEF DisasCrashes
    <3>2. S \subseteq 0 .. Words - 1
      BY DEF Stops
    <3>3. S \subseteq Nat
      BY <3>2, WordsAssumption
    <3>4. Min(S) \in S /\ \A a \in S : Min(S) =< a
      BY <3>1, <3>3, MinLeast
    <3>5. d = Min(S)
      BY <2>2 DEF Reach
    <3>6. QED BY <2>2, <3>2, <3>4, <3>5
  <2>3. QED BY <2>1, <2>2
<1>2. LastPc(m, start, step, bp) = Wrap(start + d)
  BY DEF LastPc
<1> HIDE DEF d
<1>3. start + d \in Nat
  BY <1>1, AddrNat, WordsAssumption
<1>4. Wrap(start + d) \in Addr
  BY <1>3, WrapAddr
<1>5. QED BY <1>1, <1>2, <1>4 DEF d

\* A scan that knows of a breakpoint, or makes a block, does not go past the
\* last word of the address space.
LEMMA ScanAhead ==
  ASSUME NEW m \in [Addr -> Insn], NEW start \in Addr, NEW step \in BOOLEAN,
         NEW bp, bp = Null \/ (bp \in Addr /\ start < bp),
         ~ DisasCrashes(m, start, step, bp),
         bp # Null \/ disas(m, start, step, bp).ok
  PROVE  LET d == Reach(m, start, step, bp)
         IN  start + d < Words /\ LastPc(m, start, step, bp) = start + d
<1> DEFINE d == Reach(m, start, step, bp)
           n == LastPc(m, start, step, bp)
<1>1. /\ d \in 0 .. Words - 1 /\ n = Wrap(start + d) /\ n \in Addr
      /\ (step => d = 0) /\ (~ step => \A e \in Stops(m, start, bp) : d =< e)
  BY LastPcFirst
<1>2. start \in Nat /\ start < Words /\ Words \in Nat
  BY AddrNat, WordsAssumption
<1>3. Null \notin Addr
  BY AddrNat, NullAssumption
<1>4. start + d < Words
  <2>1. CASE step
    <3>1. d = 0
      BY <2>1, <1>1
    <3> HIDE DEF d
    <3>2. QED BY <3>1, <1>2
  <2>2. CASE ~ step /\ bp # Null
    <3>0. bp \in Nat /\ bp < Words /\ start < bp
      BY <2>2, AddrNat
    <3>1. bp \in Nat /\ bp < Words /\ bp - start \in 0 .. Words - 1
          /\ start + (bp - start) = bp
      BY <3>0, <1>2
    <3>2. Wrap(start + (bp - start)) = bp
      BY <3>1, WrapAddr
    <3>3. bp - start \in Stops(m, start, bp)
      BY <3>1, <3>2 DEF Stops
    <3>4. d =< bp - start
      BY <2>2, <3>3, <1>1
    <3> HIDE DEF d
    <3>5. QED BY <3>1, <3>4, <1>1, <1>2
  <2>3. CASE ~ step /\ bp = Null
    <3>1. n # bp
      BY <2>3, <1>1, <1>3
    <3>2. Accepts(m, n)
      BY <2>3, <3>1 DEF disas
    <3>3. EndPc(m, start, step, bp) = n
      BY <2>3, <3>1 DEF EndPc
    <3>4. ~ (n < start)
      BY <3>1, <3>2, <3>3 DEF DisasCrashes
    <3>5. start + d \in Nat
      BY <1>1, <1>2
    <3> HIDE DEF d, n
    <3>6. ASSUME start + d >= Words PROVE FALSE
      <4>1. start + d < 2 * Words
        BY <1>1, <1>2
      <4>2. n = start + d - Words
        BY <3>5, <3>6, <4>1, <1>1, <1>2, WrapAddr
      <4>3. QED BY <3>4, <4>2, <1>1, <1>2
    <3>7. QED BY <3>5, <3>6, <1>2
  <2>4. QED BY <2>1, <2>2, <2>3
<1>5. n = start + d
  <2>1. start + d \in Nat
    BY <1>1, <1>2
  <2> HIDE DEF d, n
  <2>2. QED BY <2>1, <1>1, <1>4, WrapAddr
<1>6. QED BY <1>4, <1>5

\* What disas_insn emits code for: a bounded run of words in which every one
\* but the last is a jump.
LEMMA EmittedJumps ==
  ASSUME NEW m \in [Addr -> Insn], NEW n \in Addr,
         IsJump(m[n]) => SlotEnds(m, n) # {}
  PROVE  /\ Emitted(m, n) \in 0 .. Words + 1
         /\ ~ IsJump(m[n]) => Emitted(m, n) =< 1
         /\ \A k \in 0 .. Words : k + 1 < Emitted(m, n) => IsJump(m[Wrap(n + k)])
<1> DEFINE depth == IF IsJump(m[n]) THEN Min(SlotEnds(m, n)) ELSE 0
<1>1. Wrap(n + 0) = n
  BY WrapNext
<1>2. /\ depth \in 0 .. Words
      /\ ~ IsJump(m[n]) => depth = 0
      /\ \A k \in 0 .. Words : k < depth => IsJump(m[Wrap(n + k)])
  <2>1. CASE IsJump(m[n])
    <3>1. SlotEnds(m, n) \subseteq Nat /\ SlotEnds(m, n) # {}
      BY <2>1, WordsAssumption DEF SlotEnds
    <3>2. /\ Min(SlotEnds(m, n)) \in SlotEnds(m, n)
          /\ \A d \in SlotEnds(m, n) : Min(SlotEnds(m, n)) =< d
      BY <3>1, MinLeast
    <3>3. depth = Min(SlotEnds(m, n))
      BY <2>1
    <3>4. depth \in 1 .. Words /\ \A d \in SlotEnds(m, n) : depth =< d
      BY <3>2, <3>3 DEF SlotEnds
    <3>5. ASSUME NEW k \in 0 .. Words, k < depth
          PROVE  IsJump(m[Wrap(n + k)])
      <4>1. CASE k = 0
        BY <4>1, <1>1, <2>1
      <4>2. CASE k \in 1 .. Words
        <5>1. k \notin SlotEnds(m, n)
          BY <4>2, <3>4, <3>5, WordsAssumption
        <5>2. QED BY <4>2, <5>1 DEF SlotEnds
      <4>3. QED BY <4>1, <4>2, WordsAssumption
    <3>6. QED BY <3>4, <3>5, WordsAssumption
  <2>2. CASE ~ IsJump(m[n])
    BY <2>2, WordsAssumption
  <2>3. QED BY <2>1, <2>2
<1>3. Emitted(m, n) = IF Unsupported(m[Wrap(n + depth)]) THEN depth ELSE depth + 1
  BY DEF Emitted
<1> HIDE DEF depth
<1>4. QED BY <1>2, <1>3, WordsAssumption
\* A translation is a block that starts where it was asked to, made of the
\* words of memory. Of its instructions, only delay slots can lie at or past
\* the breakpoint it was given, and only a scan that fails goes past address 0.
LEMMA DisasBlock ==
  ASSUME NEW m \in [Addr -> Insn], NEW start \in Addr, NEW step \in BOOLEAN,
         NEW bp, bp = Null \/ (bp \in Addr /\ start < bp),
         ~ DisasCrashes(m, start, step, bp)
  PROVE  LET b == disas(m, start, step, bp)
         IN  /\ b \in Block
             /\ b.start = start
             /\ b.num_insn = Len(b.code)
             /\ b.fall => b.start + Len(b.code) =< Words
             /\ \A i \in 1 .. Len(b.code) :
                  /\ b.code[i].insn = m[b.code[i].pc]
                  /\ IsHead(b, i) =>
                       LET p == b.code[i].pc IN
                       \/ p = start
                       \/ start < p /\ ~ (bp \in start .. p)
                       \/ ~ b.ok /\ p < start
<1> DEFINE d    == Reach(m, start, step, bp)
           n    == LastPc(m, start, step, bp)
           stop == ~ step /\ n = bp
           more == IF stop THEN 0 ELSE Emitted(m, n)
           len  == d + more
           at(i) == Wrap(start + i - 1)
           code == [i \in 1 .. len |-> [pc |-> at(i), insn |-> m[at(i)]]]
           b    == disas(m, start, step, bp)
<1>1. /\ d \in 0 .. Words - 1 /\ n = Wrap(start + d) /\ n \in Addr
      /\ step => d = 0
      /\ ~ step => \A e \in Stops(m, start, bp) : d =< e
  BY LastPcFirst
<1>2. /\ start \in Nat /\ start < Words /\ n \in Nat /\ n < Words
      /\ Words \in Nat /\ d \in Nat /\ d < Words
      /\ Null \notin Addr
  <2>1. Null \notin Addr
    BY AddrNat, NullAssumption
  <2>2. n \in Addr /\ d \in 0 .. Words - 1
    BY <1>1
  <2> HIDE DEF n, d
  <2>3. QED BY <2>1, <2>2, AddrNat, WordsAssumption
<1>3. ~ stop => (IsJump(m[n]) => SlotEnds(m, n) # {})
  <2>1. step => n = start
    <3> HIDE DEF n, d
    <3>1. step => n = Wrap(start + 0)
      BY <1>1
    <3>2. QED BY <3>1, WrapNext
  <2>2. start # bp
    BY <1>2
  <2>3. ~ stop => n # bp
    BY <2>1, <2>2
  <2>4. QED BY <2>3 DEF DisasCrashes
<1>4. /\ more \in 0 .. Words + 1
      /\ \A k \in 0 .. Words : k + 1 < more => IsJump(m[Wrap(n + k)])
  <2>1. CASE stop
    BY <2>1, <1>2
  <2>2. CASE ~ stop
    BY <2>2, <1>1, <1>3, EmittedJumps
  <2>3. QED BY <2>1, <2>2
<1>5. bp # Null \/ b.ok => start + d < Words /\ n = start + d
  BY ScanAhead
<1>6. /\ b.start = start /\ b.code = code /\ b.num_insn = len
      /\ b.end = EndPc(m, start, step, bp)
      /\ b = [start |-> b.start, end |-> b.end, code |-> b.code,
              num_insn |-> b.num_insn, fall |-> b.fall, ok |-> b.ok]
      /\ b.fall \in BOOLEAN /\ b.ok \in BOOLEAN
      /\ b.fall => stop \/ (step /\ ~ Ends(m[n]))
      /\ stop => b.ok
  BY DEF disas, Accepts, IsPlain, Ends, Unsupported
<1>7. b.end \in Addr
  <2>1. CASE stop
    <3>1. b.end = n - 1 /\ n = bp /\ start < bp
      BY <2>1, <1>1, <1>2, <1>6 DEF EndPc
    <3> HIDE DEF n, b
    <3>2. QED BY <3>1, <1>2 DEF Addr
  <2>2. CASE ~ stop /\ step /\ Ends(m[n])
    <3>1. b.end = Wrap(n + 1)
      BY <2>2, <1>6 DEF EndPc
    <3> HIDE DEF n, b
    <3>2. QED BY <3>1, <1>1, WrapNext
  <2>3. CASE ~ stop /\ ~ (step /\ Ends(m[n]))
    <3>1. b.end = n
      BY <2>3, <1>6 DEF EndPc
    <3>2. QED BY <3>1, <1>1
  <2>4. QED BY <2>1, <2>2, <2>3
<1> HIDE DEF d, n, more, b
<1>8. len \in Nat /\ \A i \in 1 .. len : start + i - 1 \in Nat
  BY <1>2, <1>4
<1>9. \A i \in 1 .. len : at(i) \in Addr
  BY <1>8, WrapAddr
<1>10. /\ code \in Seq([pc : Addr, insn : Insn]) /\ Len(code) = len
       /\ \A i \in 1 .. len : code[i].pc = at(i) /\ code[i].insn = m[at(i)]
  <2> HIDE DEF len, at
  <2>1. code \in [1 .. len -> [pc : Addr, insn : Insn]]
    BY <1>9
  <2>2. code \in Seq([pc : Addr, insn : Insn]) /\ Len(code) = len
    BY <2>1, <1>8
  <2>3. QED BY <2>2
<1>11. b \in Block
  BY <1>6, <1>7, <1>8, <1>10 DEF Block
<1>12. ASSUME NEW i \in 1 .. len, IsHead(b, i)
       PROVE  \/ at(i) = start
              \/ start < at(i) /\ ~ (bp \in start .. at(i))
              \/ ~ b.ok /\ at(i) < start
  <2>0. i \in Nat /\ i >= 1 /\ i =< d + more
    BY <1>8
  <2>1. CASE i = 1
    <3>1. start + i - 1 = start + 0
      BY <2>1, <1>2
    <3>2. QED BY <3>1, WrapNext
  <2>2. CASE i # 1
    <3>1. i - 1 \in 1 .. len /\ ~ IsJump(code[i - 1].insn)
      BY <2>2, <1>6, <1>8, <1>12 DEF IsHead
    <3>2. ~ IsJump(m[at(i - 1)])
      BY <3>1, <1>10
    <3>3. CASE i - 1 > d
      <4> DEFINE k == i - 2 - d
      <4>1. k \in 0 .. Words /\ k + 1 < more /\ start + d \in Nat
            /\ (start + d) + k = start + (i - 1) - 1
        BY <3>3, <2>0, <1>2, <1>4
      <4> HIDE DEF k
      <4>2. k \in Nat
        BY <4>1, <1>2
      <4>3. Wrap(n + k) = at(i - 1)
        BY <4>1, <4>2, <1>1, WrapSum
      <4>4. QED BY <4>1, <4>3, <3>2, <1>4
    <3>4. CASE i - 1 =< d
      <4>1. ~ step
        BY <3>4, <2>0, <2>2, <1>1
      <4>2. i - 1 \in 1 .. Words - 1 /\ start + i - 1 = start + (i - 1)
        BY <3>4, <2>0, <2>2, <1>2
      <4>3. CASE start + i - 1 < Words
        <5>1. at(i) = start + i - 1
          BY <4>3, <1>8, WrapAddr
        <5>2. start < at(i)
          BY <5>1, <4>2, <1>2
        <5>3. ASSUME bp \in start .. at(i) PROVE FALSE
          <6>1. bp \in Addr /\ bp \in Nat
            BY <5>3, <5>1, <1>2, <4>2, <4>3, NullAssumption
          <6>2. bp - start \in 0 .. Words - 1 /\ start + (bp - start) = bp
                /\ bp - start =< i - 1 /\ bp \in Nat /\ bp < Words
            BY <5>3, <5>1, <6>1, <4>2, <4>3, <1>2
          <6>3. Wrap(start + (bp - start)) = bp
            BY <6>2, WrapAddr
          <6>4. bp - start \in Stops(m, start, bp)
            BY <6>2, <6>3 DEF Stops
          <6>5. d =< bp - start
            BY <6>4, <4>1, <1>1
          <6>6. n = start + d
            BY <6>1, <1>2, <1>5
          <6>7. n = bp /\ d = i - 1
            BY <6>2, <6>5, <6>6, <3>4, <1>2, <2>0
          <6>8. more = 0
            BY <6>7, <4>1 DEF more
          <6>9. QED BY <6>7, <6>8, <2>0, <1>2
        <5>4. QED BY <5>2, <5>3
      <4>4. CASE start + i - 1 >= Words
        <5>1. at(i) = start + i - 1 - Words
          <6>1. /\ start + i - 1 < 2 * Words /\ Words =< start + i - 1
                /\ start + i - 1 \in Nat
            BY <4>2, <4>4, <1>2
          <6>2. \A s \in Nat : Words =< s /\ s < 2 * Words => Wrap(s) = s - Words
            BY WrapAddr
          <6>3. QED BY <6>1, <6>2, <1>2, <2>0
        <5>2. at(i) < start
          BY <5>1, <4>2, <1>2
        <5>3. ~ b.ok
          <6>1. ~ (start + d < Words)
            BY <3>4, <4>2, <4>4, <1>2
          <6>2. QED BY <6>1, <1>5
        <5>4. QED BY <5>2, <5>3
      <4>5. QED BY <4>3, <4>4, <4>2, <1>2
    <3>5. QED BY <3>3, <3>4, <2>0, <1>2
  <2>3. QED BY <2>1, <2>2
<1>13. \A i \in 1 .. Len(b.code) :
         /\ b.code[i].insn = m[b.code[i].pc]
         /\ IsHead(b, i) =>
              LET p == b.code[i].pc IN
              \/ p = start
              \/ start < p /\ ~ (bp \in start .. p)
              \/ ~ b.ok /\ p < start
  <2> HIDE DEF code, len, at
  <2> QED BY <1>6, <1>10, <1>12
<1>14. b.num_insn = Len(b.code)
  BY <1>6, <1>10
<1>15. b.fall => b.start + Len(b.code) =< Words
  <2>1. b.start + Len(b.code) = start + d + more
    BY <1>2, <1>4, <1>6, <1>10
  <2>2. CASE stop
    <3>1. start + d < Words /\ more = 0
      BY <2>2, <1>5, <1>6 DEF more
    <3>2. QED BY <2>1, <3>1, <1>2
  <2>3. CASE ~ stop /\ step /\ ~ Ends(m[n])
    <3>1. more =< 1
      BY <2>3, <1>1, <1>3, EmittedJumps DEF more, Ends
    <3>2. d = 0
      BY <2>3, <1>1
    <3>3. QED BY <2>1, <3>1, <3>2, <1>2, <1>4
  <2>4. QED BY <2>2, <2>3, <1>6
<1>16. QED
  <2> HIDE DEF code, len, at
  <2> QED BY <1>6, <1>11, <1>13, <1>14, <1>15 DEF b

-----------------------------------------------------------------------------
(* The inductive invariant.                                                *)

\* A block whose code is counted and, if it falls through, does so to an
\* address.
WellFormed(b) ==
  /\ b \in Block
  /\ b.num_insn = Len(b.code)
  /\ b.fall => b.start + Len(b.code) =< Words

\* No instruction of the block has a breakpoint, but for delay slots and for
\* what lies past address 0 in a translation that failed.
HeadsFree(b, bps) ==
  \A i \in 1 .. Len(b.code) :
    IsHead(b, i) => \/ b.code[i].pc \notin bps
                    \/ ~ b.ok /\ b.code[i].pc < b.start

\* The block's words are such as memory held since the last invalidate.
FromMemory(b, h) ==
  \A i \in 1 .. Len(b.code) : b.code[i].insn \in h[b.code[i].pc]

Good(b, bps, h) == WellFormed(b) /\ HeadsFree(b, bps) /\ FromMemory(b, h)

GoodBlocks ==
  /\ \A a \in DOMAIN bb_by_start : /\ Good(bb_by_start[a], bps_by_addr, held)
                                  /\ bb_by_start[a].start = a
  /\ Executing => Good(bb, bps_by_addr, held)

HeldNow == \A a \in Addr : mem[a] \in held[a]

IInv == TypeOK /\ GoodBlocks /\ HeldNow

\* Under the invariant, a translation that find_nearest was asked for is good,
\* and its words are those of memory.
LEMMA TranslationGood ==
  ASSUME IInv, NEW start \in Addr, NEW step \in BOOLEAN,
         find_nearest(start) # start,
         ~ DisasCrashes(mem, start, step, find_nearest(start))
  PROVE  LET b == disas(mem, start, step, find_nearest(start))
         IN  /\ WellFormed(b) /\ HeadsFree(b, bps_by_addr) /\ b.start = start
             /\ \A i \in 1 .. Len(b.code) :
                  b.code[i].pc \in Addr /\ b.code[i].insn = mem[b.code[i].pc]
<1> DEFINE near == find_nearest(start)
           b    == disas(mem, start, step, near)
<1>1. mem \in [Addr -> Insn] /\ bps_by_addr \subseteq Addr
  BY VmAssumption DEF IInv, TypeOK
<1>2. /\ near = Null \/ (near \in Addr /\ start =< near)
      /\ \A c \in bps_by_addr : c >= start =>
           near \in Addr /\ start =< near /\ near =< c
  BY <1>1, NearestLeast
<1>3. /\ b \in Block /\ b.start = start /\ b.num_insn = Len(b.code)
      /\ b.fall => b.start + Len(b.code) =< Words
      /\ \A i \in 1 .. Len(b.code) :
           /\ b.code[i].insn = mem[b.code[i].pc]
           /\ IsHead(b, i) => \/ b.code[i].pc = start
                              \/ /\ start < b.code[i].pc
                                 /\ ~ (near \in start .. b.code[i].pc)
                              \/ ~ b.ok /\ b.code[i].pc < start
  <2>1. near = Null \/ (near \in Addr /\ start < near)
    BY <1>1, NearestAbove
  <2>2. QED BY <2>1, <1>1, DisasBlock
<1> HIDE DEF b
<1>4. \A i \in 1 .. Len(b.code) : b.code[i].pc \in Addr
  BY <1>3, CodeElem
<1>5. ASSUME NEW i \in 1 .. Len(b.code), IsHead(b, i),
             b.code[i].pc \in bps_by_addr,
             ~ (~ b.ok /\ b.code[i].pc < start)
      PROVE  FALSE
  <2> HIDE DEF near
  <2>0. b.code[i].pc \in Nat /\ start \in Nat
    BY <1>4, AddrNat
  <2>1. b.code[i].pc >= start
    BY <2>0, <1>3, <1>5
  <2>2. near \in start .. b.code[i].pc
    BY <2>1, <1>2, <1>4, <1>5, AddrNat
  <2>3. b.code[i].pc = start /\ near = start
    BY <2>2, <1>3, <1>5, AddrNat
  <2>4. QED BY <2>3 DEF near
<1>6. WellFormed(b) /\ HeadsFree(b, bps_by_addr)
  BY <1>3, <1>5 DEF WellFormed, HeadsFree
<1>7. QED BY <1>3, <1>4, <1>6 DEF b

\* The code of an instruction leaves registers.
LEMMA ExecuteType ==
  ASSUME NEW i \in Insn, NEW a \in Addr, NEW r \in Regs
  PROVE  Execute(i, a, r) \in Regs
<1>1. Wrap(a + 2) \in Addr /\ ReturnPc(a) \in Addr /\ Wrap(r.GR + 1) \in Addr
  <2>1. r.GR \in Addr
    BY DEF Regs
  <2>2. QED BY <2>1, WrapNext
<1>2. i.k \in Addr /\ Branch(i, r.SR_F, a) \in Addr
  BY <1>1 DEF Insn, Branch
<1>3. /\ r.PC \in Addr /\ r.PNEXT_PC \in Addr /\ r.EPCR0 \in Addr
      /\ r.LR \in Addr /\ r.GR \in Addr
  BY DEF Regs
<1>4. CASE i.op \in {"j", "jal", "jr", "jalr"}
  BY <1>1, <1>2, <1>3, <1>4 DEF Execute, Jalr, Regs
<1>5. CASE i.op \in {"bf", "bnf", "rfe"}
  BY <1>1, <1>2, <1>3, <1>5 DEF Execute, Regs
<1>6. CASE i.op \in {"li", "addi", "mflr", "mtlr", "sfeq"}
  BY <1>1, <1>2, <1>3, <1>6 DEF Execute, Regs
<1>7. CASE i.op \notin {"j", "jal", "jr", "jalr", "bf", "bnf", "rfe", "li",
                       "addi", "mflr", "mtlr", "sfeq"}
  BY <1>7 DEF Execute
<1>8. QED BY <1>4, <1>5, <1>6, <1>7

\* The end of a block leaves registers, with PC and PNEXT_PC equal.
LEMMA BlockEndType ==
  ASSUME NEW b, WellFormed(b), NEW r \in Regs
  PROVE  /\ BlockEnd(b, r) \in Regs
         /\ BlockEnd(b, r).PC = BlockEnd(b, r).PNEXT_PC
<1> DEFINE n    == Len(b.code)
           linked == IF n > 1 /\ b.code[n - 1].insn.op = "jalr"
                   THEN [r EXCEPT !.LR = ReturnPc(b.code[n - 1].pc)] ELSE r
           next == IF b.fall THEN Wrap(b.start + n) ELSE r.PNEXT_PC
<1>1. n \in Nat /\ b.start \in Addr /\ (b.fall => b.start + n =< Words)
  BY DEF WellFormed, Block
<1>2. next \in Addr
  <2>1. CASE b.fall
    <3>1. b.start \in Nat
      BY <1>1, AddrNat
    <3>2. b.start + n \in Nat /\ b.start + n < 2 * Words
      BY <2>1, <3>1, <1>1, WordsAssumption
    <3>3. QED BY <2>1, <3>2, WrapAddr
  <2>2. CASE ~ b.fall
    BY <2>2 DEF Regs
  <2>3. QED BY <2>1, <2>2
<1>3. n > 1 => ReturnPc(b.code[n - 1].pc) \in Addr
  <2>1. n > 1 => n - 1 \in 1 .. n
    BY <1>1
  <2>2. n > 1 => b.code[n - 1].pc \in Addr
    BY <2>1, CodeElem DEF WellFormed
  <2>3. QED BY <2>2, WrapNext
<1>4. linked \in Regs
  BY <1>3 DEF Regs
<1>5. BlockEnd(b, r) = [linked EXCEPT !.PNEXT_PC = next, !.PC = next]
  BY DEF BlockEnd
<1> HIDE DEF linked, next
<1>6. QED BY <1>2, <1>4, <1>5 DEF Regs

\* Fewer breakpoints and a longer memory of stores keep a block good.
LEMMA GoodMonotone ==
  ASSUME NEW b, NEW bps, NEW bps2, bps2 \subseteq bps,
         NEW h, NEW h2, \A a \in Addr : h[a] \subseteq h2[a],
         Good(b, bps, h)
  PROVE  Good(b, bps2, h2)
<1>1. WellFormed(b) /\ HeadsFree(b, bps2)
  BY DEF Good, HeadsFree
<1>2. \A i \in 1 .. Len(b.code) : b.code[i].pc \in Addr
  BY <1>1, CodeElem DEF WellFormed
<1>3. FromMemory(b, h2)
  BY <1>2 DEF Good, FromMemory
<1>4. QED BY <1>1, <1>3 DEF Good

-----------------------------------------------------------------------------
(* The invariant holds initially and is preserved by every action.         *)

\* The constructor establishes the invariant.
LEMMA InitInvariant == Init => IInv
<1> SUFFICES ASSUME Init PROVE IInv
  OBVIOUS
<1>1. mem \in [Addr -> Insn]
  BY VmAssumption DEF Init
<1>2. regs \in Regs
  BY VmAssumption, WordsAssumption DEF Init, Regs, Addr
<1>3. held \in [Addr -> SUBSET Insn] /\ HeldNow
  BY <1>1 DEF Init, HeldNow
<1>4. DOMAIN bb_by_start = {}
  BY DEF Init, NoBlocks
<1>5. total_icount \in 0 .. IcountWidth - 1 /\ retired \in 0 .. IcountWidth - 1
  BY VmAssumption DEF Init
<1>6. TypeOK
  BY <1>1, <1>2, <1>3, <1>4, <1>5 DEF Init, TypeOK
<1>7. GoodBlocks
  BY <1>4 DEF Init, GoodBlocks, Executing
<1>8. QED BY <1>3, <1>6, <1>7 DEF IInv

\* An interrupt leaves registers.
LEMMA TakeIrqType ==
  ASSUME NEW r \in Regs, NEW a \in Addr
  PROVE  TakeIrq(r, a) \in Regs
BY VmAssumption DEF TakeIrq, Regs

\* run_continue(false) only moves REG_PC to run()'s local pc.
LEMMA ContinueInvariant == IInv /\ Continue => IInv'
<1> SUFFICES ASSUME IInv, Continue PROVE IInv'
  OBVIOUS
<1>1. TypeOK'
  BY DEF IInv, TypeOK, Continue, history, Regs
<1>2. GoodBlocks' /\ HeldNow'
  BY DEF IInv, GoodBlocks, HeldNow, Continue, history, Executing
<1>3. QED BY <1>1, <1>2 DEF IInv

\* A breakpoint cannot fall inside a cached block: bp_man.add comes with an
\* invalidate that drops them all.
LEMMA SetBreakPointInvariant ==
  ASSUME NEW a \in BreakAddrs
  PROVE  IInv /\ SetBreakPoint(a) => IInv'
<1> SUFFICES ASSUME IInv, SetBreakPoint(a) PROVE IInv'
  OBVIOUS
<1>1. /\ mem' = mem /\ held' = [c \in Addr |-> {mem[c]}]
      /\ DOMAIN bb_by_start' = {} /\ state' = "stopped"
  BY DEF SetBreakPoint, invalidate, NoBlocks, engine
<1>2. held' \in [Addr -> SUBSET Insn] /\ HeldNow'
  BY <1>1 DEF IInv, TypeOK, HeldNow
<1>3. TypeOK'
  BY <1>1, <1>2 DEF IInv, TypeOK, SetBreakPoint, engine
<1>4. GoodBlocks'
  BY <1>1 DEF GoodBlocks, Executing
<1>5. QED BY <1>2, <1>3, <1>4 DEF IInv

\* Removing a breakpoint leaves every block free of breakpoints.
LEMMA UnsetBreakPointInvariant ==
  ASSUME NEW a \in BreakAddrs
  PROVE  IInv /\ UnsetBreakPoint(a) => IInv'
<1> SUFFICES ASSUME IInv, UnsetBreakPoint(a) PROVE IInv'
  OBVIOUS
<1>1. /\ bps_by_addr' \subseteq bps_by_addr /\ held' = held /\ mem' = mem
      /\ bb_by_start' = bb_by_start /\ state' \in {"stopped", "aborted"}
  BY DEF UnsetBreakPoint, Abort, engine, history
<1>2. TypeOK'
  BY DEF IInv, TypeOK, UnsetBreakPoint, Abort, engine, history
<1>3. GoodBlocks'
  BY <1>1, GoodMonotone DEF IInv, GoodBlocks, Executing
<1>4. HeldNow'
  BY <1>1 DEF IInv, HeldNow
<1>5. QED BY <1>2, <1>3, <1>4 DEF IInv

\* run() returns RUN_STAT_BREAK: nothing but the loop's pc goes.
LEMMA HitBreakPointInvariant == IInv /\ HitBreakPoint => IInv'
<1> SUFFICES ASSUME IInv, HitBreakPoint PROVE IInv'
  OBVIOUS
<1>1. TypeOK'
  BY DEF IInv, TypeOK, HitBreakPoint, Dispatching, Stop, history
<1>2. GoodBlocks' /\ HeldNow'
  BY DEF IInv, GoodBlocks, HeldNow, HitBreakPoint, Stop, history, Executing
<1>3. QED BY <1>1, <1>2 DEF IInv

\* Entering a good block.
LEMMA EnterInvariant ==
  ASSUME NEW b, NEW r \in Regs, IInv, Enter(b, r),
         mem' = mem, regs' \in Regs, bps_by_addr' = bps_by_addr,
         irq_status' = irq_status, total_icount' = total_icount,
         retired' = retired, is_step' \in BOOLEAN, pc' \in Addr,
         held' \in [Addr -> SUBSET Insn], HeldNow',
         \A a \in DOMAIN bb_by_start' :
            /\ Good(bb_by_start'[a], bps_by_addr, held')
            /\ bb_by_start'[a].start = a,
         Good(b, bps_by_addr, held')
  PROVE  IInv'
<1>1. b \in Block /\ Len(b.code) \in Nat
  BY DEF Good, WellFormed, Block
<1>2. [r EXCEPT !.PC = r.PNEXT_PC] \in Regs
  BY DEF Regs
<1>3. \A a \in DOMAIN bb_by_start' : bb_by_start'[a] \in Block /\ a \in Addr
  BY DEF Good, WellFormed, Block
<1>4. TypeOK'
  <2>1. /\ state' = "executing" /\ bb' \in Block /\ shadow' \in Regs
        /\ idx' \in 1 .. Len(bb'.code) + 1 /\ accepted' \in BOOLEAN
    <3>1. 1 \in 1 .. Len(b.code) + 1
      BY <1>1
    <3>2. /\ state' = "executing" /\ bb' = b /\ idx' = 1 /\ accepted' = FALSE
          /\ shadow' = [r EXCEPT !.PC = r.PNEXT_PC]
      BY DEF Enter
    <3>3. QED BY <3>1, <3>2, <1>1, <1>2
  <2>2. /\ DOMAIN bb_by_start' \subseteq Addr
        /\ \A a \in DOMAIN bb_by_start' : bb_by_start'[a] \in Block
    BY <1>3
  <2>3. QED BY <2>1, <2>2 DEF IInv, TypeOK
<1>5. GoodBlocks'
  BY DEF GoodBlocks, Enter, Executing
<1>6. QED BY <1>4, <1>5 DEF IInv

\* A cached block is good, so it may be entered.
LEMMA RunCachedInvariant == IInv /\ RunCached => IInv'
<1> SUFFICES ASSUME IInv, RunCached PROVE IInv'
  OBVIOUS
<1>1. /\ Enter(bb_by_start[pc], regs) /\ Good(bb_by_start[pc], bps_by_addr, held)
      /\ pc \in Addr /\ regs \in Regs
  BY DEF IInv, TypeOK, GoodBlocks, RunCached, Dispatching
<1>2. /\ mem' = mem /\ regs' = regs /\ bb_by_start' = bb_by_start
      /\ bps_by_addr' = bps_by_addr /\ irq_status' = irq_status
      /\ total_icount' = total_icount /\ is_step' = is_step /\ pc' = pc
      /\ held' = held /\ retired' = retired
  BY DEF RunCached
<1>3. /\ is_step \in BOOLEAN /\ held \in [Addr -> SUBSET Insn] /\ HeldNow'
      /\ \A a \in DOMAIN bb_by_start' :
            /\ Good(bb_by_start'[a], bps_by_addr, held')
            /\ bb_by_start'[a].start = a
  BY <1>2 DEF IInv, TypeOK, GoodBlocks, HeldNow
<1>4. QED BY <1>1, <1>2, <1>3, EnterInvariant

\* A block translated up to the nearest breakpoint is good and may be cached.
LEMMA RunTranslatedInvariant == IInv /\ RunTranslated => IInv'
<1> SUFFICES ASSUME IInv, RunTranslated PROVE IInv'
  OBVIOUS
<1> DEFINE near == find_nearest(pc)
           b    == disas(mem, pc, FALSE, near)
<1>1. /\ near # pc /\ pc \in Addr /\ regs \in Regs /\ bb = Null /\ shadow = regs
      /\ held \in [Addr -> SUBSET Insn] /\ is_step \in BOOLEAN
      /\ \A a \in DOMAIN bb_by_start : /\ Good(bb_by_start[a], bps_by_addr, held)
                                      /\ bb_by_start[a].start = a
  BY DEF IInv, TypeOK, GoodBlocks, RunTranslated, Dispatching
<1>2. /\ mem' = mem /\ regs' = regs /\ bps_by_addr' = bps_by_addr
      /\ irq_status' = irq_status /\ total_icount' = total_icount
      /\ held' = held /\ retired' = retired
  BY DEF RunTranslated
<1>3. HeldNow'
  BY <1>2 DEF IInv, HeldNow
<1>4. CASE DisasCrashes(mem, pc, FALSE, near)
  <2>1. Abort /\ UNCHANGED <<bb_by_start, accepted>>
    BY <1>4 DEF RunTranslated
  <2>2. TypeOK'
    BY <2>1, <1>2 DEF IInv, TypeOK, Abort
  <2>3. GoodBlocks'
    BY <2>1, <1>1, <1>2 DEF GoodBlocks, Abort, Executing
  <2>4. QED BY <2>2, <2>3, <1>3 DEF IInv
<1>5. CASE ~ DisasCrashes(mem, pc, FALSE, near)
  <2>1. /\ Enter(b, regs) /\ UNCHANGED <<is_step, pc>>
        /\ bb_by_start' = IF b.ok THEN WithBlock(bb_by_start, b) ELSE bb_by_start
    BY <1>5 DEF RunTranslated
  <2>2. /\ WellFormed(b) /\ HeadsFree(b, bps_by_addr) /\ b.start = pc
        /\ \A i \in 1 .. Len(b.code) :
             b.code[i].pc \in Addr /\ b.code[i].insn = mem[b.code[i].pc]
    BY <1>1, <1>5, TranslationGood
  <2> HIDE DEF b
  <2>3. Good(b, bps_by_addr, held)
    BY <2>2 DEF IInv, HeldNow, Good, FromMemory
  <2>4. \A a \in DOMAIN bb_by_start' :
            /\ Good(bb_by_start'[a], bps_by_addr, held)
            /\ bb_by_start'[a].start = a
    BY <2>1, <2>3, <1>1 DEF WithBlock
  <2>5. QED BY <2>1, <2>3, <2>4, <1>1, <1>2, <1>3, EnterInvariant
<1>6. QED BY <1>4, <1>5

\* An instruction leaves registers, and its store only adds to what memory held.
LEMMA ExecInsnInvariant == IInv /\ ExecInsn => IInv'
<1> SUFFICES ASSUME IInv, ExecInsn PROVE IInv'
  OBVIOUS
<1> DEFINE i == bb.code[idx].insn
<1>1. /\ state = "executing" /\ Good(bb, bps_by_addr, held) /\ bb \in Block
      /\ idx \in 1 .. Len(bb.code) /\ Len(bb.code) \in Nat
      /\ shadow \in Regs
  <2>1. state = "executing" /\ idx <= Len(bb.code)
    BY DEF ExecInsn, Executing
  <2>2. bb \in Block /\ idx \in 1 .. Len(bb.code) + 1 /\ shadow \in Regs
    BY <2>1 DEF IInv, TypeOK
  <2>3. Len(bb.code) \in Nat
    BY <2>2 DEF Block
  <2>4. QED BY <2>1, <2>2, <2>3 DEF IInv, GoodBlocks, Executing
<1>2. i \in Insn /\ bb.code[idx].pc \in Addr /\ i.k \in Addr
  BY <1>1, CodeElem DEF Insn
<1>3. /\ shadow' = Execute(i, bb.code[idx].pc, shadow)
      /\ idx' = idx + 1 /\ retired' = (retired + 1) % IcountWidth
      /\ UNCHANGED <<regs, bb_by_start, bps_by_addr, irq_status, total_icount,
                     state, is_step, pc, bb, accepted>>
  BY DEF ExecInsn
<1>4. shadow' \in Regs
  BY <1>1, <1>2, <1>3, ExecuteType
<1>5. retired' \in 0 .. IcountWidth - 1
  <2>1. retired + 1 \in Nat /\ IcountWidth \in Nat /\ IcountWidth > 0
    BY VmAssumption DEF IInv, TypeOK
  <2>2. QED BY <2>1, <1>3
<1>6. /\ mem' \in [Addr -> Insn] /\ held' \in [Addr -> SUBSET Insn] /\ HeldNow'
      /\ \A a \in Addr : held[a] \subseteq held'[a]
  <2>1. /\ mem \in [Addr -> Insn] /\ held \in [Addr -> SUBSET Insn]
        /\ StoredWord \in Insn /\ \A a \in Addr : mem[a] \in held[a]
    BY VmAssumption DEF IInv, TypeOK, HeldNow
  <2>2. CASE i.op = "sw"
    <3>1. /\ mem' = [mem EXCEPT ![i.k] = StoredWord]
          /\ held' = [held EXCEPT ![i.k] = @ \cup {StoredWord}]
      BY <2>2 DEF ExecInsn
    <3>2. QED BY <3>1, <2>1, <1>2 DEF HeldNow
  <2>3. CASE i.op # "sw"
    <3>1. mem' = mem /\ held' = held
      BY <2>3 DEF ExecInsn
    <3>2. QED BY <3>1, <2>1 DEF HeldNow
  <2>4. QED BY <2>2, <2>3
<1> HIDE DEF i
<1>7. TypeOK'
  BY <1>1, <1>3, <1>4, <1>5, <1>6 DEF IInv, TypeOK
<1>8. GoodBlocks'
  BY <1>1, <1>3, <1>6, GoodMonotone DEF IInv, GoodBlocks, Executing
<1>9. QED BY <1>6, <1>7, <1>8 DEF IInv

\* A block that returns leaves PC equal to PNEXT_PC, and run()'s pc with them
\* or at the interrupt vector.
LEMMA FinishBlockInvariant == IInv /\ FinishBlock => IInv'
<1> SUFFICES ASSUME IInv, FinishBlock PROVE IInv'
  OBVIOUS
<1> DEFINE r    == BlockEnd(bb, shadow)
           take == ~ is_step /\ IrqPending(r)
<1>1. /\ state = "executing" /\ WellFormed(bb) /\ shadow \in Regs /\ is_step \in BOOLEAN
  BY DEF IInv, TypeOK, GoodBlocks, FinishBlock, Executing, Good
<1>2. r \in Regs
  BY <1>1, BlockEndType
<1>3. /\ regs' = IF take THEN TakeIrq(r, r.PNEXT_PC) ELSE r
      /\ accepted' = take /\ shadow' = regs' /\ total_icount' = Counted(bb)
      /\ bb' = Null
      /\ \/ is_step /\ Stop
         \/ /\ ~ is_step /\ state' = "dispatch" /\ is_step' = is_step
            /\ pc' = NextPc(take, r)
      /\ UNCHANGED <<mem, bb_by_start, bps_by_addr, irq_status, held, retired>>
  BY DEF FinishBlock
<1>4. regs' \in Regs /\ take \in BOOLEAN
  <2>1. r.PNEXT_PC \in Addr /\ r.SR_IEE \in BOOLEAN
    BY <1>2 DEF Regs
  <2>2. irq_status \in BOOLEAN
    BY DEF IInv, TypeOK
  <2> HIDE DEF r
  <2>3. TakeIrq(r, r.PNEXT_PC) \in Regs
    BY <2>1, <1>2, TakeIrqType
  <2>4. QED BY <2>3, <2>2, <1>1, <1>2, <1>3 DEF IrqPending
<1>5. NextPc(take, r) \in Addr
  BY <1>2, VmAssumption DEF NextPc, Regs
<1>6. total_icount' \in 0 .. IcountWidth - 1
  <2>1. /\ total_icount + bb.num_insn \in Nat
        /\ IcountWidth \in Nat /\ IcountWidth > 0
    BY <1>1, VmAssumption DEF IInv, TypeOK, WellFormed, Block
  <2>2. QED BY <2>1, <1>3 DEF Counted
<1> HIDE DEF r, take
<1>7. TypeOK'
  <2>1. /\ is_step' \in BOOLEAN /\ state' \in {"stopped", "dispatch"}
        /\ state' = "stopped" => pc' = Null
        /\ state' = "dispatch" => pc' \in Addr
    BY <1>1, <1>3, <1>5 DEF Stop
  <2>2. QED BY <2>1, <1>3, <1>4, <1>6 DEF IInv, TypeOK
<1>8. GoodBlocks' /\ HeldNow'
  BY <1>3 DEF IInv, GoodBlocks, HeldNow, Executing, Stop
<1>9. QED BY <1>7, <1>8 DEF IInv

\* A failed translation aborts and keeps everything.
LEMMA FinishAbortingInvariant == IInv /\ FinishAborting => IInv'
<1> SUFFICES ASSUME IInv, FinishAborting PROVE IInv'
  OBVIOUS
<1>1. TypeOK'
  BY DEF IInv, TypeOK, FinishAborting, Abort, history
<1>2. GoodBlocks' /\ HeldNow'
  BY DEF IInv, GoodBlocks, HeldNow, FinishAborting, Abort, history, Executing
<1>3. QED BY <1>1, <1>2 DEF IInv

\* The interrupt line appears in the invariant by its type only.
LEMMA DeviceInvariant == IInv /\ (Device \/ reset) => IInv'
<1> SUFFICES ASSUME IInv, Device \/ reset PROVE IInv'
  OBVIOUS
<1>1. /\ irq_status' \in BOOLEAN
      /\ UNCHANGED <<mem, regs, bb_by_start, bps_by_addr, total_icount, engine,
                     history>>
  BY DEF Device, interrupt, reset
<1>2. TypeOK'
  BY <1>1 DEF IInv, TypeOK, engine, history
<1>3. GoodBlocks' /\ HeldNow'
  BY <1>1 DEF IInv, GoodBlocks, HeldNow, engine, history, Executing
<1>4. QED BY <1>2, <1>3 DEF IInv

\* step_exec() caches and runs one fresh instruction on an address without a
\* breakpoint.
LEMMA StepInvariant == IInv /\ Step => IInv'
<1> SUFFICES ASSUME IInv, Step PROVE IInv'
  OBVIOUS
<1> DEFINE take  == IrqPending(regs)
           start == IF take THEN IrqVector ELSE regs.PC
           near  == find_nearest(start)
           b     == SteppedBlock(start, near)
<1>1. /\ state = "stopped" /\ regs \in Regs /\ mem \in [Addr -> Insn]
      /\ bb = Null /\ pc = Null
      /\ \A a \in DOMAIN bb_by_start : /\ Good(bb_by_start[a], bps_by_addr, held)
                                      /\ bb_by_start[a].start = a
  BY DEF IInv, TypeOK, GoodBlocks, Step
<1>2. regs' = IF take THEN TakeIrq(regs, regs.PC) ELSE regs
  BY DEF Step
<1>3. start \in Addr /\ regs' \in Regs
  <2>1. regs.PC \in Addr
    BY <1>1 DEF Regs
  <2>2. TakeIrq(regs, regs.PC) \in Regs
    BY <1>1, <2>1, TakeIrqType
  <2>3. QED BY <2>1, <2>2, <1>1, <1>2, VmAssumption
<1>4. UNCHANGED <<mem, bps_by_addr, irq_status, total_icount, retired>>
  BY DEF Step
<1>5. CASE near = start
  <2>1. /\ accepted' = (take \/ accepted) /\ shadow' = regs'
        /\ UNCHANGED <<bb_by_start, held, state, is_step, pc, bb, idx>>
    BY <1>5 DEF Step
  <2>2. accepted' \in BOOLEAN
    BY <2>1 DEF IInv, TypeOK
  <2>3. TypeOK'
    BY <2>1, <2>2, <1>1, <1>3, <1>4 DEF IInv, TypeOK
  <2>4. GoodBlocks' /\ HeldNow'
    BY <2>1, <1>1, <1>4 DEF IInv, GoodBlocks, HeldNow, Executing
  <2>5. QED BY <2>3, <2>4 DEF IInv
<1>6. CASE near # start /\ DisasCrashes(mem, start, TRUE, near)
  <2>1. /\ state' = "aborted" /\ invalidate(start, start + 1) /\ shadow' = regs'
        /\ UNCHANGED <<is_step, pc, bb, idx, accepted>>
    BY <1>6 DEF Step
  <2>2. DOMAIN bb_by_start' = {} /\ held' = [a \in Addr |-> {mem[a]}]
    BY <2>1 DEF invalidate, NoBlocks
  <2>3. held' \in [Addr -> SUBSET Insn] /\ HeldNow'
    BY <2>2, <1>1, <1>4 DEF HeldNow
  <2>4. TypeOK'
    BY <2>1, <2>2, <2>3, <1>3, <1>4 DEF IInv, TypeOK
  <2>5. GoodBlocks'
    BY <2>1, <2>2 DEF GoodBlocks, Executing
  <2>6. QED BY <2>3, <2>4, <2>5 DEF IInv
<1>7. CASE near # start /\ ~ DisasCrashes(mem, start, TRUE, near)
  <2>1. /\ Enter(b, regs') /\ is_step' = TRUE /\ pc' = start
        /\ held' = [a \in Addr |-> {mem[a]}]
        /\ bb_by_start' = IF b.ok THEN WithBlock(NoBlocks, b) ELSE NoBlocks
    BY <1>7 DEF Step
  <2>2. /\ WellFormed(b) /\ HeadsFree(b, bps_by_addr) /\ b.start = start
        /\ \A i \in 1 .. Len(b.code) :
             b.code[i].pc \in Addr /\ b.code[i].insn = mem[b.code[i].pc]
    BY <1>3, <1>7, TranslationGood DEF SteppedBlock
  <2> HIDE DEF b
  <2>3. held' \in [Addr -> SUBSET Insn] /\ HeldNow'
    BY <2>1, <1>1, <1>4 DEF HeldNow
  <2>4. Good(b, bps_by_addr, held')
    BY <2>1, <2>2 DEF Good, FromMemory
  <2>5. \A a \in DOMAIN bb_by_start' :
            /\ Good(bb_by_start'[a], bps_by_addr, held')
            /\ bb_by_start'[a].start = a
    BY <2>1, <2>4 DEF WithBlock, NoBlocks
  <2> HIDE DEF start
  <2>6. QED BY <2>1, <2>3, <2>4, <2>5, <1>3, <1>4, EnterInvariant
<1>8. QED BY <1>5, <1>6, <1>7

\* Every step preserves the invariant.
LEMMA NextInvariant == IInv /\ [Next]_vars => IInv'
<1> SUFFICES ASSUME IInv, [Next]_vars PROVE IInv'
  OBVIOUS
<1>1. CASE Continue
  BY <1>1, ContinueInvariant
<1>2. CASE Step
  BY <1>2, StepInvariant
<1>3. ASSUME NEW a \in BreakAddrs, SetBreakPoint(a) PROVE IInv'
  BY <1>3, SetBreakPointInvariant
<1>4. ASSUME NEW a \in BreakAddrs, UnsetBreakPoint(a) PROVE IInv'
  BY <1>4, UnsetBreakPointInvariant
<1>5. CASE HitBreakPoint
  BY <1>5, HitBreakPointInvariant
<1>6. CASE RunCached
  BY <1>6, RunCachedInvariant
<1>7. CASE RunTranslated
  BY <1>7, RunTranslatedInvariant
<1>8. CASE ExecInsn
  BY <1>8, ExecInsnInvariant
<1>9. CASE FinishBlock
  BY <1>9, FinishBlockInvariant
<1>10. CASE FinishAborting
  BY <1>10, FinishAbortingInvariant
<1>11. CASE Device \/ reset
  BY <1>11, DeviceInvariant
<1>12. CASE UNCHANGED vars
  <2>1. TypeOK'
    BY <1>12 DEF IInv, TypeOK, vars, engine, history
  <2>2. GoodBlocks' /\ HeldNow'
    BY <1>12 DEF IInv, GoodBlocks, HeldNow, vars, engine, history, Executing
  <2>3. QED BY <2>1, <2>2 DEF IInv
<1>13. QED
  BY <1>1, <1>2, <1>3, <1>4, <1>5, <1>6, <1>7, <1>8, <1>9, <1>10, <1>11, <1>12
  DEF Next, Debugger, Engine

\* The inductive invariant holds of every behaviour.
THEOREM Invariance == Spec => []IInv
<1>1. QED BY InitInvariant, NextInvariant, PTL DEF Spec

-----------------------------------------------------------------------------
(* The theorems.                                                           *)

\* Every variable keeps its type: in particular no register, no block and no
\* local copy of the program counter ever leaves the address space.
THEOREM TypeCorrect == Spec => []TypeOK
<1>1. IInv => TypeOK
  BY DEF IInv
<1>2. QED BY <1>1, Invariance, PTL

\* No instruction outside a delay slot executes while a breakpoint is set on
\* it, whatever was translated, cached and set in whatever order.
THEOREM BreakpointsHonoured == Spec => []BreakpointHonoured
<1>1. IInv => BreakpointHonoured
  <2> SUFFICES ASSUME IInv, Executing, idx <= Len(bb.code), IsHead(bb, idx)
               PROVE  \/ bb.code[idx].pc \notin bps_by_addr
                      \/ ~ bb.ok /\ bb.code[idx].pc < bb.start
    BY DEF BreakpointHonoured
  <2>1. Good(bb, bps_by_addr, held) /\ idx \in 1 .. Len(bb.code)
    <3>1. bb \in Block /\ idx \in 1 .. Len(bb.code) + 1
      BY DEF IInv, TypeOK, Executing
    <3>2. Len(bb.code) \in Nat
      BY <3>1 DEF Block
    <3>3. QED BY <3>1, <3>2 DEF IInv, GoodBlocks
  <2>2. QED BY <2>1 DEF Good, HeadsFree
<1>2. QED BY <1>1, Invariance, PTL

\* Translated code is made of words that memory has held since the last
\* invalidate.
THEOREM CodeFromMemory == Spec => []CodeWasInMemory
<1>1. IInv => CodeWasInMemory
  BY DEF IInv, GoodBlocks, Good, FromMemory, CodeWasInMemory
<1>2. QED BY <1>1, Invariance, PTL

\* A single step runs the words of memory as it stands.
THEOREM StepsRunMemory == Spec => StepRunsMemory
<1>1. ASSUME IInv, Next, state = "stopped", state' = "executing"
      PROVE  \A i \in 1 .. Len(bb'.code) : bb'.code[i].insn = mem[bb'.code[i].pc]
  <2> DEFINE take  == IrqPending(regs)
             start == IF take THEN IrqVector ELSE regs.PC
             near  == find_nearest(start)
             b     == SteppedBlock(start, near)
  <2>1. Step
    BY <1>1 DEF Next, Debugger, Engine, Device, Continue, SetBreakPoint,
       UnsetBreakPoint, Abort, HitBreakPoint, RunCached, RunTranslated,
       Dispatching, ExecInsn, FinishBlock, FinishAborting, Executing,
       interrupt, reset, engine
  <2>2. near # start /\ ~ DisasCrashes(mem, start, TRUE, near) /\ bb' = b
    BY <2>1, <1>1 DEF Step, Enter
  <2>3. start \in Addr
    BY <1>1, VmAssumption DEF IInv, TypeOK, Regs
  <2>4. \A i \in 1 .. Len(b.code) : b.code[i].insn = mem[b.code[i].pc]
    BY <1>1, <2>2, <2>3, TranslationGood DEF SteppedBlock
  <2> HIDE DEF b
  <2>5. QED BY <2>2, <2>4
<1>2. IInv /\ [Next]_vars =>
        [state = "stopped" /\ state' = "executing" =>
           \A i \in 1 .. Len(bb'.code) : bb'.code[i].insn = mem[bb'.code[i].pc]]_vars
  BY <1>1
<1>3. QED BY <1>2, Invariance, PTL DEF Spec, StepRunsMemory

-----------------------------------------------------------------------------
(* Where execution resumes, if no breakpoint can be set on the interrupt   *)
(* vector. (With one there, neither property holds.)                       *)

\* Between blocks REG_PC is PNEXT_PC, except that after an interrupt was
\* accepted only PNEXT_PC and run()'s pc have the vector.
RInv ==
  /\ state = "stopped" => ~ accepted /\ regs.PC = regs.PNEXT_PC
  /\ state = "dispatch" => /\ pc = regs.PNEXT_PC
                           /\ accepted => pc = IrqVector
                           /\ ~ accepted => regs.PC = regs.PNEXT_PC
  /\ state = "executing" => ~ accepted

\* Every step preserves it, if no breakpoint can be at the interrupt vector.
LEMMA ResumeStep ==
  ASSUME IrqVector \notin BreakAddrs, IInv, RInv, [Next]_vars
  PROVE  RInv'
<1>0. /\ IrqVector \notin bps_by_addr /\ bps_by_addr \subseteq Addr
      /\ state \in {"stopped", "dispatch", "executing", "aborted"}
      /\ accepted \in BOOLEAN
  BY VmAssumption DEF IInv, TypeOK
<1>1. CASE Continue
  BY <1>1 DEF RInv, Continue, history
<1>2. CASE Step
  <2> DEFINE take  == IrqPending(regs)
             start == IF take THEN IrqVector ELSE regs.PC
             near  == find_nearest(start)
  <2>1. CASE near = start
    <3>1. start \in Addr
      BY VmAssumption DEF IInv, TypeOK, Regs
    <3>2. start \in bps_by_addr
      <4>1. start # Null
        BY <3>1, AddrNat, NullAssumption
      <4>2. find_nearest(start) \in bps_by_addr \cup {Null}
        <5> DEFINE above == {c \in bps_by_addr : c >= start}
        <5>1. above # {} => Min(above) \in above
          <6>1. above \subseteq Nat
            BY <1>0, AddrNat
          <6>2. QED BY <6>1, MinLeast
        <5>2. QED BY <5>1 DEF find_nearest
      <4>3. QED BY <4>1, <4>2, <2>1
    <3>3. ~ take
      BY <3>2, <1>0
    <3>4. regs' = regs /\ accepted' = accepted /\ state' = state /\ pc' = pc
      BY <1>2, <2>1, <3>3, <1>0 DEF Step
    <3>5. QED BY <3>4 DEF RInv
  <2>2. CASE near # start
    <3>1. state' = "aborted" \/ (state' = "executing" /\ accepted' = FALSE)
      BY <1>2, <2>2 DEF Step, Enter
    <3>2. QED BY <3>1 DEF RInv
  <2>3. QED BY <2>1, <2>2
<1>3. ASSUME NEW a \in BreakAddrs, SetBreakPoint(a) PROVE RInv'
  BY <1>3 DEF RInv, SetBreakPoint, engine
<1>4. ASSUME NEW a \in BreakAddrs, UnsetBreakPoint(a) PROVE RInv'
  BY <1>4 DEF RInv, UnsetBreakPoint, Abort, engine, history
<1>5. CASE HitBreakPoint
  <2>1. pc \in bps_by_addr
    <3>1. pc \in Addr /\ find_nearest(pc) = pc /\ pc # Null
      BY <1>5, AddrNat, NullAssumption
      DEF IInv, TypeOK, HitBreakPoint, Dispatching
    <3> DEFINE above == {c \in bps_by_addr : c >= pc}
    <3>2. above # {} => Min(above) \in above
      <4>1. above \subseteq Nat
        BY <1>0, AddrNat
      <4>2. QED BY <4>1, MinLeast
    <3>3. QED BY <3>1, <3>2 DEF find_nearest
  <2>2. ~ accepted
    BY <2>1, <1>0, <1>5 DEF RInv, HitBreakPoint, Dispatching
  <2>3. QED
    BY <2>2, <1>5 DEF RInv, HitBreakPoint, Dispatching, Stop, history
<1>6. CASE RunCached
  BY <1>6 DEF RInv, RunCached, Enter
<1>7. CASE RunTranslated
  BY <1>7 DEF RInv, RunTranslated, Enter, Abort
<1>8. CASE ExecInsn
  BY <1>8 DEF RInv, ExecInsn, Executing
<1>9. CASE FinishBlock
  <2> DEFINE r    == BlockEnd(bb, shadow)
             take == ~ is_step /\ IrqPending(r)
  <2>1. r \in Regs /\ r.PC = r.PNEXT_PC
    BY <1>9, BlockEndType
    DEF IInv, TypeOK, GoodBlocks, Good, FinishBlock, Executing
  <2>2. /\ regs' = IF take THEN TakeIrq(r, r.PNEXT_PC) ELSE r
        /\ accepted' = take
        /\ \/ is_step /\ state' = "stopped"
           \/ ~ is_step /\ state' = "dispatch" /\ pc' = NextPc(take, r)
    BY <1>9 DEF FinishBlock, Stop
  <2>3. is_step => ~ take
    OBVIOUS
  <2> HIDE DEF r, take
  <2>4. TakeIrq(r, r.PNEXT_PC).PNEXT_PC = IrqVector
    BY <2>1 DEF TakeIrq, Regs
  <2>5. QED BY <2>1, <2>2, <2>3, <2>4 DEF RInv, NextPc
<1>10. CASE FinishAborting
  BY <1>10 DEF RInv, FinishAborting, Abort
<1>11. CASE Device \/ reset
  BY <1>11 DEF RInv, Device, interrupt, reset, engine, history
<1>12. CASE UNCHANGED vars
  BY <1>12 DEF RInv, vars, engine, history
<1>13. QED
  BY <1>1, <1>2, <1>3, <1>4, <1>5, <1>6, <1>7, <1>8, <1>9, <1>10, <1>11, <1>12
  DEF Next, Debugger, Engine

\* Whenever the debugger can look, REG_PC is where execution will go on.
THEOREM Resumption ==
  ASSUME IrqVector \notin BreakAddrs
  PROVE  Spec => []ResumesWhereItStopped
<1>1. Init => RInv
  BY DEF Init, RInv
<1>2. IInv /\ RInv /\ [Next]_vars => RInv'
  BY ResumeStep
<1>3. RInv => ResumesWhereItStopped
  BY DEF RInv, ResumesWhereItStopped, Dispatching
<1>4. QED BY <1>1, <1>2, <1>3, Invariance, PTL DEF Spec

\* The block that follows an accepted interrupt is the handler's.
THEOREM HandlersEntered ==
  ASSUME IrqVector \notin BreakAddrs
  PROVE  Spec => HandlerEntered
<1>1. Init => RInv
  BY DEF Init, RInv
<1>2. IInv /\ RInv /\ [Next]_vars => RInv'
  BY ResumeStep
<1>3. ASSUME IInv, RInv, Next, accepted, state # "executing",
             state' = "executing"
      PROVE  bb'.start = IrqVector
  <2>1. state # "stopped"
    BY <1>3 DEF RInv
  <2>2. RunCached \/ RunTranslated
    BY <1>3, <2>1 DEF Next, Debugger, Engine, Device, Continue, Step,
       SetBreakPoint, UnsetBreakPoint, HitBreakPoint, ExecInsn, FinishBlock,
       FinishAborting, Executing, Dispatching, Stop, interrupt, reset, engine
  <2>3. state = "dispatch" /\ pc = IrqVector
    BY <1>3, <2>2 DEF RInv, RunCached, RunTranslated, Dispatching
  <2>4. CASE RunCached
    BY <2>3, <2>4, <1>3 DEF RunCached, Enter, IInv, GoodBlocks
  <2>5. CASE RunTranslated
    <3>1. bb'.start = disas(mem, pc, FALSE, find_nearest(pc)).start
      BY <2>5, <1>3 DEF RunTranslated, Enter, Abort
    <3>2. QED BY <3>1, <2>3 DEF disas
  <2>6. QED BY <2>2, <2>4, <2>5
<1>4. IInv /\ RInv /\ [Next]_vars =>
        [accepted /\ state # "executing" /\ state' = "executing" =>
           bb'.start = IrqVector]_vars
  BY <1>3
<1>5. QED BY <1>1, <1>2, <1>4, Invariance, PTL DEF Spec, HandlerEntered

-----------------------------------------------------------------------------
(* The instruction count.                                                  *)

\* Every step keeps the two counts together: a block adds at its end what its
\* instructions have added one by one, both modulo the width of the counter.
LEMMA CountStep ==
  ASSUME IInv, IcountExact, [Next]_vars
  PROVE  IcountExact'
<1>0. /\ IcountWidth \in Nat \ {0}
      /\ total_icount \in 0 .. IcountWidth - 1
      /\ total_icount % IcountWidth = total_icount
  BY VmAssumption, ModInRange DEF IInv, TypeOK
<1>1. ASSUME UNCHANGED <<state, retired, total_icount, idx>> \/ state' = "aborted"
      PROVE  IcountExact'
  BY <1>1 DEF IcountExact, Executing
<1>2. ASSUME UNCHANGED <<retired, total_icount>>,
             ~ Executing, state # "aborted", state' # "executing"
      PROVE  IcountExact'
  BY <1>2 DEF IcountExact, Executing
<1>3. ASSUME UNCHANGED <<retired, total_icount>>,
             ~ Executing, state # "aborted", state' = "executing", idx' = 1
      PROVE  IcountExact'
  <2>1. (total_icount + 1) - 1 = total_icount
    BY <1>0
  <2>2. QED BY <1>0, <1>3, <2>1 DEF IcountExact, Executing
<1>4. CASE Continue
  BY <1>2, <1>4 DEF Continue, history, Executing
<1>5. CASE Step
  <2>1. /\ state = "stopped"
        /\ UNCHANGED <<retired, total_icount>>
        /\ UNCHANGED <<state, idx>> \/ state' = "aborted"
             \/ (state' = "executing" /\ idx' = 1)
    BY <1>5 DEF Step, Enter
  <2>2. QED BY <1>1, <1>3, <2>1 DEF Executing
<1>6. ASSUME NEW a \in BreakAddrs, SetBreakPoint(a) \/ UnsetBreakPoint(a)
      PROVE  IcountExact'
  BY <1>1, <1>6 DEF SetBreakPoint, UnsetBreakPoint, Abort, engine, history
<1>7. CASE HitBreakPoint
  BY <1>2, <1>7 DEF HitBreakPoint, Dispatching, Stop, history, Executing
<1>8. CASE RunCached \/ RunTranslated
  <2>1. /\ state = "dispatch"
        /\ UNCHANGED <<retired, total_icount>>
        /\ state' = "aborted" \/ (state' = "executing" /\ idx' = 1)
    BY <1>8 DEF RunCached, RunTranslated, Dispatching, Enter, Abort
  <2>2. QED BY <1>1, <1>3, <2>1 DEF Executing
<1>9. CASE ExecInsn
  <2> DEFINE n == total_icount + idx - 1
  <2>1. /\ Executing /\ Executing' /\ idx' = idx + 1
        /\ retired' = (retired + 1) % IcountWidth
        /\ total_icount' = total_icount /\ state' = state
    BY <1>9 DEF ExecInsn, Executing
  <2>2. idx \in Nat \ {0} /\ n \in Nat
    <3>1. idx \in Nat /\ idx >= 1
      BY <2>1 DEF IInv, TypeOK, Executing, Block
    <3>2. QED BY <3>1, <1>0
  <2>3. retired = n % IcountWidth
    BY <2>1 DEF IcountExact, Executing
  <2>4. total_icount' + idx' - 1 = n + 1
    BY <1>0, <2>1, <2>2
  <2> HIDE DEF n
  <2>5. retired' = (n + 1) % IcountWidth
    BY <1>0, <2>1, <2>2, <2>3, ModSuccessor
  <2>6. QED BY <2>1, <2>4, <2>5 DEF IcountExact
<1>10. CASE FinishBlock
  <2>1. /\ Executing /\ idx > Len(bb.code)
        /\ total_icount' = Counted(bb) /\ retired' = retired
        /\ ~ Executing'
    BY <1>10 DEF FinishBlock, Executing, Stop
  <2>2. bb \in Block /\ WellFormed(bb) /\ idx \in 1 .. Len(bb.code) + 1
    BY <2>1 DEF IInv, TypeOK, GoodBlocks, Good, Executing
  <2>3. Len(bb.code) \in Nat /\ bb.num_insn = Len(bb.code)
    BY <2>2 DEF Block, WellFormed
  <2>4. total_icount + idx - 1 = total_icount + bb.num_insn
    BY <1>0, <2>1, <2>2, <2>3
  <2>5. retired = (total_icount + bb.num_insn) % IcountWidth
    BY <2>1, <2>4 DEF IcountExact, Executing
  <2>6. QED BY <2>1, <2>5 DEF IcountExact, Counted
<1>11. CASE FinishAborting
  BY <1>1, <1>11 DEF FinishAborting, Abort
<1>12. CASE Device \/ reset
  BY <1>1, <1>12 DEF Device, interrupt, reset, engine, history
<1>13. CASE UNCHANGED vars
  BY <1>1, <1>13 DEF vars, engine, history
<1>14. QED
  BY <1>4, <1>5, <1>6, <1>7, <1>8, <1>9, <1>10, <1>11, <1>12, <1>13
     DEF Next, Debugger, Engine

\* get_total_insn_count() is exact between blocks, and behind by the part of the
\* block that has executed within one, for a counter of any width.
THEOREM CountsExactly == Spec => []IcountExact
<1>1. Init => IcountExact
  BY DEF Init, IcountExact, Executing
<1>2. IInv /\ IcountExact /\ [Next]_vars => IcountExact'
  BY CountStep
<1>3. QED BY <1>1, <1>2, Invariance, PTL DEF Spec

-----------------------------------------------------------------------------
(* The refinement: what the cut of a block makes sure of.                  *)

\* A block that was translated to its end is a run of plain instructions, and
\* at its end a jump with its delay slot, or l.rfe, or neither if it falls
\* through.
WellCut(b) ==
  LET n == Len(b.code)
      W(i) == b.code[i].insn
  IN  /\ n >= 1 /\ b.start + n =< Words + 1
      /\ \A i \in 1 .. n :
           /\ b.code[i].pc = Wrap(b.start + i - 1)
           /\ ~ Unsupported(W(i))
           /\ W(i).op = "rfe" => i = n
           /\ IsJump(W(i)) => i + 1 = n /\ IsPlain(W(i + 1))
      /\ b.fall => \A i \in 1 .. n : ~ Ends(W(i))
      /\ ~ b.fall => W(n).op = "rfe" \/ (n > 1 /\ IsJump(W(n - 1)))

\* Only a jump is followed by another instruction.
OneInsn(b) == \A i \in 1 .. Len(b.code) - 1 : IsJump(b.code[i].insn)

\* A call of disas_insn that succeeds emits one instruction, or a jump and the
\* plain instruction in its delay slot.
LEMMA EmittedExactly ==
  ASSUME NEW m \in [Addr -> Insn], NEW n \in Addr, Accepts(m, n)
  PROVE  Emitted(m, n) = IF IsJump(m[n]) THEN 2 ELSE 1
<1>1. CASE IsJump(m[n])
  <2>1. IsPlain(m[Wrap(n + 1)])
    BY <1>1 DEF Accepts
  <2>2. ~ IsJump(m[Wrap(n + 1)]) /\ ~ Unsupported(m[Wrap(n + 1)])
    BY <2>1 DEF IsPlain, IsJump, Unsupported, PlainOps, JumpOps
  <2>3. 1 \in SlotEnds(m, n) /\ SlotEnds(m, n) \subseteq Nat
        /\ \A d \in SlotEnds(m, n) : d >= 1
    BY <2>2, WordsAssumption DEF SlotEnds
  <2>4. Min(SlotEnds(m, n)) = 1
    <3> DEFINE d == Min(SlotEnds(m, n))
    <3>1. d \in SlotEnds(m, n) /\ \A e \in SlotEnds(m, n) : d =< e
      BY <2>3, MinLeast
    <3> HIDE DEF d
    <3>2. d = 1
      BY <2>3, <3>1
    <3>3. QED BY <3>2 DEF d
  <2>5. QED BY <1>1, <2>2, <2>4 DEF Emitted
<1>2. CASE ~ IsJump(m[n])
  <2>1. Wrap(n + 0) = n
    BY WrapNext
  <2>2. ~ Unsupported(m[n])
    BY <1>2 DEF Accepts
  <2>3. QED BY <1>2, <2>1, <2>2 DEF Emitted
<1>3. QED BY <1>1, <1>2

\* What disas makes is well cut, and a step has one instruction.
LEMMA DisasCut ==
  ASSUME NEW m \in [Addr -> Insn], NEW start \in Addr, NEW step \in BOOLEAN,
         NEW bp, bp = Null \/ (bp \in Addr /\ start < bp),
         ~ DisasCrashes(m, start, step, bp),
         disas(m, start, step, bp).ok
  PROVE  /\ WellCut(disas(m, start, step, bp))
         /\ step => OneInsn(disas(m, start, step, bp))
<1> DEFINE d    == Reach(m, start, step, bp)
           n    == LastPc(m, start, step, bp)
           stop == ~ step /\ n = bp
           len  == d + (IF stop THEN 0 ELSE Emitted(m, n))
           W(i) == m[Wrap(start + i - 1)]
           b    == disas(m, start, step, bp)
<1>1. /\ d \in 0 .. Words - 1 /\ n \in Addr
      /\ step => d = 0
      /\ ~ step => /\ d \in Stops(m, start, bp)
                   /\ \A e \in Stops(m, start, bp) : d =< e
  BY LastPcFirst
<1>2. n = start + d /\ Wrap(start + d) = n
  <2>1. n = start + d
    BY ScanAhead
  <2> HIDE DEF n, d
  <2>2. QED BY <2>1, <1>1, WrapNext
<1>3. /\ start \in Nat /\ n \in Nat /\ n < Words /\ Words \in Nat /\ Words > 1
      /\ d \in Nat
  <2> HIDE DEF n, d
  <2> QED BY <1>1, AddrNat, WordsAssumption
<1>4. /\ b.start = start
      /\ b.code = [i \in 1 .. len |-> [pc |-> Wrap(start + i - 1), insn |-> W(i)]]
      /\ b.fall <=> (stop \/ (step /\ ~ Ends(m[n])))
      /\ b.ok <=> (stop \/ Accepts(m, n))
  BY DEF disas
<1>5. len = d + (IF stop THEN 0 ELSE IF IsJump(m[n]) THEN 2 ELSE 1)
  <2>1. CASE stop
    BY <2>1
  <2>2. CASE ~ stop
    <3>1. Accepts(m, n)
      BY <1>4, <2>2
    <3>2. Emitted(m, n) = IF IsJump(m[n]) THEN 2 ELSE 1
      <4> HIDE DEF n
      <4> QED BY <1>1, <3>1, EmittedExactly
    <3>3. QED BY <2>2, <3>2
  <2>3. QED BY <2>1, <2>2
<1>6. /\ stop => ~ step /\ d >= 1
      /\ ~ stop => Accepts(m, n) /\ (~ step => Ends(m[n]))
  <2>1. ASSUME ~ stop, ~ step PROVE Ends(m[n])
    <3>1. d \in Stops(m, start, bp) /\ n # bp /\ Accepts(m, n)
      BY <1>1, <1>4, <2>1
    <3>2. Wrap(start + d) = bp \/ Ends(m[Wrap(start + d)])
            \/ Unsupported(m[Wrap(start + d)])
      BY <3>1 DEF Stops
    <3> HIDE DEF n, d
    <3>3. Ends(m[n]) \/ Unsupported(m[n])
      BY <3>1, <3>2, <1>2
    <3>4. QED BY <3>1, <3>3 DEF Accepts, Ends
  <2>2. ASSUME stop PROVE ~ step /\ d >= 1
    <3>1. ~ step /\ n = bp /\ bp # Null
      BY <2>2, <1>3, NullAssumption
    <3> HIDE DEF n, d
    <3>2. start < n
      BY <3>1
    <3>3. QED BY <3>1, <3>2, <1>2, <1>3
  <2>3. ~ stop => Accepts(m, n)
    BY <1>4
  <2> HIDE DEF n, d
  <2>4. QED BY <2>1, <2>2, <2>3
<1> HIDE DEF len, b, n, d
<1>10. ASSUME NEW i \in 1 .. d
       PROVE  ~ Ends(W(i)) /\ ~ Unsupported(W(i))
  <2>1. i - 1 \in 0 .. Words - 1 /\ i - 1 < d /\ start + (i - 1) = start + i - 1
    BY <1>1, <1>3
  <2>2. ~ step
    BY <2>1, <1>1, <1>3
  <2>3. i - 1 \notin Stops(m, start, bp)
    BY <2>1, <2>2, <1>1, <1>3
  <2>4. ~ Ends(m[Wrap(start + (i - 1))]) /\ ~ Unsupported(m[Wrap(start + (i - 1))])
    BY <2>1, <2>3 DEF Stops
  <2>5. QED BY <2>1, <2>4
<1>7. W(d + 1) = m[n] /\ W(d + 2) = m[Wrap(n + 1)]
  <2>1. start + (d + 1) - 1 = n /\ start + (d + 2) - 1 = n + 1
    BY <1>2, <1>3
  <2>2. Wrap(n) = n
    BY <1>1, WrapNext
  <2>3. QED BY <2>1, <2>2
<1>8. len \in Nat /\ len >= 1 /\ start + len =< Words + 1
  BY <1>2, <1>3, <1>5, <1>6
<1>9. Len(b.code) = len /\ \A i \in 1 .. len : /\ b.code[i].pc = Wrap(start + i - 1)
                                             /\ b.code[i].insn = W(i)
  BY <1>4, <1>8
<1> HIDE DEF W
<1>11. /\ \A i \in 1 .. len : /\ ~ Unsupported(W(i))
                              /\ W(i).op = "rfe" => i = len
                              /\ IsJump(W(i)) => i + 1 = len /\ IsPlain(W(i + 1))
       /\ b.fall => \A i \in 1 .. len : ~ Ends(W(i))
       /\ ~ b.fall => W(len).op = "rfe" \/ (len > 1 /\ IsJump(W(len - 1)))
       /\ step => \A i \in 1 .. len - 1 : IsJump(W(i))
  <2>0. d \in Nat /\ (step => d = 0)
    BY <1>1, <1>3
  <2>1. CASE stop
    <3>0. len = d
      BY <2>1, <1>5, <2>0
    <3>1. len = d /\ b.fall /\ ~ step
      BY <2>1, <3>0, <1>4
    <3>2. \A i \in 1 .. len : ~ Ends(W(i)) /\ ~ Unsupported(W(i))
      BY <3>1, <1>10
    <3>3. QED BY <3>1, <3>2 DEF Ends
  <2>2. CASE ~ stop /\ IsJump(m[n])
    <3>0. ~ b.fall
      BY <2>2, <1>4 DEF Ends
    <3>1. len = d + 2 /\ ~ b.fall /\ len - 1 = d + 1 /\ d + 1 + 1 = len
      BY <2>2, <3>0, <1>5, <2>0
    <3>2. IsJump(W(d + 1)) /\ W(d + 1).op # "rfe" /\ ~ Unsupported(W(d + 1))
      BY <2>2, <1>7 DEF IsJump, JumpOps, Unsupported
    <3>3. IsPlain(W(d + 2))
      BY <2>2, <1>6, <1>7 DEF Accepts
    <3>4. ~ IsJump(W(d + 2)) /\ W(d + 2).op # "rfe" /\ ~ Unsupported(W(d + 2))
      BY <3>3 DEF IsPlain, PlainOps, IsJump, JumpOps, Unsupported
    <3>5. \A i \in 1 .. len : i \in 1 .. d \/ i = d + 1 \/ i = d + 2
      BY <3>1, <2>0
    <3>6. \A i \in 1 .. d : ~ IsJump(W(i)) /\ W(i).op # "rfe" /\ ~ Unsupported(W(i))
      BY <1>10 DEF Ends
    <3>7. step => \A i \in 1 .. len - 1 : i = d + 1
      BY <3>1, <2>0
    <3>8. len > 1 /\ IsJump(W(len - 1))
      BY <3>1, <3>2, <2>0
    <3>9. d + 1 + 1 = d + 2
      BY <2>0
    <3>10. QED BY <3>1, <3>2, <3>3, <3>4, <3>5, <3>6, <3>7, <3>8, <3>9
  <2>3. CASE ~ stop /\ ~ IsJump(m[n])
    <3>0. b.fall <=> (step /\ ~ Ends(m[n]))
      BY <2>3, <1>4
    <3>1. len = d + 1
      BY <2>3, <1>5, <2>0
    <3>2. ~ IsJump(W(len)) /\ ~ Unsupported(W(len)) /\ W(len) = m[n]
      BY <2>3, <3>1, <1>6, <1>7 DEF Accepts
    <3>3. \A i \in 1 .. len : i \in 1 .. d \/ i = len
      BY <3>1, <2>0
    <3>4. \A i \in 1 .. d : ~ IsJump(W(i)) /\ W(i).op # "rfe" /\ ~ Unsupported(W(i))
                           /\ ~ Ends(W(i))
      BY <1>10 DEF Ends
    <3>5. b.fall => ~ Ends(W(len))
      BY <3>0, <3>2
    <3>6. ~ b.fall => W(len).op = "rfe"
      <4>1. ~ b.fall => Ends(m[n])
        BY <3>0, <2>3, <1>6
      <4>2. QED BY <4>1, <3>2 DEF Ends
    <3>7. step => 1 .. len - 1 = {}
      BY <3>1, <2>0
    <3>8. QED BY <3>2, <3>3, <3>4, <3>5, <3>6, <3>7
  <2>4. QED BY <2>1, <2>2, <2>3
<1>12. /\ \A i \in 1 .. len : IsJump(W(i)) => i + 1 \in 1 .. len
       /\ len \in 1 .. len /\ (len > 1 => len - 1 \in 1 .. len)
       /\ 1 .. len - 1 \subseteq 1 .. len
  BY <1>8, <1>11
<1>13. WellCut(b)
  BY <1>4, <1>8, <1>9, <1>11, <1>12 DEF WellCut
<1>14. step => OneInsn(b)
  BY <1>9, <1>11, <1>12 DEF OneInsn
<1>15. QED BY <1>13, <1>14 DEF b

\* Every block that is cached or executing is well cut if it was translated to
\* its end; the block of a step has one instruction; step_exec() is active
\* only while its block executes.
CutInv ==
  /\ \A a \in DOMAIN bb_by_start : bb_by_start[a].ok => WellCut(bb_by_start[a])
  /\ Executing /\ bb.ok => WellCut(bb) /\ (is_step => OneInsn(bb))
  /\ state \in {"stopped", "dispatch"} => ~ is_step

\* Every step preserves it: blocks come from disas only.
LEMMA CutStep ==
  ASSUME IInv, CutInv, [Next]_vars
  PROVE  CutInv'
<1> USE DEF CutInv, Executing
<1>0. bps_by_addr \subseteq Addr /\ mem \in [Addr -> Insn]
  BY VmAssumption DEF IInv, TypeOK
<1>1. CASE Continue
  BY <1>1 DEF Continue
<1>2. CASE Step
  <2> DEFINE start == IF IrqPending(regs) THEN IrqVector ELSE regs.PC
             near  == find_nearest(start)
             b     == SteppedBlock(start, near)
  <2>0. start \in Addr
    BY VmAssumption DEF IInv, TypeOK, Regs
  <2>1. CASE near = start
    <3>1. state = "stopped" /\ UNCHANGED <<bb_by_start, state, is_step>>
      BY <1>2, <2>1 DEF Step
    <3>2. QED BY <3>1
  <2>2. CASE near # start /\ DisasCrashes(mem, start, TRUE, near)
    <3>1. state' = "aborted" /\ DOMAIN bb_by_start' = {}
      BY <1>2, <2>2 DEF Step, invalidate, NoBlocks
    <3>2. QED BY <3>1
  <2>3. CASE near # start /\ ~ DisasCrashes(mem, start, TRUE, near)
    <3>1. /\ state' = "executing" /\ bb' = b
          /\ bb_by_start' = IF b.ok THEN WithBlock(NoBlocks, b) ELSE NoBlocks
      BY <1>2, <2>3 DEF Step, Enter
    <3>2. b.ok => WellCut(b) /\ OneInsn(b)
      <4>1. b = disas(mem, start, TRUE, near)
        BY DEF SteppedBlock
      <4> HIDE DEF start, b
      <4>2. near = Null \/ (near \in Addr /\ start < near)
        BY <1>0, <2>0, <2>3, NearestAbove
      <4>3. QED BY <1>0, <2>0, <2>3, <4>1, <4>2, DisasCut
    <3> HIDE DEF b
    <3>3. QED BY <3>1, <3>2 DEF WithBlock, NoBlocks
  <2>4. QED BY <2>1, <2>2, <2>3
<1>3. ASSUME NEW a \in BreakAddrs, SetBreakPoint(a) PROVE CutInv'
  BY <1>3 DEF SetBreakPoint, invalidate, NoBlocks, engine
<1>4. ASSUME NEW a \in BreakAddrs, UnsetBreakPoint(a) PROVE CutInv'
  BY <1>4 DEF UnsetBreakPoint, Abort, engine
<1>5. CASE HitBreakPoint
  BY <1>5 DEF HitBreakPoint, Stop, Dispatching
<1>6. CASE RunCached
  BY <1>6 DEF RunCached, Enter, Dispatching
<1>7. CASE RunTranslated
  <2> DEFINE near == find_nearest(pc)
             b    == disas(mem, pc, FALSE, near)
  <2>0. pc \in Addr /\ state = "dispatch" /\ ~ is_step /\ near # pc
    BY <1>7 DEF RunTranslated, Dispatching, IInv, TypeOK
  <2>1. CASE DisasCrashes(mem, pc, FALSE, near)
    BY <1>7, <2>1 DEF RunTranslated, Abort
  <2>2. CASE ~ DisasCrashes(mem, pc, FALSE, near)
    <3>1. /\ state' = "executing" /\ bb' = b /\ is_step' = is_step
          /\ bb_by_start' = IF b.ok THEN WithBlock(bb_by_start, b) ELSE bb_by_start
      BY <1>7, <2>2 DEF RunTranslated, Enter
    <3>2. b.ok => WellCut(b)
      <4>1. near = Null \/ (near \in Addr /\ pc < near)
        BY <1>0, <2>0, NearestAbove
      <4>2. QED BY <1>0, <2>0, <2>2, <4>1, DisasCut
    <3> HIDE DEF b
    <3>3. QED BY <3>1, <3>2, <2>0 DEF WithBlock
  <2>3. QED BY <2>1, <2>2
<1>8. CASE ExecInsn
  BY <1>8 DEF ExecInsn
<1>9. CASE FinishBlock
  BY <1>9 DEF FinishBlock, Stop
<1>10. CASE FinishAborting
  BY <1>10 DEF FinishAborting, Abort
<1>11. CASE Device \/ reset
  BY <1>11 DEF Device, interrupt, reset, engine
<1>12. CASE UNCHANGED vars
  BY <1>12 DEF vars, engine
<1>13. QED
  BY <1>1, <1>2, <1>3, <1>4, <1>5, <1>6, <1>7, <1>8, <1>9, <1>10, <1>11, <1>12
  DEF Next, Debugger, Engine

-----------------------------------------------------------------------------
(* What the mapping shows in each state of the virtual machine.            *)

CpuShown  == IF Dead THEN Null ELSE Core(shadow)
SlotShown == IF InSlot THEN shadow.PNEXT_PC ELSE Null
LinkShown == IF InSlot /\ bb.code[idx - 1].insn.op = "jalr"
             THEN ReturnPc(bb.code[idx - 1].pc) ELSE Null

\* The slot of l.jalr is done, when the next instruction of the block is the
\* k-th, and LR is still to be written.
Due(k) == Len(bb.code) > 1 /\ k > Len(bb.code)
            /\ bb.code[Len(bb.code) - 1].insn.op = "jalr"

\* The registers but PC, with LR as if that had been done.
Linking(r, k) ==
  [EPCR0 |-> r.EPCR0, SR_IEE |-> r.SR_IEE, SR_F |-> r.SR_F,
   LR |-> IF Due(k) THEN ReturnPc(bb.code[Len(bb.code) - 1].pc) ELSE r.LR,
   GR |-> r.GR]

Shown ==
  /\ Dead => /\ CpuShown = Null /\ SlotShown = Null /\ LinkShown = Null
             /\ AbstractPc = Null /\ AbstractMode = "dead"
  /\ state = "stopped" =>
       /\ ~ Dead
       /\ CpuShown = Machine!Core(shadow) /\ SlotShown = Null /\ LinkShown = Null
       /\ AbstractPc = regs.PC /\ AbstractMode = "stopped"
  /\ state = "dispatch" =>
       /\ ~ Dead
       /\ CpuShown = Machine!Core(shadow) /\ SlotShown = Null /\ LinkShown = Null
       /\ AbstractPc = pc /\ AbstractMode = "running"
  /\ state = "executing" /\ bb.ok =>
       /\ ~ Dead
       /\ CpuShown = Linking(shadow, idx)
       /\ SlotShown = IF /\ idx > 1 /\ idx <= Len(bb.code)
                         /\ IsJump(bb.code[idx - 1].insn)
                      THEN shadow.PNEXT_PC ELSE Null
       /\ LinkShown = IF /\ idx > 1 /\ idx <= Len(bb.code)
                         /\ bb.code[idx - 1].insn.op = "jalr"
                      THEN ReturnPc(bb.code[idx - 1].pc) ELSE Null
       /\ AbstractPc = IF idx <= Len(bb.code) THEN bb.code[idx].pc
                       ELSE BlockEnd(bb, shadow).PC
       /\ AbstractMode = IF ~ is_step THEN "running"
                         ELSE IF idx <= Len(bb.code) THEN "stepping"
                         ELSE "stepped"
  /\ Dead <=> (state = "aborted" \/ (state = "executing" /\ ~ bb.ok))

\* Just what the mapping says, read state by state.
LEMMA Shows == Shown
<1> USE DEF Dead, Executing, Dispatching
<1>1. Dead => /\ CpuShown = Null /\ SlotShown = Null /\ LinkShown = Null
              /\ AbstractPc = Null /\ AbstractMode = "dead"
  BY DEF CpuShown, SlotShown, LinkShown, InSlot, AbstractPc, AbstractMode
<1>2. state = "stopped" =>
       /\ ~ Dead
       /\ CpuShown = Machine!Core(shadow) /\ SlotShown = Null /\ LinkShown = Null
       /\ AbstractPc = regs.PC /\ AbstractMode = "stopped"
  BY DEF CpuShown, SlotShown, LinkShown, InSlot, LinkDue, Core, Machine!Core, AbstractPc,
         AbstractMode
<1>3. state = "dispatch" =>
       /\ ~ Dead
       /\ CpuShown = Machine!Core(shadow) /\ SlotShown = Null /\ LinkShown = Null
       /\ AbstractPc = pc /\ AbstractMode = "running"
  BY DEF CpuShown, SlotShown, LinkShown, InSlot, LinkDue, Core, Machine!Core, AbstractPc,
         AbstractMode
<1>4. ASSUME state = "executing", bb.ok
      PROVE
       /\ ~ Dead
       /\ CpuShown = Linking(shadow, idx)
       /\ SlotShown = IF /\ idx > 1 /\ idx <= Len(bb.code)
                         /\ IsJump(bb.code[idx - 1].insn)
                      THEN shadow.PNEXT_PC ELSE Null
       /\ LinkShown = IF /\ idx > 1 /\ idx <= Len(bb.code)
                         /\ bb.code[idx - 1].insn.op = "jalr"
                      THEN ReturnPc(bb.code[idx - 1].pc) ELSE Null
       /\ AbstractPc = IF idx <= Len(bb.code) THEN bb.code[idx].pc
                       ELSE BlockEnd(bb, shadow).PC
       /\ AbstractMode = IF ~ is_step THEN "running"
                         ELSE IF idx <= Len(bb.code) THEN "stepping"
                         ELSE "stepped"
  <2>1. ~ Dead /\ (LinkDue <=> Due(idx))
    BY <1>4 DEF LinkDue, Due
  <2>2. CpuShown = Linking(shadow, idx)
    BY <2>1 DEF CpuShown, Core, Linking
  <2>3. bb.code[idx - 1].insn.op = "jalr" => IsJump(bb.code[idx - 1].insn)
    BY DEF IsJump, JumpOps
  <2>4. QED
    BY <1>4, <2>1, <2>2, <2>3
       DEF SlotShown, LinkShown, InSlot, AbstractPc, AbstractMode
<1>5. QED BY <1>1, <1>2, <1>3, <1>4 DEF Shown

\* The same of the next state.
LEMMA ShowsNext == Shown'
BY Shows, PTL

-----------------------------------------------------------------------------
(* Instructions.                                                           *)

\* The machine's instructions are the virtual machine's.
LEMMA SameInsn ==
  /\ \A i, a, r : Machine!Execute(i, a, r) = Execute(i, a, r)
  /\ \A a : Machine!Wrap(a) = Wrap(a) /\ Machine!ReturnPc(a) = ReturnPc(a)
  /\ \A i : /\ Machine!IsJump(i) <=> IsJump(i)
            /\ Machine!IsPlain(i) <=> IsPlain(i)
            /\ Machine!Unsupported(i) <=> Unsupported(i)
<1>1. \A a : Machine!Wrap(a) = Wrap(a)
  BY DEF Machine!Wrap, Wrap
<1>2. \A a : Machine!ReturnPc(a) = ReturnPc(a)
  BY <1>1 DEF Machine!ReturnPc, ReturnPc
<1>3. \A i, f, a : Machine!Branch(i, f, a) = Branch(i, f, a)
  BY <1>1 DEF Machine!Branch, Branch
<1>4. ASSUME NEW i, NEW a, NEW r
      PROVE  Machine!Execute(i, a, r) = Execute(i, a, r)
  BY <1>1, <1>2, <1>3 DEF Machine!Execute, Execute, Machine!Jalr, Jalr
<1>5. \A i : /\ Machine!IsJump(i) <=> IsJump(i)
             /\ Machine!IsPlain(i) <=> IsPlain(i)
             /\ Machine!Unsupported(i) <=> Unsupported(i)
  BY DEF Machine!IsJump, IsJump, Machine!IsPlain, IsPlain, Machine!Unsupported,
         Unsupported, Machine!JumpOps, JumpOps, Machine!PlainOps, PlainOps
<1>6. QED BY <1>1, <1>2, <1>4, <1>5

\* What an instruction does depends on the registers it is shown, but not on PC
\* and PNEXT_PC. Plain instructions leave PNEXT_PC, l.jal links and l.jalr does
\* not.
LEMMA ExecuteAgrees ==
  ASSUME NEW i \in Insn, NEW a \in Addr, NEW r \in Regs, NEW w \in Regs,
         r.EPCR0 = w.EPCR0, r.SR_IEE = w.SR_IEE, r.SR_F = w.SR_F, r.GR = w.GR,
         r.LR = w.LR
  PROVE  LET x == Execute(i, a, r)
             y == Execute(i, a, w)
         IN  /\ x.EPCR0 = y.EPCR0 /\ x.SR_IEE = y.SR_IEE /\ x.SR_F = y.SR_F
             /\ x.GR = y.GR /\ x.LR = y.LR
             /\ Ends(i) => x.PNEXT_PC = y.PNEXT_PC
             /\ IsPlain(i) => x.PNEXT_PC = r.PNEXT_PC
             /\ i.op = "jal" => x.LR = ReturnPc(a)
             /\ i.op = "jalr" => x.LR = r.LR
<1> USE DEF Regs
<1>1. CASE i.op \in {"j", "jal", "jr", "jalr"}
  BY <1>1 DEF Execute, Jalr, IsPlain, PlainOps
<1>2. CASE i.op \in {"bf", "bnf", "rfe"}
  BY <1>2 DEF Execute, IsPlain, PlainOps
<1>3. CASE i.op \in {"li", "addi", "mflr", "mtlr", "sfeq"}
  BY <1>3 DEF Execute, Ends, IsJump, JumpOps
<1>4. CASE i.op \notin {"j", "jal", "jr", "jalr", "bf", "bnf", "rfe", "li",
                       "addi", "mflr", "mtlr", "sfeq"}
  BY <1>4 DEF Execute, Ends, IsJump, JumpOps
<1>5. QED BY <1>1, <1>2, <1>3, <1>4

\* Where in a well cut block an instruction can be: a jump in front of its
\* delay slot; in a delay slot, at the end; or neither.
LEMMA InsnPlace ==
  ASSUME NEW b \in Block, WellCut(b), NEW k \in 1 .. Len(b.code)
  PROVE  LET n == Len(b.code)
             W(i) == b.code[i].insn
             Slot(i) == i > 1 /\ IsJump(W(i - 1))
         IN  /\ n \in Nat
             /\ IsJump(W(k)) => k + 1 = n /\ ~ Slot(k) /\ ~ b.fall
             /\ Slot(k) => k = n /\ IsPlain(W(k)) /\ ~ b.fall
             /\ ~ IsJump(W(k)) /\ ~ Slot(k) =>
                  /\ n > 1 => ~ (k + 1 >= n /\ IsJump(W(n - 1)))
                  /\ k < n => W(k).op # "rfe"
                  /\ k = n => (b.fall <=> W(k).op # "rfe")
<1> DEFINE n == Len(b.code)
           W(i) == b.code[i].insn
<1>1. n \in Nat /\ n >= 1 /\ k \in 1 .. n
  BY DEF Block, WellCut
<1>2. /\ \A i \in 1 .. n : /\ W(i).op = "rfe" => i = n
                           /\ IsJump(W(i)) => i + 1 = n /\ IsPlain(W(i + 1))
      /\ b.fall => \A i \in 1 .. n : ~ Ends(W(i))
      /\ ~ b.fall => W(n).op = "rfe" \/ (n > 1 /\ IsJump(W(n - 1)))
  BY DEF WellCut
<1>3. \A i \in 1 .. n : ~ (IsJump(W(i)) /\ IsPlain(W(i)))
  BY DEF IsJump, IsPlain, JumpOps, PlainOps
<1> HIDE DEF W, n
<1>4. k > 1 => k - 1 \in 1 .. n /\ (k - 1) + 1 = k
  BY <1>1
<1>5. n > 1 => n - 1 \in 1 .. n
  BY <1>1
<1>6. ASSUME IsJump(W(k))
      PROVE  k + 1 = n /\ ~ (k > 1 /\ IsJump(W(k - 1))) /\ ~ b.fall
  BY <1>1, <1>2, <1>4, <1>6 DEF Ends
<1>7. ASSUME k > 1, IsJump(W(k - 1))
      PROVE  k = n /\ IsPlain(W(k)) /\ ~ b.fall
  BY <1>2, <1>4, <1>7 DEF Ends
<1>8. ASSUME ~ IsJump(W(k)), ~ (k > 1 /\ IsJump(W(k - 1)))
      PROVE  /\ n > 1 => ~ (k + 1 >= n /\ IsJump(W(n - 1)))
             /\ k < n => W(k).op # "rfe"
             /\ k = n => (b.fall <=> W(k).op # "rfe")
  <2>1. n > 1 => ~ (k + 1 >= n /\ IsJump(W(n - 1)))
    <3>1. k + 1 >= n /\ n > 1 => k = n - 1 \/ (k = n /\ k > 1)
      BY <1>1
    <3>2. QED BY <1>8, <3>1
  <2>2. k < n => W(k).op # "rfe"
    BY <1>1, <1>2
  <2>3. ASSUME k = n PROVE b.fall <=> W(k).op # "rfe"
    <3>1. b.fall => W(k).op # "rfe"
      BY <1>2, <2>3 DEF Ends
    <3>2. ~ b.fall => W(k).op = "rfe"
      BY <1>2, <1>8, <2>3
    <3>3. QED BY <3>1, <3>2
  <2>4. QED BY <2>1, <2>2, <2>3
<1>9. QED BY <1>1, <1>6, <1>7, <1>8 DEF W, n

-----------------------------------------------------------------------------
(* Steps of the virtual machine are steps of the abstract one.             *)

\* The next instruction of a block that is executing.
Here == bb.code[idx]

\* What is known of a block that was translated to its end when it executes.
LEMMA Running ==
  ASSUME IInv, CutInv, ExecInsn, bb.ok
  PROVE  /\ state = "executing" /\ state' = "executing" /\ bb' = bb
         /\ idx \in 1 .. Len(bb.code) /\ Len(bb.code) \in Nat /\ idx' = idx + 1
         /\ bb \in Block /\ WellCut(bb) /\ WellFormed(bb)
         /\ is_step' = is_step /\ (is_step => OneInsn(bb))
         /\ Here.insn \in Insn /\ Here.pc \in Addr
         /\ Here.insn \in held[Here.pc]
         /\ IsHead(bb, idx) => Here.pc \notin bps_by_addr
         /\ shadow \in Regs /\ shadow' = Execute(Here.insn, Here.pc, shadow)
         /\ bps_by_addr' = bps_by_addr /\ irq_status' = irq_status
<1>1. /\ state = "executing" /\ state' = "executing" /\ bb' = bb
      /\ idx <= Len(bb.code) /\ idx' = idx + 1 /\ is_step' = is_step
      /\ shadow' = Execute(Here.insn, Here.pc, shadow)
      /\ bps_by_addr' = bps_by_addr /\ irq_status' = irq_status
  BY DEF ExecInsn, Executing, Here
<1>2. /\ bb \in Block /\ idx \in 1 .. Len(bb.code) + 1 /\ shadow \in Regs
      /\ Good(bb, bps_by_addr, held)
  BY <1>1 DEF IInv, TypeOK, GoodBlocks, Executing
<1>3. WellCut(bb) /\ (is_step => OneInsn(bb))
  BY <1>1 DEF CutInv, Executing
<1>4. Len(bb.code) \in Nat
  BY <1>2 DEF Block
<1>5. idx \in 1 .. Len(bb.code)
  BY <1>1, <1>2, <1>4
<1>6. /\ Here.insn \in Insn /\ Here.pc \in Addr
      /\ Here.insn \in held[Here.pc]
      /\ IsHead(bb, idx) => Here.pc \notin bps_by_addr
  BY <1>2, <1>5, CodeElem DEF Here, Good, FromMemory, HeadsFree
<1>7. QED BY <1>1, <1>2, <1>3, <1>4, <1>5, <1>6 DEF Good

\* The registers the abstract instruction works on.
Lent == Machine!WithPc(CpuShown)

\* The effect of an instruction on registers and memory is that of the abstract
\* instruction.
LEMMA Performs ==
  ASSUME IInv, CutInv, ExecInsn, bb.ok
  PROVE  /\ Machine!Perform(Here.insn)
         /\ Ends(Here.insn) =>
              Machine!Execute(Here.insn, AbstractPc, Lent).PNEXT_PC
                = shadow'.PNEXT_PC
         /\ IsPlain(Here.insn) => shadow'.PNEXT_PC = shadow.PNEXT_PC
<1> DEFINE n == Len(bb.code)
           i == Here.insn
           a == Here.pc
           x == Execute(i, a, shadow)
           y == Execute(i, a, Lent)
           InSlot_ == idx > 1 /\ IsJump(bb.code[idx - 1].insn)
<1>1. /\ state = "executing" /\ state' = "executing" /\ bb' = bb
      /\ idx \in 1 .. n /\ n \in Nat /\ idx' = idx + 1
      /\ bb \in Block /\ WellCut(bb) /\ i \in Insn /\ a \in Addr
      /\ shadow \in Regs /\ shadow' = x
      /\ bps_by_addr' = bps_by_addr /\ irq_status' = irq_status
  BY Running
<1>2. CpuShown = Linking(shadow, idx) /\ AbstractPc = a
  BY <1>1, Shows DEF Shown, Here
<1>3. CpuShown' = Linking(shadow, idx)'
  BY <1>1, ShowsNext DEF Shown
<1>4. /\ IsJump(i) => idx + 1 = n /\ ~ InSlot_
      /\ InSlot_ => idx = n /\ IsPlain(i)
  BY <1>1, InsnPlace DEF Here
<1>5. /\ Lent \in Regs
      /\ Lent.EPCR0 = shadow.EPCR0 /\ Lent.SR_IEE = shadow.SR_IEE
      /\ Lent.SR_F = shadow.SR_F /\ Lent.GR = shadow.GR /\ Lent.LR = shadow.LR
      /\ CpuShown.LR = shadow.LR
  <2>1. ~ Due(idx)
    BY <1>1 DEF Due
  <2>2. CpuShown = [EPCR0 |-> shadow.EPCR0, SR_IEE |-> shadow.SR_IEE,
                    SR_F |-> shadow.SR_F, LR |-> shadow.LR, GR |-> shadow.GR]
    BY <1>2, <2>1 DEF Linking
  <2>3. Lent = [PC |-> a, PNEXT_PC |-> a, EPCR0 |-> shadow.EPCR0,
                SR_IEE |-> shadow.SR_IEE, SR_F |-> shadow.SR_F,
                LR |-> shadow.LR, GR |-> shadow.GR]
    BY <1>2, <2>2 DEF Lent, Machine!WithPc, CpuShown
  <2>4. QED BY <2>2, <2>3, <1>1 DEF Regs
<1>6. /\ x.EPCR0 = y.EPCR0 /\ x.SR_IEE = y.SR_IEE /\ x.SR_F = y.SR_F
      /\ x.GR = y.GR /\ x.LR = y.LR
      /\ Ends(i) => x.PNEXT_PC = y.PNEXT_PC
      /\ IsPlain(i) => x.PNEXT_PC = shadow.PNEXT_PC
      /\ i.op = "jal" => x.LR = ReturnPc(a)
      /\ i.op = "jalr" => x.LR = shadow.LR
  <2> HIDE DEF i, a
  <2>1. QED BY <1>1, <1>5, ExecuteAgrees
<1>7. LinkShown = IF idx > 1 /\ bb.code[idx - 1].insn.op = "jalr"
                  THEN ReturnPc(bb.code[idx - 1].pc) ELSE Null
  BY <1>1, Shows DEF Shown
<1>8. /\ i.op \in {"jal", "jalr"} => IsJump(i)
      /\ \A j : bb.code[j].insn.op = "jalr" => IsJump(bb.code[j].insn)
      /\ IsPlain(i) => i.op \notin {"jal", "jalr"}
  BY DEF IsJump, JumpOps, IsPlain, PlainOps
<1>9. /\ Due(idx + 1) <=> LinkShown # Null
      /\ LinkShown # Null => /\ LinkShown = ReturnPc(bb.code[n - 1].pc)
                             /\ i.op \notin {"jal", "jalr"}
  <2>1. CASE InSlot_
    <3>1. idx = n /\ n > 1 /\ idx + 1 > n /\ i.op \notin {"jal", "jalr"}
      BY <1>1, <1>4, <1>8, <2>1
    <3>2. ReturnPc(bb.code[n - 1].pc) # Null
      <4>1. n - 1 \in 1 .. n
        BY <1>1, <3>1
      <4>2. bb.code[n - 1].pc \in Addr
        BY <1>1, <4>1, CodeElem
      <4>3. QED BY <4>2, WrapNext, AddrNat, NullAssumption
    <3>3. QED BY <3>1, <3>2, <1>7 DEF Due
  <2>2. CASE ~ InSlot_
    <3>1. LinkShown = Null
      BY <1>7, <1>8, <2>2
    <3>2. ~ Due(idx + 1)
      <4>1. idx + 1 > n => idx = n
        BY <1>1
      <4>2. QED BY <4>1, <1>8, <2>2 DEF Due
    <3>3. QED BY <3>1, <3>2
  <2>3. QED BY <2>1, <2>2
<1>10. Linking(shadow, idx)' =
         [EPCR0 |-> x.EPCR0, SR_IEE |-> x.SR_IEE, SR_F |-> x.SR_F,
          LR |-> IF Due(idx + 1) THEN ReturnPc(bb.code[n - 1].pc) ELSE x.LR,
          GR |-> x.GR]
  <2>1. Due(idx)' <=> Due(idx + 1)
    BY <1>1 DEF Due
  <2>2. QED BY <1>1, <2>1 DEF Linking
<1>11. Machine!Linked(i, Machine!Core(y)) =
         [EPCR0 |-> y.EPCR0, SR_IEE |-> y.SR_IEE, SR_F |-> y.SR_F,
          LR |-> CASE i.op = "jal"  -> ReturnPc(a)
                   [] i.op = "jalr" -> CpuShown.LR
                   [] OTHER -> IF LinkShown # Null THEN LinkShown ELSE y.LR,
          GR |-> y.GR]
  BY <1>2, SameInsn DEF Machine!Linked, Machine!Core, CpuShown, LinkShown
<1>12. (IF Due(idx + 1) THEN ReturnPc(bb.code[n - 1].pc) ELSE x.LR)
         = (CASE i.op = "jal"  -> ReturnPc(a)
              [] i.op = "jalr" -> CpuShown.LR
              [] OTHER -> IF LinkShown # Null THEN LinkShown ELSE y.LR)
  <2> HIDE DEF i, x, y, a
  <2>1. CASE i.op = "jal"
    BY <2>1, <1>6, <1>9
  <2>2. CASE i.op = "jalr"
    BY <2>2, <1>5, <1>6, <1>9
  <2>3. CASE i.op \notin {"jal", "jalr"}
    BY <2>3, <1>6, <1>9
  <2>4. QED BY <2>1, <2>2, <2>3
<1>13. CpuShown' = Machine!Linked(i, Machine!Core(y))
  BY <1>3, <1>6, <1>10, <1>11, <1>12
<1>14. y = Machine!Execute(i, AbstractPc, Lent)
  BY <1>2, SameInsn
<1>15. IF i.op = "sw"
       THEN /\ mem' = [mem EXCEPT ![i.k] = StoredWord]
            /\ held' = [held EXCEPT ![i.k] = @ \cup {StoredWord}]
       ELSE UNCHANGED <<mem, held>>
  BY DEF ExecInsn, Here
<1> HIDE DEF i, a, x, y
<1>16. Machine!Perform(i)
  BY <1>1, <1>13, <1>14, <1>15 DEF Machine!Perform, CpuShown, LinkShown, Lent
<1>17. Ends(i) => y.PNEXT_PC = x.PNEXT_PC
  BY <1>6
<1>18. QED BY <1>1, <1>6, <1>14, <1>16, <1>17 DEF i

\* The address after an instruction of a well cut block.
LEMMA NextAddress ==
  ASSUME NEW b \in Block, WellCut(b), NEW k \in 1 .. Len(b.code)
  PROVE  /\ k < Len(b.code) => b.code[k + 1].pc = Wrap(b.code[k].pc + 1)
         /\ b.start + Len(b.code) =< Words =>
              Wrap(b.start + k) = Wrap(b.code[k].pc + 1)
<1>1. /\ Len(b.code) \in Nat /\ b.start \in Nat /\ Words \in Nat /\ Words > 1
      /\ b.start + Len(b.code) =< Words + 1
      /\ \A j \in 1 .. Len(b.code) : b.code[j].pc = Wrap(b.start + j - 1)
  <2>1. Len(b.code) \in Nat /\ b.start \in Addr
    BY DEF Block
  <2>2. b.start \in Nat
    BY <2>1, AddrNat
  <2>3. /\ b.start + Len(b.code) =< Words + 1
        /\ \A j \in 1 .. Len(b.code) : b.code[j].pc = Wrap(b.start + j - 1)
    BY DEF WellCut
  <2>4. QED BY <2>1, <2>2, <2>3, WordsAssumption
<1>2. b.code[k].pc = b.start + k - 1 \/ (k = Len(b.code) /\ b.start + k - 1 = Words)
  <2>1. b.code[k].pc = Wrap(b.start + k - 1)
    BY <1>1
  <2>2. b.start + k - 1 < Words \/ (k = Len(b.code) /\ b.start + k - 1 = Words)
    <3>1. \A s, n, w \in Nat : \A j \in 1 .. n :
            s + n =< w + 1 => s + j - 1 < w \/ (j = n /\ s + j - 1 = w)
      OBVIOUS
    <3>2. QED BY <1>1, <3>1
  <2>3. b.start + k - 1 < Words => Wrap(b.start + k - 1) = b.start + k - 1
    <3>1. b.start + k - 1 \in Nat
      BY <1>1
    <3>2. QED BY <3>1, WrapAddr
  <2>4. QED BY <2>1, <2>2, <2>3
<1>3. ASSUME k < Len(b.code)
      PROVE  b.code[k + 1].pc = Wrap(b.code[k].pc + 1)
  <2>1. k + 1 \in 1 .. Len(b.code) /\ b.code[k].pc = b.start + k - 1
    BY <1>1, <1>2, <1>3
  <2>2. b.code[k + 1].pc = Wrap(b.start + (k + 1) - 1)
    BY <1>1, <2>1
  <2>3. b.start + (k + 1) - 1 = (b.start + k - 1) + 1
    BY <1>1
  <2>4. QED BY <2>1, <2>2, <2>3
<1>4. ASSUME b.start + Len(b.code) =< Words
      PROVE  Wrap(b.start + k) = Wrap(b.code[k].pc + 1)
  <2>1. b.code[k].pc = b.start + k - 1
    BY <1>1, <1>2, <1>4
  <2>2. (b.start + k - 1) + 1 = b.start + k
    BY <1>1
  <2>3. QED BY <2>1, <2>2
<1>5. QED BY <1>3, <1>4

\* One instruction of a block is one instruction of the machine.
LEMMA ExecSimulated ==
  ASSUME IInv, CutInv, ExecInsn, bb.ok
  PROVE  Machine!Instruction \/ Machine!DelaySlot
<1> DEFINE n == Len(bb.code)
           i == Here.insn
           a == Here.pc
           inSlot == idx > 1 /\ IsJump(bb.code[idx - 1].insn)
           target == Machine!Execute(i, AbstractPc, Lent).PNEXT_PC
<1>1. /\ state = "executing" /\ state' = "executing" /\ bb' = bb
      /\ idx \in 1 .. n /\ n \in Nat /\ idx' = idx + 1
      /\ bb \in Block /\ WellCut(bb) /\ WellFormed(bb)
      /\ is_step' = is_step /\ (is_step => OneInsn(bb))
      /\ i \in Insn /\ a \in Addr /\ i \in held[a]
      /\ IsHead(bb, idx) => a \notin bps_by_addr
      /\ shadow \in Regs
  BY Running
<1>2. /\ Machine!Perform(i)
      /\ Ends(i) => target = shadow'.PNEXT_PC
      /\ IsPlain(i) => shadow'.PNEXT_PC = shadow.PNEXT_PC
  BY Performs
<1>3. /\ AbstractPc = a
      /\ SlotShown = IF inSlot THEN shadow.PNEXT_PC ELSE Null
      /\ ~ inSlot => LinkShown = Null
      /\ AbstractMode = IF is_step THEN "stepping" ELSE "running"
  <2>1. bb.code[idx - 1].insn.op = "jalr" => IsJump(bb.code[idx - 1].insn)
    BY DEF IsJump, JumpOps
  <2>2. QED BY <1>1, <2>1, Shows DEF Shown, Here
<1>4. /\ AbstractPc' = IF idx + 1 <= n THEN bb.code[idx + 1].pc
                       ELSE BlockEnd(bb, shadow').PC
      /\ SlotShown' = IF idx + 1 <= n /\ IsJump(i) THEN shadow'.PNEXT_PC ELSE Null
      /\ LinkShown' = IF idx + 1 <= n /\ i.op = "jalr" THEN ReturnPc(a) ELSE Null
      /\ AbstractMode' = IF ~ is_step THEN "running"
                         ELSE IF idx + 1 <= n THEN "stepping" ELSE "stepped"
  <2>1. (idx + 1) - 1 = idx /\ idx + 1 > 1
    BY <1>1
  <2>2. QED BY <1>1, <2>1, ShowsNext DEF Shown, Here
<1>5. /\ IsJump(i) => idx + 1 = n /\ ~ inSlot /\ ~ bb.fall
      /\ inSlot => idx = n /\ IsPlain(i) /\ ~ bb.fall
      /\ ~ IsJump(i) /\ ~ inSlot => /\ idx < n => i.op # "rfe"
                                    /\ idx = n => (bb.fall <=> i.op # "rfe")
  BY <1>1, InsnPlace DEF Here
<1>6. /\ ~ Unsupported(i)
      /\ idx < n => bb.code[idx + 1].pc = Wrap(a + 1)
      /\ bb.fall => Wrap(bb.start + idx) = Wrap(a + 1)
      /\ ~ IsJump(i) /\ is_step => idx = n
  <2>1. ~ Unsupported(i)
    BY <1>1 DEF WellCut, Here
  <2>2. /\ idx < n => bb.code[idx + 1].pc = Wrap(a + 1)
        /\ bb.start + n =< Words => Wrap(bb.start + idx) = Wrap(a + 1)
    BY <1>1, NextAddress DEF Here
  <2>3. bb.fall => bb.start + n =< Words
    BY <1>1 DEF WellFormed
  <2>4. ~ IsJump(i) /\ is_step => idx = n
    <3>1. idx \in 1 .. n - 1 \/ idx = n
      BY <1>1
    <3>2. QED BY <1>1, <3>1 DEF OneInsn, Here
  <2>5. QED BY <2>1, <2>2, <2>3, <2>4
<1>7. BlockEnd(bb, shadow').PC = IF bb.fall THEN Wrap(bb.start + n)
                                 ELSE shadow'.PNEXT_PC
  <2> DEFINE r    == shadow'
             linked == IF n > 1 /\ bb.code[n - 1].insn.op = "jalr"
                       THEN [r EXCEPT !.LR = ReturnPc(bb.code[n - 1].pc)] ELSE r
             next == IF bb.fall THEN Wrap(bb.start + n) ELSE r.PNEXT_PC
  <2>1. r \in Regs
    BY <1>1, ExecuteType, Running
  <2>2. linked \in Regs
    <3>1. n > 1 => n - 1 \in 1 .. n
      BY <1>1
    <3>2. n > 1 => ReturnPc(bb.code[n - 1].pc) \in Addr
      BY <1>1, <3>1, CodeElem, WrapNext
    <3>3. QED BY <2>1, <3>2 DEF Regs
  <2>3. BlockEnd(bb, r) = [linked EXCEPT !.PNEXT_PC = next, !.PC = next]
    BY DEF BlockEnd
  <2> HIDE DEF linked, next
  <2>4. BlockEnd(bb, r).PC = next
    BY <2>2, <2>3 DEF Regs
  <2>5. QED BY <2>4 DEF next
<1>8. /\ i.op = "rfe" => Ends(i) /\ ~ IsJump(i)
      /\ i.op = "jalr" => IsJump(i)
  BY DEF Ends, IsJump, JumpOps
<1> HIDE DEF n, i, a, target
<1>9. CASE inSlot
  <2>1. shadow.PNEXT_PC # Null
    BY <1>1, AddrNat, NullAssumption DEF Regs
  <2>2. SlotShown = shadow.PNEXT_PC
    BY <1>3, <1>9
  <2>3. IsPlain(i) /\ ~ IsJump(i) /\ idx = n /\ ~ bb.fall /\ ~ (idx + 1 <= n)
    <3>1. idx = n /\ IsPlain(i) /\ ~ bb.fall /\ ~ IsJump(i)
      BY <1>5, <1>9
    <3>2. ~ (idx + 1 <= n)
      BY <1>1, <3>1
    <3>3. QED BY <3>1, <3>2
  <2>4. AbstractPc' = SlotShown /\ SlotShown' = Null /\ LinkShown' = Null
    BY <1>2, <1>4, <1>7, <2>2, <2>3
  <2>5. AbstractMode' = IF AbstractMode = "stepping" THEN "stepped" ELSE AbstractMode
    BY <1>3, <1>4, <2>3
  <2>6. Machine!DelaySlot
    BY <1>1, <1>2, <1>3, <2>1, <2>2, <2>3, <2>4, <2>5, SameInsn
       DEF Machine!DelaySlot, Machine!Done, SlotShown, LinkShown
  <2>7. QED BY <2>6
<1>10. CASE ~ inSlot
  <2>1. /\ SlotShown = Null /\ LinkShown = Null /\ a \notin bps_by_addr
        /\ AbstractMode \in {"running", "stepping"}
    <3>1. IsHead(bb, idx)
      BY <1>1, <1>10 DEF IsHead, n
    <3>2. QED BY <3>1, <1>1, <1>3, <1>10
  <2>2. IF IsJump(i)
        THEN /\ AbstractPc' = Wrap(a + 1) /\ SlotShown' = target
             /\ LinkShown' = IF i.op = "jalr" THEN ReturnPc(a) ELSE Null
             /\ AbstractMode' = AbstractMode
        ELSE /\ AbstractPc' = IF i.op = "rfe" THEN target ELSE Wrap(a + 1)
             /\ SlotShown' = SlotShown /\ LinkShown' = LinkShown
             /\ AbstractMode' = IF AbstractMode = "stepping" THEN "stepped"
                                ELSE AbstractMode
    <3>1. CASE IsJump(i)
      <4>1. idx + 1 <= n /\ idx < n /\ target = shadow'.PNEXT_PC
        BY <1>1, <1>2, <1>5, <3>1 DEF Ends
      <4>2. QED BY <3>1, <4>1, <1>3, <1>4, <1>6
    <3>2. CASE ~ IsJump(i) /\ idx < n
      <4>1. idx + 1 <= n /\ i.op # "rfe" /\ ~ is_step
        BY <1>1, <1>5, <1>6, <1>10, <3>2
      <4>2. QED BY <3>2, <4>1, <2>1, <1>3, <1>4, <1>6, <1>8
    <3>3. CASE ~ IsJump(i) /\ idx = n
      <4>1. ~ (idx + 1 <= n) /\ (bb.fall <=> i.op # "rfe")
        BY <1>1, <1>5, <1>10, <3>3
      <4>2. AbstractPc' = IF i.op = "rfe" THEN target ELSE Wrap(a + 1)
        <5>1. CASE i.op = "rfe"
          BY <5>1, <4>1, <1>2, <1>4, <1>7, <1>8
        <5>2. CASE i.op # "rfe"
          BY <5>2, <4>1, <1>4, <1>6, <1>7, <3>3
        <5>3. QED BY <5>1, <5>2
      <4>3. QED BY <3>3, <4>1, <4>2, <2>1, <1>3, <1>4
    <3>4. idx < n \/ idx = n
      BY <1>1
    <3>5. QED BY <3>1, <3>2, <3>3, <3>4
  <2>3. Machine!Instruction
    <3>1. /\ AbstractMode \in {"running", "stepping"}
          /\ SlotShown = Null
          /\ AbstractPc \notin bps_by_addr
          /\ i \in held[AbstractPc] /\ ~ Machine!Unsupported(i)
          /\ Machine!Perform(i)
      BY <1>1, <1>2, <1>3, <1>6, <2>1, SameInsn
    <3>2. IF Machine!IsJump(i)
          THEN /\ AbstractPc' = Machine!Wrap(AbstractPc + 1)
               /\ SlotShown' = target
               /\ LinkShown' = IF i.op = "jalr" THEN Machine!ReturnPc(AbstractPc)
                               ELSE Null
               /\ AbstractMode' = AbstractMode
          ELSE /\ AbstractPc' = IF i.op = "rfe" THEN target
                                ELSE Machine!Wrap(AbstractPc + 1)
               /\ SlotShown' = SlotShown /\ LinkShown' = LinkShown
               /\ Machine!Done
      BY <1>3, <2>2, SameInsn DEF Machine!Done
    <3>3. QED BY <3>1, <3>2
              DEF Machine!Instruction, SlotShown, LinkShown, target, Lent, CpuShown
  <2>4. QED BY <2>3
<1>11. QED BY <1>9, <1>10

\* A step of the virtual machine, as the abstract machine takes it.
Simulated == Machine!Next \/ UNCHANGED Machine!vars

\* From the moment a translation has failed the machine is dead, whatever
\* the process still does.
LEMMA Dies ==
  ASSUME Dead', bps_by_addr' = bps_by_addr
  PROVE  Simulated
<1>1. /\ CpuShown' = Null /\ SlotShown' = Null /\ LinkShown' = Null
      /\ AbstractPc' = Null /\ AbstractMode' = "dead"
  BY ShowsNext DEF Shown
<1>2. Machine!Die
  BY <1>1 DEF Machine!Die, CpuShown, SlotShown, LinkShown
<1>3. QED BY <1>2 DEF Simulated, Machine!Next

\* A block starts where the machine is and with its registers.
LEMMA Entered ==
  ASSUME NEW b \in Block, NEW r \in Regs, Enter(b, r), b.ok, WellCut(b)
  PROVE  /\ ~ Dead'
         /\ CpuShown' = Machine!Core(r) /\ SlotShown' = Null /\ LinkShown' = Null
         /\ AbstractPc' = b.start
         /\ AbstractMode' = IF is_step' THEN "stepping" ELSE "running"
         /\ IsHead(b, 1) /\ 1 \in 1 .. Len(b.code) /\ b.code[1].pc = b.start
<1>1. /\ state' = "executing" /\ bb' = b /\ idx' = 1
      /\ shadow' = [r EXCEPT !.PC = r.PNEXT_PC]
  BY DEF Enter
<1>2. /\ Len(b.code) \in Nat /\ Len(b.code) >= 1 /\ b.start \in Addr
      /\ b.code[1].pc = Wrap(b.start + 1 - 1)
  <2>1. Len(b.code) \in Nat /\ b.start \in Addr
    BY DEF Block
  <2>2. Len(b.code) >= 1 /\ \A i \in 1 .. Len(b.code) : b.code[i].pc = Wrap(b.start + i - 1)
    BY DEF WellCut
  <2>3. 1 \in 1 .. Len(b.code)
    BY <2>1, <2>2
  <2>4. QED BY <2>1, <2>2, <2>3
<1>3. Wrap(b.start + 1 - 1) = b.start
  <2>1. b.start \in Nat /\ b.start < Words
    BY <1>2, AddrNat
  <2>2. b.start + 1 - 1 = b.start
    BY <2>1
  <2>3. QED BY <1>2, <2>2, WrapNext
<1>4. 1 =< Len(b.code) /\ ~ (1 > 1) /\ ~ (Len(b.code) > 1 /\ 1 > Len(b.code))
  BY <1>2
<1>5. Linking(shadow, idx)' = Machine!Core(r)
  <2>1. ~ Due(idx)'
    BY <1>1, <1>4 DEF Due
  <2>2. QED BY <1>1, <2>1 DEF Linking, Machine!Core, Regs
<1>6. /\ ~ Dead'
      /\ CpuShown' = Linking(shadow, idx)' /\ SlotShown' = Null /\ LinkShown' = Null
      /\ AbstractPc' = b.code[1].pc
      /\ AbstractMode' = IF is_step' THEN "stepping" ELSE "running"
  BY <1>1, <1>4, ShowsNext DEF Shown
<1>7. IsHead(b, 1) /\ 1 \in 1 .. Len(b.code)
  BY <1>2 DEF IsHead
<1>8. QED BY <1>2, <1>3, <1>5, <1>6, <1>7

\* run() starts without a change of the machine.
LEMMA ContinueSimulated ==
  ASSUME IInv, CutInv, Continue
  PROVE  Simulated
<1>1. /\ state = "stopped" /\ state' = "dispatch" /\ pc' = regs.PC
      /\ UNCHANGED <<mem, held, shadow, bps_by_addr, irq_status>>
  BY DEF Continue, history
<1>2. /\ AbstractMode = "stopped" /\ AbstractMode' = "running"
      /\ AbstractPc' = AbstractPc /\ SlotShown' = SlotShown /\ LinkShown' = LinkShown
      /\ CpuShown' = CpuShown
  BY <1>1, Shows, ShowsNext DEF Shown, Machine!Core
<1>3. Machine!Continue
  BY <1>1, <1>2 DEF Machine!Continue, CpuShown, SlotShown, LinkShown
<1>4. QED BY <1>3 DEF Simulated, Machine!Next

\* Setting a breakpoint makes memory current, as it drops every block.
LEMMA SetBreakPointSimulated ==
  ASSUME IInv, CutInv, NEW a \in BreakAddrs, SetBreakPoint(a)
  PROVE  Simulated
<1>1. /\ state = "stopped" /\ state' = "stopped"
      /\ bps_by_addr' = bps_by_addr \cup {a}
      /\ held' = [c \in Addr |-> {mem[c]}]
      /\ UNCHANGED <<mem, shadow, regs, irq_status>>
  BY DEF SetBreakPoint, invalidate, engine
<1>2. /\ AbstractMode = "stopped" /\ AbstractMode' = AbstractMode
      /\ AbstractPc' = AbstractPc /\ SlotShown' = SlotShown /\ LinkShown' = LinkShown
      /\ CpuShown' = CpuShown
  BY <1>1, Shows, ShowsNext DEF Shown, Machine!Core
<1>3. Machine!SetBreakPoint(a)
  BY <1>1, <1>2
     DEF Machine!SetBreakPoint, Machine!Current, Machine!Addr, Addr, CpuShown,
         SlotShown, LinkShown
<1>4. QED BY <1>3 DEF Simulated, Machine!Next

\* Removing one that is not there ends the process.
LEMMA UnsetBreakPointSimulated ==
  ASSUME IInv, CutInv, NEW a \in BreakAddrs, UnsetBreakPoint(a)
  PROVE  Simulated
<1>1. CASE a \in bps_by_addr
  <2>1. /\ state = "stopped" /\ state' = "stopped"
        /\ bps_by_addr' = bps_by_addr \ {a}
        /\ UNCHANGED <<mem, held, shadow, regs, irq_status>>
    BY <1>1 DEF UnsetBreakPoint, engine, history
  <2>2. /\ AbstractMode = "stopped" /\ AbstractMode' = AbstractMode
        /\ AbstractPc' = AbstractPc /\ SlotShown' = SlotShown /\ LinkShown' = LinkShown
        /\ CpuShown' = CpuShown
    BY <2>1, Shows, ShowsNext DEF Shown, Machine!Core
  <2>3. Machine!UnsetBreakPoint(a)
    BY <2>1, <2>2 DEF Machine!UnsetBreakPoint, CpuShown, SlotShown, LinkShown
  <2>4. QED BY <2>3 DEF Simulated, Machine!Next
<1>2. CASE a \notin bps_by_addr
  <2>1. state' = "aborted" /\ bps_by_addr' = bps_by_addr
    BY <1>2 DEF UnsetBreakPoint, Abort
  <2>2. Dead'
    BY <2>1 DEF Dead
  <2>3. QED BY <2>1, <2>2, Dies
<1>3. QED BY <1>1, <1>2

\* run() stops where the machine is, because no interrupt has just been accepted
\* there.
LEMMA HitBreakPointSimulated ==
  ASSUME IrqVector \notin BreakAddrs, IInv, RInv, CutInv, HitBreakPoint
  PROVE  Simulated
<1>1. /\ state = "dispatch" /\ state' = "stopped" /\ find_nearest(pc) = pc
      /\ UNCHANGED <<mem, held, shadow, regs, bps_by_addr, irq_status>>
  BY DEF HitBreakPoint, Stop, Dispatching, history
<1>2. pc \in bps_by_addr
  <2>1. pc \in Addr /\ pc # Null /\ bps_by_addr \subseteq Addr
    BY <1>1, AddrNat, NullAssumption, VmAssumption DEF IInv, TypeOK
  <2> DEFINE above == {c \in bps_by_addr : c >= pc}
  <2>2. above # {} => Min(above) \in above
    <3>1. above \subseteq Nat
      BY <2>1, AddrNat
    <3>2. QED BY <3>1, MinLeast
  <2>3. QED BY <1>1, <2>1, <2>2 DEF find_nearest
<1>3. regs.PC = pc
  <2>1. pc # IrqVector
    BY <1>2 DEF IInv, TypeOK
  <2>2. QED BY <1>1, <2>1 DEF RInv
<1>4. /\ AbstractMode = "running" /\ AbstractMode' = "stopped"
      /\ AbstractPc = pc /\ AbstractPc' = AbstractPc
      /\ SlotShown = Null /\ LinkShown = Null /\ SlotShown' = SlotShown /\ LinkShown' = LinkShown /\ CpuShown' = CpuShown
  BY <1>1, <1>3, Shows, ShowsNext DEF Shown, Machine!Core
<1>5. Machine!Break
  BY <1>1, <1>2, <1>4 DEF Machine!Break, CpuShown, SlotShown, LinkShown
<1>6. QED BY <1>5 DEF Simulated, Machine!Next

\* Finding or translating the next block is nothing the machine does, unless
\* the translation fails.
LEMMA RunSimulated ==
  ASSUME IInv, CutInv, CutInv', GoodBlocks', RunCached \/ RunTranslated
  PROVE  Simulated
<1>1. /\ state = "dispatch" /\ pc \in Addr /\ regs \in Regs /\ shadow = regs
      /\ ~ is_step
      /\ UNCHANGED <<mem, held, regs, bps_by_addr, irq_status, is_step>>
  BY DEF RunCached, RunTranslated, Dispatching, Abort, IInv, TypeOK, CutInv
<1>2. CASE Dead'
  BY <1>1, <1>2, Dies
<1>3. CASE ~ Dead'
  <2>1. /\ Enter(bb', regs) /\ state' = "executing"
        /\ bb'.start = pc
    <3>1. CASE RunCached
      BY <3>1, <1>1 DEF RunCached, Enter, IInv, GoodBlocks
    <3>2. CASE RunTranslated /\ DisasCrashes(mem, pc, FALSE, find_nearest(pc))
      BY <3>2, <1>3 DEF RunTranslated, Abort, Dead
    <3>3. CASE RunTranslated /\ ~ DisasCrashes(mem, pc, FALSE, find_nearest(pc))
      BY <3>3 DEF RunTranslated, Enter, disas
    <3>4. QED BY <3>1, <3>2, <3>3
  <2>2. bb' \in Block /\ bb'.ok /\ WellCut(bb')
    BY <2>1, <1>3 DEF Dead, Executing, CutInv, GoodBlocks, Good, WellFormed
  <2>3. /\ CpuShown' = Machine!Core(regs) /\ SlotShown' = Null /\ LinkShown' = Null
        /\ AbstractPc' = pc /\ AbstractMode' = "running"
    BY <1>1, <2>1, <2>2, Entered
  <2>4. /\ CpuShown = Machine!Core(regs) /\ SlotShown = Null /\ LinkShown = Null
        /\ AbstractPc = pc /\ AbstractMode = "running"
    BY <1>1, Shows DEF Shown
  <2>5. UNCHANGED Machine!vars
    BY <1>1, <2>3, <2>4 DEF Machine!vars, CpuShown, SlotShown, LinkShown
  <2>6. QED BY <2>5 DEF Simulated
<1>4. QED BY <1>2, <1>3

\* Accepting an interrupt changes two of the machine's registers.
LEMMA CoreTaken ==
  ASSUME NEW r \in Regs, NEW a \in Addr
  PROVE  Machine!Core(TakeIrq(r, a))
           = [Machine!Core(r) EXCEPT !.EPCR0 = a, !.SR_IEE = TRUE]
<1> DEFINE t == TakeIrq(r, a)
<1>1. t.EPCR0 = a /\ t.SR_IEE = TRUE /\ t.SR_F = r.SR_F /\ t.LR = r.LR /\ t.GR = r.GR
  BY DEF TakeIrq, Regs
<1> HIDE DEF t
<1>2. Machine!Core(t) = [EPCR0 |-> a, SR_IEE |-> TRUE, SR_F |-> r.SR_F,
                         LR |-> r.LR, GR |-> r.GR]
  BY <1>1 DEF Machine!Core
<1>3. Machine!Core(r) = [EPCR0 |-> r.EPCR0, SR_IEE |-> r.SR_IEE, SR_F |-> r.SR_F,
                         LR |-> r.LR, GR |-> r.GR]
  BY DEF Machine!Core
<1>4. [Machine!Core(r) EXCEPT !.EPCR0 = a, !.SR_IEE = TRUE]
        = [EPCR0 |-> a, SR_IEE |-> TRUE, SR_F |-> r.SR_F, LR |-> r.LR, GR |-> r.GR]
  <2> DEFINE e == r.EPCR0
             i == r.SR_IEE
             f == r.SR_F
             l == r.LR
             g == r.GR
             v == TRUE
  <2>1. Machine!Core(r) = [EPCR0 |-> e, SR_IEE |-> i, SR_F |-> f, LR |-> l, GR |-> g]
    BY <1>3
  <2> HIDE DEF e, i, f, l, g, v
  <2>2. [Machine!Core(r) EXCEPT !.EPCR0 = a, !.SR_IEE = v]
          = [EPCR0 |-> a, SR_IEE |-> v, SR_F |-> f, LR |-> l, GR |-> g]
    <3> DEFINE d == [EPCR0 |-> e, SR_IEE |-> i, SR_F |-> f, LR |-> l, GR |-> g]
               b == [EPCR0 |-> a, SR_IEE |-> i, SR_F |-> f, LR |-> l, GR |-> g]
    <3>1. [d EXCEPT !.EPCR0 = a] = b
      OBVIOUS
    <3>2. [b EXCEPT !.SR_IEE = v]
            = [EPCR0 |-> a, SR_IEE |-> v, SR_F |-> f, LR |-> l, GR |-> g]
      OBVIOUS
    <3>3. [d EXCEPT !.EPCR0 = a, !.SR_IEE = v]
            = [[d EXCEPT !.EPCR0 = a] EXCEPT !.SR_IEE = v]
      OBVIOUS
    <3>4. QED BY <2>1, <3>1, <3>2, <3>3
  <2>3. QED BY <2>2 DEF f, l, g, v
<1>5. Machine!Core(t) = [Machine!Core(r) EXCEPT !.EPCR0 = a, !.SR_IEE = TRUE]
  BY <1>2, <1>4, Zenon
<1>6. QED BY <1>5 DEF t

\* step_exec() accepts a pending interrupt and makes memory current; with a
\* breakpoint where it starts it does nothing.
LEMMA StepSimulated ==
  ASSUME IrqVector \notin BreakAddrs, IInv, CutInv, CutInv', GoodBlocks', Step
  PROVE  Simulated
<1> DEFINE take  == IrqPending(regs)
           start == IF take THEN IrqVector ELSE regs.PC
           near  == find_nearest(start)
           b     == SteppedBlock(start, near)
<1>1. /\ state = "stopped" /\ regs \in Regs /\ shadow = regs /\ irq_status \in BOOLEAN
      /\ regs' = IF take THEN TakeIrq(regs, regs.PC) ELSE regs
      /\ UNCHANGED <<mem, bps_by_addr, irq_status>>
      /\ start \in Addr /\ bps_by_addr \subseteq BreakAddrs
  BY VmAssumption DEF Step, IInv, TypeOK, Regs
<1>2. /\ CpuShown = Machine!Core(regs) /\ SlotShown = Null /\ LinkShown = Null
      /\ AbstractPc = regs.PC /\ AbstractMode = "stopped"
  BY <1>1, Shows DEF Shown
<1>3. CASE near = start
  <2>1. start \in bps_by_addr
    <3>1. start # Null /\ bps_by_addr \subseteq Addr
      BY <1>1, AddrNat, NullAssumption, VmAssumption
    <3> DEFINE above == {c \in bps_by_addr : c >= start}
    <3>2. above # {} => Min(above) \in above
      <4>1. above \subseteq Nat
        BY <3>1, AddrNat
      <4>2. QED BY <4>1, MinLeast
    <3>3. QED BY <1>3, <3>1, <3>2 DEF find_nearest
  <2>2. ~ take
    BY <1>1, <2>1
  <2>3. /\ shadow' = regs' /\ UNCHANGED <<held, state>>
    BY <1>3 DEF Step
  <2>4. /\ CpuShown' = CpuShown /\ SlotShown' = SlotShown /\ LinkShown' = LinkShown
        /\ AbstractPc' = AbstractPc /\ AbstractMode' = AbstractMode
    BY <1>1, <1>2, <2>2, <2>3, ShowsNext DEF Shown, Machine!Core
  <2>5. UNCHANGED Machine!vars
    BY <1>1, <2>3, <2>4 DEF Machine!vars, CpuShown, SlotShown, LinkShown
  <2>6. QED BY <2>5 DEF Simulated
<1>4. CASE Dead'
  BY <1>1, <1>4, Dies
<1>5. CASE near # start /\ ~ Dead'
  <2>1. ~ DisasCrashes(mem, start, TRUE, near)
    BY <1>5 DEF Step, Dead
  <2>2. /\ Enter(b, regs') /\ is_step' = TRUE /\ held' = [a \in Addr |-> {mem[a]}]
    BY <1>5, <2>1 DEF Step
  <2>3. b.start = start
    BY DEF SteppedBlock, disas
  <2> HIDE DEF b
  <2>4. /\ b \in Block /\ b.ok /\ WellCut(b) /\ HeadsFree(b, bps_by_addr)
    <3>1. state' = "executing" /\ bb' = b
      BY <2>2 DEF Enter
    <3>2. Good(b, bps_by_addr', held') /\ b.ok /\ WellCut(b)
      BY <3>1, <1>5 DEF Dead, Executing, CutInv, GoodBlocks
    <3>3. QED BY <3>2, <1>1 DEF Good, WellFormed
  <2>5. regs' \in Regs
    <3>1. regs.PC \in Addr
      BY <1>1 DEF Regs
    <3>2. QED BY <1>1, <3>1, TakeIrqType
  <2>6. /\ CpuShown' = Machine!Core(regs') /\ SlotShown' = Null /\ LinkShown' = Null
        /\ AbstractPc' = start /\ AbstractMode' = "stepping"
        /\ start \notin bps_by_addr
    BY <2>2, <2>3, <2>4, <2>5, Entered DEF HeadsFree
  <2>7. /\ take <=> (irq_status /\ ~ CpuShown.SR_IEE)
        /\ IF take
           THEN /\ CpuShown' = [CpuShown EXCEPT !.EPCR0 = AbstractPc, !.SR_IEE = TRUE]
                /\ AbstractPc' = IrqVector
           ELSE CpuShown' = CpuShown /\ AbstractPc' = AbstractPc
    <3>1. take <=> (irq_status /\ ~ CpuShown.SR_IEE)
      BY <1>2 DEF IrqPending, Machine!Core
    <3>2. CASE take
      <4>1. AbstractPc' = IrqVector /\ regs' = TakeIrq(regs, regs.PC)
        BY <1>1, <2>6, <3>2
      <4>2. Machine!Core(TakeIrq(regs, regs.PC)) =
              [Machine!Core(regs) EXCEPT !.EPCR0 = regs.PC, !.SR_IEE = TRUE]
        <5>1. regs.PC \in Addr
          BY <1>1 DEF Regs
        <5>2. QED BY <1>1, <5>1, CoreTaken
      <4>3. QED BY <1>2, <2>6, <3>1, <3>2, <4>1, <4>2
    <3>3. CASE ~ take
      BY <1>1, <1>2, <2>6, <3>1, <3>3
    <3>4. QED BY <3>2, <3>3
  <2>8. Machine!Step
    <3> HIDE DEF take, start, near
    <3>1. Machine!Accept \/ ( ~ (irq_status /\ ~ CpuShown.SR_IEE)
                             /\ CpuShown' = CpuShown /\ AbstractPc' = AbstractPc)
      BY <2>7 DEF Machine!Accept, CpuShown
    <3>2. AbstractPc' \notin bps_by_addr /\ SlotShown' = SlotShown /\ LinkShown' = LinkShown
      BY <1>2, <2>6
    <3>3. QED BY <1>1, <1>2, <2>2, <2>6, <3>1, <3>2
              DEF Machine!Step, Machine!Current, Machine!Addr, Addr, CpuShown,
                  SlotShown, LinkShown
  <2>9. QED BY <2>8 DEF Simulated, Machine!Next
<1>6. QED BY <1>3, <1>4, <1>5

\* A block that returns ends a step, or is nothing the machine does, or is when
\* it accepts the interrupt.
LEMMA FinishSimulated ==
  ASSUME IInv, CutInv, FinishBlock
  PROVE  Simulated
<1> DEFINE r    == BlockEnd(bb, shadow)
           take == ~ is_step /\ IrqPending(r)
<1>1. /\ state = "executing" /\ bb.ok /\ idx > Len(bb.code)
      /\ WellFormed(bb) /\ bb \in Block /\ shadow \in Regs
      /\ idx \in 1 .. Len(bb.code) + 1 /\ Len(bb.code) \in Nat
  BY DEF IInv, TypeOK, GoodBlocks, FinishBlock, Executing, Good, WellFormed, Block
<1>2. r \in Regs /\ r.PC = r.PNEXT_PC
  BY <1>1, BlockEndType
<1>3. /\ regs' = IF take THEN TakeIrq(r, r.PNEXT_PC) ELSE r
      /\ shadow' = regs'
      /\ \/ is_step /\ state' = "stopped"
         \/ ~ is_step /\ state' = "dispatch" /\ pc' = NextPc(take, r)
      /\ UNCHANGED <<mem, held, bps_by_addr, irq_status>>
  BY DEF FinishBlock, Stop
<1>4. idx = Len(bb.code) + 1 /\ ~ (idx <= Len(bb.code)) /\ idx > Len(bb.code)
  BY <1>1
<1>5. /\ CpuShown = Linking(shadow, idx) /\ SlotShown = Null /\ LinkShown = Null
      /\ AbstractPc = r.PC
      /\ AbstractMode = IF is_step THEN "stepped" ELSE "running"
  BY <1>1, <1>4, Shows DEF Shown
<1>6. Linking(shadow, idx) = Machine!Core(r)
  <2> DEFINE n    == Len(bb.code)
             linked == IF n > 1 /\ bb.code[n - 1].insn.op = "jalr"
                     THEN [shadow EXCEPT !.LR = ReturnPc(bb.code[n - 1].pc)]
                     ELSE shadow
             next == IF bb.fall THEN Wrap(bb.start + n) ELSE shadow.PNEXT_PC
  <2>1. Due(idx) <=> (n > 1 /\ bb.code[n - 1].insn.op = "jalr")
    BY <1>4 DEF Due
  <2>2. Linking(shadow, idx) = Machine!Core(linked)
    BY <1>1, <2>1 DEF Linking, Machine!Core, Regs
  <2>3. Machine!Core(r) = Machine!Core(linked)
    <3>1. r = [linked EXCEPT !.PNEXT_PC = next, !.PC = next]
      BY DEF BlockEnd
    <3>2. linked.EPCR0 = r.EPCR0 /\ linked.SR_IEE = r.SR_IEE /\ linked.SR_F = r.SR_F
          /\ linked.LR = r.LR /\ linked.GR = r.GR
      <4> HIDE DEF r, next
      <4>1. CASE n > 1 /\ bb.code[n - 1].insn.op = "jalr"
        <5>1. linked = [shadow EXCEPT !.LR = ReturnPc(bb.code[n - 1].pc)]
          BY <4>1
        <5> HIDE DEF linked
        <5>2. QED BY <1>1, <3>1, <5>1 DEF Regs
      <4>2. CASE ~ (n > 1 /\ bb.code[n - 1].insn.op = "jalr")
        <5>1. linked = shadow
          BY <4>2
        <5> HIDE DEF linked
        <5>2. QED BY <1>1, <3>1, <5>1 DEF Regs
      <4>3. QED BY <4>1, <4>2
    <3> HIDE DEF r, linked
    <3>3. QED BY <3>2 DEF Machine!Core
  <2>4. QED BY <2>2, <2>3
<1> HIDE DEF r
<1>7. CASE is_step
  <2>1. /\ AbstractMode = "stepped" /\ AbstractMode' = "stopped"
        /\ AbstractPc' = AbstractPc /\ SlotShown' = SlotShown /\ LinkShown' = LinkShown
        /\ CpuShown' = CpuShown
    BY <1>3, <1>5, <1>6, <1>7, ShowsNext DEF Shown
  <2>2. Machine!Stepped
    BY <1>3, <1>5, <2>1 DEF Machine!Stepped, CpuShown, SlotShown, LinkShown
  <2>3. QED BY <2>2 DEF Simulated, Machine!Next
<1>8. CASE ~ is_step /\ ~ take
  <2>1. /\ AbstractMode' = AbstractMode
        /\ AbstractPc' = AbstractPc /\ SlotShown' = SlotShown /\ LinkShown' = LinkShown
        /\ CpuShown' = CpuShown
    BY <1>3, <1>5, <1>6, <1>8, ShowsNext DEF Shown, NextPc
  <2>2. UNCHANGED Machine!vars
    BY <1>3, <2>1 DEF Machine!vars, CpuShown, SlotShown, LinkShown
  <2>3. QED BY <2>2 DEF Simulated
<1>9. CASE take
  <2>1. /\ AbstractMode = "running" /\ AbstractMode' = "running"
        /\ AbstractPc = r.PNEXT_PC /\ AbstractPc' = IrqVector
        /\ SlotShown = Null /\ LinkShown = Null /\ SlotShown' = Null /\ LinkShown' = Null
        /\ CpuShown = Machine!Core(r)
        /\ CpuShown' = Machine!Core(TakeIrq(r, r.PNEXT_PC))
    BY <1>2, <1>3, <1>5, <1>6, <1>9, ShowsNext DEF Shown, NextPc
  <2>2. irq_status /\ ~ CpuShown.SR_IEE
    BY <1>9, <2>1 DEF IrqPending, Machine!Core
  <2>3. CpuShown' = [CpuShown EXCEPT !.EPCR0 = AbstractPc, !.SR_IEE = TRUE]
    <3>1. r.PNEXT_PC \in Addr
      BY <1>2 DEF Regs
    <3>2. QED BY <1>2, <2>1, <3>1, CoreTaken
  <2>4. Machine!AcceptIrq
    BY <1>3, <2>1, <2>2, <2>3
       DEF Machine!AcceptIrq, Machine!Accept, CpuShown, SlotShown, LinkShown
  <2>5. QED BY <2>4 DEF Simulated, Machine!Next
<1>10. QED BY <1>7, <1>8, <1>9

\* Every step of the virtual machine is a step of the abstract one, or none.
LEMMA StepsSimulated ==
  ASSUME IrqVector \notin BreakAddrs,
         IInv, IInv', RInv, CutInv, CutInv', [Next]_vars
  PROVE  Simulated
<1>1. CASE Continue
  BY <1>1, ContinueSimulated
<1>2. CASE Step
  BY <1>2, StepSimulated DEF IInv
<1>3. ASSUME NEW a \in BreakAddrs, SetBreakPoint(a) PROVE Simulated
  BY <1>3, SetBreakPointSimulated
<1>4. ASSUME NEW a \in BreakAddrs, UnsetBreakPoint(a) PROVE Simulated
  BY <1>4, UnsetBreakPointSimulated
<1>5. CASE HitBreakPoint
  BY <1>5, HitBreakPointSimulated
<1>6. CASE RunCached \/ RunTranslated
  BY <1>6, RunSimulated DEF IInv
<1>7. CASE ExecInsn
  <2>1. CASE bb.ok
    BY <1>7, <2>1, ExecSimulated DEF Simulated, Machine!Next
  <2>2. CASE ~ bb.ok
    <3>1. Dead' /\ bps_by_addr' = bps_by_addr
      BY <1>7, <2>2 DEF ExecInsn, Executing, Dead
    <3>2. QED BY <3>1, Dies
  <2>3. QED BY <2>1, <2>2
<1>8. CASE FinishBlock
  BY <1>8, FinishSimulated
<1>9. CASE FinishAborting
  <2>1. Dead' /\ bps_by_addr' = bps_by_addr
    BY <1>9 DEF FinishAborting, Abort, Dead
  <2>2. QED BY <2>1, Dies
<1>10. CASE Device \/ reset
  <2>1. /\ irq_status' \in BOOLEAN /\ state # "aborted"
        /\ UNCHANGED <<mem, held, bps_by_addr, regs, state, is_step, pc, bb, idx,
                       shadow>>
    BY <1>10 DEF Device, interrupt, reset, engine, history
  <2>2. CASE Dead'
    BY <2>1, <2>2, Dies
  <2>3. CASE ~ Dead'
    <3>1. /\ CpuShown' = CpuShown /\ SlotShown' = SlotShown /\ LinkShown' = LinkShown
          /\ AbstractPc' = AbstractPc /\ AbstractMode' = AbstractMode
      BY <2>1 DEF CpuShown, SlotShown, LinkShown, Core, Dead, InSlot, LinkDue, AbstractPc,
                  AbstractMode, Executing, Dispatching
    <3>2. AbstractMode # "dead"
      BY <2>1, <2>3 DEF AbstractMode, Dead, Executing, Dispatching, IInv, TypeOK
    <3>3. Machine!Device
      BY <2>1, <3>1, <3>2 DEF Machine!Device, CpuShown, SlotShown, LinkShown
    <3>4. QED BY <3>3 DEF Simulated, Machine!Next
  <2>4. QED BY <2>2, <2>3
<1>11. CASE UNCHANGED vars
  <2>1. /\ CpuShown' = CpuShown /\ SlotShown' = SlotShown /\ LinkShown' = LinkShown
        /\ AbstractPc' = AbstractPc /\ AbstractMode' = AbstractMode
    BY <1>11 DEF vars, engine, CpuShown, SlotShown, LinkShown, Core, Dead, InSlot, LinkDue,
       AbstractPc, AbstractMode, Executing, Dispatching
  <2>2. UNCHANGED Machine!vars
    BY <1>11, <2>1 DEF vars, engine, history, Machine!vars, CpuShown, SlotShown, LinkShown
  <2>3. QED BY <2>2 DEF Simulated
<1>12. QED
  BY <1>1, <1>2, <1>3, <1>4, <1>5, <1>6, <1>7, <1>8, <1>9, <1>10, <1>11
  DEF Next, Debugger, Engine

\* The virtual machine starts as the machine does.
LEMMA Starts == Init => Machine!Init /\ RInv /\ CutInv
<1> SUFFICES ASSUME Init PROVE Machine!Init /\ RInv /\ CutInv
  OBVIOUS
<1>1. CpuShown = Machine!Core(regs) /\ SlotShown = Null /\ LinkShown = Null
      /\ AbstractPc = ResetPc /\ AbstractMode = "stopped"
  BY Shows DEF Shown, Init
<1>2. Machine!Init
  BY <1>1 DEF Init, Machine!Init, Machine!Core, Machine!Addr, Addr, CpuShown,
              SlotShown, LinkShown
<1>3. RInv /\ CutInv
  BY DEF Init, RInv, CutInv, Executing, NoBlocks
<1>4. QED BY <1>2, <1>3

\* A virtual machine with blocks, a cache of them and interrupts between them
\* is a machine that executes one instruction at a time, if no breakpoint can
\* be at the interrupt vector.
THEOREM VmImplementsMachine ==
  ASSUME IrqVector \notin BreakAddrs
  PROVE  Spec => ImplementsOr1k
<1>1. IInv /\ RInv /\ [Next]_vars => RInv'
  BY ResumeStep
<1>2. IInv /\ CutInv /\ [Next]_vars => CutInv'
  BY CutStep
<1>3. /\ IInv /\ IInv' /\ RInv /\ CutInv /\ CutInv' /\ [Next]_vars
      => [Machine!Next]_Machine!vars
  BY StepsSimulated DEF Simulated
<1>4. QED
  BY <1>1, <1>2, <1>3, Starts, Invariance, PTL
  DEF Spec, ImplementsOr1k, Machine!Spec
=============================================================================
