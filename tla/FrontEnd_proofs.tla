-------------------------- MODULE FrontEnd_proofs --------------------------
(***************************************************************************)
(* What an application can rely on, for every number of ports and whatever *)
(* clients send; and that gdb_rcv_msg reads back whatever they send:       *)
(* proofs about GdbTransport as FrontEnd runs it, for packets of any       *)
(* number, length and content, and for every fault of the line.            *)
(***************************************************************************)
EXTENDS FrontEnd, SequenceTheorems, FiniteSetTheorems, Words_proofs

\* A port that is being tried is one of Ports.
Trying == phase = "listening" => port < Ports

Flags ==
  /\ ext_ifs \in BOOLEAN /\ vm \in BOOLEAN /\ irq_status \in BOOLEAN
  /\ line \in BOOLEAN /\ missed \in BOOLEAN

IInv == TypeOK /\ Flags /\ Trying /\ IrqFollowsLine

\* A hexadecimal digit is at least a number, so that a sum of them is a byte.
LEMMA DigitType == \A m : Digit(m) \in Int
BY DEF Digit

\* A character read, or a message served, leaves gdb_rcv_msg in a state.
LEMMA SessionTypes ==
  ASSUME TypeOK, Receive \/ Serve
  PROVE  /\ st' \in {"idle", "body", "escaped", "csum0", "csum1", "done"}
         /\ csum' \in 0 .. 255
<1>1. CASE ReceiveBody
  BY <1>1 DEF TypeOK, ReceiveBody
<1>2. CASE ReceiveDigit
  <2>1. csum' \in 0 .. 255
    <3>1. Digit(c) \in Int /\ csum \in Int
      BY DigitType DEF TypeOK
    <3>2. csum' = (16 * csum + Digit(c)) % 256
      BY <1>2 DEF ReceiveDigit
    <3>3. QED BY <3>1, <3>2
  <2>2. QED BY <1>2, <2>1 DEF ReceiveDigit, AfterDigit
<1>3. CASE ReceiveIdle
  BY <1>3 DEF TypeOK, ReceiveIdle
<1>4. CASE ReceiveEof
  BY <1>4 DEF TypeOK, ReceiveEof
<1>5. CASE Serve
  BY <1>5 DEF Serve
<1>6. QED BY <1>1, <1>2, <1>3, <1>4, <1>5 DEF Receive

\* Every action of the interface and of the server preserves the invariant.
LEMMA NextInvariant == IInv /\ [Next]_vars => IInv'
<1> SUFFICES ASSUME IInv, [Next]_vars PROVE IInv'
  OBVIOUS
<1> USE FrontEndAssumption DEF IInv, TypeOK, Flags, Trying, IrqFollowsLine
<1>1. CASE set_ext_interface
  <2>1. CASE Ends("aborted")
    BY <2>1 DEF Ends, board, session
  <2>2. CASE ~ Ends("aborted")
    <3>1. /\ ext_ifs' = TRUE
          /\ UNCHANGED <<vm, irq_status, line, missed, process, phase, port,
                         refused, st, csum>>
      BY <1>1, <2>2 DEF set_ext_interface, session
    <3>2. QED BY <3>1
  <2>3. QED BY <2>1, <2>2
<1>2. CASE reset
  <2>1. Flags' /\ IrqFollowsLine' /\ (irq_status' => irq_status)
    BY <1>2 DEF reset, Reset
  <2>2. UNCHANGED <<ext_ifs, vm, process, phase, port, refused, st, csum>>
    BY <1>2 DEF reset, session
  <2>3. QED BY <2>1, <2>2
<1>3. ASSUME NEW irq_id \in {0, 1}, NEW enable \in BOOLEAN,
             interrupt(irq_id, enable)
      PROVE  IInv'
  <2>1. CASE Ends("aborted")
    BY <2>1 DEF Ends, board, session
  <2>2. CASE ~ Ends("aborted")
    <3>1. Flags' /\ IrqFollowsLine' /\ (irq_status' => vm)
      BY <1>3, <2>2 DEF interrupt
    <3>2. UNCHANGED <<ext_ifs, vm, process, phase, port, refused, st, csum>>
      BY <1>3, <2>2 DEF interrupt, session
    <3>3. QED BY <3>1, <3>2
  <2>3. QED BY <2>1, <2>2
<1>4. ASSUME NEW opt \in Options, run(opt) PROVE IInv'
  <2>1. CASE Ends("undefined")
    BY <1>4, <2>1 DEF Ends, board, session
  <2>2. CASE ~ Ends("undefined")
    <3>1. Flags' /\ IrqFollowsLine' /\ vm' /\ ext_ifs'
      <4>1. /\ vm \/ ext_ifs
            /\ vm' = TRUE /\ UNCHANGED <<ext_ifs, line>>
            /\ irq_status' = IF vm THEN irq_status ELSE FALSE
            /\ missed' = IF vm THEN missed ELSE line
        BY <1>4, <2>2, Zenon DEF run, Reset
      <4>2. CASE vm
        BY <4>1, <4>2
      <4>3. CASE ~ vm
        BY <4>1, <4>3
      <4>4. QED BY <4>2, <4>3
    <3>2. /\ port' = 0 /\ refused' = {}
          /\ phase' \in {"cpu", "listening"}
          /\ UNCHANGED <<process, st, csum>>
      BY <1>4, <2>2 DEF run, session
    <3>3. port' \in 0 .. Ports /\ refused' = 0 .. port' - 1 /\ port' < Ports
      BY <3>2
    <3>4. QED BY <3>1, <3>2, <3>3
  <2>3. QED BY <2>1, <2>2
<1>5. CASE get_total_insn_count
  BY <1>5 DEF get_total_insn_count, Ends, board, session
<1>6. CASE Listen
  BY <1>6 DEF Listen, board, session
<1>7. CASE PortRefused
  BY <1>7 DEF PortRefused, TriesAnother, board, session
<1>8. CASE Accept
  <2>1. UNCHANGED <<st, csum>>
    BY <1>8 DEF Accept, Opened
  <2>2. phase' = "serving" /\ UNCHANGED <<board, process, port, refused>> /\ vm
    BY <1>8 DEF Accept
  <2>3. QED BY <2>1, <2>2 DEF board
<1>9. CASE Session
  <2>1. CASE Receive \/ Serve
    <3>1. UNCHANGED <<board, process, phase, port, refused>>
      BY <1>9, <2>1 DEF Session, Up, Receive, ReceiveBody, ReceiveDigit,
        ReceiveIdle, ReceiveEof, Reading, Garbled, Unsupported, Serve
    <3>2. QED BY <2>1, <3>1, SessionTypes DEF board
  <2>2. CASE UNCHANGED session
    BY <1>9, <2>2 DEF Session, board, session
  <2>3. QED BY <1>9, <2>1, <2>2 DEF Session
<1>10. CASE UNCHANGED vars
  BY <1>10 DEF vars, board, session
<1>11. QED
  BY <1>1, <1>2, <1>3, <1>4, <1>5, <1>6, <1>7, <1>8, <1>9, <1>10
     DEF Next, Server, ContinueReturns

\* The invariant of the front end and the server: no call makes a machine
\* without an interface, a session without a machine, or an interrupt that the
\* device did not raise.
THEOREM Invariance == Spec => []IInv
<1>1. Init => IInv
  <2> SUFFICES ASSUME Init PROVE IInv
    OBVIOUS
  <2>1. port \in 0 .. Ports /\ refused = 0 .. port - 1
    BY FrontEndAssumption DEF Init
  <2>2. csum \in 0 .. 255
    BY DEF Init, SessionNone
  <2>3. Flags /\ IrqFollowsLine /\ Trying
    BY DEF Init, Flags, Trying, IrqFollowsLine
  <2>4. QED
    BY <2>1, <2>2, <2>3 DEF Init, SessionNone, IInv, TypeOK
<1>2. QED BY <1>1, NextInvariant, PTL DEF Spec

\* A machine is there once run() is under way, and has an interface; the ports
\* before the current one were refused (openrisc::run, gdb_server::wait_and_run).
THEOREM TypeCorrect == Spec => []TypeOK
<1>1. IInv => TypeOK
  BY DEF IInv
<1>2. QED BY <1>1, Invariance, PTL

\* The machine has the level of the device's line unless it was not there or
\* was reset (openrisc::interrupt, reset and run).
THEOREM LineFollowed == Spec => []IrqFollowsLine
<1>1. IInv => IrqFollowsLine
  BY DEF IInv
<1>2. QED BY <1>1, Invariance, PTL

\* run() gives a debugging session up only after all ports were refused, however
\* many they are (gdb_server::wait_and_run).
THEOREM GivesUpRightly == Spec => GivesUpOnlyWhenRefused
<1> DEFINE A == phase = "listening" /\ phase' = "app" => refused' = 0 .. Ports - 1
<1>1. IInv /\ [Next]_vars => [A]_vars
  <2> SUFFICES ASSUME IInv, Next, phase = "listening", phase' = "app"
               PROVE  refused' = 0 .. Ports - 1
    OBVIOUS
  <2>1. PortRefused
    BY DEF Next, Server, ContinueReturns, set_ext_interface, reset, interrupt, run,
      App, Ends, get_total_insn_count, Accept, Listen, Session
  <2>2. /\ refused' = (0 .. port - 1) \cup {port}
        /\ port \in Nat /\ port < Ports /\ ~ port + 1 < Ports
    BY <2>1, FrontEndAssumption
       DEF PortRefused, TriesAnother, IInv, TypeOK, Trying
  <2>3. QED BY <2>2, FrontEndAssumption
<1>2. QED BY <1>1, Invariance, PTL DEF Spec, GivesUpOnlyWhenRefused

-----------------------------------------------------------------------------
(* Sequences.                                                              *)

\* A sequence with a first element, as a stream is read.
LEMMA FirstOfRest ==
  ASSUME NEW S, NEW x \in S, NEW s \in Seq(S)
  PROVE  /\ <<x>> \o s \in Seq(S) /\ <<x>> \o s # <<>>
         /\ Len(<<x>> \o s) = Len(s) + 1
         /\ Head(<<x>> \o s) = x /\ Tail(<<x>> \o s) = s
<1> DEFINE t == <<x>> \o s
<1>1. /\ <<x>> \in Seq(S) /\ Len(<<x>>) = 1 /\ <<x>>[1] = x
  OBVIOUS
<1>2. /\ t \in Seq(S) /\ Len(t) = 1 + Len(s) /\ Len(s) \in Nat
      /\ \A i \in 1 .. 1 + Len(s) : t[i] = IF i <= 1 THEN <<x>>[i] ELSE s[i - 1]
  BY <1>1, ConcatProperties, LenProperties
<1> HIDE DEF t
<1>3. t # <<>> /\ t[1] = x
  BY <1>1, <1>2, EmptySeq
<1>4. /\ Tail(t) \in Seq(S) /\ Len(Tail(t)) = Len(s)
      /\ \A i \in 1 .. Len(s) : Tail(t)[i] = s[i]
  BY <1>2, <1>3, HeadTailProperties
<1>5. Tail(t) = s
  BY <1>4, SeqEqual
<1>6. Head(t) = x
  BY <1>2, <1>3
<1>7. QED BY <1>2, <1>3, <1>5, <1>6 DEF t

\* A sequence is empty or has a first element.
LEMMA EmptyOrCons ==
  ASSUME NEW S, NEW s \in Seq(S), s # <<>>
  PROVE  Head(s) \in S /\ Tail(s) \in Seq(S) /\ s = <<Head(s)>> \o Tail(s)
<1> DEFINE t == <<Head(s)>> \o Tail(s)
<1>1. /\ Head(s) \in S /\ Tail(s) \in Seq(S) /\ Len(Tail(s)) = Len(s) - 1
      /\ \A i \in 1 .. Len(Tail(s)) : Tail(s)[i] = s[i + 1]
      /\ Len(s) \in Nat /\ Head(s) = s[1]
  BY HeadTailProperties, LenProperties
<1>2. /\ <<Head(s)>> \in Seq(S) /\ Len(<<Head(s)>>) = 1 /\ <<Head(s)>>[1] = s[1]
  BY <1>1
<1>3. /\ t \in Seq(S) /\ Len(t) = Len(s)
      /\ \A i \in 1 .. Len(s) : t[i] = s[i]
  <2>1. /\ t \in Seq(S) /\ Len(t) = 1 + Len(Tail(s))
        /\ \A i \in 1 .. 1 + Len(Tail(s)) :
             t[i] = IF i <= 1 THEN <<Head(s)>>[i] ELSE Tail(s)[i - 1]
    BY <1>1, <1>2, ConcatProperties
  <2> HIDE DEF t
  <2>2. QED BY <1>1, <1>2, <2>1
<1>4. t = s
  BY <1>3, SeqEqual
<1>5. QED BY <1>1, <1>4

-----------------------------------------------------------------------------
(* FlattenSeq, from its end.                                               *)

\* u[k] is what follows the first k sequences of s.
Follow(u, s, S, n) ==
  /\ u \in [n .. Len(s) -> Seq(S)]
  /\ u[Len(s)] = <<>>
  /\ \A k \in n + 1 .. Len(s) : u[k - 1] = s[k] \o u[k]

\* There are such parts of every sequence of sequences.
LEMMA FollowExists ==
  ASSUME NEW S, NEW s \in Seq(Seq(S))
  PROVE  \E u : Follow(u, s, S, 0)
<1> DEFINE L == Len(s)
           T == {m \in 0 .. L : ~ \E u : Follow(u, s, S, L - m)}
<1>1. L \in Nat /\ \A i \in 1 .. L : s[i] \in Seq(S)
  BY LenProperties, ElementOfSeq
<1> HIDE DEF L
<1>2. SUFFICES ASSUME T # {} PROVE FALSE
  <2>1. L \in 0 .. L /\ L - L = 0
    BY <1>1
  <2>2. QED BY <1>2, <2>1
<1>3. PICK m \in T : \A y \in T : m =< y
  <2>1. T \subseteq Nat
    BY <1>1
  <2>2. QED BY <1>2, <2>1, LeastNat
<1>4. m \in 0 .. L /\ ~ \E u : Follow(u, s, S, L - m)
  BY <1>3
<1>5. CASE m = 0
  <2> DEFINE u == [k \in L .. L |-> <<>>]
  <2>1. Follow(u, s, S, L)
    <3>1. <<>> \in Seq(S)
      BY EmptySeq
    <3>2. u \in [L .. L -> Seq(S)] /\ u[L] = <<>> /\ L + 1 .. L = {}
      BY <1>1, <3>1
    <3>3. QED BY <3>2 DEF Follow, L
  <2>2. L - m = L
    BY <1>1, <1>5
  <2>3. QED BY <1>4, <2>1, <2>2
<1>6. CASE m > 0
  <2> DEFINE n == L - m
  <2>1. /\ n \in 0 .. L - 1 /\ n + 1 \in 1 .. L /\ m - 1 \in 0 .. L /\ m - 1 < m
        /\ L - (m - 1) = n + 1
    BY <1>1, <1>4, <1>6
  <2> HIDE DEF n
  <2>2. m - 1 \notin T
    BY <1>3, <1>4, <2>1
  <2>3. PICK v : Follow(v, s, S, n + 1)
    BY <2>1, <2>2
  <2> DEFINE u == [k \in n .. L |-> IF k = n THEN s[n + 1] \o v[n + 1] ELSE v[k]]
  <2>4. /\ v \in [n + 1 .. L -> Seq(S)] /\ v[L] = <<>>
        /\ \A k \in n + 2 .. L : v[k - 1] = s[k] \o v[k]
    <3>1. (n + 1) + 1 = n + 2
      BY <2>1
    <3>2. QED BY <2>3, <3>1 DEF Follow, L
  <2>5. s[n + 1] \o v[n + 1] \in Seq(S)
    BY <1>1, <2>1, <2>4, ConcatProperties
  <2>6. u \in [n .. L -> Seq(S)]
    BY <2>1, <2>4, <2>5
  <2>7. u[n] = s[n + 1] \o v[n + 1] /\ \A k \in n + 1 .. L : u[k] = v[k]
    <3>1. n \in n .. L /\ \A k \in n + 1 .. L : k \in n .. L /\ k # n
      BY <1>1, <2>1
    <3>2. QED BY <3>1
  <2> HIDE DEF u
  <2>8. u[L] = <<>>
    BY <1>1, <2>1, <2>4, <2>7
  <2>9. ASSUME NEW k \in n + 1 .. L PROVE u[k - 1] = s[k] \o u[k]
    <3>1. CASE k = n + 1
      <4>1. k - 1 = n
        BY <3>1, <2>1
      <4>2. QED BY <3>1, <4>1, <2>7, <2>1
    <3>2. CASE k # n + 1
      <4>1. k \in n + 2 .. L /\ k - 1 \in n + 1 .. L
        BY <3>2, <2>1, <1>1
      <4>2. QED BY <4>1, <2>4, <2>7
    <3>3. QED BY <3>1, <3>2
  <2>10. Follow(u, s, S, n)
    BY <2>6, <2>8, <2>9 DEF Follow, L
  <2>11. QED BY <1>4, <2>10 DEF n
<1>7. QED BY <1>1, <1>4, <1>5, <1>6

\* The sequences before a place in s, put together one by one.
Together(g, s, S, m) ==
  /\ g \in [1 .. m -> Seq(S)]
  /\ \A k \in 1 .. m : g[k] = IF k = 1 THEN s[k] ELSE g[k - 1] \o s[k]

\* There are such sequences for the first members of every one.
LEMMA TogetherExists ==
  ASSUME NEW S, NEW s \in Seq(Seq(S)), s # <<>>
  PROVE  \E g : Together(g, s, S, Len(s))
<1> DEFINE L == Len(s)
           T == {m \in 1 .. L : ~ \E g : Together(g, s, S, m)}
<1>1. L \in Nat /\ L > 0 /\ \A i \in 1 .. L : s[i] \in Seq(S)
  BY LenProperties, ElementOfSeq, EmptySeq
<1> HIDE DEF L
<1>2. T = {}
  <2>1. SUFFICES ASSUME T # {} PROVE FALSE
    OBVIOUS
  <2>2. PICK m \in T : \A y \in T : m =< y
    <3>1. T \subseteq Nat
      BY <1>1
    <3>2. QED BY <2>1, <3>1, LeastNat
  <2>3. m \in 1 .. L /\ ~ \E g : Together(g, s, S, m)
    BY <2>2
  <2>4. CASE m = 1
    <3> DEFINE g == [k \in 1 .. 1 |-> s[1]]
    <3>1. g \in [1 .. 1 -> Seq(S)] /\ \A k \in 1 .. 1 : k = 1 /\ g[k] = s[1]
      BY <1>1, <2>3
    <3>2. Together(g, s, S, 1)
      BY <3>1 DEF Together
    <3>3. QED BY <2>3, <2>4, <3>2
  <2>5. CASE m > 1
    <3>1. m - 1 \in 1 .. L /\ m - 1 < m /\ m \in Nat
      BY <1>1, <2>3, <2>5
    <3>2. m - 1 \notin T
      BY <2>2, <2>3, <3>1
    <3>3. PICK h : Together(h, s, S, m - 1)
      BY <3>1, <3>2
    <3>4. /\ h \in [1 .. m - 1 -> Seq(S)]
          /\ \A k \in 1 .. m - 1 : h[k] = IF k = 1 THEN s[k] ELSE h[k - 1] \o s[k]
      BY <3>3 DEF Together
    <3> DEFINE x == h[m - 1] \o s[m]
               g == [k \in 1 .. m |-> IF k = m THEN x ELSE h[k]]
    <3>5. x \in Seq(S)
      BY <3>1, <3>4, <1>1, <2>3, ConcatProperties
    <3>6. g \in [1 .. m -> Seq(S)]
      BY <2>3, <3>4, <3>5
    <3>7. ASSUME NEW k \in 1 .. m
          PROVE  g[k] = IF k = 1 THEN s[k] ELSE g[k - 1] \o s[k]
      <4>1. CASE k = m
        <5>1. k # 1 /\ k - 1 \in 1 .. m /\ k - 1 # m
          BY <2>3, <2>5, <4>1
        <5>2. g[k - 1] = h[m - 1] /\ g[k] = x
          BY <4>1, <5>1
        <5>3. QED BY <4>1, <5>1, <5>2
      <4>2. CASE k # m
        <5>1. k \in 1 .. m - 1 /\ g[k] = h[k]
          BY <2>3, <4>2
        <5>2. k # 1 => k - 1 \in 1 .. m /\ k - 1 # m /\ g[k - 1] = h[k - 1]
          BY <2>3, <4>2
        <5> HIDE DEF g
        <5>3. QED BY <3>4, <5>1, <5>2
      <4>3. QED BY <4>1, <4>2
    <3> HIDE DEF g
    <3>8. Together(g, s, S, m)
      BY <3>6, <3>7 DEF Together
    <3>9. QED BY <2>3, <3>8
  <2>6. QED BY <2>3, <2>4, <2>5, <1>1
<1>3. L \in 1 .. L
  BY <1>1
<1>4. \E g : Together(g, s, S, L)
  BY <1>2, <1>3
<1>5. QED BY <1>4 DEF L

\* FlattenSeq is what follows none of them.
LEMMA FlattenFollow ==
  ASSUME NEW S, NEW s \in Seq(Seq(S)), NEW u, Follow(u, s, S, 0)
  PROVE  FlattenSeq(s) = u[0]
<1> DEFINE L == Len(s)
<1>1. L \in Nat /\ \A i \in 1 .. L : s[i] \in Seq(S)
  BY LenProperties, ElementOfSeq
<1>2. /\ u \in [0 .. L -> Seq(S)] /\ u[L] = <<>>
      /\ \A k \in 1 .. L : u[k - 1] = s[k] \o u[k]
  <2>1. 0 + 1 = 1
    OBVIOUS
  <2>2. QED BY <2>1 DEF Follow
<1>3. CASE s = <<>>
  <2>1. L = 0
    BY <1>3
  <2>2. QED BY <1>2, <1>3, <2>1 DEF FlattenSeq
<1>4. CASE s # <<>>
  <2> DEFINE F == CHOOSE flatten :
                flatten = [i \in 1 .. L |->
                             IF i = 1 THEN s[i] ELSE flatten[i - 1] \o s[i]]
  <2>1. L > 0
    BY <1>1, <1>4, EmptySeq
  <2>2. FlattenSeq(s) = F[L]
    BY <1>1, <2>1 DEF FlattenSeq
  <2>3. PICK f : Together(f, s, S, L)
    BY <1>4, TogetherExists
  <2>4. F = [i \in 1 .. L |-> IF i = 1 THEN s[i] ELSE F[i - 1] \o s[i]]
    <3>1. f = [i \in 1 .. L |-> IF i = 1 THEN s[i] ELSE f[i - 1] \o s[i]]
      BY <2>3 DEF Together
    <3>2. QED BY <3>1
  <2> HIDE DEF F, L
  <2>5. /\ \A i \in 1 .. L : i = 1 => F[i] = s[i]
        /\ \A i \in 1 .. L : i # 1 => F[i] = F[i - 1] \o s[i]
    BY <2>4
  <2> DEFINE B == {i \in 1 .. L : ~ (F[i] \in Seq(S) /\ F[i] \o u[i] = u[0])}
  <2>6. B = {}
    <3>1. SUFFICES ASSUME B # {} PROVE FALSE
      OBVIOUS
    <3>2. PICK i \in B : \A y \in B : i =< y
      <4>1. B \subseteq 1 .. L
        OBVIOUS
      <4> HIDE DEF B
      <4>2. B \subseteq Nat
        BY <1>1, <4>1
      <4>3. QED BY <3>1, <4>2, LeastNat
    <3>3. i \in 1 .. L /\ ~ (F[i] \in Seq(S) /\ F[i] \o u[i] = u[0])
      BY <3>2
    <3>4. CASE i = 1
      <4>1. F[i] = s[i] /\ s[i] \in Seq(S)
        BY <1>1, <2>5, <3>3, <3>4
      <4>2. u[i - 1] = s[i] \o u[i]
        BY <1>2, <3>3
      <4>3. i - 1 = 0
        BY <3>4
      <4>4. QED BY <3>3, <4>1, <4>2, <4>3
    <3>5. CASE i > 1
      <4>1. i - 1 \in 1 .. L /\ i - 1 < i /\ i # 1
        BY <3>3, <3>5, <1>1
      <4>2. i - 1 \notin B
        <5> HIDE DEF B
        <5>1. \A y \in B : ~ (y < i) \/ y \notin 1 .. L
          BY <3>2, <3>3, <1>1
        <5>2. QED BY <4>1, <5>1
      <4>3. F[i - 1] \in Seq(S) /\ F[i - 1] \o u[i - 1] = u[0]
        BY <4>1, <4>2
      <4>4. F[i] = F[i - 1] \o s[i]
        BY <3>3, <4>1, <2>5
      <4>5. u[i - 1] = s[i] \o u[i]
        BY <3>3, <1>2
      <4>6. s[i] \in Seq(S) /\ u[i] \in Seq(S)
        BY <3>3, <1>1, <1>2
      <4>7. F[i] \in Seq(S)
        BY <4>3, <4>4, <4>6, ConcatProperties
      <4>8. (F[i - 1] \o s[i]) \o u[i] = F[i - 1] \o (s[i] \o u[i])
        <5> DEFINE p == F[i - 1]
                   q == s[i]
                   r == u[i]
        <5>1. p \in Seq(S) /\ q \in Seq(S) /\ r \in Seq(S)
          BY <4>3, <4>6
        <5> HIDE DEF p, q, r
        <5>2. (p \o q) \o r = p \o (q \o r)
          BY <5>1, ConcatAssociative
        <5>3. QED BY <5>2 DEF p, q, r
      <4>9. F[i] \o u[i] = u[0]
        BY <4>3, <4>4, <4>5, <4>8, Zenon
      <4>10. QED BY <3>3, <4>7, <4>9, Zenon
    <3>6. i = 1 \/ i > 1
      BY <3>3, <1>1
    <3>7. QED BY <3>4, <3>5, <3>6
  <2>7. L \in 1 .. L /\ L \notin B
    <3> HIDE DEF B
    <3>1. L \in 1 .. L
      BY <1>1, <2>1
    <3>2. QED BY <3>1, <2>6
  <2>8. F[L] \in Seq(S) /\ F[L] \o <<>> = u[0]
    <3>1. F[L] \in Seq(S) /\ F[L] \o u[L] = u[0]
      BY <2>7
    <3>2. QED BY <1>2, <3>1
  <2>9. QED BY <2>2, <2>8, ConcatEmptySeq
<1>5. QED BY <1>3, <1>4

-----------------------------------------------------------------------------
(* Sums.                                                                   *)

\* The sums of the first characters of a text.
Sums(g, text, m) ==
  /\ g \in [0 .. m -> 0 .. 255]
  /\ g[0] = 0
  /\ \A n \in 1 .. m : g[n] = (g[n - 1] + text[n]) % 256

\* Every text has them.
LEMMA SumsExist ==
  ASSUME NEW text \in Seq(Char)
  PROVE  \E g : Sums(g, text, Len(text))
<1> DEFINE L == Len(text)
           T == {m \in 0 .. L : ~ \E g : Sums(g, text, m)}
<1>1. L \in Nat /\ \A i \in 1 .. L : text[i] \in Nat
  <2>1. L \in Nat /\ \A i \in 1 .. L : text[i] \in Char
    BY LenProperties, ElementOfSeq
  <2>2. Char \subseteq Nat
    BY DEF Char
  <2>3. QED BY <2>1, <2>2
<1> HIDE DEF L
<1>2. T = {}
  <2>1. SUFFICES ASSUME T # {} PROVE FALSE
    OBVIOUS
  <2>2. PICK m \in T : \A y \in T : m =< y
    <3>1. T \subseteq Nat
      BY <1>1
    <3>2. QED BY <2>1, <3>1, LeastNat
  <2>3. m \in 0 .. L /\ ~ \E g : Sums(g, text, m)
    BY <2>2
  <2>4. CASE m = 0
    <3> DEFINE g == [n \in 0 .. 0 |-> 0]
    <3>1. g \in [0 .. 0 -> 0 .. 255] /\ g[0] = 0 /\ 1 .. 0 = {}
      OBVIOUS
    <3>2. Sums(g, text, 0)
      BY <3>1 DEF Sums
    <3>3. QED BY <2>3, <2>4, <3>2
  <2>5. CASE m > 0
    <3>1. m - 1 \in 0 .. L /\ m - 1 < m /\ m \in 1 .. L
      BY <1>1, <2>3, <2>5
    <3>2. m - 1 \notin T
      BY <2>2, <2>3, <3>1
    <3>3. PICK h : Sums(h, text, m - 1)
      BY <3>1, <3>2
    <3>4. /\ h \in [0 .. m - 1 -> 0 .. 255] /\ h[0] = 0
          /\ \A n \in 1 .. m - 1 : h[n] = (h[n - 1] + text[n]) % 256
      BY <3>3 DEF Sums
    <3> DEFINE x == (h[m - 1] + text[m]) % 256
               g == [n \in 0 .. m |-> IF n = m THEN x ELSE h[n]]
    <3>5. x \in 0 .. 255
      <4>1. text[m] \in Nat /\ m - 1 \in 0 .. m - 1
        BY <3>1, <1>1
      <4>2. h[m - 1] \in 0 .. 255
        BY <3>4, <4>1
      <4>3. \A p \in 0 .. 255, q \in Nat : (p + q) % 256 \in 0 .. 255
        OBVIOUS
      <4>4. QED BY <4>1, <4>2, <4>3
    <3>6. g \in [0 .. m -> 0 .. 255] /\ g[0] = 0
      BY <2>3, <2>5, <3>4, <3>5
    <3>7. ASSUME NEW n \in 1 .. m
          PROVE  g[n] = (g[n - 1] + text[n]) % 256
      <4>1. CASE n = m
        <5>1. n - 1 \in 0 .. m /\ n - 1 # m
          BY <2>3, <2>5, <4>1
        <5>2. g[n - 1] = h[m - 1] /\ g[n] = x
          BY <4>1, <5>1
        <5>3. QED BY <4>1, <5>2
      <4>2. CASE n # m
        <5>1. n \in 1 .. m - 1 /\ g[n] = h[n]
          BY <2>3, <4>2
        <5>2. n - 1 \in 0 .. m /\ n - 1 # m /\ g[n - 1] = h[n - 1]
          BY <2>3, <4>2
        <5> HIDE DEF g
        <5>3. QED BY <3>4, <5>1, <5>2
      <4>3. QED BY <4>1, <4>2
    <3> HIDE DEF g
    <3>8. Sums(g, text, m)
      BY <3>6, <3>7 DEF Sums
    <3>9. QED BY <2>3, <3>8
  <2>6. QED BY <2>3, <2>4, <2>5, <1>1
<1>3. L \in 0 .. L
  BY <1>1
<1>4. \E g : Sums(g, text, L)
  BY <1>2, <1>3
<1>5. QED BY <1>4 DEF L

\* Sum8 is the last of them.
LEMMA Sum8Last ==
  ASSUME NEW text \in Seq(Char), NEW g, Sums(g, text, Len(text))
  PROVE  Sum8(text) = g[Len(text)]
<1> DEFINE L == Len(text)
           F == CHOOSE sum : sum = [n \in 0 .. L |->
                               IF n = 0 THEN 0 ELSE (sum[n - 1] + text[n]) % 256]
<1>1. L \in Nat
  BY LenProperties
<1>2. Sum8(text) = F[L]
  BY DEF Sum8
<1>3. F = [n \in 0 .. L |-> IF n = 0 THEN 0 ELSE (F[n - 1] + text[n]) % 256]
  <2>1. g = [n \in 0 .. L |-> IF n = 0 THEN 0 ELSE (g[n - 1] + text[n]) % 256]
    BY <1>1 DEF Sums
  <2>2. QED BY <2>1
<1>4. /\ g[0] = 0
      /\ \A n \in 1 .. L : g[n] = (g[n - 1] + text[n]) % 256
  BY DEF Sums
<1> HIDE DEF F, L
<1>5. F[0] = 0 /\ \A n \in 1 .. L : F[n] = (F[n - 1] + text[n]) % 256
  BY <1>1, <1>3
<1> DEFINE B == {n \in 0 .. L : F[n] # g[n]}
<1>6. B = {}
  <2>1. SUFFICES ASSUME B # {} PROVE FALSE
    OBVIOUS
  <2>2. PICK n \in B : \A y \in B : n =< y
    <3>1. B \subseteq Nat
      BY <1>1
    <3>2. QED BY <2>1, <3>1, LeastNat
  <2>3. n \in 0 .. L /\ F[n] # g[n]
    BY <2>2
  <2>4. n # 0
    BY <1>4, <1>5, <2>3
  <2>5. n \in 1 .. L /\ n - 1 \in 0 .. L /\ n - 1 < n
    BY <1>1, <2>3, <2>4
  <2>6. F[n - 1] = g[n - 1]
    BY <2>2, <2>5
  <2>7. QED BY <1>4, <1>5, <2>3, <2>5, <2>6
<1>7. L \in 0 .. L
  BY <1>1
<1>8. QED BY <1>2, <1>6, <1>7 DEF L

\* A sum is a byte.
LEMMA Sum8Byte == ASSUME NEW text \in Seq(Char) PROVE Sum8(text) \in 0 .. 255
<1>1. PICK g : Sums(g, text, Len(text))
  BY SumsExist
<1>2. Len(text) \in 0 .. Len(text)
  BY LenProperties
<1>3. g[Len(text)] \in 0 .. 255
  BY <1>1, <1>2 DEF Sums
<1>4. QED BY <1>1, <1>3, Sum8Last

-----------------------------------------------------------------------------
(* Packets and streams of them, from any place on.                         *)

\* The characters that frame packets.
LEMMA Characters ==
  /\ Char \subseteq Nat
  /\ Plus \in Char /\ Minus \in Char /\ Open \in Char /\ Close \in Char /\ Esc \in Char
  /\ Special \subseteq Char
  /\ Plus \notin Special /\ Minus \notin Special /\ Plus # Minus
  /\ Open # Close /\ Open # Esc /\ Close # Esc
BY DEF Char, Plus, Minus, Open, Close, Esc, Special

HexChars == {48, 49, 50, 51, 52, 53, 54, 55, 56, 57, 97, 98, 99, 100, 101, 102}

High(text) == Hex[(Sum8(Body(text)) \div 16) + 1]
Low(text)  == Hex[(Sum8(Body(text)) % 16) + 1]

\* The characters of a packet that have a meaning of their own are not those
\* the sum is written with, and none that is escaped becomes one.
LEMMA HexDigits ==
  /\ \A i \in 1 .. 16 : Hex[i] \in HexChars
  /\ \A m \in HexChars : Digit(m) # -1 /\ m \in Char /\ m \notin Special
BY DEF Hex, HexChars, Digit, Char, Special, Open, Close, Esc

\* A character that is escaped, and what is sent for it.
LEMMA FlippedChars ==
  ASSUME NEW m \in Special
  PROVE  /\ m \in Char /\ Flipped(m) \in Char /\ Flipped(Flipped(m)) = m
         /\ Flipped(m) \notin Special \cup {Plus, Minus} /\ Digit(Flipped(m)) = -1
<1>1. m \in {35, 36, 125} /\ Flipped(35) = 3 /\ Flipped(36) = 4 /\ Flipped(125) = 93
      /\ Flipped(3) = 35 /\ Flipped(4) = 36 /\ Flipped(93) = 125
  BY DEF Special, Open, Close, Esc, Flipped
<1>2. Digit(3) = -1 /\ Digit(4) = -1 /\ Digit(93) = -1
  BY DEF Digit
<1>3. QED BY <1>1, <1>2 DEF Char, Special, Open, Close, Esc, Plus, Minus

CodedText(text) == [k \in DOMAIN text |-> Coded(text[k])]

\* BodyFrom(text)[j] is what the body has behind the first j characters of text.
BodyFrom(text) == CHOOSE v : Follow(v, CodedText(text), Char, 0)

\* A body, from any character of the text on.
LEMMA BodyLeft ==
  ASSUME NEW text \in Seq(Char)
  PROVE  /\ BodyFrom(text) \in [0 .. Len(text) -> Seq(Char)]
         /\ BodyFrom(text)[0] = Body(text)
         /\ BodyFrom(text)[Len(text)] = <<>>
         /\ \A j \in 1 .. Len(text) :
              BodyFrom(text)[j - 1] = Coded(text[j]) \o BodyFrom(text)[j]
<1> DEFINE s == CodedText(text)
           v == BodyFrom(text)
<1>1. Len(text) \in Nat /\ DOMAIN text = 1 .. Len(text)
      /\ \A j \in 1 .. Len(text) : text[j] \in Char
  BY LenProperties, ElementOfSeq
<1>2. ASSUME NEW m \in Char PROVE Coded(m) \in Seq(Char)
  <2>1. CASE m \in Special
    <3>1. Flipped(m) \in Char /\ Esc \in Char
      BY <2>1, FlippedChars, Characters
    <3>2. QED BY <2>1, <3>1 DEF Coded
  <2>2. CASE m \notin Special
    BY <2>2, <1>2 DEF Coded
  <2>3. QED BY <2>1, <2>2
<1>3. /\ s \in Seq(Seq(Char)) /\ Len(s) = Len(text)
      /\ \A j \in 1 .. Len(text) : s[j] = Coded(text[j])
  <2>1. \A j \in 1 .. Len(text) : s[j] = Coded(text[j])
    BY <1>1 DEF CodedText
  <2>2. s \in [1 .. Len(text) -> Seq(Char)]
    BY <1>1, <1>2 DEF CodedText
  <2>3. QED BY <1>1, <2>1, <2>2
<1>4. Follow(v, s, Char, 0)
  BY <1>3, FollowExists DEF BodyFrom
<1>5. FlattenSeq(s) = v[0]
  BY <1>3, <1>4, FlattenFollow
<1>6. Body(text) = v[0]
  BY <1>5 DEF Body, CodedText
<1> HIDE DEF s, v
<1>7. 0 + 1 = 1
  OBVIOUS
<1>8. QED BY <1>3, <1>4, <1>6, <1>7 DEF Follow, v

\* The pieces of a stream: packets, and the acknowledgement before each but the
\* first. StreamFrom(texts)[k] is what the stream has behind k packets.
Pieces(texts) ==
  [k \in DOMAIN texts |-> (IF k = 1 THEN <<>> ELSE <<Plus>>) \o Packet(texts[k])]

StreamFrom(texts) == CHOOSE u : Follow(u, Pieces(texts), Char, 0)

\* What is left of the stream at each place of the k-th packet: behind it;
\* before the digits of its sum; behind j characters of its text; behind the
\* character that announces the j-th; before the packet.
Behind(texts, k)       == StreamFrom(texts)[k]
AtLow(texts, k)        == <<Low(texts[k])>> \o Behind(texts, k)
AtHigh(texts, k)       == <<High(texts[k])>> \o AtLow(texts, k)
AtBody(texts, k, j)    == BodyFrom(texts[k])[j] \o (<<Close>> \o AtHigh(texts, k))
AtEscaped(texts, k, j) == <<Flipped(texts[k][j])>> \o AtBody(texts, k, j)
AtOpen(texts, k)       == <<Open>> \o AtBody(texts, k, 0)

\* The digits of a sum are hexadecimal.
LEMMA SumDigits ==
  ASSUME NEW text \in Seq(Char)
  PROVE  High(text) \in HexChars /\ Low(text) \in HexChars /\ Body(text) \in Seq(Char)
<1>1. Body(text) \in Seq(Char)
  <2>1. 0 \in 0 .. Len(text)
    BY LenProperties
  <2>2. QED BY <2>1, BodyLeft
<1>2. Sum8(Body(text)) \in 0 .. 255
  BY <1>1, Sum8Byte
<1>3. \A n \in 0 .. 255 : (n \div 16) + 1 \in 1 .. 16 /\ (n % 16) + 1 \in 1 .. 16
  OBVIOUS
<1>4. QED BY <1>1, <1>2, <1>3, HexDigits DEF High, Low

\* Characters before what is left.
LEMMA Consed ==
  ASSUME NEW x \in Char, NEW s \in Seq(Char)
  PROVE  <<x>> \o s \in Seq(Char)
BY FirstOfRest

\* Three parts of a stream, put together in either order.
LEMMA Reassociate ==
  ASSUME NEW p \in Seq(Char), NEW q \in Seq(Char), NEW r \in Seq(Char)
  PROVE  (p \o q) \o r = p \o (q \o r) /\ p \o q \in Seq(Char)
BY ConcatAssociative, ConcatProperties

\* Short sequences.
LEMMA TwoSequences ==
  ASSUME NEW x \in Char, NEW y \in Char, NEW z \in Char
  PROVE  <<x>> \o <<y>> = <<x, y>> /\ <<x>> \o <<y, z>> = <<x, y, z>>
<1> DEFINE p == <<x>> \o <<y>>
           q == <<x>> \o <<y, z>>
<1>1. /\ <<x>> \in Seq(Char) /\ <<y>> \in Seq(Char) /\ <<y, z>> \in Seq(Char)
      /\ Len(<<x>>) = 1 /\ Len(<<y>>) = 1 /\ Len(<<y, z>>) = 2
  OBVIOUS
<1>2. /\ p \in Seq(Char) /\ Len(p) = 1 + 1
      /\ \A i \in 1 .. 1 + 1 : p[i] = IF i <= 1 THEN <<x>>[i] ELSE <<y>>[i - 1]
      /\ q \in Seq(Char) /\ Len(q) = 1 + 2
      /\ \A i \in 1 .. 1 + 2 : q[i] = IF i <= 1 THEN <<x>>[i] ELSE <<y, z>>[i - 1]
  BY <1>1, ConcatProperties
<1> HIDE DEF p, q
<1>3. <<x, y>> \in Seq(Char) /\ Len(<<x, y>>) = 2
      /\ \A i \in 1 .. 2 : p[i] = <<x, y>>[i]
  BY <1>2
<1>4. <<x, y, z>> \in Seq(Char) /\ Len(<<x, y, z>>) = 3
      /\ \A i \in 1 .. 3 : q[i] = <<x, y, z>>[i]
  BY <1>2
<1>5. p = <<x, y>>
  BY <1>2, <1>3, SeqEqual
<1>6. q = <<x, y, z>>
  BY <1>2, <1>4, SeqEqual
<1>7. QED BY <1>5, <1>6 DEF p, q

\* A packet and what is behind it.
LEMMA PacketAndRest ==
  ASSUME NEW text \in Seq(Char), NEW r \in Seq(Char)
  PROVE  /\ Packet(text) \in Seq(Char)
         /\ Packet(text) \o r
              = <<Open>> \o (Body(text) \o (<<Close>> \o
                  (<<High(text)>> \o (<<Low(text)>> \o r))))
<1> DEFINE b == Body(text)
           h == High(text)
           l == Low(text)
<1>1. /\ b \in Seq(Char) /\ h \in Char /\ l \in Char
      /\ Open \in Char /\ Close \in Char
  BY SumDigits, HexDigits, Characters
<1>2. Packet(text) = (<<Open>> \o b) \o <<Close, h, l>>
  BY DEF Packet, Framed, High, Low
<1> HIDE DEF b, h, l
<1>3. <<Close, h, l>> = <<Close>> \o (<<h>> \o <<l>>)
  <2>1. <<h>> \o <<l>> = <<h, l>>
    BY <1>1, TwoSequences
  <2>2. <<Close>> \o <<h, l>> = <<Close, h, l>>
    BY <1>1, TwoSequences
  <2>3. QED BY <2>1, <2>2
<1>4. /\ <<Open>> \in Seq(Char) /\ <<Close>> \in Seq(Char)
      /\ <<h>> \in Seq(Char) /\ <<l>> \in Seq(Char)
  BY <1>1
<1>5. /\ <<l>> \o r \in Seq(Char) /\ <<h>> \o <<l>> \in Seq(Char)
      /\ (<<h>> \o <<l>>) \o r = <<h>> \o (<<l>> \o r)
  BY <1>4, Reassociate
<1> DEFINE t == <<Close>> \o (<<h>> \o <<l>>)
<1>6. /\ t \in Seq(Char)
      /\ t \o r = <<Close>> \o ((<<h>> \o <<l>>) \o r)
  BY <1>4, <1>5, Reassociate
<1>7. <<Open>> \o b \in Seq(Char)
  BY <1>1, <1>4, Reassociate
<1> HIDE DEF t
<1>8. /\ (<<Open>> \o b) \o t \in Seq(Char)
      /\ ((<<Open>> \o b) \o t) \o r = (<<Open>> \o b) \o (t \o r)
  BY <1>6, <1>7, Reassociate
<1>9. t \o r \in Seq(Char)
  BY <1>6, Reassociate
<1>10. (<<Open>> \o b) \o (t \o r) = <<Open>> \o (b \o (t \o r))
  BY <1>1, <1>4, <1>9, Reassociate
<1>11. Packet(text) = (<<Open>> \o b) \o t
  BY <1>2, <1>3 DEF t
<1>12. t \o r = <<Close>> \o (<<h>> \o (<<l>> \o r))
  BY <1>5, <1>6
<1>13. QED BY <1>8, <1>10, <1>11, <1>12 DEF b, h, l

\* The places are streams of characters.
LEMMA StreamLeft ==
  ASSUME NEW texts \in Seq(Seq(Char))
  PROVE  /\ Sent(texts) = Behind(texts, 0)
         /\ Behind(texts, Len(texts)) = <<>>
         /\ \A k \in 0 .. Len(texts) : Behind(texts, k) \in Seq(Char)
         /\ \A k \in 1 .. Len(texts) :
              Behind(texts, k - 1) =
                (IF k = 1 THEN <<>> ELSE <<Plus>>) \o Packet(texts[k]) \o Behind(texts, k)
<1> DEFINE s == Pieces(texts)
           u == StreamFrom(texts)
<1>1. Len(texts) \in Nat /\ DOMAIN texts = 1 .. Len(texts)
      /\ \A k \in 1 .. Len(texts) : texts[k] \in Seq(Char)
  BY LenProperties, ElementOfSeq
<1>2. ASSUME NEW k \in 1 .. Len(texts)
      PROVE  (IF k = 1 THEN <<>> ELSE <<Plus>>) \o Packet(texts[k]) \in Seq(Char)
  <2>1. <<>> \in Seq(Char) /\ <<Plus>> \in Seq(Char) /\ Packet(texts[k]) \in Seq(Char)
    <3>1. <<>> \in Seq(Char)
      BY EmptySeq
    <3>2. Packet(texts[k]) \in Seq(Char)
      BY <1>1, <3>1, PacketAndRest
    <3>3. QED BY <3>1, <3>2, Characters
  <2>2. QED BY <2>1, Reassociate
<1>3. /\ s \in Seq(Seq(Char)) /\ Len(s) = Len(texts)
      /\ \A k \in 1 .. Len(texts) :
           s[k] = (IF k = 1 THEN <<>> ELSE <<Plus>>) \o Packet(texts[k])
  <2>1. \A k \in 1 .. Len(texts) :
           s[k] = (IF k = 1 THEN <<>> ELSE <<Plus>>) \o Packet(texts[k])
    BY <1>1 DEF Pieces
  <2>2. s \in [1 .. Len(texts) -> Seq(Char)]
    BY <1>1, <1>2 DEF Pieces
  <2> HIDE DEF s
  <2>3. s \in Seq(Seq(Char)) /\ Len(s) = Len(texts)
    BY <1>1, <2>2
  <2>4. QED BY <2>1, <2>3
<1>4. Follow(u, s, Char, 0)
  BY <1>3, FollowExists DEF StreamFrom
<1>5. FlattenSeq(s) = u[0]
  BY <1>3, <1>4, FlattenFollow
<1>6. Sent(texts) = u[0]
  BY <1>5 DEF Sent, Pieces
<1> HIDE DEF s, u
<1>7. 0 + 1 = 1
  OBVIOUS
<1>8. /\ u \in [0 .. Len(texts) -> Seq(Char)] /\ u[Len(texts)] = <<>>
      /\ \A k \in 1 .. Len(texts) : u[k - 1] = s[k] \o u[k]
  BY <1>3, <1>4, <1>7 DEF Follow
<1>9. QED BY <1>3, <1>6, <1>8 DEF u, Behind

\* What is left at each place is characters.
LEMMA PlaceTypes ==
  ASSUME NEW texts \in Seq(Seq(Char)), NEW k \in 1 .. Len(texts)
  PROVE  /\ texts[k] \in Seq(Char) /\ Len(texts[k]) \in Nat
         /\ \A j \in 1 .. Len(texts[k]) : texts[k][j] \in Char
         /\ Behind(texts, k) \in Seq(Char)
         /\ AtLow(texts, k) \in Seq(Char)
         /\ AtHigh(texts, k) \in Seq(Char)
         /\ <<Close>> \o AtHigh(texts, k) \in Seq(Char)
         /\ \A j \in 0 .. Len(texts[k]) : AtBody(texts, k, j) \in Seq(Char)
         /\ \A j \in 1 .. Len(texts[k]) : texts[k][j] \in Special =>
              AtEscaped(texts, k, j) \in Seq(Char)
<1>1. /\ texts[k] \in Seq(Char) /\ Len(texts[k]) \in Nat
      /\ \A j \in 1 .. Len(texts[k]) : texts[k][j] \in Char
  BY LenProperties, ElementOfSeq
<1>2. Behind(texts, k) \in Seq(Char)
  <2>1. k \in 0 .. Len(texts)
    BY LenProperties
  <2>2. QED BY <2>1, StreamLeft
<1>3. High(texts[k]) \in Char /\ Low(texts[k]) \in Char /\ Close \in Char
  BY <1>1, SumDigits, HexDigits, Characters
<1>4. /\ AtLow(texts, k) \in Seq(Char)
      /\ AtHigh(texts, k) \in Seq(Char)
      /\ <<Close>> \o AtHigh(texts, k) \in Seq(Char)
  BY <1>2, <1>3, Consed DEF AtLow, AtHigh
<1>5. \A j \in 0 .. Len(texts[k]) : AtBody(texts, k, j) \in Seq(Char)
  BY <1>1, <1>4, BodyLeft, Reassociate DEF AtBody
<1>6. ASSUME NEW j \in 1 .. Len(texts[k]), texts[k][j] \in Special
      PROVE  AtEscaped(texts, k, j) \in Seq(Char)
  <2>1. j \in 0 .. Len(texts[k]) /\ Flipped(texts[k][j]) \in Char
    BY <1>1, <1>6, FlippedChars
  <2>2. QED BY <1>5, <2>1, Consed DEF AtEscaped
<1>7. QED BY <1>1, <1>2, <1>4, <1>5, <1>6

\* Between packets.
LEMMA ReadsGap ==
  ASSUME NEW texts \in Seq(Seq(Char)), NEW k \in 1 .. Len(texts)
  PROVE  Behind(texts, k - 1) =
           IF k = 1 THEN AtOpen(texts, k) ELSE <<Plus>> \o AtOpen(texts, k)
<1> DEFINE t == texts[k]
           p == Packet(t)
           r == Behind(texts, k)
<1>1. t \in Seq(Char) /\ r \in Seq(Char)
  BY PlaceTypes
<1>2. p \in Seq(Char) /\ p \o r = AtOpen(texts, k)
  <2>1. BodyFrom(t)[0] = Body(t)
    BY <1>1, BodyLeft
  <2>2. AtOpen(texts, k) = <<Open>> \o (Body(t) \o (<<Close>> \o
                             (<<High(t)>> \o (<<Low(t)>> \o r))))
    BY <2>1, Zenon DEF AtOpen, AtBody, AtHigh, AtLow
  <2>3. /\ p \in Seq(Char)
        /\ p \o r = <<Open>> \o (Body(t) \o (<<Close>> \o
                       (<<High(t)>> \o (<<Low(t)>> \o r))))
    BY <1>1, PacketAndRest
  <2>4. QED BY <2>2, <2>3, Zenon
<1>3. Behind(texts, k - 1) = (IF k = 1 THEN <<>> ELSE <<Plus>>) \o p \o r
  BY StreamLeft
<1> HIDE DEF p, r, t
<1>4. <<Plus>> \in Seq(Char)
  BY Characters
<1> DEFINE a == <<Plus>>
<1>5. a \in Seq(Char)
  BY <1>4
<1> HIDE DEF a
<1>6. (a \o p) \o r = a \o (p \o r)
  BY <1>1, <1>2, <1>5, Reassociate
<1>7. <<>> \o p = p
  BY <1>2, ConcatEmptySeq
<1>8. QED BY <1>2, <1>3, <1>6, <1>7, Zenon DEF a

\* Within a packet's body.
LEMMA ReadsBody ==
  ASSUME NEW texts \in Seq(Seq(Char)), NEW k \in 1 .. Len(texts)
  PROVE  /\ AtBody(texts, k, Len(texts[k])) = <<Close>> \o AtHigh(texts, k)
         /\ \A j \in 1 .. Len(texts[k]) :
              AtBody(texts, k, j - 1) =
                IF texts[k][j] \in Special THEN <<Esc>> \o AtEscaped(texts, k, j)
                ELSE <<texts[k][j]>> \o AtBody(texts, k, j)
<1> DEFINE t == texts[k]
           v == BodyFrom(t)
           r == <<Close>> \o AtHigh(texts, k)
<1>1. /\ t \in Seq(Char) /\ Len(t) \in Nat /\ r \in Seq(Char)
      /\ \A j \in 1 .. Len(t) : t[j] \in Char
  BY PlaceTypes
<1>2. /\ v \in [0 .. Len(t) -> Seq(Char)] /\ v[Len(t)] = <<>>
      /\ \A j \in 1 .. Len(t) : v[j - 1] = Coded(t[j]) \o v[j]
  BY <1>1, BodyLeft
<1>3. \A j : AtBody(texts, k, j) = v[j] \o r
  BY DEF AtBody
<1>4. \A j : AtEscaped(texts, k, j) = <<Flipped(t[j])>> \o (v[j] \o r)
  BY DEF AtEscaped, AtBody
<1> HIDE DEF r, v, t
<1>5. ASSUME NEW p \in Seq(Char), NEW q \in Seq(Char) PROVE (p \o q) \o r = p \o (q \o r)
  <2>1. r \in Seq(Char)
    BY <1>1
  <2>2. QED BY <2>1, Reassociate
<1>6. v[Len(t)] \o r = r
  BY <1>1, <1>2, ConcatEmptySeq
<1>7. ASSUME NEW j \in 1 .. Len(t)
      PROVE  v[j - 1] \o r = IF t[j] \in Special
                             THEN <<Esc>> \o (<<Flipped(t[j])>> \o (v[j] \o r))
                             ELSE <<t[j]>> \o (v[j] \o r)
  <2>1. v[j] \in Seq(Char) /\ v[j - 1] = Coded(t[j]) \o v[j] /\ t[j] \in Char
    <3>1. j \in 0 .. Len(t)
      BY <1>1
    <3>2. v[j] \in Seq(Char)
      BY <1>2, <3>1
    <3>3. QED BY <1>1, <1>2, <3>2
  <2> DEFINE w == v[j]
  <2>2. CASE t[j] \in Special
    <3> DEFINE f == Flipped(t[j])
               e == <<Esc>>
               g == <<f>>
    <3>1. e \in Seq(Char) /\ g \in Seq(Char)
      <4>1. f \in Char /\ Esc \in Char
        BY <2>2, FlippedChars, Characters
      <4>2. QED BY <4>1
    <3>2. Coded(t[j]) = e \o g
      <4>1. f \in Char /\ Esc \in Char
        BY <2>2, FlippedChars, Characters
      <4>2. <<Esc>> \o <<f>> = <<Esc, f>>
        BY <4>1, TwoSequences
      <4>3. QED BY <2>2, <4>2 DEF Coded
    <3> HIDE DEF w, e, g
    <3>3. w \in Seq(Char)
      BY <2>1 DEF w
    <3>4. (e \o g) \o w = e \o (g \o w) /\ g \o w \in Seq(Char)
      BY <3>1, <3>3, Reassociate
    <3>5. (e \o (g \o w)) \o r = e \o ((g \o w) \o r)
      BY <3>1, <3>4, <1>5
    <3>6. (g \o w) \o r = g \o (w \o r)
      BY <3>1, <3>3, <1>5
    <3>7. v[j - 1] \o r = e \o (g \o (w \o r))
      BY <2>1, <3>2, <3>4, <3>5, <3>6, Zenon DEF w
    <3>8. QED BY <2>2, <3>7 DEF w, e, g
  <2>3. CASE t[j] \notin Special
    <3> DEFINE a == <<t[j]>>
    <3>1. Coded(t[j]) = a /\ a \in Seq(Char)
      BY <2>1, <2>3 DEF Coded
    <3> HIDE DEF w, a
    <3>2. w \in Seq(Char)
      BY <2>1 DEF w
    <3>3. (a \o w) \o r = a \o (w \o r)
      BY <3>1, <3>2, <1>5
    <3>4. v[j - 1] \o r = a \o (w \o r)
      BY <2>1, <3>1, <3>3, Zenon DEF w
    <3>5. QED BY <2>3, <3>4 DEF w, a
  <2>4. QED BY <2>2, <2>3
<1>8. QED BY <1>3, <1>4, <1>6, <1>7 DEF r, t

-----------------------------------------------------------------------------
(* Reading a stream, character by character.                               *)

\* x is the next character of w, and r is left.
Reads(w, x, r) == w # <<>> /\ Head(w) = x /\ Tail(w) = r

\* What a place of the stream is followed by.
LEMMA NextPlaces ==
  ASSUME NEW texts \in Seq(Seq(Char)), NEW k \in 1 .. Len(texts)
  PROVE  /\ Reads(AtOpen(texts, k), Open, AtBody(texts, k, 0))
         /\ Reads(AtBody(texts, k, Len(texts[k])), Close, AtHigh(texts, k))
         /\ Reads(AtHigh(texts, k), High(texts[k]), AtLow(texts, k))
         /\ Reads(AtLow(texts, k), Low(texts[k]), Behind(texts, k))
         /\ IF k = 1 THEN Behind(texts, k - 1) = AtOpen(texts, k)
            ELSE Reads(Behind(texts, k - 1), Plus, AtOpen(texts, k))
<1> DEFINE o == AtOpen(texts, k)
           b == AtBody(texts, k, 0)
           e == AtBody(texts, k, Len(texts[k]))
           h == AtHigh(texts, k)
           l == AtLow(texts, k)
           r == Behind(texts, k)
<1>1. b \in Seq(Char) /\ h \in Seq(Char) /\ l \in Seq(Char) /\ r \in Seq(Char)
  <2>1. 0 \in 0 .. Len(texts[k])
    BY PlaceTypes
  <2>2. QED BY <2>1, PlaceTypes
<1>2. /\ o = <<Open>> \o b /\ e = <<Close>> \o h
      /\ h = <<High(texts[k])>> \o l /\ l = <<Low(texts[k])>> \o r
  BY ReadsBody DEF AtOpen, AtHigh, AtLow
<1>3. /\ High(texts[k]) \in Char /\ Low(texts[k]) \in Char
      /\ Open \in Char /\ Close \in Char /\ Plus \in Char
  BY PlaceTypes, SumDigits, HexDigits, Characters
<1>4. Behind(texts, k - 1) = IF k = 1 THEN o ELSE <<Plus>> \o o
  BY ReadsGap
<1> HIDE DEF o, b, e, h, l, r
<1>5. ASSUME NEW x \in Char, NEW w \in Seq(Char) PROVE Reads(<<x>> \o w, x, w)
  BY FirstOfRest DEF Reads
<1>6. Reads(o, Open, b) /\ Reads(e, Close, h) /\ o \in Seq(Char)
  BY <1>1, <1>2, <1>3, <1>5, FirstOfRest
<1>7. Reads(h, High(texts[k]), l)
  BY <1>1, <1>2, <1>3, <1>5
<1>8. Reads(l, Low(texts[k]), r)
  BY <1>1, <1>2, <1>3, <1>5
<1>9. IF k = 1 THEN Behind(texts, k - 1) = o ELSE Reads(Behind(texts, k - 1), Plus, o)
  BY <1>3, <1>4, <1>5, <1>6
<1>10. QED BY <1>6, <1>7, <1>8, <1>9 DEF o, b, e, h, l, r

\* A character of a text is read as it is or in two.
LEMMA NextInBody ==
  ASSUME NEW texts \in Seq(Seq(Char)), NEW k \in 1 .. Len(texts),
         NEW j \in 1 .. Len(texts[k])
  PROVE  /\ texts[k][j] \in Special =>
              /\ Reads(AtBody(texts, k, j - 1), Esc, AtEscaped(texts, k, j))
              /\ Reads(AtEscaped(texts, k, j), Flipped(texts[k][j]), AtBody(texts, k, j))
         /\ texts[k][j] \notin Special =>
              Reads(AtBody(texts, k, j - 1), texts[k][j], AtBody(texts, k, j))
<1> DEFINE x == texts[k][j]
           b == AtBody(texts, k, j)
           e == AtEscaped(texts, k, j)
<1>1. x \in Char /\ b \in Seq(Char) /\ (x \in Special => e \in Seq(Char))
  <2>1. j \in 0 .. Len(texts[k])
    BY PlaceTypes
  <2>2. QED BY <2>1, PlaceTypes
<1>2. AtBody(texts, k, j - 1) = IF x \in Special THEN <<Esc>> \o e ELSE <<x>> \o b
  BY ReadsBody
<1>3. e = <<Flipped(x)>> \o b
  BY DEF AtEscaped
<1>4. Esc \in Char /\ (x \in Special => Flipped(x) \in Char)
  BY Characters, FlippedChars
<1> HIDE DEF x, b, e
<1>5. ASSUME NEW y \in Char, NEW w \in Seq(Char) PROVE Reads(<<y>> \o w, y, w)
  BY FirstOfRest DEF Reads
<1>6. CASE x \in Special
  BY <1>1, <1>2, <1>3, <1>4, <1>5, <1>6 DEF x, b, e
<1>7. CASE x \notin Special
  BY <1>1, <1>2, <1>5, <1>7 DEF x, b, e
<1>8. QED BY <1>6, <1>7

\* What is left of a stream between two packets, in the body of one, behind the
\* character that announces another, and before the digits of a sum.
IsGap(texts, w) ==
  \E k \in 0 .. Len(texts) : w = Behind(texts, k) \/ (k # 0 /\ w = AtOpen(texts, k))

IsBody(texts, w) ==
  \E k \in 1 .. Len(texts) : \E j \in 0 .. Len(texts[k]) : w = AtBody(texts, k, j)

IsEscaped(texts, w) ==
  \E k \in 1 .. Len(texts) : \E j \in 1 .. Len(texts[k]) :
    texts[k][j] \in Special /\ w = AtEscaped(texts, k, j)

IsHigh(texts, w) == \E k \in 1 .. Len(texts) : w = AtHigh(texts, k)
IsLow(texts, w)  == \E k \in 1 .. Len(texts) : w = AtLow(texts, k)

\* Between packets there is an acknowledgement, a packet or the end.
LEMMA GapNext ==
  ASSUME NEW texts \in Seq(Seq(Char)), NEW w, IsGap(texts, w), w # <<>>
  PROVE  \/ Head(w) = Plus /\ IsGap(texts, Tail(w))
         \/ Head(w) = Open /\ IsBody(texts, Tail(w))
<1>1. ASSUME NEW k \in 1 .. Len(texts), w = AtOpen(texts, k)
      PROVE  Head(w) = Open /\ IsBody(texts, Tail(w))
  <2>1. Head(w) = Open /\ Tail(w) = AtBody(texts, k, 0)
    BY <1>1, NextPlaces DEF Reads
  <2>2. 0 \in 0 .. Len(texts[k])
    BY PlaceTypes
  <2>3. QED BY <2>1, <2>2 DEF IsBody
<1>2. ASSUME NEW k \in 0 .. Len(texts), w = Behind(texts, k)
      PROVE  \/ Head(w) = Plus /\ IsGap(texts, Tail(w))
             \/ Head(w) = Open /\ IsBody(texts, Tail(w))
  <2>1. k # Len(texts)
    BY <1>2, StreamLeft
  <2> DEFINE i == k + 1
  <2>2. i \in 1 .. Len(texts) /\ i - 1 = k /\ i \in 0 .. Len(texts) /\ i # 0
    BY <2>1, LenProperties
  <2> HIDE DEF i
  <2>3. CASE i = 1
    BY <1>1, <1>2, <2>2, <2>3, NextPlaces
  <2>4. CASE i # 1
    <3>1. Reads(w, Plus, AtOpen(texts, i))
      BY <1>2, <2>2, <2>4, NextPlaces
    <3>2. QED BY <2>2, <3>1 DEF Reads, IsGap
  <2>5. QED BY <2>3, <2>4
<1>3. PICK k \in 0 .. Len(texts) : w = Behind(texts, k) \/ (k # 0 /\ w = AtOpen(texts, k))
  BY DEF IsGap
<1>4. k # 0 => k \in 1 .. Len(texts)
  BY LenProperties
<1>5. QED BY <1>1, <1>2, <1>3, <1>4

\* A body goes on or is closed.
LEMMA BodyNext ==
  ASSUME NEW texts \in Seq(Seq(Char)), NEW w, IsBody(texts, w)
  PROVE  /\ w # <<>>
         /\ \/ Head(w) = Close /\ IsHigh(texts, Tail(w))
            \/ Head(w) = Esc /\ IsEscaped(texts, Tail(w))
            \/ Head(w) \notin Special /\ IsBody(texts, Tail(w))
<1>1. PICK k \in 1 .. Len(texts) :
        \E j \in 0 .. Len(texts[k]) : w = AtBody(texts, k, j)
  BY DEF IsBody
<1>2. PICK j \in 0 .. Len(texts[k]) : w = AtBody(texts, k, j)
  BY <1>1
<1>3. Len(texts[k]) \in Nat
  BY PlaceTypes
<1>4. CASE j = Len(texts[k])
  BY <1>2, <1>4, NextPlaces DEF Reads, IsHigh
<1>5. CASE j # Len(texts[k])
  <2> DEFINE i == j + 1
  <2>1. i \in 1 .. Len(texts[k]) /\ i \in 0 .. Len(texts[k]) /\ i - 1 = j
    BY <1>3, <1>5
  <2> HIDE DEF i
  <2>2. CASE texts[k][i] \in Special
    <3>1. Reads(w, Esc, AtEscaped(texts, k, i))
      BY <1>2, <2>1, <2>2, NextInBody
    <3>2. IsEscaped(texts, AtEscaped(texts, k, i))
      BY <2>1, <2>2 DEF IsEscaped
    <3>3. QED BY <3>1, <3>2 DEF Reads
  <2>3. CASE texts[k][i] \notin Special
    <3>1. Reads(w, texts[k][i], AtBody(texts, k, i))
      BY <1>2, <2>1, <2>3, NextInBody
    <3>2. IsBody(texts, AtBody(texts, k, i))
      BY <2>1 DEF IsBody
    <3>3. QED BY <2>3, <3>1, <3>2 DEF Reads
  <2>4. QED BY <2>2, <2>3
<1>6. QED BY <1>4, <1>5

\* An escaped character has no meaning of its own.
LEMMA EscapedNext ==
  ASSUME NEW texts \in Seq(Seq(Char)), NEW w, IsEscaped(texts, w)
  PROVE  /\ w # <<>> /\ Head(w) \notin Special /\ Digit(Head(w)) = -1
         /\ IsBody(texts, Tail(w))
<1>1. PICK k \in 1 .. Len(texts) :
        \E j \in 1 .. Len(texts[k]) :
          texts[k][j] \in Special /\ w = AtEscaped(texts, k, j)
  BY DEF IsEscaped
<1>2. PICK j \in 1 .. Len(texts[k]) :
        texts[k][j] \in Special /\ w = AtEscaped(texts, k, j)
  BY <1>1
<1>3. Reads(w, Flipped(texts[k][j]), AtBody(texts, k, j))
  BY <1>2, NextInBody
<1>4. j \in 0 .. Len(texts[k])
  BY PlaceTypes
<1>5. IsBody(texts, AtBody(texts, k, j))
  BY <1>4 DEF IsBody
<1>6. QED BY <1>2, <1>3, <1>5, FlippedChars DEF Reads

\* A sum is two digits, the gap to the next packet behind them.
LEMMA SumNext ==
  ASSUME NEW texts \in Seq(Seq(Char)), NEW w
  PROVE  /\ IsHigh(texts, w) => /\ w # <<>> /\ Head(w) \notin Special
                                /\ IsLow(texts, Tail(w))
         /\ IsLow(texts, w)  => /\ w # <<>> /\ Head(w) \notin Special
                                /\ IsGap(texts, Tail(w))
<1>1. ASSUME NEW k \in 1 .. Len(texts)
      PROVE  /\ High(texts[k]) \notin Special /\ Low(texts[k]) \notin Special
             /\ IsGap(texts, Behind(texts, k))
  <2>1. k \in 0 .. Len(texts)
    BY LenProperties
  <2>2. IsGap(texts, Behind(texts, k))
    BY <2>1 DEF IsGap
  <2>3. QED BY <2>2, PlaceTypes, SumDigits, HexDigits
<1>2. ASSUME IsHigh(texts, w)
      PROVE  w # <<>> /\ Head(w) \notin Special /\ IsLow(texts, Tail(w))
  <2>1. PICK k \in 1 .. Len(texts) : w = AtHigh(texts, k)
    BY <1>2 DEF IsHigh
  <2>2. QED BY <1>1, <2>1, NextPlaces DEF Reads, IsLow
<1>3. ASSUME IsLow(texts, w)
      PROVE  w # <<>> /\ Head(w) \notin Special /\ IsGap(texts, Tail(w))
  <2>1. PICK k \in 1 .. Len(texts) : w = AtLow(texts, k)
    BY <1>3 DEF IsLow
  <2>2. QED BY <1>1, <2>1, NextPlaces DEF Reads
<1>4. QED BY <1>2, <1>3

-----------------------------------------------------------------------------
(* gdb_rcv_msg in step with the client.                                    *)

\* How a text is collected.
LEMMA Collected ==
  ASSUME NEW text \in Seq(Char)
  PROVE  /\ SubSeq(text, 1, 0) = <<>> /\ SubSeq(text, 1, Len(text)) = text
         /\ \A j \in 1 .. Len(text) :
              Append(SubSeq(text, 1, j - 1), text[j]) = SubSeq(text, 1, j)
<1>1. SubSeq(text, 1, 0) = <<>> /\ SubSeq(text, 1, Len(text)) = text
  BY SubSeqEmpty, SubSeqFull
<1>2. ASSUME NEW j \in 1 .. Len(text)
      PROVE  Append(SubSeq(text, 1, j - 1), text[j]) = SubSeq(text, 1, j)
  <2> DEFINE p == SubSeq(text, 1, j - 1)
  <2>1. Len(text) \in Nat /\ \A i \in 1 .. Len(text) : text[i] \in Char
    BY LenProperties, ElementOfSeq
  <2>2. SubSeq(text, 1, j) = p \o <<text[j]>>
    <3>1. 1 \in 1 .. Len(text) /\ j \in 1 .. Len(text)
      BY <2>1
    <3>2. QED BY <3>1, SubSeqRecursiveSecond
  <2>3. p \in Seq(Char)
    <3>1. j - 1 \in Int /\ \A i \in 1 .. j - 1 : text[i] \in Char
      BY <2>1
    <3>2. QED BY <3>1, SubSeqProperties
  <2> HIDE DEF p
  <2>4. Append(p, text[j]) = p \o <<text[j]>>
    BY <2>1, <2>3, AppendIsConcat
  <2>5. QED BY <2>2, <2>4 DEF p
<1>3. QED BY <1>1, <1>2

\* The digits of sums, as numbers of characters.
LEMMA HexTable ==
  (\A d \in 1 .. 10 : Hex[d] = d + 47) /\ (\A d \in 11 .. 16 : Hex[d] = d + 86)
<1>1. /\ Hex[1] = 48 /\ Hex[2] = 49 /\ Hex[3] = 50 /\ Hex[4] = 51 /\ Hex[5] = 52
      /\ Hex[6] = 53 /\ Hex[7] = 54 /\ Hex[8] = 55 /\ Hex[9] = 56 /\ Hex[10] = 57
      /\ Hex[11] = 97 /\ Hex[12] = 98 /\ Hex[13] = 99 /\ Hex[14] = 100
      /\ Hex[15] = 101 /\ Hex[16] = 102
  BY DEF Hex
<1>2. \A d \in 1 .. 5 : Hex[d] = d + 47
  <2>1. \A d \in 1 .. 5 : d = 1 \/ d = 2 \/ d = 3 \/ d = 4 \/ d = 5
    OBVIOUS
  <2>2. /\ Hex[1] = 1 + 47 /\ Hex[2] = 2 + 47 /\ Hex[3] = 3 + 47
        /\ Hex[4] = 4 + 47 /\ Hex[5] = 5 + 47
    BY <1>1
  <2>3. QED BY <2>1, <2>2, Zenon
<1>3. \A d \in 6 .. 10 : Hex[d] = d + 47
  BY <1>1
<1>4. \A d \in 11 .. 16 : Hex[d] = d + 86
  BY <1>1
<1>5. QED BY <1>2, <1>3, <1>4

\* The digits of a sum are those of its hexadecimal form.
LEMMA SumValues ==
  ASSUME NEW text \in Seq(Char)
  PROVE  LET sum == Sum8(Body(text))
         IN  /\ Digit(High(text)) = sum \div 16 /\ Digit(Low(text)) = sum % 16
             /\ (16 * 0 + (sum \div 16)) % 256 = sum \div 16
             /\ (16 * (sum \div 16) + (sum % 16)) % 256 = sum
<1> DEFINE sum == Sum8(Body(text))
<1>1. sum \in 0 .. 255
  BY SumDigits, Sum8Byte
<1>2. \A i \in 0 .. 15 : Digit(Hex[i + 1]) = i
  <2>1. /\ \A m \in 48 .. 57 : Digit(m) = m - 48
        /\ \A m \in 97 .. 102 : Digit(m) = m - 87
    BY DEF Digit
  <2>2. ASSUME NEW i \in 0 .. 9 PROVE Digit(Hex[i + 1]) = i
    <3>1. i + 1 \in 1 .. 10 /\ i + 48 \in 48 .. 57 /\ (i + 1) + 47 = i + 48 /\ (i + 48) - 48 = i
      OBVIOUS
    <3>2. Hex[i + 1] = i + 48
      BY <3>1, HexTable
    <3>3. Digit(i + 48) = i
      BY <2>1, <3>1
    <3>4. QED BY <3>2, <3>3
  <2>3. ASSUME NEW i \in 10 .. 15 PROVE Digit(Hex[i + 1]) = i
    <3>1. i + 1 \in 11 .. 16 /\ i + 87 \in 97 .. 102 /\ (i + 1) + 86 = i + 87 /\ (i + 87) - 87 = i
      OBVIOUS
    <3>2. Hex[i + 1] = i + 87
      BY <3>1, HexTable
    <3>3. Digit(i + 87) = i
      BY <2>1, <3>1
    <3>4. QED BY <3>2, <3>3
  <2>4. QED BY <2>2, <2>3
<1>3. High(text) = Hex[(sum \div 16) + 1] /\ Low(text) = Hex[(sum % 16) + 1]
  BY DEF High, Low
<1> HIDE DEF sum
<1>4. sum \div 16 \in 0 .. 15 /\ sum % 16 \in 0 .. 15
  BY <1>1
<1>5. Digit(High(text)) = sum \div 16 /\ Digit(Low(text)) = sum % 16
  BY <1>2, <1>3, <1>4
<1>6. (16 * 0 + (sum \div 16)) % 256 = sum \div 16
  BY <1>1
<1>7. (16 * (sum \div 16) + (sum % 16)) % 256 = sum
  BY <1>1
<1>8. QED BY <1>5, <1>6, <1>7 DEF sum

\* gdb_rcv_msg has read the first packets, k of which are carried out, and rest
\* is left of the stream: it has what was sent of the one it is in.
Between(texts, k, rest) ==
  /\ st = "idle" /\ msg = <<>> /\ csum = 0 /\ k \in 0 .. Len(texts)
  /\ rest = Behind(texts, k) \/ (k < Len(texts) /\ rest = AtOpen(texts, k + 1))

InBody(texts, k, rest) ==
  /\ st = "body" /\ csum = 0 /\ k + 1 \in 1 .. Len(texts)
  /\ \E j \in 0 .. Len(texts[k + 1]) :
       rest = AtBody(texts, k + 1, j) /\ msg = SubSeq(texts[k + 1], 1, j)

InEscape(texts, k, rest) ==
  /\ st = "escaped" /\ csum = 0 /\ k + 1 \in 1 .. Len(texts)
  /\ \E j \in 1 .. Len(texts[k + 1]) :
       /\ texts[k + 1][j] \in Special
       /\ rest = AtEscaped(texts, k + 1, j) /\ msg = SubSeq(texts[k + 1], 1, j - 1)

InSum(texts, k, rest) ==
  /\ k + 1 \in 1 .. Len(texts) /\ msg = texts[k + 1]
  /\ \/ st = "csum0" /\ csum = 0 /\ rest = AtHigh(texts, k + 1)
     \/ /\ st = "csum1" /\ csum = Sum8(Body(texts[k + 1])) \div 16
        /\ rest = AtLow(texts, k + 1)
     \/ /\ st = "done" /\ csum = Sum8(Body(texts[k + 1]))
        /\ rest = Behind(texts, k + 1)

Following(texts, k, rest) ==
  \/ Between(texts, k, rest) \/ InBody(texts, k, rest)
  \/ InEscape(texts, k, rest) \/ InSum(texts, k, rest)

Receives == ReceiveBody \/ ReceiveDigit \/ ReceiveIdle

\* Between packets, it reads on to the next.
LEMMA BetweenFollows ==
  ASSUME NEW texts \in Seq(Seq(Char)), NEW k \in Nat, NEW rest,
         Between(texts, k, rest), rest # <<>>, c = Head(rest), Receives
  PROVE  Following(texts, k, Tail(rest))'
<1>1. st = "idle" /\ msg = <<>> /\ csum = 0 /\ k \in 0 .. Len(texts)
  BY DEF Between
<1> DEFINE i == k + 1
<1>2. k # Len(texts)
  BY StreamLeft DEF Between
<1>3. i \in 1 .. Len(texts) /\ i - 1 = k /\ k < Len(texts)
  BY <1>1, <1>2, LenProperties
<1>4. ReceiveIdle /\ UNCHANGED csum
  BY <1>1 DEF Receives, ReceiveBody, ReceiveDigit, ReceiveIdle
<1>5. rest = Behind(texts, k) \/ rest = AtOpen(texts, i)
  BY DEF Between
<1> HIDE DEF i
<1>6. \/ rest = AtOpen(texts, i) /\ Reads(rest, Open, AtBody(texts, i, 0))
      \/ Reads(rest, Plus, AtOpen(texts, i))
  BY <1>3, <1>5, NextPlaces
<1>7. CASE Reads(rest, Open, AtBody(texts, i, 0))
  <2>1. st' = "body" /\ msg' = <<>> /\ csum' = 0
    BY <1>1, <1>4, <1>7, Characters DEF ReceiveIdle, Reads, Special
  <2>2. 0 \in 0 .. Len(texts[i]) /\ SubSeq(texts[i], 1, 0) = <<>>
    BY <1>3, PlaceTypes, Collected
  <2>3. InBody(texts, k, Tail(rest))'
    BY <1>3, <1>7, <2>1, <2>2 DEF InBody, Reads, i
  <2>4. QED BY <2>3 DEF Following
<1>8. CASE Reads(rest, Plus, AtOpen(texts, i))
  <2>1. UNCHANGED <<st, msg, csum>>
    BY <1>1, <1>4, <1>8, Characters DEF ReceiveIdle, Reads, Special
  <2>2. Between(texts, k, Tail(rest))'
    BY <1>1, <1>3, <1>8, <2>1 DEF Between, Reads, i
  <2>3. QED BY <2>2 DEF Following
<1>9. QED BY <1>6, <1>7, <1>8

\* In a body, it collects the text.
LEMMA BodyFollows ==
  ASSUME NEW texts \in Seq(Seq(Char)), NEW k \in Nat, NEW rest,
         InBody(texts, k, rest), c = Head(rest), Receives
  PROVE  rest # <<>> /\ Following(texts, k, Tail(rest))'
<1> DEFINE i == k + 1
<1>1. st = "body" /\ csum = 0 /\ i \in 1 .. Len(texts)
  BY DEF InBody
<1>2. PICK n \in 0 .. Len(texts[i]) :
        rest = AtBody(texts, i, n) /\ msg = SubSeq(texts[i], 1, n)
  BY DEF InBody
<1>3. ReceiveBody /\ csum' = 0
  BY <1>1 DEF Receives, ReceiveBody, ReceiveDigit, ReceiveIdle
<1>4. texts[i] \in Seq(Char) /\ Len(texts[i]) \in Nat
  BY <1>1, PlaceTypes
<1> HIDE DEF i
<1>5. CASE n = Len(texts[i])
  <2>1. Reads(rest, Close, AtHigh(texts, i))
    BY <1>1, <1>2, <1>5, NextPlaces
  <2>2. st' = "csum0" /\ msg' = msg
    BY <1>1, <1>3, <2>1, Characters DEF ReceiveBody, Reads
  <2>3. msg = texts[i]
    BY <1>2, <1>4, <1>5, Collected
  <2>4. InSum(texts, k, Tail(rest))'
    BY <1>1, <1>3, <2>1, <2>2, <2>3 DEF InSum, Reads, i
  <2>5. QED BY <2>1, <2>4 DEF Following, Reads
<1>6. CASE n # Len(texts[i])
  <2> DEFINE j == n + 1
  <2>1. j \in 1 .. Len(texts[i]) /\ j \in 0 .. Len(texts[i]) /\ j - 1 = n
    BY <1>4, <1>6
  <2> HIDE DEF j
  <2>2. CASE texts[i][j] \in Special
    <3>1. Reads(rest, Esc, AtEscaped(texts, i, j))
      BY <1>1, <1>2, <2>1, <2>2, NextInBody
    <3>2. st' = "escaped" /\ msg' = msg
      BY <1>1, <1>3, <3>1, Characters DEF ReceiveBody, Reads
    <3>3. InEscape(texts, k, Tail(rest))'
      BY <1>1, <1>2, <1>3, <2>1, <2>2, <3>1, <3>2 DEF InEscape, Reads, i
    <3>4. QED BY <3>1, <3>3 DEF Following, Reads
  <2>3. CASE texts[i][j] \notin Special
    <3>1. Reads(rest, texts[i][j], AtBody(texts, i, j))
      BY <1>1, <1>2, <2>1, <2>3, NextInBody
    <3>2. st' = "body" /\ msg' = Append(msg, texts[i][j])
      BY <1>1, <1>3, <2>3, <3>1 DEF ReceiveBody, Reads, Special
    <3>3. msg' = SubSeq(texts[i], 1, j)
      BY <1>2, <1>4, <2>1, <3>2, Collected
    <3>4. InBody(texts, k, Tail(rest))'
      BY <1>1, <1>3, <2>1, <3>1, <3>2, <3>3 DEF InBody, Reads, i
    <3>5. QED BY <3>1, <3>4 DEF Following, Reads
  <2>4. QED BY <2>2, <2>3
<1>7. QED BY <1>5, <1>6

\* An escaped character is made what it was.
LEMMA EscapeFollows ==
  ASSUME NEW texts \in Seq(Seq(Char)), NEW k \in Nat, NEW rest,
         InEscape(texts, k, rest), c = Head(rest), Receives
  PROVE  rest # <<>> /\ Following(texts, k, Tail(rest))'
<1> DEFINE i == k + 1
<1>1. st = "escaped" /\ csum = 0 /\ i \in 1 .. Len(texts)
  BY DEF InEscape
<1>2. PICK j \in 1 .. Len(texts[i]) :
        /\ texts[i][j] \in Special
        /\ rest = AtEscaped(texts, i, j) /\ msg = SubSeq(texts[i], 1, j - 1)
  BY DEF InEscape
<1>3. ReceiveBody /\ csum' = 0
  BY <1>1 DEF Receives, ReceiveBody, ReceiveDigit, ReceiveIdle
<1>4. texts[i] \in Seq(Char) /\ j \in 0 .. Len(texts[i])
  BY <1>1, PlaceTypes
<1> HIDE DEF i
<1>5. Reads(rest, Flipped(texts[i][j]), AtBody(texts, i, j))
  BY <1>1, <1>2, NextInBody
<1>6. st' = "body" /\ msg' = Append(msg, Flipped(c))
  BY <1>1, <1>3 DEF ReceiveBody, Unescaped
<1>7. Flipped(c) = texts[i][j]
  BY <1>2, <1>5, FlippedChars DEF Reads
<1>8. msg' = SubSeq(texts[i], 1, j)
  BY <1>2, <1>4, <1>6, <1>7, Collected
<1>9. InBody(texts, k, Tail(rest))'
  BY <1>1, <1>3, <1>4, <1>5, <1>6, <1>8 DEF InBody, Reads, i
<1>10. QED BY <1>5, <1>9 DEF Following, Reads

\* The two digits make the sum.
LEMMA SumFollows ==
  ASSUME NEW texts \in Seq(Seq(Char)), NEW k \in Nat, NEW rest,
         InSum(texts, k, rest), c = Head(rest), Receives
  PROVE  rest # <<>> /\ Following(texts, k, Tail(rest))'
<1> DEFINE i == k + 1
<1>1. i \in 1 .. Len(texts) /\ msg = texts[i]
  BY DEF InSum
<1>2. texts[i] \in Seq(Char)
  BY <1>1, PlaceTypes
<1>3. st # "done"
  BY DEF Receives, ReceiveBody, ReceiveDigit, ReceiveIdle
<1>4. /\ ReceiveDigit
      /\ msg' = msg /\ csum' = (16 * csum + Digit(c)) % 256 /\ st' = AfterDigit(st)
  BY <1>3 DEF InSum, Receives, ReceiveBody, ReceiveDigit, ReceiveIdle
<1>5. CASE st = "csum0"
  <2>1. csum = 0 /\ rest = AtHigh(texts, i)
    BY <1>5 DEF InSum
  <2> HIDE DEF i
  <2>2. Reads(rest, High(texts[i]), AtLow(texts, i))
    BY <1>1, <2>1, NextPlaces
  <2>3. st' = "csum1" /\ csum' = Sum8(Body(texts[i])) \div 16
    BY <1>2, <1>4, <1>5, <2>1, <2>2, SumValues DEF Reads, AfterDigit
  <2>4. InSum(texts, k, Tail(rest))'
    BY <1>1, <1>4, <2>2, <2>3 DEF InSum, Reads, i
  <2>5. QED BY <2>2, <2>4 DEF Following, Reads
<1>6. CASE st = "csum1"
  <2>1. csum = Sum8(Body(texts[i])) \div 16 /\ rest = AtLow(texts, i)
    BY <1>6 DEF InSum
  <2> HIDE DEF i
  <2>2. Reads(rest, Low(texts[i]), Behind(texts, i))
    BY <1>1, <2>1, NextPlaces
  <2>3. st' = "done" /\ csum' = Sum8(Body(texts[i]))
    BY <1>2, <1>4, <1>6, <2>1, <2>2, SumValues DEF Reads, AfterDigit
  <2>4. InSum(texts, k, Tail(rest))'
    BY <1>1, <1>4, <2>2, <2>3 DEF InSum, Reads, i
  <2>5. QED BY <2>2, <2>4 DEF Following, Reads
<1>7. QED BY <1>3, <1>5, <1>6 DEF InSum

\* Whatever it reads as it was sent, it stays in step.
LEMMA FollowsOn ==
  ASSUME NEW texts \in Seq(Seq(Char)), NEW k \in Nat, NEW rest,
         Following(texts, k, rest), rest # <<>>, c = Head(rest), Receives
  PROVE  Following(texts, k, Tail(rest))'
BY BetweenFollows, BodyFollows, EscapeFollows, SumFollows DEF Following

\* What is left of the stream tells the state it is read in.
LEMMA FollowingPlaces ==
  ASSUME NEW texts \in Seq(Seq(Char)), NEW k \in Nat, NEW rest, Following(texts, k, rest)
  PROVE  /\ k \in 0 .. Len(texts) /\ rest \in Seq(Char)
         /\ \/ st = "idle" /\ msg = <<>> /\ csum = 0 /\ IsGap(texts, rest)
            \/ st = "body" /\ IsBody(texts, rest)
            \/ st = "escaped" /\ IsEscaped(texts, rest)
            \/ st = "csum0" /\ IsHigh(texts, rest)
            \/ st = "csum1" /\ IsLow(texts, rest)
            \/ /\ st = "done" /\ IsGap(texts, rest)
               /\ k + 1 \in 1 .. Len(texts) /\ msg = texts[k + 1]
               /\ csum = Sum8(Body(msg)) /\ rest = Behind(texts, k + 1)
<1> DEFINE i == k + 1
<1>1. Len(texts) \in Nat
  BY LenProperties
<1>2. CASE Between(texts, k, rest)
  <2>1. k \in 0 .. Len(texts)
    BY <1>2 DEF Between
  <2>2. CASE rest = Behind(texts, k)
    BY <1>2, <2>1, <2>2, StreamLeft DEF Between, IsGap
  <2>3. CASE k < Len(texts) /\ rest = AtOpen(texts, i)
    <3>1. i \in 1 .. Len(texts) /\ i \in 0 .. Len(texts) /\ i # 0
      BY <1>1, <2>1, <2>3
    <3> HIDE DEF i
    <3>2. AtOpen(texts, i) \in Seq(Char)
      <4>1. 0 \in 0 .. Len(texts[i])
        BY <3>1, PlaceTypes
      <4>2. AtBody(texts, i, 0) \in Seq(Char)
        BY <3>1, <4>1, PlaceTypes
      <4>3. QED BY <4>2, Characters, Consed DEF AtOpen
    <3>3. QED BY <1>2, <2>1, <2>3, <3>1, <3>2 DEF Between, IsGap
  <2>4. QED BY <1>2, <2>2, <2>3 DEF Between
<1>3. CASE i \in 1 .. Len(texts) /\ ~ Between(texts, k, rest)
  <2>1. k \in 0 .. Len(texts)
    <3>1. k \in Int
      BY <1>3, <1>1 DEF Following, Between, InBody, InEscape, InSum
    <3>2. QED BY <1>1, <1>3, <3>1
  <2>2. CASE InBody(texts, k, rest)
    <3>1. PICK j \in 0 .. Len(texts[i]) : rest = AtBody(texts, i, j)
      BY <2>2 DEF InBody
    <3> HIDE DEF i
    <3>2. rest \in Seq(Char) /\ IsBody(texts, rest)
      BY <1>3, <3>1, PlaceTypes DEF IsBody
    <3>3. QED BY <2>1, <2>2, <3>2 DEF InBody
  <2>3. CASE InEscape(texts, k, rest)
    <3>1. PICK j \in 1 .. Len(texts[i]) :
            texts[i][j] \in Special /\ rest = AtEscaped(texts, i, j)
      BY <2>3 DEF InEscape
    <3> HIDE DEF i
    <3>2. rest \in Seq(Char) /\ IsEscaped(texts, rest)
      BY <1>3, <3>1, PlaceTypes DEF IsEscaped
    <3>3. QED BY <2>1, <2>3, <3>2 DEF InEscape
  <2>4. CASE InSum(texts, k, rest)
    <3>1. /\ AtHigh(texts, i) \in Seq(Char) /\ IsHigh(texts, AtHigh(texts, i))
          /\ AtLow(texts, i) \in Seq(Char) /\ IsLow(texts, AtLow(texts, i))
          /\ Behind(texts, i) \in Seq(Char) /\ IsGap(texts, Behind(texts, i))
      <4> HIDE DEF i
      <4>1. i \in 0 .. Len(texts)
        BY <1>1, <1>3
      <4>2. QED BY <1>3, <4>1, PlaceTypes DEF IsHigh, IsLow, IsGap
    <3>2. QED BY <2>1, <2>4, <3>1 DEF InSum
  <2>5. QED BY <1>3, <2>2, <2>3, <2>4 DEF Following
<1>4. QED BY <1>2, <1>3 DEF Following, InBody, InEscape, InSum

\* Between packets, some of them are read.
LEMMA GapPlace ==
  ASSUME NEW texts \in Seq(Seq(Char)), NEW w, IsGap(texts, w)
  PROVE  \E k \in Nat : /\ k \in 0 .. Len(texts)
                        /\ \/ w = Behind(texts, k)
                           \/ k < Len(texts) /\ w = AtOpen(texts, k + 1)
<1>1. PICK k \in 0 .. Len(texts) :
        w = Behind(texts, k) \/ (k # 0 /\ w = AtOpen(texts, k))
  BY DEF IsGap
<1>2. CASE w = Behind(texts, k)
  BY <1>1, <1>2, LenProperties
<1>3. CASE k # 0 /\ w = AtOpen(texts, k)
  <2> DEFINE i == k - 1
  <2>1. i \in Nat /\ i \in 0 .. Len(texts) /\ i + 1 = k /\ i < Len(texts)
    BY <1>1, <1>3, LenProperties
  <2> HIDE DEF i
  <2>2. QED BY <1>3, <2>1
<1>4. QED BY <1>1, <1>2, <1>3

\* The message that is read is carried out, and the next one begins.
LEMMA FollowsServe ==
  ASSUME NEW texts \in Seq(Seq(Char)), NEW k \in Nat, NEW rest,
         Following(texts, k, rest), Serve, good
  PROVE  /\ k + 1 \in 1 .. Len(texts) /\ msg = texts[k + 1]
         /\ Following(texts, k + 1, rest)'
<1>1. st = "done"
  BY DEF Serve
<1>2. k + 1 \in 1 .. Len(texts) /\ msg = texts[k + 1] /\ rest = Behind(texts, k + 1)
  BY <1>1, FollowingPlaces
<1>3. k + 1 \in 0 .. Len(texts)
  BY <1>2
<1>4. Between(texts, k + 1, rest)'
  BY <1>2, <1>3 DEF Serve, Between
<1>5. QED BY <1>2, <1>4 DEF Following

\* No command is empty: an empty message is carried out never.
LEMMA EmptyUnsupported == ~ Supported(<<>>)
<1>1. SUFFICES ASSUME NEW str \in DOMAIN Commands, IsPrefix(str, <<>>) PROVE FALSE
  BY DEF Supported, start_with
<1>2. str \in Seq(Char) /\ str # <<>>
  BY TransportAssumption
<1>3. Len(str) \in Nat /\ Len(str) <= 0
  BY <1>1, <1>2, LenProperties, EmptySeq DEF IsPrefix
<1>4. QED BY <1>2, <1>3, EmptySeq

-----------------------------------------------------------------------------
(* gdb_rcv_msg out of step with the client, and how it finds back.         *)

AnyPlace(texts, w) ==
  \/ IsGap(texts, w) \/ IsBody(texts, w) \/ IsEscaped(texts, w)
  \/ IsHigh(texts, w) \/ IsLow(texts, w)

\* A message that was not sent is being read: its end may be that of a packet,
\* a damaged character in a body, or the end of the stream.
Off(texts) ==
  \/ good /\ st \in {"body", "escaped"} /\ AnyPlace(texts, wire)
  \/ /\ good /\ st = "csum0"
     /\ \/ IsHigh(texts, wire) \/ IsLow(texts, wire)
        \/ IsBody(texts, wire) \/ IsEscaped(texts, wire)
  \/ /\ good /\ st = "csum1"
     /\ IsGap(texts, wire) \/ IsLow(texts, wire) \/ IsBody(texts, wire)
  \/ good /\ st = "done" /\ (IsGap(texts, wire) \/ IsBody(texts, wire))
  \/ ~ good /\ st = "done"

\* It has been carried out, and no other follows: gdb_rcv_msg is in step again,
\* meets the rest of a body where it looks for a packet, or has no message.
Back(texts) ==
  \/ good /\ \E k \in Nat : Following(texts, k, wire)
  \/ good /\ st = "idle" /\ msg = <<>> /\ IsBody(texts, wire)
  \/ st = "done" /\ msg = <<>>

\* Neither '$', '#', '}' nor '+' is a digit.
LEMMA NoDigit ==
  Digit(Open) = -1 /\ Digit(Close) = -1 /\ Digit(Esc) = -1 /\ Digit(Plus) = -1
BY DEF Digit, Open, Close, Esc, Plus

\* The place behind a place.
LEMMA PlaceNext ==
  ASSUME NEW texts \in Seq(Seq(Char)), NEW w, AnyPlace(texts, w), w # <<>>
  PROVE  /\ AnyPlace(texts, Tail(w))
         /\ Head(w) = Close => IsHigh(texts, Tail(w))
<1>1. CASE IsGap(texts, w)
  <2>1. Close \in Special /\ Close # Open /\ Close # Plus
    BY Characters DEF Special
  <2>2. QED BY <1>1, <2>1, GapNext DEF AnyPlace
<1>2. CASE IsBody(texts, w)
  <2>1. Close \in Special /\ Close # Esc
    BY Characters DEF Special
  <2>2. QED BY <1>2, <2>1, BodyNext DEF AnyPlace
<1>3. CASE IsEscaped(texts, w)
  BY <1>3, EscapedNext DEF AnyPlace, Special
<1>4. CASE IsHigh(texts, w)
  BY <1>4, SumNext DEF AnyPlace, Special
<1>5. CASE IsLow(texts, w)
  BY <1>5, SumNext DEF AnyPlace, Special
<1>6. QED BY <1>1, <1>2, <1>3, <1>4, <1>5 DEF AnyPlace

\* What is read out of step stays out of step until it is a message.
LEMMA OffReceives ==
  ASSUME NEW texts \in Seq(Seq(Char)), Off(texts), Receive
  PROVE  Off(texts)'
<1>1. CASE ReceiveEof
  BY <1>1 DEF ReceiveEof, Off
<1>2. CASE Receives
  <2>1. /\ good /\ st # "done" /\ good' = good
        /\ wire # <<>> /\ wire' = Tail(wire) /\ c = Head(wire)
    BY <1>2 DEF Receives, ReceiveBody, ReceiveDigit, ReceiveIdle, Get, Reading, Stays, c
  <2>2. CASE st \in {"body", "escaped"}
    <3>1. AnyPlace(texts, wire)
      BY <2>2 DEF Off
    <3>2. AnyPlace(texts, wire') /\ (c = Close => IsHigh(texts, wire'))
      BY <2>1, <3>1, PlaceNext
    <3>3. \/ st' \in {"body", "escaped"}
          \/ st' = "csum0" /\ c = Close
      BY <1>2, <2>2 DEF Receives, ReceiveBody, ReceiveDigit, ReceiveIdle
    <3>4. QED BY <2>1, <3>2, <3>3 DEF Off
  <2>3. CASE st \in {"csum0", "csum1"}
    <3>1. Digit(c) # -1 /\ st' = AfterDigit(st)
      BY <1>2, <2>3 DEF Receives, ReceiveBody, ReceiveDigit, ReceiveIdle
    <3>2. IsBody(texts, wire) => IsBody(texts, wire')
      BY <2>1, <3>1, BodyNext, NoDigit
    <3>3. ~ IsGap(texts, wire) /\ ~ IsEscaped(texts, wire)
      BY <2>1, <3>1, GapNext, EscapedNext, NoDigit
    <3>4. /\ IsHigh(texts, wire) => IsLow(texts, wire')
          /\ IsLow(texts, wire) => IsGap(texts, wire')
      BY <2>1, SumNext
    <3>5. CASE st = "csum0"
      <4>1. IsHigh(texts, wire) \/ IsLow(texts, wire) \/ IsBody(texts, wire)
        BY <3>3, <3>5 DEF Off
      <4>2. st' = "csum1"
        BY <3>1, <3>5 DEF AfterDigit
      <4>3. QED BY <2>1, <3>2, <3>4, <4>1, <4>2 DEF Off
    <3>6. CASE st = "csum1"
      <4>1. IsLow(texts, wire) \/ IsBody(texts, wire)
        BY <3>3, <3>6 DEF Off
      <4>2. st' = "done"
        BY <3>1, <3>6 DEF AfterDigit
      <4>3. QED BY <2>1, <3>2, <3>4, <4>1, <4>2 DEF Off
    <3>7. QED BY <2>3, <3>5, <3>6
  <2>4. QED BY <2>1, <2>2, <2>3 DEF Off
<1>3. QED BY <1>1, <1>2 DEF Receive, Receives

\* A message read out of step is the last of them.
LEMMA OffServes ==
  ASSUME NEW texts \in Seq(Seq(Char)), Off(texts), Serve
  PROVE  Back(texts)'
<1>1. /\ st = "done" /\ msg' = <<>> /\ csum' = 0
      /\ wire' = wire /\ good' = good /\ st' = IF good THEN "idle" ELSE "done"
  BY DEF Serve
<1>2. CASE good /\ IsGap(texts, wire)
  <2>1. PICK k \in Nat : /\ k \in 0 .. Len(texts)
                        /\ \/ wire = Behind(texts, k)
                           \/ k < Len(texts) /\ wire = AtOpen(texts, k + 1)
    BY <1>2, GapPlace
  <2>2. Between(texts, k, wire)'
    BY <1>1, <1>2, <2>1 DEF Between
  <2>3. QED BY <1>1, <1>2, <2>2 DEF Back, Following
<1>3. CASE good /\ IsBody(texts, wire)
  BY <1>1, <1>3 DEF Back
<1>4. CASE ~ good
  BY <1>1, <1>4 DEF Back
<1>5. QED BY <1>1, <1>2, <1>3, <1>4 DEF Off

\* Once it has found back, it stays in step or comes to nothing.
LEMMA BackReceives ==
  ASSUME NEW texts \in Seq(Seq(Char)), Back(texts), Receive
  PROVE  Back(texts)'
<1>1. good /\ st # "done"
  BY DEF Receive, ReceiveBody, ReceiveDigit, ReceiveIdle, ReceiveEof, Get, Reading
<1>2. CASE Receives
  <2>1. good' = good /\ wire # <<>> /\ wire' = Tail(wire) /\ c = Head(wire)
    BY <1>2 DEF Receives, ReceiveBody, ReceiveDigit, ReceiveIdle, Get, Reading, Stays, c
  <2>2. ASSUME NEW k \in Nat, Following(texts, k, wire) PROVE Back(texts)'
    <3>1. PICK rest : rest = wire
      OBVIOUS
    <3>2. Following(texts, k, rest) /\ rest # <<>> /\ c = Head(rest)
      BY <2>1, <2>2, <3>1
    <3>3. Following(texts, k, Tail(rest))'
      BY <1>2, <3>2, FollowsOn
    <3>4. wire' = Tail(rest)
      BY <2>1, <3>1
    <3>5. Following(texts, k, wire)'
      BY <3>3, <3>4
    <3>6. QED BY <1>1, <2>1, <3>5 DEF Back
  <2>3. CASE st = "idle" /\ msg = <<>> /\ IsBody(texts, wire)
    <3>1. ReceiveIdle
      BY <1>2, <2>3 DEF Receives, ReceiveBody, ReceiveDigit
    <3>2. c # Open /\ (c = Plus => IsBody(texts, wire'))
      BY <2>1, <2>3, BodyNext, Characters DEF Special
    <3>3. \/ c = Plus /\ UNCHANGED <<st, msg>>
          \/ st' = "done" /\ msg' = msg
      BY <3>1, <3>2 DEF ReceiveIdle
    <3>4. QED BY <1>1, <2>1, <2>3, <3>2, <3>3 DEF Back
  <2>4. QED BY <1>1, <2>2, <2>3 DEF Back
<1>3. CASE ReceiveEof
  <2>1. wire = <<>> /\ st' = "done" /\ msg' = msg
    BY <1>3 DEF ReceiveEof
  <2>2. ~ IsBody(texts, wire) /\ ~ IsEscaped(texts, wire)
        /\ ~ IsHigh(texts, wire) /\ ~ IsLow(texts, wire)
    BY <2>1, BodyNext, EscapedNext, SumNext
  <2>3. msg = <<>>
    BY <1>1, <2>2, FollowingPlaces DEF Back
  <2>4. QED BY <2>1, <2>3 DEF Back
<1>4. QED BY <1>2, <1>3 DEF Receive, Receives

\* Then the messages carried out are those sent.
LEMMA BackServes ==
  ASSUME NEW texts \in Seq(Seq(Char)), Back(texts), Serve
  PROVE  Back(texts)' /\ msg \in ToSet(texts)
<1>1. st = "done" /\ Supported(msg) /\ wire' = wire /\ good' = good
  BY DEF Serve
<1>2. msg # <<>>
  BY <1>1, EmptyUnsupported
<1>3. PICK k \in Nat : good /\ Following(texts, k, wire)
  BY <1>1, <1>2 DEF Back
<1>4. /\ k + 1 \in 1 .. Len(texts) /\ msg = texts[k + 1]
      /\ Following(texts, k + 1, wire)'
  <2>1. PICK rest : rest = wire
    OBVIOUS
  <2>2. Following(texts, k, rest)
    BY <1>3, <2>1
  <2>3. /\ k + 1 \in 1 .. Len(texts) /\ msg = texts[k + 1]
        /\ Following(texts, k + 1, rest)'
    BY <1>3, <2>2, FollowsServe
  <2>4. wire' = rest
    BY <1>1, <2>1
  <2>5. QED BY <2>3, <2>4
<1>5. msg \in ToSet(texts)
  BY <1>4, LenProperties DEF ToSet
<1>6. good' /\ Following(texts, k + 1, wire)' /\ k + 1 \in Nat
  BY <1>1, <1>3, <1>4
<1>7. QED BY <1>5, <1>6 DEF Back

-----------------------------------------------------------------------------
(* The fault of the line.                                                  *)

\* The fault befalls the next character of what was sent.
Struck(rest) ==
  /\ rest # <<>> /\ Head(rest) = Befallen
  /\ fault.kind = "cut" => wire = <<>>
  /\ fault.kind = "damaged" => Reads(wire, fault.as, Tail(rest))
  /\ fault.kind = "lost" => wire = Tail(rest)

\* b and a are what precedes and follows the character it befalls.
Broken(b, a) ==
  CASE fault.kind = "damaged" -> b \o (<<fault.as>> \o a)
    [] fault.kind = "lost"    -> b \o a
    [] fault.kind = "cut"     -> b

\* rest is left of what was sent, and the fault is still to come.
Coming(rest) ==
  IF fault.kind = "none" THEN wire = rest
  ELSE \E b \in Seq(Char), x \in Char, a \in Seq(Char) :
         x = Befallen /\ rest = b \o (<<x>> \o a) /\ wire = Broken(b, a)

FaultType ==
  /\ fault.kind \in {"none", "damaged", "lost", "cut"}
  /\ fault.kind = "damaged" => fault.as \in Char

\* A character that is lost leaves the reader out of step, or between packets.
LEMMA LostOff ==
  ASSUME NEW texts \in Seq(Seq(Char)), NEW k \in Nat, NEW rest,
         Following(texts, k, rest), good, rest # <<>>, wire = Tail(rest)
  PROVE  Off(texts) \/ Back(texts)
<1>1. CASE st = "idle"
  <2>1. msg = <<>> /\ csum = 0 /\ IsGap(texts, rest)
    BY <1>1, FollowingPlaces
  <2>2. CASE IsGap(texts, wire)
    <3>1. \E i \in Nat : Between(texts, i, wire)
      BY <1>1, <2>1, <2>2, GapPlace DEF Between
    <3>2. QED BY <3>1 DEF Back, Following
  <2>3. CASE IsBody(texts, wire)
    BY <1>1, <2>1, <2>3 DEF Back
  <2>4. QED BY <2>1, <2>2, <2>3, GapNext
<1>2. CASE st = "body"
  BY <1>2, FollowingPlaces, BodyNext DEF Off, AnyPlace
<1>3. CASE st = "escaped"
  BY <1>3, FollowingPlaces, EscapedNext DEF Off, AnyPlace
<1>4. CASE st = "csum0"
  BY <1>4, FollowingPlaces, SumNext DEF Off
<1>5. CASE st = "csum1"
  BY <1>5, FollowingPlaces, SumNext DEF Off
<1>6. CASE st = "done"
  BY <1>6, FollowingPlaces, GapNext DEF Off
<1>7. QED BY <1>1, <1>2, <1>3, <1>4, <1>5, <1>6, FollowingPlaces

\* So does one that is damaged, once it is read.
LEMMA DamagedOff ==
  ASSUME NEW texts \in Seq(Seq(Char)), NEW k \in Nat, NEW rest, NEW x,
         Following(texts, k, rest), good, rest # <<>>,
         Reads(wire, x, Tail(rest)), Receives
  PROVE  Off(texts)' \/ Back(texts)'
<1> DEFINE r == Tail(rest)
<1>1. /\ st # "done" /\ good' /\ wire' = r /\ c = x
  BY DEF Receives, ReceiveBody, ReceiveDigit, ReceiveIdle, Get, Reading, Stays, c, Reads
<1>2. CASE st = "idle"
  <2>1. msg = <<>> /\ csum = 0 /\ (IsGap(texts, r) \/ IsBody(texts, r))
    BY <1>2, FollowingPlaces, GapNext
  <2>2. \/ st' = "idle" /\ msg' = <<>>
        \/ st' = "done" /\ msg' = <<>>
        \/ st' = "body"
    BY <1>2, <2>1 DEF Receives, ReceiveBody, ReceiveDigit, ReceiveIdle
  <2>3. csum' = 0
    BY <1>2, <2>1 DEF Receives, ReceiveBody, ReceiveDigit, ReceiveIdle
  <2>4. CASE st' = "idle" /\ msg' = <<>>
    <3>1. CASE IsGap(texts, r)
      <4>1. PICK i \in Nat : /\ i \in 0 .. Len(texts)
                             /\ \/ r = Behind(texts, i)
                                \/ i < Len(texts) /\ r = AtOpen(texts, i + 1)
        BY <3>1, GapPlace
      <4>2. Between(texts, i, wire)'
        BY <1>1, <2>3, <2>4, <4>1 DEF Between
      <4>3. QED BY <1>1, <4>2 DEF Back, Following
    <3>2. CASE IsBody(texts, r)
      BY <1>1, <2>4, <3>2 DEF Back
    <3>3. QED BY <2>1, <3>1, <3>2
  <2>5. CASE st' = "done" /\ msg' = <<>>
    BY <2>5 DEF Back
  <2>6. CASE st' = "body"
    BY <1>1, <2>1, <2>6 DEF Off, AnyPlace
  <2>7. QED BY <2>2, <2>4, <2>5, <2>6
<1>3. CASE st = "body"
  <2>1. IsHigh(texts, r) \/ IsEscaped(texts, r) \/ IsBody(texts, r)
    BY <1>3, FollowingPlaces, BodyNext
  <2>2. st' \in {"body", "escaped", "csum0"}
    BY <1>3 DEF Receives, ReceiveBody, ReceiveDigit, ReceiveIdle
  <2>3. QED BY <1>1, <2>1, <2>2 DEF Off, AnyPlace
<1>4. CASE st = "escaped"
  <2>1. IsBody(texts, r)
    BY <1>4, FollowingPlaces, EscapedNext
  <2>2. st' = "body"
    BY <1>4 DEF Receives, ReceiveBody, ReceiveDigit, ReceiveIdle
  <2>3. QED BY <1>1, <2>1, <2>2 DEF Off, AnyPlace
<1>5. CASE st = "csum0"
  <2>1. IsLow(texts, r)
    BY <1>5, FollowingPlaces, SumNext
  <2>2. st' = "csum1"
    BY <1>5 DEF Receives, ReceiveBody, ReceiveDigit, ReceiveIdle, AfterDigit
  <2>3. QED BY <1>1, <2>1, <2>2 DEF Off
<1>6. CASE st = "csum1"
  <2>1. IsGap(texts, r)
    BY <1>6, FollowingPlaces, SumNext
  <2>2. st' = "done"
    BY <1>6 DEF Receives, ReceiveBody, ReceiveDigit, ReceiveIdle, AfterDigit
  <2>3. QED BY <1>1, <2>1, <2>2 DEF Off
<1>7. QED BY <1>1, <1>2, <1>3, <1>4, <1>5, <1>6, FollowingPlaces

\* The next character is as it was sent, and the fault after it, or it is the
\* one the fault befalls.
LEMMA ComingOn ==
  ASSUME NEW rest \in Seq(Char), Coming(rest), FaultType,
         wire # <<>>, wire' = Tail(wire), fault' = fault, Befallen' = Befallen
  PROVE  \/ rest # <<>> /\ c = Head(rest) /\ Coming(Tail(rest))'
         \/ fault.kind # "none" /\ Struck(rest)
<1>1. CASE fault.kind = "none"
  BY <1>1 DEF Coming, c
<1>2. ASSUME fault.kind # "none",
             NEW b \in Seq(Char), NEW x \in Char, NEW a \in Seq(Char),
             x = Befallen, rest = b \o (<<x>> \o a), wire = Broken(b, a)
      PROVE  \/ rest # <<>> /\ c = Head(rest) /\ Coming(Tail(rest))'
             \/ Struck(rest)
  <2>1. <<x>> \o a \in Seq(Char)
    BY Consed
  <2>2. CASE b = <<>>
    <3>1. rest = <<x>> \o a
      BY <1>2, <2>1, <2>2, ConcatEmptySeq
    <3>2. rest # <<>> /\ Tail(rest) = a /\ Head(rest) = Befallen
      BY <1>2, <3>1, FirstOfRest
    <3>3. CASE fault.kind = "damaged"
      <4>1. fault.as \in Char
        BY <3>3 DEF FaultType
      <4>2. <<fault.as>> \o a \in Seq(Char)
        BY <4>1, Consed
      <4>3. wire = <<fault.as>> \o a
        BY <1>2, <2>2, <3>3, <4>2, ConcatEmptySeq DEF Broken
      <4>4. Reads(wire, fault.as, a)
        BY <4>1, <4>3, FirstOfRest DEF Reads
      <4>5. QED BY <3>2, <3>3, <4>4 DEF Struck
    <3>4. CASE fault.kind = "lost"
      <4>1. wire = a
        BY <1>2, <2>2, <3>4, ConcatEmptySeq DEF Broken
      <4>2. QED BY <3>2, <3>4, <4>1 DEF Struck
    <3>5. CASE fault.kind = "cut"
      BY <1>2, <2>2, <3>5 DEF Broken
    <3>6. QED BY <1>2, <3>3, <3>4, <3>5 DEF FaultType
  <2>3. CASE b # <<>>
    <3> DEFINE y == Head(b)
               d == Tail(b)
    <3>1. y \in Char /\ d \in Seq(Char) /\ b = <<y>> \o d
      BY <2>3, EmptyOrCons
    <3>2. ASSUME NEW w \in Seq(Char)
          PROVE  /\ d \o w \in Seq(Char) /\ b \o w # <<>>
                 /\ Head(b \o w) = y /\ Tail(b \o w) = d \o w
      <4> HIDE DEF y, d
      <4>1. <<y>> \in Seq(Char)
        BY <3>1
      <4>2. b \o w = <<y>> \o (d \o w) /\ d \o w \in Seq(Char)
        BY <3>1, <3>2, <4>1, Reassociate
      <4>3. QED BY <3>1, <4>2, FirstOfRest
    <3>3. rest # <<>> /\ Head(rest) = y /\ Tail(rest) = d \o (<<x>> \o a)
      BY <1>2, <2>1, <3>2
    <3> HIDE DEF y, d
    <3>4. Head(wire) = y /\ Tail(wire) = Broken(d, a)
      <4>1. CASE fault.kind = "damaged"
        <5>1. <<fault.as>> \o a \in Seq(Char)
          BY <4>1, Consed DEF FaultType
        <5>2. QED BY <1>2, <3>2, <4>1, <5>1 DEF Broken
      <4>2. CASE fault.kind = "lost"
        BY <1>2, <3>2, <4>2 DEF Broken
      <4>3. CASE fault.kind = "cut"
        <5>1. wire = <<y>> \o d
          BY <1>2, <3>1, <4>3 DEF Broken
        <5>2. QED BY <3>1, <4>3, <5>1, FirstOfRest DEF Broken
      <4>4. QED BY <1>2, <4>1, <4>2, <4>3 DEF FaultType
    <3>5. wire' = Broken(d, a)'
      BY <3>4 DEF Broken
    <3>6. Coming(Tail(rest))'
      BY <1>2, <3>1, <3>3, <3>5 DEF Coming
    <3>7. QED BY <3>3, <3>4, <3>6 DEF c
  <2>4. QED BY <2>2, <2>3
<1>3. QED BY <1>1, <1>2 DEF Coming

\* The end of the stream is that of what was sent, or the fault.
LEMMA ComingEnd ==
  ASSUME NEW rest \in Seq(Char), Coming(rest), FaultType, wire = <<>>
  PROVE  \/ fault.kind = "none" /\ rest = <<>>
         \/ fault.kind # "none" /\ Struck(rest)
<1>1. CASE fault.kind = "none"
  BY <1>1 DEF Coming
<1>2. ASSUME fault.kind # "none",
             NEW b \in Seq(Char), NEW x \in Char, NEW a \in Seq(Char),
             x = Befallen, rest = b \o (<<x>> \o a), wire = Broken(b, a)
      PROVE  Struck(rest)
  <2>1. <<x>> \o a \in Seq(Char) /\ <<x>> \o a # <<>> /\ Tail(<<x>> \o a) = a
        /\ Head(<<x>> \o a) = Befallen
    BY <1>2, FirstOfRest
  <2>2. CASE fault.kind = "damaged"
    <3>1. fault.as \in Char
      BY <2>2 DEF FaultType
    <3> DEFINE w == <<fault.as>> \o a
    <3>2. w \in Seq(Char) /\ w # <<>>
      BY <3>1, FirstOfRest
    <3>3. wire = b \o w
      BY <1>2, <2>2 DEF Broken
    <3> HIDE DEF w
    <3>4. QED BY <3>2, <3>3, ConcatEqualIffEmpty
  <2>3. CASE fault.kind = "lost"
    <3>1. b = <<>> /\ a = <<>>
      <4>1. b \o a = <<>>
        BY <1>2, <2>3 DEF Broken
      <4>2. QED BY <4>1, ConcatSimplifications
    <3>2. rest = <<x>> \o a
      BY <1>2, <2>1, <3>1, ConcatEmptySeq
    <3>3. QED BY <2>1, <2>3, <3>1, <3>2 DEF Struck
  <2>4. CASE fault.kind = "cut"
    <3>1. b = <<>>
      BY <1>2, <2>4 DEF Broken
    <3>2. rest = <<x>> \o a
      BY <1>2, <2>1, <3>1, ConcatEmptySeq
    <3>3. QED BY <2>1, <2>4, <3>2 DEF Struck
  <2>5. QED BY <1>2, <2>2, <2>3, <2>4 DEF FaultType
<1>3. QED BY <1>1, <1>2 DEF Coming

-----------------------------------------------------------------------------
(* The session's invariant.                                                *)

Typed ==
  /\ sent \in Seq(Seq(Char)) /\ executed \in Seq(Seq(Char))
  /\ wire \in Seq(Char) /\ msg \in Seq(Char) /\ good \in BOOLEAN

\* k commands are carried out, those that were sent.
Faithful(k) == Len(executed) = k /\ \A i \in 1 .. k : i \in DOMAIN sent /\ executed[i] = sent[i]

\* The fault is still to come.
Whole ==
  /\ good
  /\ \E k \in Nat : \E rest : Faithful(k) /\ Following(sent, k, rest) /\ Coming(rest)

\* The stream has ended, within a packet perhaps; the part that arrived has been
\* carried out.
Ended ==
  /\ ~ good /\ st = "done" /\ fault.kind \in {"none", "cut"}
  /\ \E k \in Nat :
       /\ Faithful(k)
       /\ \/ msg = <<>>
          \/ fault.kind = "cut" /\ k + 1 \in DOMAIN sent /\ IsPrefix(msg, sent[k + 1])

Partial ==
  /\ ~ good /\ st = "done" /\ msg = <<>> /\ fault.kind = "cut"
  /\ \E k \in Nat :
       /\ Len(executed) = k + 1
       /\ \A i \in 1 .. k : i \in DOMAIN sent /\ executed[i] = sent[i]
       /\ k + 1 \in DOMAIN sent /\ IsPrefix(executed[k + 1], sent[k + 1])

\* A character was damaged or lost: no command, or one, was not sent.
Hit == fault.kind \in {"damaged", "lost"}

AllSent == \A i \in DOMAIN executed : executed[i] \in ToSet(sent)

OneStray == \E b \in Nat : \A i \in DOMAIN executed : i # b => executed[i] \in ToSet(sent)

Astray    == Hit /\ AllSent /\ Off(sent)
Recovered == Hit /\ OneStray /\ Back(sent)

Serving == Typed /\ FaultType /\ (Whole \/ Ended \/ Partial \/ Astray \/ Recovered)

\* Until a client is accepted, there is nothing to read.
SessionInv ==
  IF phase = "serving" THEN Serving
  ELSE st = "idle" /\ msg = <<>> /\ csum = 0 /\ executed = <<>>

\* Characters read are characters.
LEMMA TypedStep ==
  ASSUME Typed, Receive \/ Serve
  PROVE  Typed' /\ sent' = sent /\ fault' = fault
<1>1. ASSUME NEW m \in Char PROVE Flipped(m) \in Char
  BY <1>1 DEF Flipped, Char
<1>2. CASE Receives
  <2>1. /\ sent' = sent /\ fault' = fault /\ executed' = executed /\ good' = good
        /\ wire # <<>> /\ wire' = Tail(wire)
    BY <1>2 DEF Receives, ReceiveBody, ReceiveDigit, ReceiveIdle, Get, Stays, stream
  <2>2. wire' \in Seq(Char) /\ c \in Char
    BY <2>1, EmptyOrCons DEF Typed, c
  <2>3. msg' = msg \/ msg' = <<>> \/ msg' = Append(msg, c) \/ msg' = Append(msg, Flipped(c))
    BY <1>2 DEF Receives, ReceiveBody, ReceiveDigit, ReceiveIdle, Unescaped
  <2>4. msg' \in Seq(Char)
    <3>1. msg \in Seq(Char) /\ <<>> \in Seq(Char) /\ Flipped(c) \in Char
      BY <1>1, <2>2, EmptySeq DEF Typed
    <3>2. \A x \in Char : Append(msg, x) \in Seq(Char)
      BY <3>1, AppendProperties
    <3>3. QED BY <2>2, <2>3, <3>1, <3>2
  <2>5. QED BY <2>1, <2>2, <2>4 DEF Typed
<1>3. CASE ReceiveEof
  BY <1>3 DEF ReceiveEof, Typed, stream
<1>4. CASE Serve
  <2>1. executed' = Append(executed, msg) /\ msg' = <<>>
        /\ wire' = wire /\ good' = good /\ sent' = sent /\ fault' = fault
    BY <1>4 DEF Serve, stream
  <2>2. executed' \in Seq(Seq(Char)) /\ msg' \in Seq(Char)
    BY <2>1, AppendProperties, EmptySeq DEF Typed
  <2>3. QED BY <2>1, <2>2 DEF Typed
<1>5. QED BY <1>2, <1>3, <1>4 DEF Receive, Receives

\* One more command is carried out.
LEMMA Carried ==
  ASSUME Typed, Serve
  PROVE  /\ Len(executed) \in Nat /\ Len(executed') = Len(executed) + 1
         /\ DOMAIN executed = 1 .. Len(executed) /\ DOMAIN executed' = 1 .. Len(executed')
         /\ executed'[Len(executed) + 1] = msg
         /\ \A i \in 1 .. Len(executed) : executed'[i] = executed[i]
<1>1. executed' = Append(executed, msg)
  BY DEF Serve
<1>2. executed \in Seq(Seq(Char)) /\ msg \in Seq(Char)
  BY DEF Typed
<1>3. executed' \in Seq(Seq(Char))
  BY <1>1, <1>2, AppendProperties
<1>4. DOMAIN executed' = 1 .. Len(executed')
  BY <1>3, LenProperties
<1>5. QED BY <1>1, <1>2, <1>4, AppendProperties, LenProperties

\* What is collected when the stream ends is a part of the packet.
LEMMA FollowingPart ==
  ASSUME NEW texts \in Seq(Seq(Char)), NEW k \in Nat, NEW rest,
         Following(texts, k, rest)
  PROVE  \/ msg = <<>>
         \/ k + 1 \in DOMAIN texts /\ IsPrefix(msg, texts[k + 1])
<1>1. ASSUME NEW text \in Seq(Char), NEW j \in 0 .. Len(text)
      PROVE  IsPrefix(SubSeq(text, 1, j), text)
  <2> DEFINE p == SubSeq(text, 1, j)
  <2>1. Len(text) \in Nat /\ \A i \in 1 .. Len(text) : text[i] \in Char
    BY LenProperties, ElementOfSeq
  <2>2. p \in Seq(Char) /\ Len(p) = IF 1 <= j THEN j - 1 + 1 ELSE 0
    <3>1. j \in Int /\ \A i \in 1 .. j : text[i] \in Char
      BY <2>1
    <3>2. QED BY <3>1, SubSeqProperties
  <2>3. Len(p) = j
    BY <2>1, <2>2
  <2>4. SubSeq(p, 1, Len(p)) = p
    BY <2>2, SubSeqFull
  <2>5. QED BY <2>1, <2>3, <2>4 DEF IsPrefix
<1> DEFINE i == k + 1
<1>2. CASE i \in 1 .. Len(texts) /\ ~ Between(texts, k, rest)
  <2>1. texts[i] \in Seq(Char) /\ Len(texts[i]) \in Nat /\ i \in DOMAIN texts
    <3> HIDE DEF i
    <3>1. QED BY <1>2, PlaceTypes, LenProperties
  <2>2. \E n \in 0 .. Len(texts[i]) : msg = SubSeq(texts[i], 1, n)
    <3>1. CASE InBody(texts, k, rest)
      BY <3>1 DEF InBody
    <3>2. CASE InEscape(texts, k, rest)
      <4>1. PICK j \in 1 .. Len(texts[i]) : msg = SubSeq(texts[i], 1, j - 1)
        BY <3>2 DEF InEscape
      <4>2. j - 1 \in 0 .. Len(texts[i])
        BY <2>1
      <4>3. QED BY <4>1, <4>2
    <3>3. CASE InSum(texts, k, rest)
      <4>1. msg = texts[i]
        BY <3>3 DEF InSum
      <4> HIDE DEF i
      <4>2. msg = SubSeq(texts[i], 1, Len(texts[i])) /\ Len(texts[i]) \in 0 .. Len(texts[i])
        BY <2>1, <4>1, SubSeqFull
      <4>3. QED BY <4>2
    <3>4. QED BY <1>2, <3>1, <3>2, <3>3 DEF Following
  <2>3. IsPrefix(msg, texts[i])
    <3> HIDE DEF i
    <3>1. QED BY <1>1, <2>1, <2>2
  <2>4. QED BY <2>1, <2>3
<1>3. QED BY <1>2 DEF Following, Between, InBody, InEscape, InSum

\* A character read: as it was sent, or the one the fault befell.
LEMMA WholeReceives ==
  ASSUME Typed, FaultType, Whole, Receive
  PROVE  Whole' \/ Ended' \/ Astray' \/ Recovered'
<1>1. PICK texts : texts = sent
  OBVIOUS
<1>2. PICK k \in Nat : \E rest : Faithful(k) /\ Following(sent, k, rest) /\ Coming(rest)
  BY DEF Whole
<1>3. PICK rest : Faithful(k) /\ Following(texts, k, rest) /\ Coming(rest)
  BY <1>1, <1>2
<1>4. /\ texts \in Seq(Seq(Char)) /\ sent' = sent /\ fault' = fault
      /\ executed' = executed /\ good
  BY <1>1, TypedStep DEF Typed, Whole, Receive, ReceiveBody, ReceiveDigit,
    ReceiveIdle, ReceiveEof, Stays
<1>5. rest \in Seq(Char)
  BY <1>3, <1>4, FollowingPlaces
<1>6. Faithful(k)'
  BY <1>3, <1>4 DEF Faithful
<1>7. AllSent' /\ OneStray'
  <2>1. \A i \in DOMAIN executed : executed[i] \in ToSet(sent)
    BY <1>3, LenProperties DEF Faithful, Typed, ToSet
  <2>2. QED BY <1>4, <2>1 DEF AllSent, OneStray
<1>8. CASE Receives
  <2>1. wire # <<>> /\ wire' = Tail(wire) /\ good'
    BY <1>4, <1>8 DEF Receives, ReceiveBody, ReceiveDigit, ReceiveIdle, Get, Stays
  <2>2. CASE rest # <<>> /\ c = Head(rest) /\ Coming(Tail(rest))'
    <3>1. Following(texts, k, Tail(rest))'
      BY <1>3, <1>4, <1>8, <2>2, FollowsOn
    <3>2. Following(sent, k, Tail(rest))'
      BY <1>1, <1>4, <3>1
    <3>3. QED BY <1>6, <2>1, <2>2, <3>2 DEF Whole
  <2>3. CASE fault.kind # "none" /\ Struck(rest)
    <3>1. fault.kind # "cut"
      BY <2>1, <2>3 DEF Struck
    <3>2. Hit /\ Hit'
      BY <1>4, <2>3, <3>1 DEF FaultType, Hit
    <3>3. CASE fault.kind = "damaged"
      <4>1. PICK x : x = fault.as
        OBVIOUS
      <4>2. rest # <<>> /\ Reads(wire, x, Tail(rest))
        BY <2>3, <3>3, <4>1 DEF Struck
      <4>3. Off(texts)' \/ Back(texts)'
        BY <1>3, <1>4, <1>8, <4>2, DamagedOff
      <4>4. Off(sent)' \/ Back(sent)'
        BY <1>1, <1>4, <4>3
      <4>5. QED BY <1>7, <3>2, <4>4 DEF Astray, Recovered
    <3>4. CASE fault.kind = "lost"
      <4>1. rest # <<>> /\ wire = Tail(rest)
        BY <2>3, <3>4 DEF Struck
      <4>2. Off(texts) \/ Back(texts)
        BY <1>3, <1>4, <4>1, LostOff
      <4>3. Off(texts)' \/ Back(texts)'
        BY <1>4, <4>2, OffReceives, BackReceives
      <4>4. Off(sent)' \/ Back(sent)'
        BY <1>1, <1>4, <4>3
      <4>5. QED BY <1>7, <3>2, <4>4 DEF Astray, Recovered
    <3>5. QED BY <3>2, <3>3, <3>4 DEF Hit
  <2>4. Befallen' = Befallen
    BY <1>4 DEF Befallen
  <2>5. QED BY <1>3, <1>4, <1>5, <2>1, <2>2, <2>3, <2>4, ComingOn
<1>9. CASE ReceiveEof
  <2>1. wire = <<>> /\ good' = FALSE /\ st' = "done" /\ msg' = msg /\ st # "done"
    BY <1>9 DEF ReceiveEof, Reading
  <2>2. CASE fault.kind = "none" /\ rest = <<>>
    <3>1. ~ IsBody(texts, rest) /\ ~ IsEscaped(texts, rest)
          /\ ~ IsHigh(texts, rest) /\ ~ IsLow(texts, rest)
      BY <1>4, <2>2, BodyNext, EscapedNext, SumNext
    <3>2. msg = <<>>
      BY <1>3, <1>4, <2>1, <3>1, FollowingPlaces
    <3>3. QED BY <1>4, <1>6, <2>1, <2>2, <3>2 DEF Ended
  <2>3. CASE fault.kind = "cut"
    <3>1. msg = <<>> \/ (k + 1 \in DOMAIN sent /\ IsPrefix(msg, sent[k + 1]))
      BY <1>1, <1>3, <1>4, FollowingPart
    <3>2. QED BY <1>4, <1>6, <2>1, <2>3, <3>1 DEF Ended
  <2>4. CASE fault.kind # "none" /\ fault.kind # "cut" /\ Struck(rest)
    <3>1. Hit'
      BY <1>4, <2>4 DEF FaultType, Hit
    <3>2. Off(sent)'
      BY <2>1 DEF Off
    <3>3. QED BY <1>7, <3>1, <3>2 DEF Astray
  <2>5. QED BY <1>3, <1>5, <2>1, <2>2, <2>3, <2>4, ComingEnd
<1>10. QED BY <1>8, <1>9 DEF Receive, Receives

\* A message served, in step.
LEMMA WholeServes ==
  ASSUME Typed, FaultType, Whole, Serve
  PROVE  Whole'
<1>1. PICK texts : texts = sent
  OBVIOUS
<1>2. PICK k \in Nat : \E rest : Faithful(k) /\ Following(sent, k, rest) /\ Coming(rest)
  BY DEF Whole
<1>3. PICK rest : Faithful(k) /\ Following(texts, k, rest) /\ Coming(rest)
  BY <1>1, <1>2
<1>4. /\ texts \in Seq(Seq(Char)) /\ sent' = sent /\ fault' = fault
      /\ wire' = wire /\ good /\ good'
  BY <1>1, TypedStep DEF Typed, Whole, Serve
<1>5. /\ k + 1 \in 1 .. Len(texts) /\ msg = texts[k + 1]
      /\ Following(texts, k + 1, rest)'
  BY <1>3, <1>4, FollowsServe
<1> DEFINE i == k + 1
<1>6. Faithful(i)'
  <2>1. /\ Len(executed) = k /\ Len(executed') = i /\ executed'[i] = msg
        /\ \A n \in 1 .. k : executed'[n] = executed[n]
    BY <1>3, Carried DEF Faithful
  <2>2. i \in DOMAIN sent /\ msg = sent[i]
    BY <1>1, <1>4, <1>5, LenProperties
  <2>3. \A n \in 1 .. i : n = i \/ n \in 1 .. k
    OBVIOUS
  <2> HIDE DEF i
  <2>4. QED BY <1>3, <1>4, <2>1, <2>2, <2>3 DEF Faithful
<1>7. Coming(rest)'
  BY <1>3, <1>4 DEF Coming, Broken, Befallen
<1>8. Following(sent, i, rest)' /\ i \in Nat
  BY <1>1, <1>4, <1>5
<1>9. QED BY <1>4, <1>6, <1>7, <1>8 DEF Whole

\* What the end of the stream left is served once.
LEMMA EndedServes ==
  ASSUME Typed, FaultType, Ended, Serve
  PROVE  Partial'
<1>1. PICK k \in Nat :
        /\ Faithful(k)
        /\ \/ msg = <<>>
           \/ fault.kind = "cut" /\ k + 1 \in DOMAIN sent /\ IsPrefix(msg, sent[k + 1])
  BY DEF Ended
<1>2. msg # <<>>
  BY EmptyUnsupported DEF Serve
<1>3. /\ Len(executed) = k /\ Len(executed') = k + 1 /\ executed'[k + 1] = msg
      /\ \A n \in 1 .. k : executed'[n] = executed[n]
  BY <1>1, Carried DEF Faithful
<1>4. /\ ~ good' /\ st' = "done" /\ msg' = <<>> /\ fault' = fault /\ sent' = sent
  BY TypedStep DEF Ended, Serve
<1>5. \A i \in 1 .. k : i \in DOMAIN sent' /\ executed'[i] = sent'[i]
  BY <1>1, <1>3, <1>4 DEF Faithful
<1>6. QED BY <1>1, <1>2, <1>3, <1>4, <1>5 DEF Partial

\* Out of step, at most one message that was not sent is served.
LEMMA StrayServes ==
  ASSUME Typed, Astray \/ Recovered, Serve
  PROVE  Recovered'
<1>1. PICK texts : texts = sent
  OBVIOUS
<1>2. texts \in Seq(Seq(Char)) /\ sent' = sent /\ fault' = fault
  BY <1>1, TypedStep DEF Typed
<1>3. Hit'
  BY <1>2 DEF Astray, Recovered, Hit
<1> DEFINE n == Len(executed)
<1>4. /\ n \in Nat /\ DOMAIN executed = 1 .. n /\ DOMAIN executed' = 1 .. n + 1
      /\ executed'[n + 1] = msg /\ \A i \in 1 .. n : executed'[i] = executed[i]
  BY Carried
<1>5. \A i \in 1 .. n + 1 : i = n + 1 \/ i \in 1 .. n
  BY <1>4
<1> HIDE DEF n
<1>6. CASE Astray
  <2>1. Back(texts)'
    BY <1>1, <1>2, <1>6, OffServes DEF Astray
  <2>2. \A i \in DOMAIN executed' : i # n + 1 => executed'[i] \in ToSet(sent')
    BY <1>2, <1>4, <1>5, <1>6 DEF Astray, AllSent
  <2>3. OneStray' /\ Back(sent)'
    BY <1>1, <1>2, <1>4, <2>1, <2>2 DEF OneStray
  <2>4. QED BY <1>3, <2>3 DEF Recovered
<1>7. CASE Recovered
  <2>1. Back(texts)' /\ msg \in ToSet(texts)
    BY <1>1, <1>2, <1>7, BackServes DEF Recovered
  <2>2. PICK b \in Nat : \A i \in DOMAIN executed : i # b => executed[i] \in ToSet(sent)
    BY <1>7 DEF Recovered, OneStray
  <2>3. \A i \in DOMAIN executed' : i # b => executed'[i] \in ToSet(sent')
    BY <1>1, <1>2, <1>4, <1>5, <2>1, <2>2
  <2>4. OneStray' /\ Back(sent)'
    BY <1>1, <1>2, <2>1, <2>3 DEF OneStray
  <2>5. QED BY <1>3, <2>4 DEF Recovered
<1>8. QED BY <1>6, <1>7

\* Out of step, what is read is not carried out.
LEMMA StrayReceives ==
  ASSUME Typed, Astray \/ Recovered, Receive
  PROVE  Astray' \/ Recovered'
<1>1. PICK texts : texts = sent
  OBVIOUS
<1>2. /\ texts \in Seq(Seq(Char)) /\ sent' = sent /\ fault' = fault
      /\ executed' = executed
  BY <1>1, TypedStep DEF Typed, Receive, ReceiveBody, ReceiveDigit,
    ReceiveIdle, ReceiveEof, Stays
<1>3. Hit' /\ (AllSent => AllSent') /\ (OneStray => OneStray')
  BY <1>2 DEF Astray, Recovered, Hit, AllSent, OneStray
<1>4. Off(texts) => Off(texts)'
  BY <1>2, OffReceives
<1>5. Back(texts) => Back(texts)'
  BY <1>2, BackReceives
<1>6. (Off(sent) => Off(sent)') /\ (Back(sent) => Back(sent)')
  BY <1>1, <1>2, <1>4, <1>5
<1>7. QED BY <1>3, <1>6 DEF Astray, Recovered

\* A turn of the session preserves its invariant.
LEMMA ServingStep ==
  ASSUME Serving, Receive \/ Serve
  PROVE  Serving'
<1>1. Typed' /\ FaultType'
  BY TypedStep DEF Serving, FaultType
<1>2. CASE Whole
  BY <1>1, <1>2, WholeReceives, WholeServes DEF Serving
<1>3. CASE Ended
  BY <1>1, <1>3, EndedServes DEF Serving, Ended, Receive, ReceiveBody, ReceiveDigit,
    ReceiveIdle, ReceiveEof, Get, Reading
<1>4. CASE Partial
  BY <1>1, <1>4, EmptyUnsupported DEF Serving, Partial, Serve, Receive, ReceiveBody,
    ReceiveDigit, ReceiveIdle, ReceiveEof, Get, Reading
<1>5. CASE Astray \/ Recovered
  BY <1>1, <1>5, StrayReceives, StrayServes DEF Serving
<1>6. QED BY <1>2, <1>3, <1>4, <1>5 DEF Serving

\* What is before and behind a place in a stream.
Before(chars, d) == SubSeq(chars, 1, d - 1)
After(chars, d)  == SubSeq(chars, d + 1, Len(chars))

\* A character between them, as it was or another.
LEMMA Split ==
  ASSUME NEW chars \in Seq(Char), NEW d \in DOMAIN chars
  PROVE  /\ Before(chars, d) \in Seq(Char) /\ After(chars, d) \in Seq(Char)
         /\ chars[d] \in Char
         /\ chars = Before(chars, d) \o (<<chars[d]>> \o After(chars, d))
         /\ \A y \in Char : [chars EXCEPT ![d] = y]
                              = Before(chars, d) \o (<<y>> \o After(chars, d))
<1> DEFINE L == Len(chars)
           b == Before(chars, d)
           a == After(chars, d)
<1>1. L \in Nat /\ d \in 1 .. L /\ \A i \in 1 .. L : chars[i] \in Char
  BY LenProperties, ElementOfSeq
<1>2. /\ b \in Seq(Char) /\ Len(b) = d - 1
      /\ \A i \in 1 .. d - 1 : b[i] = chars[i]
  <2>1. d - 1 \in Int /\ 1 \in Int /\ \A i \in 1 .. d - 1 : chars[i] \in Char
    BY <1>1
  <2>2. /\ b \in Seq(Char) /\ Len(b) = IF 1 <= d - 1 THEN d - 1 - 1 + 1 ELSE 0
        /\ \A i \in 1 .. d - 1 - 1 + 1 : b[i] = chars[1 + i - 1]
    BY <2>1, SubSeqProperties DEF Before
  <2> HIDE DEF b
  <2>3. Len(b) = d - 1
    BY <1>1, <2>2
  <2>4. \A i \in 1 .. d - 1 : i \in 1 .. d - 1 - 1 + 1 /\ 1 + i - 1 = i
    BY <1>1
  <2>5. QED BY <2>2, <2>3, <2>4
<1>3. /\ a \in Seq(Char) /\ Len(a) = L - d
      /\ \A i \in 1 .. L - d : a[i] = chars[d + i]
  <2>1. d + 1 \in Int /\ L \in Int /\ \A i \in d + 1 .. L : chars[i] \in Char
    BY <1>1
  <2>2. /\ a \in Seq(Char) /\ Len(a) = IF d + 1 <= L THEN L - (d + 1) + 1 ELSE 0
        /\ \A i \in 1 .. L - (d + 1) + 1 : a[i] = chars[d + 1 + i - 1]
    BY <2>1, SubSeqProperties DEF After
  <2> HIDE DEF a
  <2>3. Len(a) = L - d
    BY <1>1, <2>2
  <2>4. \A i \in 1 .. L - d : i \in 1 .. L - (d + 1) + 1 /\ d + 1 + i - 1 = d + i
    BY <1>1
  <2>5. QED BY <2>2, <2>3, <2>4
<1> HIDE DEF a, b
<1>4. ASSUME NEW s \in Seq(Char), Len(s) = L, NEW y \in Char,
             \A i \in 1 .. L : s[i] = IF i = d THEN y ELSE chars[i]
      PROVE  s = b \o (<<y>> \o a)
  <2> DEFINE e == <<y>>
             r == e \o a
             t == b \o r
  <2>1. e \in Seq(Char) /\ Len(e) = 1 /\ e[1] = y
    OBVIOUS
  <2> HIDE DEF e
  <2>2. /\ r \in Seq(Char) /\ Len(r) = 1 + (L - d)
        /\ \A i \in 1 .. 1 + (L - d) : r[i] = IF i <= 1 THEN e[i] ELSE a[i - 1]
    <3>1. /\ r \in Seq(Char) /\ Len(r) = Len(e) + Len(a)
          /\ \A i \in 1 .. Len(e) + Len(a) :
               r[i] = IF i <= Len(e) THEN e[i] ELSE a[i - Len(e)]
      BY <1>3, <2>1, ConcatProperties
    <3> HIDE DEF r
    <3>2. Len(e) = 1 /\ Len(a) = L - d
      BY <1>3, <2>1
    <3>3. QED BY <3>1, <3>2, Zenon
  <2> HIDE DEF r
  <2>3. /\ t \in Seq(Char) /\ Len(t) = (d - 1) + (1 + (L - d))
        /\ \A i \in 1 .. (d - 1) + (1 + (L - d)) :
             t[i] = IF i <= d - 1 THEN b[i] ELSE r[i - (d - 1)]
    <3>1. /\ t \in Seq(Char) /\ Len(t) = Len(b) + Len(r)
          /\ \A i \in 1 .. Len(b) + Len(r) :
               t[i] = IF i <= Len(b) THEN b[i] ELSE r[i - Len(b)]
      BY <1>2, <2>2, ConcatProperties
    <3> HIDE DEF t
    <3>2. Len(b) = d - 1 /\ Len(r) = 1 + (L - d)
      BY <1>2, <2>2
    <3>3. QED BY <3>1, <3>2, Zenon
  <2> HIDE DEF t
  <2>4. Len(t) = L
    BY <1>1, <2>3
  <2>5. ASSUME NEW i \in 1 .. L PROVE s[i] = t[i]
    <3>1. i \in 1 .. (d - 1) + (1 + (L - d))
      BY <1>1
    <3>2. CASE i <= d - 1
      <4>1. i \in 1 .. d - 1 /\ i # d
        BY <1>1, <3>2
      <4>2. t[i] = chars[i]
        BY <1>2, <2>3, <3>1, <3>2, <4>1
      <4>3. QED BY <1>4, <4>1, <4>2
    <3>3. CASE i = d
      <4>1. i - (d - 1) = 1 /\ ~ i <= d - 1 /\ 1 \in 1 .. 1 + (L - d)
        BY <1>1, <3>3
      <4>2. t[i] = y
        <5>1. t[i] = r[i - (d - 1)]
          BY <2>3, <3>1, <4>1
        <5>2. r[1] = e[1]
          BY <2>2, <4>1
        <5>3. QED BY <2>1, <4>1, <5>1, <5>2
      <4>3. QED BY <1>4, <3>3, <4>2
    <3>4. CASE i > d
      <4> DEFINE q == i - (d - 1)
      <4>1. /\ q \in 1 .. 1 + (L - d) /\ ~ q <= 1 /\ q - 1 \in 1 .. L - d
            /\ d + (q - 1) = i /\ ~ i <= d - 1 /\ i # d
        <5>1. L \in Nat /\ d \in Nat /\ i \in Nat /\ d >= 1 /\ i <= L /\ i > d
          BY <1>1, <3>4
        <5>2. q = i - d + 1 /\ q \in Int
          BY <5>1
        <5> HIDE DEF L, q
        <5>3. q - 1 \in 1 .. L - d /\ d + (q - 1) = i
          BY <5>1, <5>2
        <5>4. q \in 1 .. 1 + (L - d) /\ ~ q <= 1
          BY <5>1, <5>2
        <5>5. ~ i <= d - 1 /\ i # d
          BY <5>1
        <5>6. QED BY <5>3, <5>4, <5>5
      <4>2. t[i] = r[q]
        BY <2>3, <3>1, <4>1
      <4> HIDE DEF q
      <4>3. r[q] = chars[i]
        BY <1>3, <2>2, <4>1
      <4>4. QED BY <1>4, <4>1, <4>2, <4>3
    <3>5. QED BY <1>1, <3>2, <3>3, <3>4
  <2>6. s = t
    BY <1>4, <2>3, <2>4, <2>5, SeqEqual
  <2>7. QED BY <2>6 DEF t, r, e
<1>5. chars[d] \in Char /\ chars = b \o (<<chars[d]>> \o a)
  BY <1>1, <1>4
<1>6. ASSUME NEW y \in Char PROVE [chars EXCEPT ![d] = y] = b \o (<<y>> \o a)
  <2> DEFINE s == [chars EXCEPT ![d] = y]
  <2>1. /\ s \in Seq(Char) /\ Len(s) = L
        /\ \A i \in 1 .. L : s[i] = IF i = d THEN y ELSE chars[i]
    BY <1>1, ExceptSeq
  <2> HIDE DEF s
  <2>2. s = b \o (<<y>> \o a)
    BY <1>4, <2>1
  <2>3. QED BY <2>2 DEF s
<1>7. QED BY <1>2, <1>3, <1>5, <1>6 DEF a, b

\* A new connection: everything is still to come.
LEMMA OpenedServing ==
  ASSUME NEW texts \in Seq(Seq(Char)), NEW f \in Faults(Sent(texts)), NEW eof,
         Opened(texts, f, eof),
         st = "idle", msg = <<>>, csum = 0, executed = <<>>
  PROVE  Serving' /\ Whole'
<1> DEFINE chars == Sent(texts)
<1>1. /\ sent' = texts /\ fault' = f /\ good' = TRUE /\ wire' = Through(chars, f)
      /\ st' = "idle" /\ msg' = <<>> /\ csum' = 0 /\ executed' = <<>>
  BY DEF Opened
<1>2. chars = Behind(texts, 0) /\ chars \in Seq(Char) /\ 0 \in 0 .. Len(texts) /\ 0 \in Nat
  <2>1. 0 \in 0 .. Len(texts)
    BY LenProperties
  <2>2. QED BY <2>1, StreamLeft
<1>3. Following(texts, 0, chars)'
  BY <1>1, <1>2 DEF Following, Between
<1> HIDE DEF chars
<1>4. Faithful(0)'
  BY <1>1, EmptySeq DEF Faithful
<1>5. Following(sent, 0, chars)'
  BY <1>1, <1>3
<1>6. SUFFICES wire' \in Seq(Char) /\ FaultType' /\ Coming(chars)'
  <2>1. Whole'
    BY <1>1, <1>2, <1>4, <1>5, <1>6 DEF Whole
  <2>2. Typed'
    BY <1>1, <1>6, EmptySeq DEF Typed
  <2>3. QED BY <1>6, <2>1, <2>2 DEF Serving
<1>7. f \in [kind : {"none"}] \cup [kind : {"damaged"}, at : DOMAIN chars, as : Noise]
             \cup [kind : {"lost", "cut"}, at : DOMAIN chars]
  BY DEF Faults, chars
<1>8. CASE f.kind = "none"
  BY <1>1, <1>2, <1>8 DEF Through, Coming, FaultType
<1>9. CASE f.kind # "none"
  <2> DEFINE d == f.at
             b == Before(chars, d)
             a == After(chars, d)
  <2>1. /\ d \in DOMAIN chars /\ f.kind \in {"damaged", "lost", "cut"}
        /\ f.kind = "damaged" => f.as \in Char
    BY <1>7, <1>9, TransportAssumption
  <2>2. /\ b \in Seq(Char) /\ a \in Seq(Char) /\ chars[d] \in Char
        /\ chars = b \o (<<chars[d]>> \o a)
        /\ \A y \in Char : [chars EXCEPT ![d] = y] = b \o (<<y>> \o a)
    <3> HIDE DEF d
    <3>1. chars \in Seq(Char) /\ d \in DOMAIN chars
      BY <1>2, <2>1
    <3>2. QED BY <3>1, Split, Zenon
  <2>3. /\ f.kind = "damaged" => Through(chars, f) = [chars EXCEPT ![d] = f.as]
        /\ f.kind = "lost" => Through(chars, f) = b \o a
        /\ f.kind = "cut" => Through(chars, f) = b
    BY DEF Through, RemoveAt, Before, After
  <2> HIDE DEF d, b, a
  <2>4. wire' = Broken(b, a)' /\ wire' \in Seq(Char)
    <3>1. CASE f.kind = "damaged"
      <4>1. wire' = b \o (<<f.as>> \o a) /\ f.as \in Char
        BY <1>1, <2>1, <2>2, <2>3, <3>1
      <4>2. <<f.as>> \o a \in Seq(Char)
        BY <2>2, <4>1, Consed
      <4>3. b \o (<<f.as>> \o a) \in Seq(Char)
        BY <2>2, <4>2, Reassociate
      <4>4. QED BY <1>1, <3>1, <4>1, <4>3 DEF Broken
    <3>2. CASE f.kind = "lost"
      <4>1. b \o a \in Seq(Char)
        BY <2>2, Reassociate
      <4>2. QED BY <1>1, <2>3, <3>2, <4>1 DEF Broken
    <3>3. CASE f.kind = "cut"
      BY <1>1, <2>2, <2>3, <3>3 DEF Broken
    <3>4. QED BY <2>1, <3>1, <3>2, <3>3
  <2>5. Coming(chars)'
    <3>1. chars[d] = Befallen'
      BY <1>1 DEF Befallen, chars, d
    <3>2. QED BY <1>1, <2>1, <2>2, <2>4, <3>1 DEF Coming
  <2>6. FaultType'
    BY <1>1, <2>1 DEF FaultType
  <2>7. QED BY <2>4, <2>5, <2>6
<1>10. QED BY <1>8, <1>9

\* What is not touched stays as it is.
LEMMA ServingQuiet == ASSUME Serving, UNCHANGED session PROVE Serving'
<1>1. UNCHANGED <<sent, fault, wire, good, st, msg, csum, executed>>
  BY DEF session, stream
<1>2. Typed' /\ FaultType' /\ (Ended => Ended') /\ (Partial => Partial')
  BY <1>1 DEF Serving, Typed, FaultType, Ended, Partial, Faithful
<1>3. PICK texts : texts = sent
  OBVIOUS
<1>4. ASSUME NEW k, NEW rest, Following(texts, k, rest) PROVE Following(texts, k, rest)'
  BY <1>1, <1>4 DEF Following, Between, InBody, InEscape, InSum
<1>5. Whole => Whole'
  <2>1. ASSUME NEW k \in Nat, NEW rest,
               good, Faithful(k), Following(sent, k, rest), Coming(rest)
        PROVE  Whole'
    <3>1. Following(texts, k, rest)'
      BY <1>3, <1>4, <2>1
    <3>2. Following(sent, k, rest)'
      BY <1>1, <1>3, <3>1
    <3>3. good' /\ Faithful(k)' /\ Coming(rest)'
      BY <1>1, <2>1 DEF Faithful, Coming, Broken, Befallen
    <3>4. QED BY <3>2, <3>3 DEF Whole
  <2>2. QED BY <2>1 DEF Whole
<1>6. (Hit => Hit') /\ (AllSent => AllSent') /\ (OneStray => OneStray')
  BY <1>1 DEF Hit, AllSent, OneStray
<1>7. Off(sent) => Off(sent)'
  BY <1>1 DEF Off
<1>8. Back(sent) => Back(sent)'
  <2>1. ASSUME NEW k \in Nat, good, Following(sent, k, wire) PROVE Back(sent)'
    <3>1. PICK rest : rest = wire
      OBVIOUS
    <3>2. Following(texts, k, rest)'
      BY <1>3, <1>4, <2>1, <3>1
    <3>3. Following(sent, k, wire)'
      BY <1>1, <1>3, <3>1, <3>2
    <3>4. QED BY <1>1, <2>1, <3>3 DEF Back
  <2>2. QED BY <1>1, <2>1 DEF Back
<1>9. QED BY <1>2, <1>5, <1>6, <1>7, <1>8 DEF Serving, Astray, Recovered

\* What the actions of the process are to the session.
LEMMA Turns ==
  ASSUME [Next]_vars
  PROVE  \/ /\ UNCHANGED session
            /\ phase' = phase \/ (phase # "serving" /\ phase' # "serving")
         \/ phase = "serving" /\ phase' = phase /\ (Receive \/ Serve)
         \/ /\ phase = "accepting" /\ phase' = "serving"
            /\ \E texts \in Seq(Seq(Char)) :
                 \E f \in Faults(Sent(texts)), eof \in BOOLEAN : Opened(texts, f, eof)
<1>1. CASE set_ext_interface
  BY <1>1 DEF set_ext_interface, Ends
<1>2. CASE reset
  BY <1>2 DEF reset
<1>3. CASE \E irq_id \in {0, 1}, enable \in BOOLEAN : interrupt(irq_id, enable)
  BY <1>3 DEF interrupt, Ends
<1>4. CASE \E opt \in Options : run(opt)
  <2>1. UNCHANGED session /\ (phase' = phase \/ phase' \in {"cpu", "listening"})
    BY <1>4 DEF run, Ends
  <2>2. phase # "serving"
    BY <1>4 DEF run, App
  <2>3. QED BY <2>1, <2>2
<1>5. CASE get_total_insn_count
  BY <1>5 DEF get_total_insn_count, Ends
<1>6. CASE Listen
  BY <1>6 DEF Listen
<1>7. CASE PortRefused
  <2>1. UNCHANGED session /\ phase # "serving" /\ phase' # "serving"
    BY <1>7 DEF PortRefused
  <2>2. QED BY <2>1
<1>8. CASE Accept
  <2>1. phase = "accepting" /\ phase' = "serving"
    BY <1>8 DEF Accept
  <2>2. ASSUME NEW n \in 0 .. MaxPackets, NEW texts \in [1 .. n -> Payloads]
        PROVE  texts \in Seq(Seq(Char))
    <3>1. n \in Nat /\ Payloads \subseteq Seq(Char)
      BY FrontEndAssumption, TransportAssumption
    <3>2. texts \in [1 .. n -> Seq(Char)]
      BY <3>1
    <3>3. QED BY <3>1, <3>2
  <2>3. <<>> \in Seq(Seq(Char)) /\ [kind |-> "none"] \in Faults(Sent(<<>>))
    BY EmptySeq DEF Faults
  <2>4. \/ \E n \in 0 .. MaxPackets : \E texts \in [1 .. n -> Payloads] :
             \E f \in Faults(Sent(texts)), eof \in BOOLEAN : Opened(texts, f, eof)
        \/ Opened(<<>>, [kind |-> "none"], TRUE)
    BY <1>8, Zenon DEF Accept
  <2>5. \E texts \in Seq(Seq(Char)) :
          \E f \in Faults(Sent(texts)), eof \in BOOLEAN : Opened(texts, f, eof)
    BY <2>2, <2>3, <2>4, Zenon
  <2>6. QED BY <2>1, <2>5
<1>9. CASE Session
  BY <1>9 DEF Session
<1>10. CASE UNCHANGED vars
  BY <1>10 DEF vars
<1>11. QED
  BY <1>1, <1>2, <1>3, <1>4, <1>5, <1>6, <1>7, <1>8, <1>9, <1>10 DEF Next, Server, ContinueReturns

\* Every action of the process preserves the session's invariant.
LEMMA SessionStep == SessionInv /\ [Next]_vars => SessionInv'
<1> SUFFICES ASSUME SessionInv, [Next]_vars PROVE SessionInv'
  OBVIOUS
<1>1. ASSUME UNCHANGED session,
             phase' = phase \/ (phase # "serving" /\ phase' # "serving")
      PROVE  SessionInv'
  <2>1. UNCHANGED <<st, msg, csum, executed>>
    BY <1>1 DEF session
  <2>2. Serving => Serving'
    BY <1>1, ServingQuiet
  <2>3. QED BY <1>1, <2>1, <2>2 DEF SessionInv
<1>2. ASSUME phase = "serving", phase' = phase, Receive \/ Serve
      PROVE  SessionInv'
  BY <1>2, ServingStep DEF SessionInv
<1>3. ASSUME phase = "accepting", phase' = "serving",
             NEW texts \in Seq(Seq(Char)), NEW f \in Faults(Sent(texts)), NEW eof,
             Opened(texts, f, eof)
      PROVE  SessionInv'
  <2>1. st = "idle" /\ msg = <<>> /\ csum = 0 /\ executed = <<>>
    BY <1>3 DEF SessionInv
  <2>2. Serving'
    BY <1>3, <2>1, OpenedServing
  <2>3. QED BY <1>3, <2>2 DEF SessionInv
<1>4. QED BY <1>1, <1>2, <1>3, Turns

\* gdb_rcv_msg and the commands carried out are where the stream, and what befell
\* it, has brought them (gdb_rcv_msg, gdb_server::wait_and_run).
THEOREM SessionInvariance == Spec => []SessionInv
<1>1. Init => SessionInv
  BY DEF Init, SessionNone, SessionInv
<1>2. QED BY <1>1, SessionStep, PTL DEF Spec

\* What the invariant says of the commands.
LEMMA SessionExecutes ==
  ASSUME SessionInv
  PROVE  ExecutesWhatWasSent
<1>1. CASE executed = <<>>
  <2> DEFINE B == {k \in 1 .. Len(executed) : executed[k] \notin ToSet(sent)}
  <2>1. Len(executed) = 0
    BY <1>1, EmptySeq
  <2>2. /\ 1 .. Len(executed) = {} /\ ~ Len(executed) > 0
        /\ 1 .. Len(executed) - 1 = {}
    BY <2>1
  <2>3. B = {}
    BY <2>2
  <2> HIDE DEF B
  <2>4. Cardinality(B) <= 1
    BY <2>3, FS_EmptySet
  <2>5. QED BY <2>2, <2>4 DEF ExecutesWhatWasSent, B
<1>2. CASE Serving
  <2>1. executed \in Seq(Seq(Char)) /\ Len(executed) \in Nat
        /\ DOMAIN executed = 1 .. Len(executed)
    BY <1>2, LenProperties DEF Serving, Typed
  <2>2. ASSUME NEW k \in Nat, Faithful(k), fault.kind \in {"none", "cut"}
        PROVE  ExecutesWhatWasSent
    <3>1. Len(executed) = k /\ \A i \in 1 .. k : i \in DOMAIN sent /\ executed[i] = sent[i]
      BY <2>2 DEF Faithful
    <3>2. (\A i \in 1 .. k - 1 : i \in 1 .. k) /\ (k > 0 => k \in 1 .. k)
      OBVIOUS
    <3>3. QED BY <2>2, <3>1, <3>2 DEF ExecutesWhatWasSent
  <2>3. CASE Partial
    <3>1. PICK k \in Nat :
            /\ Len(executed) = k + 1
            /\ \A i \in 1 .. k : i \in DOMAIN sent /\ executed[i] = sent[i]
            /\ k + 1 \in DOMAIN sent /\ IsPrefix(executed[k + 1], sent[k + 1])
      BY <2>3 DEF Partial
    <3>2. (k + 1) - 1 = k
      OBVIOUS
    <3>3. fault.kind = "cut" /\ ~ good
      BY <2>3 DEF Partial
    <3>4. QED BY <3>1, <3>2, <3>3 DEF ExecutesWhatWasSent
  <2>4. ASSUME NEW b \in Nat, fault.kind \notin {"none", "cut"},
               \A i \in DOMAIN executed : i # b => executed[i] \in ToSet(sent)
        PROVE  ExecutesWhatWasSent
    <3> DEFINE B == {k \in 1 .. Len(executed) : executed[k] \notin ToSet(sent)}
    <3>1. B = {} \/ B = {b}
      BY <2>1, <2>4
    <3> HIDE DEF B
    <3>2. Cardinality({}) = 0 /\ Cardinality({b}) = 1
      BY FS_EmptySet, FS_Singleton
    <3>3. Cardinality(B) <= 1
      BY <3>1, <3>2
    <3>4. QED BY <2>4, <3>3 DEF ExecutesWhatWasSent, B
  <2>5. CASE Whole
    <3>1. PICK k \in Nat : Faithful(k)
      BY <2>5 DEF Whole
    <3>2. CASE fault.kind \in {"none", "cut"}
      BY <2>2, <3>1, <3>2
    <3>3. CASE fault.kind \notin {"none", "cut"}
      <4>1. \A i \in DOMAIN executed : i # 0 => executed[i] \in ToSet(sent)
        BY <2>1, <3>1 DEF Faithful, ToSet
      <4>2. QED BY <2>4, <3>3, <4>1
    <3>4. QED BY <3>2, <3>3
  <2>6. CASE Ended
    BY <2>2, <2>6 DEF Ended
  <2>7. CASE Astray
    <3>1. \A i \in DOMAIN executed : i # 0 => executed[i] \in ToSet(sent)
      BY <2>7 DEF Astray, AllSent
    <3>2. QED BY <2>4, <2>7, <3>1 DEF Astray, Hit
  <2>8. CASE Recovered
    BY <2>4, <2>8 DEF Recovered, OneStray, Hit
  <2>9. QED BY <1>2, <2>3, <2>5, <2>6, <2>7, <2>8 DEF Serving
<1>3. QED BY <1>1, <1>2 DEF SessionInv

\* The commands carried out are those that were sent, in order, whatever clients
\* send; the part of one that arrived, when the stream ends within it; and at most
\* one other, when a character is damaged or lost (gdb_rcv_msg, wait_and_run).
THEOREM ExecutesRightly == Spec => []ExecutesWhatWasSent
<1>1. SessionInv => ExecutesWhatWasSent
  BY SessionExecutes
<1>2. QED BY <1>1, SessionInvariance, PTL

-----------------------------------------------------------------------------
(* Replies.                                                                *)

\* The digits gdb_send_msg writes are those the client expects.
LEMMA SumWritten ==
  ASSUME NEW sum \in 0 .. 255
  PROVE  /\ get_csum(sum, 0) = Hex[(sum \div 16) + 1]
         /\ get_csum(sum, 1) = Hex[(sum % 16) + 1]
<1>1. ASSUME NEW n \in 0 .. 15
      PROVE  Hex[n + 1] = IF n > 9 THEN n + 87 ELSE n + 48
  <2>1. CASE n > 9
    <3>1. n + 1 \in 11 .. 16 /\ (n + 1) + 86 = n + 87
      BY <2>1
    <3>2. Hex[n + 1] = (n + 1) + 86
      BY <3>1, HexTable
    <3>3. QED BY <2>1, <3>1, <3>2
  <2>2. CASE ~ n > 9
    <3>1. n + 1 \in 1 .. 10 /\ (n + 1) + 47 = n + 48
      BY <2>2
    <3>2. Hex[n + 1] = (n + 1) + 47
      BY <3>1, HexTable
    <3>3. QED BY <2>2, <3>1, <3>2
  <2>3. QED BY <2>1, <2>2
<1> DEFINE h == sum \div 16
           l == sum % 16
<1>2. /\ h \in 0 .. 15 /\ l \in 0 .. 15
      /\ (sum \div 16) % 16 = h /\ (sum \div 1) % 16 = l
  OBVIOUS
<1>3. /\ get_csum(sum, 0) = IF h > 9 THEN h + 87 ELSE h + 48
      /\ get_csum(sum, 1) = IF l > 9 THEN l + 87 ELSE l + 48
  BY <1>2 DEF get_csum
<1> HIDE DEF h, l
<1>4. get_csum(sum, 0) = Hex[h + 1] /\ get_csum(sum, 1) = Hex[l + 1]
  BY <1>1, <1>2, <1>3
<1>5. QED BY <1>4 DEF h, l

\* A text that has nothing to be escaped is its own body.
LEMMA PlainBody ==
  ASSUME NEW text \in Seq(Char \ Special)
  PROVE  text \in Seq(Char) /\ Body(text) = text /\ SendCsum(text) = Sum8(text)
<1> DEFINE L == Len(text)
           s == CodedText(text)
           u == [k \in 0 .. L |-> SubSeq(text, k + 1, L)]
<1>1. L \in Nat /\ DOMAIN text = 1 .. L /\ text \in Seq(Char)
      /\ \A k \in 1 .. L : text[k] \in Char /\ text[k] \notin Special
  <2>1. L \in Nat /\ DOMAIN text = 1 .. L
        /\ \A k \in 1 .. L : text[k] \in Char \ Special
    BY LenProperties, ElementOfSeq
  <2>2. text \in Seq(Char)
    BY SeqMonotonic
  <2>3. QED BY <2>1, <2>2
<1>2. \A k \in 1 .. L : Coded(text[k]) = <<text[k]>>
  BY <1>1 DEF Coded
<1>3. s \in Seq(Seq(Char)) /\ Len(s) = L /\ \A k \in 1 .. L : s[k] = <<text[k]>>
  <2>1. \A k \in 1 .. L : s[k] = <<text[k]>>
    BY <1>1, <1>2 DEF CodedText
  <2>2. s \in [1 .. L -> Seq(Char)]
    <3>1. \A k \in 1 .. L : <<text[k]>> \in Seq(Char)
      BY <1>1
    <3>2. s = [k \in 1 .. L |-> Coded(text[k])]
      BY <1>1 DEF CodedText
    <3>3. QED BY <1>2, <3>1, <3>2
  <2> HIDE DEF s, L
  <2>3. s \in Seq(Seq(Char)) /\ Len(s) = L
    BY <1>1, <2>2
  <2>4. QED BY <2>1, <2>3
<1>4. Follow(u, s, Char, 0)
  <2>1. ASSUME NEW k \in 0 .. L PROVE SubSeq(text, k + 1, L) \in Seq(Char)
    <3>1. k + 1 \in Int /\ L \in Int /\ \A i \in k + 1 .. L : text[i] \in Char
      BY <1>1
    <3>2. QED BY <3>1, SubSeqProperties
  <2>2. u \in [0 .. L -> Seq(Char)]
    BY <2>1
  <2>3. u[L] = <<>>
    <3>1. L \in 0 .. L /\ L < L + 1 /\ L + 1 \in Int /\ L \in Int
      BY <1>1
    <3>2. u[L] = SubSeq(text, L + 1, L)
      BY <3>1
    <3>3. SubSeq(text, L + 1, L) = <<>>
      BY <3>1, SubSeqEmpty
    <3>4. QED BY <3>2, <3>3
  <2>4. ASSUME NEW k \in 1 .. L PROVE u[k - 1] = s[k] \o u[k]
    <3>1. k - 1 \in 0 .. L /\ k \in 0 .. L /\ (k - 1) + 1 = k /\ L \in k .. L
      BY <1>1
    <3>2. u[k - 1] = SubSeq(text, k, L) /\ u[k] = SubSeq(text, k + 1, L)
      BY <3>1
    <3> HIDE DEF u, s, L
    <3>3. SubSeq(text, k, L) = <<text[k]>> \o SubSeq(text, k + 1, L)
      BY <1>1, <3>1, SubSeqRecursiveFirst DEF L
    <3>4. QED BY <1>3, <3>2, <3>3
  <2> HIDE DEF u, s
  <2>5. 0 + 1 = 1
    OBVIOUS
  <2>6. QED BY <1>3, <2>2, <2>3, <2>4, <2>5 DEF Follow
<1>5. Body(text) = text
  <2>1. FlattenSeq(s) = u[0]
    <3> HIDE DEF u, s
    <3>1. QED BY <1>3, <1>4, FlattenFollow
  <2>2. u[0] = SubSeq(text, 1, L)
    BY <1>1
  <2>3. SubSeq(text, 1, L) = text
    BY <1>1, SubSeqFull
  <2>4. QED BY <2>1, <2>2, <2>3 DEF Body, CodedText
<1>6. [k \in DOMAIN text |-> Last(Coded(text[k]))] = text
  <2>1. \A k \in 1 .. L : Last(Coded(text[k])) = text[k]
    <3>1. ASSUME NEW x PROVE Last(<<x>>) = x
      BY DEF Last
    <3> HIDE DEF L
    <3>2. QED BY <1>2, <3>1
  <2>2. text = [k \in 1 .. L |-> text[k]]
    BY <1>1
  <2>3. QED BY <1>1, <2>1, <2>2
<1>7. QED BY <1>1, <1>5, <1>6 DEF SendCsum

\* What is between the '$' and the '#' of a packet.
LEMMA Unframed ==
  ASSUME NEW text \in Seq(Char), NEW h \in Char, NEW l \in Char, NEW reply,
         reply = <<Open>> \o text \o <<Close, h, l>>
  PROVE  SubSeq(reply, 2, Len(reply) - 3) = text
<1> DEFINE L == Len(text)
           p == <<Open>> \o text
           q == <<Close, h, l>>
           b == SubSeq(reply, 2, Len(reply) - 3)
<1>1. L \in Nat /\ \A i \in 1 .. L : text[i] \in Char
  BY LenProperties, ElementOfSeq
<1>2. /\ p \in Seq(Char) /\ Len(p) = 1 + L
      /\ \A i \in 1 .. 1 + L : p[i] = IF i <= 1 THEN <<Open>>[i] ELSE text[i - 1]
  <2>1. <<Open>> \in Seq(Char) /\ Len(<<Open>>) = 1
    BY Characters
  <2>2. QED BY <2>1, ConcatProperties
<1>3. q \in Seq(Char) /\ Len(q) = 3
  BY Characters
<1> HIDE DEF p, q
<1>4. reply = p \o q
  BY DEF p, q
<1>5. /\ reply \in Seq(Char) /\ Len(reply) = (1 + L) + 3
      /\ \A i \in 1 .. 1 + L : reply[i] = p[i]
  <2>1. /\ reply \in Seq(Char) /\ Len(reply) = Len(p) + Len(q)
        /\ \A i \in 1 .. Len(p) + Len(q) :
             reply[i] = IF i <= Len(p) THEN p[i] ELSE q[i - Len(p)]
    BY <1>2, <1>3, <1>4, ConcatProperties
  <2>2. \A i \in 1 .. 1 + L : i \in 1 .. (1 + L) + 3 /\ i <= 1 + L
    BY <1>1
  <2>3. QED BY <1>2, <1>3, <2>1, <2>2
<1>6. ASSUME NEW i \in 1 .. L PROVE reply[i + 1] = text[i]
  <2>1. i + 1 \in 1 .. 1 + L /\ ~ i + 1 <= 1 /\ (i + 1) - 1 = i
    BY <1>1
  <2>2. QED BY <1>2, <1>5, <2>1
<1>7. /\ b \in Seq(Char) /\ Len(b) = L
      /\ \A i \in 1 .. L : b[i] = reply[i + 1]
  <2> DEFINE n == Len(reply) - 3
  <2>1. n = L + 1 /\ n \in Int /\ \A i \in 2 .. n : reply[i] \in Char
    <3>1. n = L + 1
      BY <1>1, <1>5
    <3>2. \A i \in 2 .. n : i \in 1 .. Len(reply)
      BY <1>1, <1>5
    <3>3. QED BY <1>1, <1>5, <3>1, <3>2, ElementOfSeq
  <2>2. /\ b \in Seq(Char) /\ Len(b) = IF 2 <= n THEN n - 2 + 1 ELSE 0
        /\ \A i \in 1 .. n - 2 + 1 : b[i] = reply[2 + i - 1]
    BY <2>1, SubSeqProperties
  <2> HIDE DEF b, n
  <2>3. Len(b) = L /\ \A i \in 1 .. L : i \in 1 .. n - 2 + 1 /\ 2 + i - 1 = i + 1
    BY <1>1, <2>1, <2>2
  <2>4. QED BY <2>2, <2>3
<1> HIDE DEF b
<1>8. b = text
  BY <1>6, <1>7, SeqEqual
<1>9. QED BY <1>8 DEF b

\* A reply that has nothing to be escaped is a packet with its sum.
LEMMA WrittenVerifies ==
  ASSUME NEW text \in Seq(Char \ Special)
  PROVE  Verifies(Written(text))
<1> DEFINE sum == Sum8(text)
           h == Hex[(sum \div 16) + 1]
           l == Hex[(sum % 16) + 1]
           reply == <<Open>> \o text \o <<Close, h, l>>
<1>1. text \in Seq(Char) /\ Body(text) = text /\ SendCsum(text) = sum
  BY PlainBody
<1>2. sum \in 0 .. 255
  BY <1>1, Sum8Byte
<1>3. get_csum(sum, 0) = h /\ get_csum(sum, 1) = l
  BY <1>2, SumWritten
<1>4. Written(text) = reply /\ Framed(text) = reply
  BY <1>1, <1>3 DEF Written, Framed
<1>5. h \in Char /\ l \in Char
  <2>1. High(text) = h /\ Low(text) = l
    BY <1>1 DEF High, Low
  <2>2. QED BY <1>1, <2>1, SumDigits, HexDigits
<1> HIDE DEF h, l
<1>6. SubSeq(reply, 2, Len(reply) - 3) = text
  <2> HIDE DEF reply
  <2>1. reply = <<Open>> \o text \o <<Close, h, l>>
    BY DEF reply
  <2>2. QED BY <1>1, <1>5, <2>1, Unframed
<1>7. QED BY <1>4, <1>6 DEF Verifies

\* A reply is written as a whole.
Replied == out = <<>> \/ \E text \in Replies : out = Written(text)

\* Every reply of the server, whatever the target's state, is a packet the client
\* finds undamaged (gdb_send_msg, gdb_send_msg::get_csum).
THEOREM RepliesVerify == Spec => []ReplyVerifies
<1>1. Init => Replied
  BY DEF Init, SessionNone, Replied
<1>2. Replied /\ [Next]_vars => Replied'
  <2> SUFFICES ASSUME Replied, [Next]_vars PROVE Replied'
    OBVIOUS
  <2>1. CASE UNCHANGED out
    BY <2>1 DEF Replied
  <2>2. CASE Serve
    BY <2>2 DEF Serve, Replied
  <2>3. CASE Session
    BY <2>1, <2>2, <2>3 DEF Session, session, Receive, ReceiveBody, ReceiveDigit,
      ReceiveIdle, ReceiveEof, Stays
  <2>4. CASE ~ Session
    <3>1. CASE Accept
      BY <2>1, <3>1 DEF Accept, Opened
    <3>2. CASE set_ext_interface \/ reset \/ get_total_insn_count \/ Listen \/ PortRefused
      BY <2>1, <3>2 DEF set_ext_interface, reset, get_total_insn_count, Ends, Listen,
        PortRefused, session
    <3>3. CASE \E irq_id \in {0, 1}, enable \in BOOLEAN : interrupt(irq_id, enable)
      BY <2>1, <3>3 DEF interrupt, Ends, session
    <3>4. CASE \E opt \in Options : run(opt)
      BY <2>1, <3>4 DEF run, Ends, session
    <3>5. CASE UNCHANGED vars
      BY <2>1, <3>5 DEF vars, session
    <3>6. QED BY <2>4, <3>1, <3>2, <3>3, <3>4, <3>5 DEF Next, Server, ContinueReturns
  <2>5. QED BY <2>3, <2>4
<1>3. Replied => ReplyVerifies
  <2>1. \A text \in Replies : text \in Seq(Char \ Special)
    BY TransportAssumption
  <2>2. QED BY <2>1, WrittenVerifies DEF Replied, ReplyVerifies
<1>4. QED BY <1>1, <1>2, <1>3, PTL DEF Spec

-----------------------------------------------------------------------------
(* check_csum.                                                             *)

\* A sum and a character.
Added(sum, x) == (sum + x) % 256

\* A character more changes the sum by itself.
LEMMA SumAppend ==
  ASSUME NEW text \in Seq(Char), NEW x \in Char
  PROVE  Sum8(<<>>) = 0 /\ Sum8(Append(text, x)) = Added(Sum8(text), x)
<1> DEFINE L == Len(text)
           t == Append(text, x)
<1>1. /\ L \in Nat /\ t \in Seq(Char) /\ Len(t) = L + 1 /\ t[L + 1] = x
      /\ \A n \in 1 .. L : t[n] = text[n]
  BY AppendProperties, LenProperties
<1>2. Sum8(<<>>) = 0
  <2>1. <<>> \in Seq(Char) /\ Len(<<>>) = 0
    BY EmptySeq
  <2>2. PICK g : Sums(g, <<>>, Len(<<>>))
    BY <2>1, SumsExist
  <2>3. QED BY <2>1, <2>2, Sum8Last DEF Sums
<1> HIDE DEF t, L
<1>3. PICK g : Sums(g, t, L + 1)
  BY <1>1, SumsExist
<1> DEFINE h == [n \in 0 .. L |-> g[n]]
<1>4. Sums(h, text, L)
  <2>1. /\ g \in [0 .. L + 1 -> 0 .. 255] /\ g[0] = 0
        /\ \A n \in 1 .. L + 1 : g[n] = (g[n - 1] + t[n]) % 256
    BY <1>3 DEF Sums
  <2>2. h \in [0 .. L -> 0 .. 255] /\ h[0] = 0
    BY <1>1, <2>1
  <2>3. ASSUME NEW n \in 1 .. L PROVE h[n] = (h[n - 1] + text[n]) % 256
    <3>1. n \in 0 .. L /\ n - 1 \in 0 .. L /\ n \in 1 .. L + 1
      BY <1>1
    <3>2. h[n] = g[n] /\ h[n - 1] = g[n - 1]
      BY <3>1
    <3> HIDE DEF h
    <3>3. QED BY <1>1, <2>1, <3>1, <3>2
  <2> HIDE DEF h
  <2>4. QED BY <2>2, <2>3 DEF Sums
<1>5. Sum8(text) = g[L]
  <2>1. L \in 0 .. L
    BY <1>1
  <2>2. h[L] = g[L]
    BY <2>1
  <2> HIDE DEF h
  <2>3. QED BY <1>4, <2>2, Sum8Last DEF L
<1>6. Sum8(t) = (g[L] + x) % 256
  <2>1. L + 1 \in 1 .. L + 1 /\ (L + 1) - 1 = L
    BY <1>1
  <2>2. Sum8(t) = g[L + 1]
    BY <1>1, <1>3, Sum8Last
  <2>3. QED BY <1>1, <1>3, <2>1, <2>2 DEF Sums
<1>7. QED BY <1>2, <1>5, <1>6 DEF t, Added

\* So it does with a text's beginning.
LEMMA SumOfBeginning ==
  ASSUME NEW text \in Seq(Char), NEW j \in 1 .. Len(text)
  PROVE  /\ SubSeq(text, 1, j - 1) \in Seq(Char) /\ text[j] \in Char
         /\ Sum8(SubSeq(text, 1, j)) = Added(Sum8(SubSeq(text, 1, j - 1)), text[j])
<1>1. Len(text) \in Nat /\ \A i \in 1 .. Len(text) : text[i] \in Char
  BY LenProperties, ElementOfSeq
<1>2. SubSeq(text, 1, j - 1) \in Seq(Char)
  <2>1. j - 1 \in Int /\ \A i \in 1 .. j - 1 : text[i] \in Char
    BY <1>1
  <2>2. QED BY <2>1, SubSeqProperties
<1>3. SubSeq(text, 1, j) = Append(SubSeq(text, 1, j - 1), text[j])
  BY Collected
<1>4. QED BY <1>1, <1>2, <1>3, SumAppend

\* Sums that differ differ with a character more, and with another one.
LEMMA SumsDiffer ==
  /\ \A a, b \in 0 .. 255, x \in Char : a # b => Added(a, x) # Added(b, x)
  /\ \A a \in 0 .. 255, x, y \in Char : x # y => Added(a, x) # Added(a, y)
  /\ \A a \in 0 .. 255, x \in Char : x # 0 => Added(a, x) # a
<1>1. ASSUME NEW a \in 0 .. 255, NEW x \in Char
      PROVE  Added(a, x) = IF a + x < 256 THEN a + x ELSE a + x - 256
  BY DEF Added, Char
<1>2. \A x \in Char : x \in Int /\ 0 <= x /\ x < 256
  BY DEF Char
<1>3. ASSUME NEW a \in 0 .. 255, NEW b \in 0 .. 255, NEW x \in Char, a # b
      PROVE  Added(a, x) # Added(b, x)
  <2>1. /\ Added(a, x) = IF a + x < 256 THEN a + x ELSE a + x - 256
        /\ Added(b, x) = IF b + x < 256 THEN b + x ELSE b + x - 256
    BY <1>1
  <2>2. QED BY <1>2, <1>3, <2>1
<1>4. ASSUME NEW a \in 0 .. 255, NEW x \in Char, NEW y \in Char, x # y
      PROVE  Added(a, x) # Added(a, y)
  <2>1. /\ Added(a, x) = IF a + x < 256 THEN a + x ELSE a + x - 256
        /\ Added(a, y) = IF a + y < 256 THEN a + y ELSE a + y - 256
    BY <1>1
  <2>2. QED BY <1>2, <1>4, <2>1
<1>5. ASSUME NEW a \in 0 .. 255, NEW x \in Char, x # 0
      PROVE  Added(a, x) # a
  <2>1. Added(a, x) = IF a + x < 256 THEN a + x ELSE a + x - 256
    BY <1>1
  <2>2. QED BY <1>2, <1>5, <2>1
<1>6. QED BY <1>3, <1>4, <1>5

\* Texts that have nothing to be escaped.
Plain(texts) == \A k \in DOMAIN texts : ToSet(texts[k]) \cap Special = {}

\* They are sent as they are.
LEMMA PlainTexts ==
  ASSUME NEW texts \in Seq(Seq(Char)), Plain(texts), NEW k \in 1 .. Len(texts)
  PROVE  /\ Body(texts[k]) = texts[k]
         /\ \A j \in 1 .. Len(texts[k]) : texts[k][j] \in Char /\ texts[k][j] \notin Special
<1> DEFINE t == texts[k]
<1>1. /\ t \in Seq(Char) /\ Len(t) \in Nat /\ DOMAIN t = 1 .. Len(t)
      /\ \A j \in 1 .. Len(t) : t[j] \in Char
  BY PlaceTypes, LenProperties
<1>2. ToSet(t) \cap Special = {}
  <2>1. k \in DOMAIN texts
    BY LenProperties
  <2>2. QED BY <2>1 DEF Plain
<1> HIDE DEF t
<1>3. \A j \in 1 .. Len(t) : t[j] \in Char /\ t[j] \notin Special
  BY <1>1, <1>2 DEF ToSet
<1>4. t \in Seq(Char \ Special)
  <2> DEFINE L == Len(t)
  <2>1. L \in Nat /\ t = [j \in 1 .. L |-> t[j]]
    BY <1>1
  <2> HIDE DEF L
  <2>2. t \in [1 .. L -> Char \ Special]
    BY <1>3, <2>1 DEF L
  <2>3. QED BY <2>1, <2>2
<1>5. Body(t) = t
  BY <1>4, PlainBody
<1>6. QED BY <1>3, <1>5 DEF t

\* A message whose sum is not that of the text being read, of which what is left
\* of the stream is the rest: a character in it was damaged, lost, or the '$' of
\* the packet read in its place.
Misread(texts) ==
  \E i \in 1 .. Len(texts) :
    \/ st = "body" /\ csum = 0 /\ msg = <<>> /\ wire = AtOpen(texts, i)
    \/ /\ st = "body" /\ csum = 0
       /\ \E j \in 0 .. Len(texts[i]) :
            wire = AtBody(texts, i, j) /\ Sum8(msg) # Sum8(SubSeq(texts[i], 1, j))
    \/ /\ Sum8(msg) # Sum8(texts[i])
       /\ \/ st = "csum0" /\ csum = 0 /\ wire = AtHigh(texts, i)
          \/ st = "csum1" /\ csum = Sum8(texts[i]) \div 16 /\ wire = AtLow(texts, i)
          \/ st = "done" /\ csum = Sum8(texts[i]) /\ wire = Behind(texts, i)

\* A message that was sent, with one digit of its sum damaged or lost.
WrongSum(texts) ==
  /\ msg \in ToSet(texts)
  /\ \/ st \in {"csum0", "csum1"} /\ IsLow(texts, wire)
     \/ st \in {"csum1", "done"} /\ IsGap(texts, wire)

\* The fault is behind gdb_rcv_msg, and the sum is right only for what was sent.
Told(texts) ==
  \/ ~ good
  \/ \E k \in Nat : Following(texts, k, wire)
  \/ st = "idle" /\ msg = <<>> /\ csum = 0 /\ IsBody(texts, wire)
  \/ st = "done" /\ msg = <<>>
  \/ Misread(texts) \/ WrongSum(texts)

\* A character read of a message whose sum is not the text's.
LEMMA MisreadReceives ==
  ASSUME NEW texts \in Seq(Seq(Char)), Plain(texts), Misread(texts), Receives,
         msg \in Seq(Char)
  PROVE  Misread(texts)'
<1>1. /\ st # "done" /\ wire # <<>> /\ wire' = Tail(wire) /\ c = Head(wire)
  BY DEF Receives, ReceiveBody, ReceiveDigit, ReceiveIdle, Get, Reading, c
<1>2. PICK i \in 1 .. Len(texts) :
    \/ st = "body" /\ csum = 0 /\ msg = <<>> /\ wire = AtOpen(texts, i)
    \/ /\ st = "body" /\ csum = 0
       /\ \E j \in 0 .. Len(texts[i]) :
            wire = AtBody(texts, i, j) /\ Sum8(msg) # Sum8(SubSeq(texts[i], 1, j))
    \/ /\ Sum8(msg) # Sum8(texts[i])
       /\ \/ st = "csum0" /\ csum = 0 /\ wire = AtHigh(texts, i)
          \/ st = "csum1" /\ csum = Sum8(texts[i]) \div 16 /\ wire = AtLow(texts, i)
          \/ st = "done" /\ csum = Sum8(texts[i]) /\ wire = Behind(texts, i)
  BY DEF Misread
<1>3. /\ texts[i] \in Seq(Char) /\ Len(texts[i]) \in Nat
      /\ Body(texts[i]) = texts[i]
      /\ \A j \in 1 .. Len(texts[i]) : texts[i][j] \in Char /\ texts[i][j] \notin Special
  BY PlaceTypes, PlainTexts
<1>4. CASE st = "body"
  <2>1. ReceiveBody /\ csum' = csum
    BY <1>4 DEF Receives, ReceiveBody, ReceiveDigit, ReceiveIdle
  <2>2. CASE csum = 0 /\ msg = <<>> /\ wire = AtOpen(texts, i)
    <3>1. c = Open /\ wire' = AtBody(texts, i, 0)
      BY <1>1, <2>2, NextPlaces DEF Reads
    <3>2. st' = "body" /\ msg' = Append(<<>>, Open)
      BY <1>4, <2>1, <2>2, <3>1, Characters DEF ReceiveBody
    <3>3. Sum8(msg') = Added(0, Open) /\ Sum8(<<>>) = 0
      <4>1. <<>> \in Seq(Char) /\ Open \in Char
        BY EmptySeq, Characters
      <4>2. Sum8(<<>>) = 0 /\ Sum8(Append(<<>>, Open)) = Added(Sum8(<<>>), Open)
        BY <4>1, SumAppend
      <4>3. QED BY <3>2, <4>2
    <3>4. 0 \in 0 .. Len(texts[i]) /\ SubSeq(texts[i], 1, 0) = <<>>
      BY <1>3, Collected
    <3>5. Added(0, Open) # 0
      BY DEF Open, Added
    <3>6. Sum8(msg') # Sum8(SubSeq(texts[i], 1, 0))
      BY <3>3, <3>4, <3>5
    <3>7. QED BY <2>1, <2>2, <3>1, <3>2, <3>4, <3>6 DEF Misread
  <2>3. ASSUME csum = 0, NEW n \in 0 .. Len(texts[i]), wire = AtBody(texts, i, n),
               Sum8(msg) # Sum8(SubSeq(texts[i], 1, n))
        PROVE  Misread(texts)'
    <3>1. CASE n = Len(texts[i])
      <4>1. c = Close /\ wire' = AtHigh(texts, i)
        BY <1>1, <2>3, <3>1, NextPlaces DEF Reads
      <4>2. st' = "csum0" /\ msg' = msg
        BY <1>4, <2>1, <4>1, Characters DEF ReceiveBody
      <4>3. Sum8(msg') # Sum8(texts[i])
        BY <1>3, <2>3, <3>1, <4>2, Collected
      <4>4. QED BY <2>1, <2>3, <4>1, <4>2, <4>3 DEF Misread
    <3>2. CASE n # Len(texts[i])
      <4> DEFINE j == n + 1
      <4>1. j \in 1 .. Len(texts[i]) /\ j \in 0 .. Len(texts[i]) /\ j - 1 = n
        BY <1>3, <3>2
      <4> HIDE DEF j
      <4> DEFINE x == texts[i][j]
      <4>2. x \in Char /\ x \notin Special
        BY <1>3, <4>1
      <4>3. c = x /\ wire' = AtBody(texts, i, j)
        BY <1>1, <2>3, <4>1, <4>2, NextInBody DEF Reads
      <4> HIDE DEF x
      <4>4. st' = "body" /\ msg' = Append(msg, x)
        BY <1>4, <2>1, <4>2, <4>3 DEF ReceiveBody, Special
      <4>5. Sum8(msg') = Added(Sum8(msg), x) /\ Sum8(msg) \in 0 .. 255
        BY <4>2, <4>4, SumAppend, Sum8Byte
      <4>6. /\ Sum8(SubSeq(texts[i], 1, j)) = Added(Sum8(SubSeq(texts[i], 1, n)), x)
            /\ Sum8(SubSeq(texts[i], 1, n)) \in 0 .. 255
        BY <1>3, <4>1, SumOfBeginning, Sum8Byte DEF x
      <4>7. Sum8(msg') # Sum8(SubSeq(texts[i], 1, j))
        BY <2>3, <4>2, <4>5, <4>6, SumsDiffer
      <4>8. QED BY <2>1, <2>3, <4>1, <4>3, <4>4, <4>7 DEF Misread
    <3>3. QED BY <3>1, <3>2
  <2>4. QED BY <1>2, <1>4, <2>2, <2>3
<1>5. CASE st \in {"csum0", "csum1"}
  <2>1. /\ Sum8(msg) # Sum8(texts[i])
        /\ \/ st = "csum0" /\ csum = 0 /\ wire = AtHigh(texts, i)
           \/ st = "csum1" /\ csum = Sum8(texts[i]) \div 16 /\ wire = AtLow(texts, i)
    BY <1>2, <1>5
  <2>2. msg' = msg /\ csum' = (16 * csum + Digit(c)) % 256 /\ st' = AfterDigit(st)
    BY <1>5 DEF Receives, ReceiveBody, ReceiveDigit, ReceiveIdle
  <2>3. CASE st = "csum0"
    <3>1. c = High(texts[i]) /\ wire' = AtLow(texts, i)
      BY <1>1, <2>1, <2>3, NextPlaces DEF Reads
    <3>2. st' = "csum1" /\ csum' = Sum8(texts[i]) \div 16
      BY <1>3, <2>1, <2>2, <2>3, <3>1, SumValues DEF AfterDigit
    <3>3. QED BY <2>1, <2>2, <3>1, <3>2 DEF Misread
  <2>4. CASE st = "csum1"
    <3>1. c = Low(texts[i]) /\ wire' = Behind(texts, i)
      BY <1>1, <2>1, <2>4, NextPlaces DEF Reads
    <3>2. st' = "done" /\ csum' = Sum8(texts[i])
      BY <1>3, <2>1, <2>2, <2>4, <3>1, SumValues DEF AfterDigit
    <3>3. QED BY <2>1, <2>2, <3>1, <3>2 DEF Misread
  <2>5. QED BY <1>5, <2>3, <2>4
<1>6. QED BY <1>1, <1>2, <1>4, <1>5

\* The digits of a sum, one of them not as it was sent: there may be one too few.
LEMMA WrongSumReceives ==
  ASSUME NEW texts \in Seq(Seq(Char)), WrongSum(texts), Receives
  PROVE  WrongSum(texts)'
<1>1. /\ st # "done" /\ wire # <<>> /\ wire' = Tail(wire) /\ c = Head(wire)
  BY DEF Receives, ReceiveBody, ReceiveDigit, ReceiveIdle, Get, Reading, c
<1>2. /\ msg \in ToSet(texts) /\ st \in {"csum0", "csum1"}
      /\ IsLow(texts, wire) \/ (st = "csum1" /\ IsGap(texts, wire))
  BY <1>1 DEF WrongSum
<1>3. msg' = msg /\ Digit(c) # -1 /\ st' = AfterDigit(st)
  BY <1>2 DEF Receives, ReceiveBody, ReceiveDigit, ReceiveIdle
<1>4. ~ IsGap(texts, wire)
  BY <1>1, <1>3, GapNext, NoDigit
<1>5. IsGap(texts, wire')
  BY <1>1, <1>2, <1>4, SumNext
<1>6. st' \in {"csum1", "done"}
  BY <1>2, <1>3 DEF AfterDigit
<1>7. QED BY <1>2, <1>3, <1>5, <1>6 DEF WrongSum

\* Behind the fault, a character read leaves the sum as telling as it was.
LEMMA ToldReceives ==
  ASSUME NEW texts \in Seq(Seq(Char)), Plain(texts), Told(texts), Receive,
         msg \in Seq(Char)
  PROVE  Told(texts)'
<1>1. good /\ st # "done"
  BY DEF Receive, ReceiveBody, ReceiveDigit, ReceiveIdle, ReceiveEof, Get, Reading
<1>2. CASE ReceiveEof
  BY <1>2 DEF ReceiveEof, Told
<1>3. CASE Receives
  <2>1. wire # <<>> /\ wire' = Tail(wire) /\ c = Head(wire)
    BY <1>3 DEF Receives, ReceiveBody, ReceiveDigit, ReceiveIdle, Get, c
  <2>2. ASSUME NEW k \in Nat, Following(texts, k, wire) PROVE Told(texts)'
    <3>1. PICK rest : rest = wire
      OBVIOUS
    <3>2. Following(texts, k, rest) /\ rest # <<>> /\ c = Head(rest)
      BY <2>1, <2>2, <3>1
    <3>3. Following(texts, k, Tail(rest))'
      BY <1>3, <3>2, FollowsOn
    <3>4. wire' = Tail(rest)
      BY <2>1, <3>1
    <3>5. Following(texts, k, wire)'
      BY <3>3, <3>4
    <3>6. QED BY <3>5 DEF Told
  <2>3. CASE st = "idle" /\ msg = <<>> /\ csum = 0 /\ IsBody(texts, wire)
    <3>1. ReceiveIdle /\ csum' = csum
      BY <1>3, <2>3 DEF Receives, ReceiveBody, ReceiveDigit, ReceiveIdle
    <3>2. c # Open /\ (c = Plus => IsBody(texts, wire'))
      BY <2>1, <2>3, BodyNext, Characters DEF Special
    <3>3. \/ c = Plus /\ UNCHANGED <<st, msg>>
          \/ st' = "done" /\ msg' = msg
      BY <3>1, <3>2 DEF ReceiveIdle
    <3>4. QED BY <2>3, <3>1, <3>2, <3>3 DEF Told
  <2>4. QED BY <1>1, <1>3, <2>2, <2>3, MisreadReceives, WrongSumReceives DEF Told
<1>4. QED BY <1>2, <1>3 DEF Receive, Receives

\* Once it is carried out, gdb_rcv_msg is between packets.
LEMMA ToldServes ==
  ASSUME NEW texts \in Seq(Seq(Char)), Told(texts), Serve
  PROVE  Told(texts)'
<1>1. /\ st = "done" /\ msg # <<>> /\ msg' = <<>> /\ csum' = 0
      /\ wire' = wire /\ good' = good /\ st' = IF good THEN "idle" ELSE "done"
  BY EmptyUnsupported DEF Serve
<1>2. CASE ~ good
  BY <1>1, <1>2 DEF Told
<1>3. ASSUME good, IsGap(texts, wire) PROVE Told(texts)'
  <2>1. PICK k \in Nat : /\ k \in 0 .. Len(texts)
                        /\ \/ wire = Behind(texts, k)
                           \/ k < Len(texts) /\ wire = AtOpen(texts, k + 1)
    BY <1>3, GapPlace
  <2>2. Between(texts, k, wire)'
    BY <1>1, <1>3, <2>1 DEF Between
  <2>3. QED BY <2>2 DEF Told, Following
<1>4. ASSUME NEW k \in Nat, Following(texts, k, wire) PROVE IsGap(texts, wire)
  BY <1>1, <1>4, FollowingPlaces
<1>5. Misread(texts) => IsGap(texts, wire)
  <2>1. ASSUME NEW i \in 1 .. Len(texts) PROVE IsGap(texts, Behind(texts, i))
    <3>1. i \in 0 .. Len(texts)
      BY LenProperties
    <3>2. QED BY <3>1 DEF IsGap
  <2>2. QED BY <1>1, <2>1 DEF Misread
<1>6. WrongSum(texts) => IsGap(texts, wire)
  BY <1>1 DEF WrongSum
<1>7. QED BY <1>1, <1>2, <1>3, <1>4, <1>5, <1>6 DEF Told

\* A character that is lost, and weighs something.
LEMMA LostTold ==
  ASSUME NEW texts \in Seq(Seq(Char)), Plain(texts), NEW k \in Nat, NEW rest,
         Following(texts, k, rest), st # "done",
         rest # <<>>, Head(rest) \notin {0, Close}, wire = Tail(rest)
  PROVE  Told(texts)
<1> DEFINE i == k + 1
<1>1. CASE st = "idle"
  <2>1. msg = <<>> /\ csum = 0 /\ IsGap(texts, rest)
    BY <1>1, FollowingPlaces
  <2>2. CASE IsGap(texts, wire)
    <3>1. \E n \in Nat : Between(texts, n, wire)
      BY <1>1, <2>1, <2>2, GapPlace DEF Between
    <3>2. QED BY <3>1 DEF Told, Following
  <2>3. CASE IsBody(texts, wire)
    BY <1>1, <2>1, <2>3 DEF Told
  <2>4. QED BY <2>1, <2>2, <2>3, GapNext
<1>2. CASE st = "body"
  <2>1. InBody(texts, k, rest)
    BY <1>2 DEF Following, Between, InEscape, InSum
  <2>2. i \in 1 .. Len(texts) /\ csum = 0
    BY <2>1 DEF InBody
  <2>3. PICK n \in 0 .. Len(texts[i]) :
          rest = AtBody(texts, i, n) /\ msg = SubSeq(texts[i], 1, n)
    BY <2>1 DEF InBody
  <2> HIDE DEF i
  <2>4. texts[i] \in Seq(Char) /\ Len(texts[i]) \in Nat
    BY <2>2, PlaceTypes
  <2>5. n # Len(texts[i])
    BY <2>2, <2>3, NextPlaces DEF Reads
  <2> DEFINE j == n + 1
  <2>6. j \in 1 .. Len(texts[i]) /\ j \in 0 .. Len(texts[i]) /\ j - 1 = n
    BY <2>4, <2>5
  <2> HIDE DEF j
  <2>7. texts[i][j] \in Char /\ texts[i][j] \notin Special
    BY <2>2, <2>6, PlainTexts
  <2>8. Head(rest) = texts[i][j] /\ wire = AtBody(texts, i, j)
    BY <2>2, <2>3, <2>6, <2>7, NextInBody DEF Reads
  <2>9. /\ msg \in Seq(Char)
        /\ Sum8(SubSeq(texts[i], 1, j)) = Added(Sum8(msg), texts[i][j])
    BY <2>3, <2>4, <2>6, SumOfBeginning
  <2>10. Sum8(msg) # Sum8(SubSeq(texts[i], 1, j))
    BY <2>7, <2>8, <2>9, SumsDiffer, Sum8Byte
  <2>11. QED BY <1>2, <2>2, <2>6, <2>8, <2>10 DEF Told, Misread
<1>3. CASE st = "escaped"
  <2>1. InEscape(texts, k, rest)
    BY <1>3 DEF Following, Between, InBody, InSum
  <2>2. QED BY <2>1, PlainTexts DEF InEscape
<1>4. CASE st \in {"csum0", "csum1"}
  <2>1. InSum(texts, k, rest)
    BY <1>4 DEF Following, Between, InBody, InEscape
  <2>2. msg \in ToSet(texts)
    BY <2>1, LenProperties DEF InSum, ToSet
  <2>3. /\ st = "csum0" => IsHigh(texts, rest)
        /\ st = "csum1" => IsLow(texts, rest)
    BY <1>4, FollowingPlaces
  <2>4. QED BY <1>4, <2>2, <2>3, SumNext DEF Told, WrongSum
<1>5. QED BY <1>1, <1>2, <1>3, <1>4, FollowingPlaces

\* A character that is damaged and read, and leaves the packet its frame.
LEMMA DamagedTold ==
  ASSUME NEW texts \in Seq(Seq(Char)), Plain(texts), NEW k \in Nat, NEW rest, NEW x \in Char,
         Following(texts, k, rest), rest # <<>>, Head(rest) # Close, x \notin {Close, Esc},
         Reads(wire, x, Tail(rest)), Receives
  PROVE  Told(texts)'
<1> DEFINE r == Tail(rest)
           i == k + 1
<1>1. st # "done" /\ wire' = r /\ c = x
  BY DEF Receives, ReceiveBody, ReceiveDigit, ReceiveIdle, Get, Reading, c, Reads
<1>2. CASE st = "idle"
  <2>1. msg = <<>> /\ csum = 0 /\ IsGap(texts, rest)
    BY <1>2, FollowingPlaces
  <2>2. csum' = 0
    BY <1>2, <2>1 DEF Receives, ReceiveBody, ReceiveDigit, ReceiveIdle
  <2>3. \/ st' = "idle" /\ msg' = <<>> /\ x = Plus
        \/ st' = "done" /\ msg' = <<>>
        \/ st' = "body" /\ msg' = <<>>
    BY <1>1, <1>2, <2>1 DEF Receives, ReceiveBody, ReceiveDigit, ReceiveIdle
  <2>4. ASSUME IsGap(texts, r), st' = "idle", msg' = <<>> PROVE Told(texts)'
    <3>1. PICK n \in Nat : /\ n \in 0 .. Len(texts)
                           /\ \/ r = Behind(texts, n)
                              \/ n < Len(texts) /\ r = AtOpen(texts, n + 1)
      BY <2>4, GapPlace
    <3>2. Between(texts, n, wire)'
      BY <1>1, <2>2, <2>4, <3>1 DEF Between
    <3>3. QED BY <3>2 DEF Told, Following
  <2>5. ASSUME IsBody(texts, r), st' = "idle", msg' = <<>> PROVE Told(texts)'
    BY <1>1, <2>2, <2>5 DEF Told
  <2>6. ASSUME st' = "body", msg' = <<>> PROVE Told(texts)'
    <3>1. Between(texts, k, rest)
      BY <1>2 DEF Following, InBody, InEscape, InSum
    <3>2. k \in 0 .. Len(texts) /\ k # Len(texts)
      BY <3>1, StreamLeft DEF Between
    <3>3. i \in 1 .. Len(texts) /\ i - 1 = k
      BY <3>2, LenProperties
    <3>4. rest = Behind(texts, k) \/ rest = AtOpen(texts, i)
      BY <3>1 DEF Between
    <3> HIDE DEF i
    <3>5. \/ rest = AtOpen(texts, i) /\ Reads(rest, Open, AtBody(texts, i, 0))
          \/ Reads(rest, Plus, AtOpen(texts, i))
      BY <3>3, <3>4, NextPlaces
    <3>6. CASE Reads(rest, Plus, AtOpen(texts, i))
      BY <1>1, <2>2, <2>6, <3>3, <3>6 DEF Told, Misread, Reads
    <3>7. CASE Reads(rest, Open, AtBody(texts, i, 0))
      <4>1. 0 \in 0 .. Len(texts[i]) /\ SubSeq(texts[i], 1, 0) = <<>>
        BY <3>3, PlaceTypes, Collected
      <4>2. r = AtBody(texts, i, 0)
        BY <3>7 DEF Reads
      <4>3. InBody(texts, k, wire)'
        BY <1>1, <2>2, <2>6, <3>3, <4>1, <4>2 DEF InBody, i
      <4>4. QED BY <4>3 DEF Told, Following
    <3>8. QED BY <3>5, <3>6, <3>7
  <2>7. ASSUME st' = "done", msg' = <<>> PROVE Told(texts)'
    BY <2>7 DEF Told
  <2>8. IsGap(texts, r) \/ IsBody(texts, r)
    BY <2>1, GapNext
  <2> HIDE DEF r
  <2>9. QED BY <2>3, <2>4, <2>5, <2>6, <2>7, <2>8
<1>3. CASE st = "body"
  <2>1. InBody(texts, k, rest)
    BY <1>3 DEF Following, Between, InEscape, InSum
  <2>2. i \in 1 .. Len(texts) /\ csum = 0
    BY <2>1 DEF InBody
  <2>3. PICK n \in 0 .. Len(texts[i]) :
          rest = AtBody(texts, i, n) /\ msg = SubSeq(texts[i], 1, n)
    BY <2>1 DEF InBody
  <2> HIDE DEF i
  <2>4. texts[i] \in Seq(Char) /\ Len(texts[i]) \in Nat
    BY <2>2, PlaceTypes
  <2>5. n # Len(texts[i])
    BY <2>2, <2>3, NextPlaces DEF Reads
  <2> DEFINE j == n + 1
             y == texts[i][j]
  <2>6. j \in 1 .. Len(texts[i]) /\ j \in 0 .. Len(texts[i]) /\ j - 1 = n
    BY <2>4, <2>5
  <2> HIDE DEF j
  <2>7. y \in Char /\ y \notin Special
    BY <2>2, <2>6, PlainTexts
  <2>8. r = AtBody(texts, i, j)
    BY <2>2, <2>3, <2>6, <2>7, NextInBody DEF Reads
  <2>9. st' = "body" /\ csum' = 0 /\ msg' = Append(msg, x)
    BY <1>1, <1>3, <2>2 DEF Receives, ReceiveBody, ReceiveDigit, ReceiveIdle
  <2>10. /\ msg \in Seq(Char)
         /\ Sum8(SubSeq(texts[i], 1, j)) = Added(Sum8(msg), y)
    BY <2>3, <2>4, <2>6, SumOfBeginning
  <2>11. msg' = SubSeq(texts[i], 1, j) \/ x # y
    BY <2>3, <2>4, <2>6, <2>9, Collected
  <2> HIDE DEF y, r
  <2>12. CASE x = y
    <3>1. InBody(texts, k, wire)'
      BY <1>1, <2>2, <2>6, <2>8, <2>9, <2>11, <2>12 DEF InBody, i
    <3>2. QED BY <3>1 DEF Told, Following
  <2>13. CASE x # y
    <3>1. Sum8(msg') = Added(Sum8(msg), x) /\ Sum8(msg) \in 0 .. 255
      BY <2>9, <2>10, SumAppend, Sum8Byte
    <3>2. Sum8(msg') # Sum8(SubSeq(texts[i], 1, j))
      BY <2>7, <2>10, <2>13, <3>1, SumsDiffer
    <3>3. Misread(texts)'
      BY <1>1, <2>2, <2>6, <2>8, <2>9, <3>2 DEF Misread
    <3>4. QED BY <3>3 DEF Told
  <2>14. QED BY <2>12, <2>13
<1>4. CASE st = "escaped"
  <2>1. InEscape(texts, k, rest)
    BY <1>4 DEF Following, Between, InBody, InSum
  <2>2. QED BY <2>1, PlainTexts DEF InEscape
<1>5. CASE st \in {"csum0", "csum1"}
  <2>1. InSum(texts, k, rest)
    BY <1>5 DEF Following, Between, InBody, InEscape
  <2>2. msg \in ToSet(texts)
    BY <2>1, LenProperties DEF InSum, ToSet
  <2>3. /\ st = "csum0" => IsLow(texts, r)
        /\ st = "csum1" => IsGap(texts, r)
    BY <1>5, FollowingPlaces, SumNext
  <2>4. msg' = msg /\ st' = AfterDigit(st)
    BY <1>5 DEF Receives, ReceiveBody, ReceiveDigit, ReceiveIdle
  <2> HIDE DEF r
  <2>5. WrongSum(texts)'
    BY <1>1, <1>5, <2>2, <2>3, <2>4 DEF WrongSum, AfterDigit
  <2>6. QED BY <2>5 DEF Told
<1>6. QED BY <1>1, <1>2, <1>3, <1>4, <1>5, FollowingPlaces

\* Where the sum can tell, gdb_rcv_msg has not met the fault or it can.
Tells == phase = "serving" /\ Weighs /\ Hit => Whole \/ Told(sent)

\* A character read: as it was sent, or the one the fault befell.
LEMMA WholeTold ==
  ASSUME Typed, FaultType, Whole, Hit, Weighs, Receive
  PROVE  Whole' \/ Told(sent)'
<1>1. PICK texts : texts = sent
  OBVIOUS
<1>2. PICK k \in Nat : \E rest : Faithful(k) /\ Following(sent, k, rest) /\ Coming(rest)
  BY DEF Whole
<1>3. PICK rest : Faithful(k) /\ Following(texts, k, rest) /\ Coming(rest)
  BY <1>1, <1>2
<1>4. /\ texts \in Seq(Seq(Char)) /\ sent' = sent /\ fault' = fault
      /\ executed' = executed /\ Befallen' = Befallen /\ Plain(texts)
  BY <1>1, TypedStep DEF Typed, Receive, ReceiveBody, ReceiveDigit, ReceiveIdle,
    ReceiveEof, Stays, Befallen, Weighs, Plain
<1>5. rest \in Seq(Char)
  BY <1>3, <1>4, FollowingPlaces
<1>6. CASE ReceiveEof
  BY <1>6 DEF ReceiveEof, Told
<1>7. CASE Receives
  <2>1. wire # <<>> /\ wire' = Tail(wire) /\ good' /\ st # "done"
    BY <1>7 DEF Receives, ReceiveBody, ReceiveDigit, ReceiveIdle, Get, Reading, Stays
  <2>2. CASE rest # <<>> /\ c = Head(rest) /\ Coming(Tail(rest))'
    <3>1. Following(texts, k, Tail(rest))'
      BY <1>3, <1>4, <1>7, <2>2, FollowsOn
    <3>2. Following(sent, k, Tail(rest))' /\ Faithful(k)'
      BY <1>1, <1>3, <1>4, <3>1 DEF Faithful
    <3>3. QED BY <2>1, <2>2, <3>2 DEF Whole
  <2>3. CASE Struck(rest)
    <3>1. rest # <<>> /\ Head(rest) = Befallen
      BY <2>3 DEF Struck
    <3>2. CASE fault.kind = "damaged"
      <4>1. PICK x \in Char : x = fault.as
        BY <3>2 DEF FaultType
      <4>2. Reads(wire, x, Tail(rest)) /\ Head(rest) # Close /\ x \notin {Close, Esc}
        BY <2>3, <3>1, <3>2, <4>1 DEF Struck, Weighs
      <4>3. Told(texts)'
        BY <1>3, <1>4, <1>7, <3>1, <4>2, DamagedTold
      <4>4. QED BY <1>1, <1>4, <4>3
    <3>3. CASE fault.kind = "lost"
      <4>1. wire = Tail(rest) /\ Head(rest) \notin {0, Close}
        BY <2>3, <3>1, <3>3 DEF Struck, Weighs
      <4>2. Told(texts)
        BY <1>3, <1>4, <2>1, <3>1, <4>1, LostTold
      <4>3. Told(texts)'
        BY <1>4, <4>2, ToldReceives DEF Typed
      <4>4. QED BY <1>1, <1>4, <4>3
    <3>4. QED BY <3>2, <3>3 DEF Hit
  <2>4. QED BY <1>3, <1>4, <1>5, <2>1, <2>2, <2>3, ComingOn
<1>8. QED BY <1>6, <1>7 DEF Receive, Receives

\* Every action of the process keeps the sum as telling as it was.
LEMMA TellsStep == SessionInv /\ Tells /\ [Next]_vars => Tells'
<1> SUFFICES ASSUME SessionInv, Tells, [Next]_vars PROVE Tells'
  OBVIOUS
<1>1. ASSUME UNCHANGED session, phase' = phase PROVE Tells'
  <2>1. UNCHANGED <<sent, fault, wire, good, st, msg, csum, executed>>
    BY <1>1 DEF session, stream
  <2>2. (Weighs' => Weighs) /\ (Hit' => Hit)
    BY <2>1 DEF Weighs, Hit, Befallen
  <2>3. PICK texts : texts = sent
    OBVIOUS
  <2>4. ASSUME NEW k, NEW rest, Following(texts, k, rest) PROVE Following(texts, k, rest)'
    BY <2>1, <2>4 DEF Following, Between, InBody, InEscape, InSum
  <2>5. Whole => Whole'
    <3>1. ASSUME NEW k \in Nat, NEW rest,
                 good, Faithful(k), Following(texts, k, rest), Coming(rest)
          PROVE  Whole'
      <4>1. Following(texts, k, rest)'
        BY <2>4, <3>1
      <4>2. Following(sent, k, rest)'
        BY <2>1, <2>3, <4>1
      <4>3. good' /\ Faithful(k)' /\ Coming(rest)'
        BY <2>1, <3>1 DEF Faithful, Coming, Broken, Befallen
      <4>4. QED BY <4>2, <4>3 DEF Whole
    <3>2. QED BY <2>3, <3>1 DEF Whole
  <2>6. Told(sent) => Told(sent)'
    <3>1. ASSUME NEW k \in Nat, Following(texts, k, wire) PROVE Told(texts)'
      <4>1. PICK rest : rest = wire
        OBVIOUS
      <4>2. Following(texts, k, rest)'
        BY <2>4, <3>1, <4>1
      <4>3. Following(texts, k, wire)'
        BY <2>1, <4>1, <4>2
      <4>4. QED BY <4>3 DEF Told
    <3>2. Misread(texts) => Misread(texts)'
      BY <2>1 DEF Misread
    <3>3. WrongSum(texts) => WrongSum(texts)'
      BY <2>1 DEF WrongSum
    <3>4. Told(texts) => Told(texts)'
      BY <2>1, <3>1, <3>2, <3>3 DEF Told
    <3>5. QED BY <2>1, <2>3, <3>4
  <2>7. QED BY <1>1, <2>2, <2>5, <2>6 DEF Tells
<1>2. ASSUME phase = "serving", Receive \/ Serve PROVE Tells'
  <2>1. Typed /\ FaultType
    BY <1>2 DEF SessionInv, Serving
  <2>2. /\ sent \in Seq(Seq(Char)) /\ msg \in Seq(Char)
        /\ sent' = sent /\ fault' = fault
    BY <1>2, <2>1, TypedStep DEF Typed
  <2>3. (Weighs' => Weighs) /\ (Hit' => Hit)
    BY <2>2 DEF Weighs, Hit, Befallen
  <2>4. ASSUME Weighs, Hit PROVE Whole' \/ Told(sent)'
    <3>1. CASE Whole
      BY <1>2, <2>1, <2>4, <3>1, WholeServes, WholeTold
    <3>2. CASE Told(sent)
      <4>1. PICK texts : texts = sent
        OBVIOUS
      <4>2. Plain(texts) /\ texts \in Seq(Seq(Char)) /\ Told(texts)
        BY <2>2, <2>4, <3>2, <4>1 DEF Weighs, Plain
      <4>3. Told(texts)'
        BY <1>2, <2>2, <4>2, ToldReceives, ToldServes
      <4>4. QED BY <2>2, <4>1, <4>3
    <3>3. QED BY <1>2, <2>4, <3>1, <3>2 DEF Tells
  <2>5. QED BY <2>3, <2>4 DEF Tells
<1>3. ASSUME phase = "accepting",
             NEW texts \in Seq(Seq(Char)), NEW f \in Faults(Sent(texts)), NEW eof,
             Opened(texts, f, eof)
      PROVE  Tells'
  <2>1. st = "idle" /\ msg = <<>> /\ csum = 0 /\ executed = <<>>
    BY <1>3 DEF SessionInv
  <2>2. Whole'
    BY <1>3, <2>1, OpenedServing
  <2>3. QED BY <2>2 DEF Tells
<1>4. CASE phase' # "serving"
  BY <1>4 DEF Tells
<1>5. QED BY <1>1, <1>2, <1>3, <1>4, Turns

\* What check_csum would find of a message.
LEMMA SumTells == SessionInv /\ Tells => CheckWouldTell
<1> SUFFICES ASSUME SessionInv, Tells, st = "done", good, msg # <<>>
             PROVE  CheckWouldTell
  BY DEF CheckWouldTell
<1>1. phase = "serving" /\ Serving
  BY DEF SessionInv
<1>2. PICK texts : texts = sent
  OBVIOUS
<1>3. texts \in Seq(Seq(Char)) /\ msg \in Seq(Char)
  BY <1>1, <1>2 DEF Serving, Typed
<1>4. ASSUME NEW k \in Nat, NEW rest, Following(texts, k, rest)
      PROVE  /\ msg \in ToSet(sent) /\ csum = Sum8(Body(msg))
  <2>1. k + 1 \in 1 .. Len(texts) /\ msg = texts[k + 1] /\ csum = Sum8(Body(msg))
    BY <1>3, <1>4, FollowingPlaces
  <2>2. msg \in ToSet(texts)
    BY <2>1, <1>3, LenProperties DEF ToSet
  <2>3. QED BY <1>2, <2>1, <2>2
<1>5. Whole => msg \in ToSet(sent) /\ csum = Sum8(Body(msg))
  BY <1>2, <1>4 DEF Whole
<1>6. ToSet(msg) \cap Special = {} => Body(msg) = msg
  <2>1. ASSUME ToSet(msg) \cap Special = {} PROVE msg \in Seq(Char \ Special)
    <3> DEFINE L == Len(msg)
    <3>1. L \in Nat /\ DOMAIN msg = 1 .. L /\ \A j \in 1 .. L : msg[j] \in Char
      BY <1>3, LenProperties, ElementOfSeq
    <3>2. msg = [j \in 1 .. L |-> msg[j]]
      BY <1>3, <3>1
    <3> HIDE DEF L
    <3>3. \A j \in 1 .. L : msg[j] \in Char \ Special
      BY <2>1, <3>1 DEF ToSet
    <3>4. msg \in [1 .. L -> Char \ Special]
      BY <3>2, <3>3
    <3>5. QED BY <3>1, <3>4
  <2>2. QED BY <2>1, PlainBody
<1>7. CASE Hit
  <2>1. ASSUME Weighs, Sum8(msg) = csum PROVE msg \in ToSet(sent)
    <3>1. ASSUME Told(texts) PROVE msg \in ToSet(sent)
      <4>1. ~ Misread(texts)
        BY <2>1 DEF Misread
      <4>2. PICK rest : rest = wire
        OBVIOUS
      <4>3. WrongSum(texts) \/ \E k \in Nat : Following(texts, k, rest)
        BY <3>1, <4>1, <4>2 DEF Told
      <4>4. QED BY <1>2, <1>4, <4>3 DEF WrongSum
    <3>2. QED BY <1>1, <1>2, <1>5, <1>7, <2>1, <3>1 DEF Tells
  <2>2. QED BY <1>7, <2>1 DEF CheckWouldTell, check_csum, Hit
<1>8. CASE ~ Hit
  <2>1. Whole
    BY <1>1, <1>8 DEF Serving, Ended, Partial, Astray, Recovered
  <2>2. QED BY <1>5, <1>6, <2>1 DEF CheckWouldTell, check_csum
<1>9. QED BY <1>7, <1>8

\* check_csum would reject whatever was not sent, where a sum can tell, and of what
\* was sent and came undamaged only what has an escaped character (gdb_rcv_msg,
\* gdb_rcv_msg::check_csum, which wait_and_run does not call).
THEOREM ChecksTell == Spec => []CheckWouldTell
<1>1. Init => Tells
  BY DEF Init, Tells
<1>2. SessionInv /\ Tells => CheckWouldTell
  BY SumTells
<1>3. QED BY <1>1, <1>2, SessionInvariance, TellsStep, PTL DEF Spec
=============================================================================
