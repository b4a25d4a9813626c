------------------------- MODULE GdbSession_proofs -------------------------
(***************************************************************************)
(* A debugging session is an execution of the virtual machine: what is     *)
(* proved of OpenriscVm under any debugger holds under the GDB server. And *)
(* what the client believes of the machine is so: an invariant on what is  *)
(* on its way in the two directions of the connection.                     *)
(***************************************************************************)
EXTENDS GdbSession, OpenriscVm_proofs, SequenceTheorems

\* Every step of a session is a step of the machine, or leaves it alone.
LEMMA SessionStep == [SessionNext]_all => [Next]_vars
<1> SUFFICES ASSUME [SessionNext]_all PROVE Next \/ UNCHANGED vars
  OBVIOUS
<1>1. CASE Server
  <2>1. CASE ServeBreakPoint
    <3>1. PICK p \in BreakPackets : set_or_unset(p.cmd = "Z", p.addr)
      BY <2>1 DEF ServeBreakPoint
    <3>2. p.addr \in BreakAddrs
      BY DEF BreakPackets
    <3>3. SetBreakPoint(p.addr) \/ UnsetBreakPoint(p.addr)
      BY <3>1 DEF set_or_unset
    <3>4. QED BY <3>2, <3>3 DEF Next, Debugger
  <2>2. CASE ServeRun
    <3>1. PICK step \in BOOLEAN : run_continue(step)
      BY <2>2 DEF ServeRun
    <3>2. Step \/ Continue
      BY <3>1 DEF run_continue
    <3>3. QED BY <3>2 DEF Next, Debugger
  <2>3. CASE ReceiveAck \/ ServeQuery \/ ServeRegisters \/ ReplyStopped \/ Fail
    BY <2>3 DEF ReceiveAck, ServeQuery, ServeRegisters, ReplyStopped, Fail
  <2>4. QED BY <1>1, <2>1, <2>2, <2>3 DEF Server
<1>2. CASE Reads
  BY <1>2 DEF Reads, ReadAck, ReadReply
<1>3. ASSUME NEW p \in Packets, Send(p) PROVE UNCHANGED vars
  BY <1>3 DEF Send
<1>4. CASE PressCtrl_C \/ Disconnect
  BY <1>4 DEF PressCtrl_C, Disconnect
<1>5. CASE Target
  BY <1>5 DEF Target, Next, Engine
<1>6. CASE UNCHANGED all
  BY <1>6 DEF all
<1>7. QED
  BY <1>1, <1>2, <1>3, <1>4, <1>5, <1>6 DEF SessionNext

\* The session implements the machine's specification, fairness included.
THEOREM SessionImplementsVm == SessionSpec => Spec
<1>1. SessionInit => Init
  BY DEF SessionInit
<1>2. QED BY <1>1, SessionStep, PTL DEF SessionSpec, Spec

\* Under the GDB server, no instruction outside a delay slot executes while a
\* breakpoint is set on it.
THEOREM SessionHonoursBreakpoints == SessionSpec => []BreakpointHonoured
<1>1. QED BY SessionImplementsVm, BreakpointsHonoured, PTL

-----------------------------------------------------------------------------
(* Short sequences.                                                        *)

\* A queue of one element, with another behind it.
LEMMA AppendToOne ==
  ASSUME NEW a, NEW b
  PROVE  Append(<<a>>, b) = <<a, b>>
<1> DEFINE s == Append(<<a>>, b)
           t == <<a, b>>
<1>1. s \in Seq({a, b}) /\ t \in Seq({a, b}) /\ Len(s) = 2 /\ Len(t) = 2
  OBVIOUS
<1>2. s[1] = a /\ s[2] = b /\ t[1] = a /\ t[2] = b
  OBVIOUS
<1>3. \A i \in 1 .. Len(s) : s[i] = t[i]
  BY <1>1, <1>2
<1>4. s = t
  <2> HIDE DEF s, t
  <2> QED BY <1>1, <1>3, SeqEqual
<1>5. QED BY <1>4

\* A queue of two elements, with another behind them.
LEMMA AppendToTwo ==
  ASSUME NEW a, NEW b, NEW c
  PROVE  Append(<<a, b>>, c) = <<a, b, c>>
<1> DEFINE s == Append(<<a, b>>, c)
           t == <<a, b, c>>
<1>1. /\ s \in Seq({a, b, c}) /\ Len(s) = 3
      /\ t \in Seq({a, b, c}) /\ Len(t) = 3
  OBVIOUS
<1>2. /\ s[1] = a /\ s[2] = b /\ s[3] = c
      /\ t[1] = a /\ t[2] = b /\ t[3] = c
  OBVIOUS
<1>3. \A i \in 1 .. Len(s) : s[i] = t[i]
  BY <1>1, <1>2
<1>4. s = t
  <2> HIDE DEF s, t
  <2> QED BY <1>1, <1>3, SeqEqual
<1>5. QED BY <1>4

\* A queue of one element, with three more behind it.
LEMMA ThreeBehindOne ==
  ASSUME NEW a, NEW b, NEW c, NEW d
  PROVE  <<d>> \o <<a, b, c>> = <<d, a, b, c>>
<1> DEFINE s == <<d>> \o <<a, b, c>>
           t == <<d, a, b, c>>
           S == {a, b, c, d}
<1>1. s \in Seq(S) /\ t \in Seq(S) /\ Len(s) = 4 /\ Len(t) = 4
  OBVIOUS
<1>2. s[1] = d /\ s[2] = a /\ s[3] = b /\ s[4] = c
  OBVIOUS
<1>3. t[1] = d /\ t[2] = a /\ t[3] = b /\ t[4] = c
  OBVIOUS
<1>4. \A i \in 1 .. Len(s) : s[i] = t[i]
  BY <1>1, <1>2, <1>3
<1>5. s = t
  <2> HIDE DEF s, t
  <2> QED BY <1>1, <1>4, SeqEqual
<1>6. QED BY <1>5

-----------------------------------------------------------------------------
(* What is on its way.                                                     *)

\* The client's breakpoints are all of one type.
OneBreakType == \A s, t \in BreakTypes : s = t

\* The machine's breakpoints are at these places; in general they are those the
\* client has set; and what it remembers as the program counter is REG_PC.
BreaksAt(places) == OneBreakType => bps_by_addr = places
Agree   == BreaksAt(Places)
Current == view # Null => view = regs.PC

\* No reply is on its way: the last acknowledgement of the packet before is
\* there until the client takes it for that of this one.
NoReply ==
  to_client = IF acked \/ outstanding = [cmd |-> "q"] THEN <<>> ELSE <<Ack>>

\* Between packets.
WireIdle ==
  /\ ~ serving /\ state = "stopped" /\ outstanding = Null
  /\ to_server \in {<<>>, <<Ack>>, <<Ctrl_C, Ack>>}
  /\ to_client = <<Ack>>
  /\ Agree /\ Current

\* The server has not read the packet.
WireUnread ==
  /\ ~ serving /\ state = "stopped"
  /\ outstanding \in Packets \cup {Hangup}
  /\ \/ to_server \in {<<outstanding>>, <<Ack, outstanding>>,
                       <<Ctrl_C, Ack, outstanding>>}
     \/ /\ outstanding.cmd = "c" /\ acked
        /\ to_server \in {<<outstanding, Ctrl_C>>, <<Ack, outstanding, Ctrl_C>>}
  /\ NoReply
  /\ Agree /\ Current
  /\ outstanding.cmd = "z" => <<outstanding.type, outstanding.addr>> \in inserted

\* The server has read c or s and waits for the machine.
WireServing ==
  /\ serving
  /\ outstanding \in Packets /\ outstanding.cmd \in {"c", "s"}
  /\ to_server \in {<<>>, <<Ctrl_C>>}
  /\ NoReply
  /\ Agree

\* r is the reply on its way, and what it tells is so.
WireReply(r) ==
  /\ r.cmd = "$"
  /\ outstanding.cmd = "g" => r.pc = regs.PC
  /\ \/ to_client \in {<<Ack, r, Ack>>, <<Ack, Ack, r, Ack>>}
     \/ acked /\ to_client = <<r, Ack>>

\* The packet has been answered.
WireReplied ==
  /\ ~ serving /\ state = "stopped"
  /\ outstanding \in Packets
  /\ to_server \in {<<>>, <<Ctrl_C>>}
  /\ \E r : WireReply(r)
  /\ CASE outstanding.cmd = "Z" -> BreaksAt(Places \cup {outstanding.addr})
       [] outstanding.cmd = "z" ->
            /\ BreaksAt(Places \ {outstanding.addr})
            /\ <<outstanding.type, outstanding.addr>> \in inserted
       [] OTHER -> Agree
  /\ outstanding.cmd \notin {"c", "s"} => Current

Wire == WireIdle \/ WireUnread \/ WireServing \/ WireReplied

\* The server and the machine take turns, whether they are up or not.
Turns ==
  /\ ~ serving => state \in {"stopped", "aborted"}
  /\ serving => /\ alive
                /\ outstanding \in Packets /\ outstanding.cmd \in {"c", "s"}

SInv ==
  /\ SessionTypeOK
  /\ RunIsAcknowledged
  /\ Turns
  /\ Up => Wire

\* Packets are told from each other, and from what else travels, by cmd.
LEMMA PacketFacts ==
  ASSUME NEW p \in Packets
  PROVE  /\ p.cmd \in {"q", "g", "c", "s", "bad", "Z", "z"}
         /\ p # Ack /\ p # Hangup /\ p # Ctrl_C
         /\ p.cmd \in {"Z", "z"} <=> p \in BreakPackets
         /\ \A k \in {"q", "g", "c", "s", "bad"} : p.cmd = k => p = [cmd |-> k]
BY DEF Packets, BreakPackets, Ack, Hangup, Ctrl_C

\* The rest of what travels.
LEMMA OtherFacts ==
  /\ Ack # Hangup /\ Ack # Ctrl_C /\ Hangup # Ctrl_C
  /\ Ack.cmd = "+" /\ Hangup.cmd = "eof" /\ Ctrl_C.cmd = "int"
BY DEF Ack, Hangup, Ctrl_C

\* A packet the server reads is the one the client waits for, and nothing but
\* a Ctrl-C is behind it.
LEMMA Reading ==
  ASSUME SInv, NEW p \in Packets, Receive(p)
  PROVE  /\ WireUnread /\ outstanding = p
         /\ to_server' = <<>>
              \/ (p.cmd = "c" /\ acked /\ to_server' = <<Ctrl_C>>)
<1>1. /\ Up /\ ~ serving /\ Wire
      /\ to_server # <<>> /\ Head(to_server) = p /\ to_server' = Tail(to_server)
  BY DEF Receive, SInv
<1>2. p # Ack /\ p # Ctrl_C
  BY PacketFacts
<1>3. WireUnread
  <2>1. ~ WireServing
    BY <1>1 DEF WireServing
  <2>2. ~ WireIdle
    BY <1>1, <1>2 DEF WireIdle
  <2>3. ~ WireReplied
    BY <1>1, <1>2 DEF WireReplied
  <2>4. QED BY <1>1, <2>1, <2>2, <2>3 DEF Wire
<1>4. \/ to_server = <<outstanding>>
      \/ outstanding.cmd = "c" /\ acked /\ to_server = <<outstanding, Ctrl_C>>
  BY <1>1, <1>2, <1>3 DEF WireUnread
<1>5. CASE to_server = <<outstanding>>
  BY <1>1, <1>3, <1>5
<1>6. CASE outstanding.cmd = "c" /\ acked /\ to_server = <<outstanding, Ctrl_C>>
  BY <1>1, <1>3, <1>6
<1>7. QED BY <1>4, <1>5, <1>6

\* What the server sends follows at most one acknowledgement.
LEMMA Answering ==
  ASSUME NoReply, NEW r
  PROVE  to_client \o Replied(r) \in {<<Ack, r, Ack>>, <<Ack, Ack, r, Ack>>}
<1>1. CASE to_client = <<>>
  BY <1>1 DEF Replied
<1>2. CASE to_client = <<Ack>>
  BY <1>2, ThreeBehindOne DEF Replied
<1>3. QED BY <1>1, <1>2 DEF NoReply

\* No queue to the server of these forms is longer than three.
LEMMA ShortLength ==
  ASSUME NEW a, NEW b, NEW c
  PROVE  \A s \in {<<a>>, <<b, a>>, <<c, b, a>>} : Len(s) =< 3
<1> SUFFICES ASSUME NEW s \in {<<a>>, <<b, a>>, <<c, b, a>>} PROVE Len(s) =< 3
  OBVIOUS
<1>1. CASE s = <<a>>
  BY <1>1
<1>2. CASE s = <<b, a>>
  BY <1>2
<1>3. CASE s = <<c, b, a>>
  BY <1>3
<1>4. QED BY <1>1, <1>2, <1>3

\* Its length.
LEMMA AnswerLength ==
  ASSUME NEW r, NEW s \in {<<Ack, r, Ack>>, <<Ack, Ack, r, Ack>>}
  PROVE  Len(s) =< 4
<1>1. CASE s = <<Ack, r, Ack>>
  BY <1>1
<1>2. CASE s = <<Ack, Ack, r, Ack>>
  BY <1>2
<1>3. QED BY <1>1, <1>2

\* What travels to the server.
Travels == Packets \cup {Ack, Hangup, Ctrl_C}

\* Reading leaves a shorter queue of what travels, and nothing or a Ctrl-C is one.
LEMMA QueueTypes ==
  /\ \A s \in Seq(Travels) : s # <<>> =>
       /\ Tail(s) \in Seq(Travels)
       /\ Len(s) =< 3 => Len(Tail(s)) =< 3
  /\ \A s \in {<<>>, <<Ctrl_C>>} : s \in Seq(Travels) /\ Len(s) =< 2
<1>1. ASSUME NEW s \in Seq(Travels), s # <<>>
      PROVE  Tail(s) \in Seq(Travels) /\ (Len(s) =< 3 => Len(Tail(s)) =< 3)
  <2>1. Tail(s) \in Seq(Travels) /\ Len(Tail(s)) = Len(s) - 1 /\ Len(s) \in Nat
    BY <1>1, HeadTailProperties, LenProperties
  <2>2. QED BY <2>1
<1>2. <<>> \in Seq(Travels) /\ Len(<<>>) = 0
  OBVIOUS
<1>3. <<Ctrl_C>> \in Seq(Travels) /\ Len(<<Ctrl_C>>) = 1
  BY DEF Travels
<1>4. QED BY <1>1, <1>2, <1>3

-----------------------------------------------------------------------------
(* The server's steps.                                                     *)

\* The server reads an acknowledgement.
LEMMA ReceiveAckInvariant == SInv /\ ReceiveAck => SInv'
<1> SUFFICES ASSUME SInv, ReceiveAck PROVE SInv'
  OBVIOUS
<1>1. /\ Up /\ ~ serving /\ Wire
      /\ to_server # <<>> /\ Head(to_server) = Ack
      /\ to_server' = Tail(to_server)
      /\ UNCHANGED <<vars, to_client, serving, alive, client, ran>>
  BY DEF SInv, ReceiveAck, Receive
<1>2. UNCHANGED <<state, regs, bps_by_addr, outstanding, acked, inserted, view>>
  BY <1>1 DEF vars, engine, client
<1>3. SessionTypeOK' /\ RunIsAcknowledged' /\ Turns'
  <2>1. to_server' \in Seq(Packets \cup {Ack, Hangup, Ctrl_C}) /\ Len(to_server') =< 3
    BY <1>1, QueueTypes DEF SInv, SessionTypeOK, Travels
  <2>2. SessionTypeOK'
    BY <1>1, <1>2, <2>1 DEF SInv, SessionTypeOK
  <2>3. QED BY <1>1, <1>2, <2>2 DEF SInv, RunIsAcknowledged, Turns
<1>4. CASE WireIdle
  <2>1. to_server = <<Ack>>
    BY <1>1, <1>4, OtherFacts DEF WireIdle
  <2>2. to_server' = <<>>
    BY <1>1, <2>1
  <2>3. WireIdle'
    BY <1>1, <1>2, <1>4, <2>2 DEF WireIdle, Agree, BreaksAt, Current, Places
  <2>4. QED BY <1>3, <2>3 DEF SInv, Wire
<1>5. CASE WireUnread
  <2>1. outstanding # Ack
    BY <1>5, PacketFacts, OtherFacts DEF WireUnread
  <2>2. \/ to_server = <<Ack, outstanding>>
        \/ /\ outstanding.cmd = "c" /\ acked
           /\ to_server = <<Ack, outstanding, Ctrl_C>>
    BY <1>1, <1>5, <2>1, OtherFacts DEF WireUnread
  <2>3. \/ to_server' = <<outstanding>>
        \/ outstanding.cmd = "c" /\ acked /\ to_server' = <<outstanding, Ctrl_C>>
    <3>1. CASE to_server = <<Ack, outstanding>>
      BY <1>1, <3>1
    <3>2. CASE /\ outstanding.cmd = "c" /\ acked
               /\ to_server = <<Ack, outstanding, Ctrl_C>>
      BY <1>1, <3>2
    <3>3. QED BY <2>2, <3>1, <3>2
  <2>4. WireUnread'
    BY <1>1, <1>2, <1>5, <2>3 DEF WireUnread, NoReply, Agree, BreaksAt, Current, Places
  <2>5. QED BY <1>3, <2>4 DEF SInv, Wire
<1>6. ~ WireServing /\ ~ WireReplied
  BY <1>1, OtherFacts DEF WireServing, WireReplied
<1>7. QED BY <1>1, <1>4, <1>5, <1>6 DEF Wire

\* A packet is read and answered: common to the packets that are answered at
\* once, whatever they do to the breakpoints.
LEMMA AnswerInvariant ==
  ASSUME SInv, NEW p \in Packets, p.cmd \notin {"c", "s"}, Receive(p),
         NEW r, r.cmd = "$", p.cmd = "g" => r.pc = regs.PC,
         Answer(r),
         UNCHANGED <<state, regs, serving, alive, client, ran>>,
         bps_by_addr' = CASE p.cmd = "Z" -> bps_by_addr \cup {p.addr}
                          [] p.cmd = "z" -> bps_by_addr \ {p.addr}
                          [] OTHER -> bps_by_addr
  PROVE  SInv'
<1>1. /\ WireUnread /\ outstanding = p /\ to_server' = <<>>
      /\ ~ serving /\ to_server' = Tail(to_server) /\ to_server # <<>>
  BY Reading DEF Receive
<1>2. UNCHANGED <<outstanding, acked, inserted, view>>
  BY DEF client
<1>3. to_client' \in {<<Ack, r, Ack>>, <<Ack, Ack, r, Ack>>}
  BY <1>1, Answering DEF Answer, WireUnread
<1>4. SessionTypeOK' /\ RunIsAcknowledged' /\ Turns'
  <2>1. to_server' \in Seq(Packets \cup {Ack, Hangup, Ctrl_C}) /\ Len(to_server') =< 3
    BY <1>1
  <2>2. Len(to_client') =< 4
    BY <1>3, AnswerLength
  <2>3. QED
    BY <1>1, <1>2, <2>1, <2>2 DEF SInv, SessionTypeOK, RunIsAcknowledged, Turns
<1>5. WireReply(r)'
  BY <1>1, <1>2, <1>3 DEF WireReply
<1>6. WireReplied'
  <2>1. BreaksAt(Places) /\ Places' = Places /\ Current'
    BY <1>1, <1>2 DEF WireUnread, Agree, BreaksAt, Current, Places
  <2>2. /\ ~ serving' /\ state' = "stopped"
        /\ p.cmd = "z" => <<p.type, p.addr>> \in inserted
    BY <1>1 DEF WireUnread
  <2>3. CASE p.cmd = "Z"
    BY <1>1, <1>2, <1>5, <2>1, <2>2, <2>3 DEF WireReplied, BreaksAt
  <2>4. CASE p.cmd = "z"
    BY <1>1, <1>2, <1>5, <2>1, <2>2, <2>4 DEF WireReplied, BreaksAt
  <2>5. CASE p.cmd \notin {"Z", "z"}
    <3>1. bps_by_addr' = bps_by_addr
      BY <2>5
    <3>2. QED
      BY <1>1, <1>2, <1>5, <2>1, <2>2, <2>5, <3>1 DEF WireReplied, Agree, BreaksAt
  <2>6. QED BY <2>3, <2>4, <2>5
<1>7. QED BY <1>4, <1>6 DEF SInv, Wire

\* A query is answered with a constant.
LEMMA ServeQueryInvariant == SInv /\ ServeQuery => SInv'
<1> SUFFICES ASSUME SInv, ServeQuery PROVE SInv'
  OBVIOUS
<1> DEFINE p == [cmd |-> "q"]
           r == [cmd |-> "$"]
<1>1. p \in Packets /\ p.cmd = "q" /\ r.cmd = "$"
  BY DEF Packets
<1>2. /\ Receive(p) /\ Answer(r)
      /\ UNCHANGED <<state, regs, bps_by_addr, serving, alive, client, ran>>
  BY DEF ServeQuery, vars, engine
<1> HIDE DEF p, r
<1>3. QED BY <1>1, <1>2, AnswerInvariant

\* The registers are read while nothing executes.
LEMMA ServeRegistersInvariant == SInv /\ ServeRegisters => SInv'
<1> SUFFICES ASSUME SInv, ServeRegisters PROVE SInv'
  OBVIOUS
<1> DEFINE p == [cmd |-> "g"]
           r == [cmd |-> "$", pc |-> regs.PC]
<1>1. p \in Packets /\ p.cmd = "g" /\ r.cmd = "$" /\ r.pc = regs.PC
  BY DEF Packets
<1>2. /\ Receive(p) /\ Answer(r)
      /\ UNCHANGED <<state, regs, bps_by_addr, serving, alive, client, ran>>
  BY DEF ServeRegisters, vars, engine
<1> HIDE DEF p, r
<1>3. QED BY <1>1, <1>2, AnswerInvariant

\* A breakpoint is set or removed, unless the machine aborts because there is
\* none to remove.
LEMMA ServeBreakPointInvariant == SInv /\ ServeBreakPoint => SInv'
<1> SUFFICES ASSUME SInv, ServeBreakPoint PROVE SInv'
  OBVIOUS
<1> DEFINE r == [cmd |-> "$"]
<1>1. PICK p \in BreakPackets :
        /\ Receive(p)
        /\ set_or_unset(p.cmd = "Z", p.addr)
        /\ IF state' = "aborted" THEN UNCHANGED to_client ELSE Answer(r)
        /\ UNCHANGED <<serving, alive, client, ran>>
  BY DEF ServeBreakPoint
<1>2. p \in Packets /\ p.cmd \in {"Z", "z"}
  BY DEF Packets, BreakPackets
<1>3. WireUnread /\ outstanding = p /\ to_server' = <<>> /\ ~ serving
  BY <1>1, <1>2, Reading DEF Receive
<1>4. CASE state' = "aborted"
  <2>1. ~ Up' /\ to_client' = to_client
        /\ UNCHANGED <<outstanding, acked, inserted, view>>
    BY <1>1, <1>4 DEF Up, client
  <2>2. to_server' \in Seq(Packets \cup {Ack, Hangup, Ctrl_C}) /\ Len(to_server') =< 3
    BY <1>3
  <2>3. SessionTypeOK'
    BY <1>1, <2>1, <2>2 DEF SInv, SessionTypeOK
  <2>4. RunIsAcknowledged' /\ Turns'
    BY <1>1, <1>3, <1>4, <2>1 DEF RunIsAcknowledged, Turns
  <2>5. QED BY <2>1, <2>3, <2>4 DEF SInv
<1>5. CASE state' # "aborted"
  <2>1. /\ state' = state /\ regs' = regs
        /\ bps_by_addr' = IF p.cmd = "Z" THEN bps_by_addr \cup {p.addr}
                          ELSE bps_by_addr \ {p.addr}
    <3>1. CASE p.cmd = "Z"
      BY <1>1, <3>1 DEF set_or_unset, SetBreakPoint, engine
    <3>2. CASE p.cmd = "z"
      BY <1>1, <1>5, <3>2 DEF set_or_unset, UnsetBreakPoint, Abort, engine
    <3>3. QED BY <1>2, <3>1, <3>2
  <2>2. Answer(r) /\ r.cmd = "$"
    BY <1>1, <1>5
  <2>3. bps_by_addr' = CASE p.cmd = "Z" -> bps_by_addr \cup {p.addr}
                         [] p.cmd = "z" -> bps_by_addr \ {p.addr}
                         [] OTHER -> bps_by_addr
    BY <1>2, <2>1
  <2> HIDE DEF r
  <2>4. QED BY <1>1, <1>2, <2>1, <2>2, <2>3, AnswerInvariant
<1>6. QED BY <1>4, <1>5

\* c or s is read, and its acknowledgement read or on its way.
LEMMA ServeRunInvariant == SInv /\ ServeRun => SInv'
<1> SUFFICES ASSUME SInv, ServeRun PROVE SInv'
  OBVIOUS
<1>1. PICK step \in BOOLEAN :
        /\ Receive([cmd |-> IF step THEN "s" ELSE "c"])
        /\ run_continue(step)
        /\ serving' = TRUE
        /\ UNCHANGED <<to_client, alive, client, ran>>
  BY DEF ServeRun
<1> DEFINE p == [cmd |-> IF step THEN "s" ELSE "c"]
<1>2. p \in Packets /\ p.cmd \in {"c", "s"}
  BY DEF Packets
<1> HIDE DEF p
<1>3. /\ WireUnread /\ outstanding = p
      /\ to_server' \in {<<>>, <<Ctrl_C>>}
  BY <1>1, <1>2, Reading DEF p
<1>4. bps_by_addr' = bps_by_addr
  BY <1>1 DEF run_continue, Step, Continue
<1>5. UNCHANGED <<outstanding, acked, inserted, view, to_client>>
  BY <1>1 DEF client
<1>6. WireServing'
  BY <1>1, <1>2, <1>3, <1>4, <1>5
     DEF WireServing, WireUnread, NoReply, Agree, BreaksAt, Places
<1>7. RunIsAcknowledged'
  <2>1. p # [cmd |-> "q"]
    BY <1>2
  <2>2. acked \/ to_client = <<Ack>>
    BY <1>3, <2>1 DEF WireUnread, NoReply
  <2>3. Contains(<<Ack>>, Ack)
    BY DEF Contains
  <2>4. QED BY <1>5, <2>2, <2>3 DEF RunIsAcknowledged
<1>8. SessionTypeOK'
  <2>1. to_server' \in Seq(Travels) /\ Len(to_server') =< 2
    BY <1>3, QueueTypes
  <2>2. Len(to_server') \in Nat
    BY <2>1, LenProperties
  <2>3. Len(to_server') =< 3
    BY <2>1, <2>2
  <2>4. QED BY <1>1, <1>5, <2>1, <2>3 DEF SInv, SessionTypeOK, Travels
<1>9. Turns'
  BY <1>1, <1>2, <1>3, <1>5 DEF Turns, Receive, Up
<1>10. QED BY <1>6, <1>7, <1>8, <1>9 DEF SInv, Wire

\* The machine has returned, and the stop is reported.
LEMMA ReplyStoppedInvariant == SInv /\ ReplyStopped => SInv'
<1> SUFFICES ASSUME SInv, ReplyStopped PROVE SInv'
  OBVIOUS
<1> DEFINE r == [cmd |-> "$"]
<1>1. /\ Up /\ serving /\ state = "stopped" /\ Wire
      /\ Answer(r) /\ serving' = FALSE /\ r.cmd = "$"
      /\ UNCHANGED <<vars, to_server, alive, client, ran>>
  BY DEF ReplyStopped, Returned, SInv
<1> HIDE DEF r
<1>2. WireServing
  BY <1>1 DEF Wire, WireIdle, WireUnread, WireReplied
<1>3. UNCHANGED <<state, regs, bps_by_addr, outstanding, acked, inserted, view>>
  BY <1>1 DEF vars, engine, client
<1>4. to_client' \in {<<Ack, r, Ack>>, <<Ack, Ack, r, Ack>>}
  BY <1>1, <1>2, Answering DEF Answer, WireServing
<1>5. WireReply(r)'
  BY <1>1, <1>2, <1>3, <1>4 DEF WireReply, WireServing
<1>6. WireReplied'
  <2>1. outstanding.cmd \notin {"Z", "z"} /\ outstanding.cmd \in {"c", "s"}
    BY <1>2 DEF WireServing
  <2>2. Agree'
    BY <1>2, <1>3 DEF WireServing, Agree, BreaksAt, Places
  <2>3. QED BY <1>1, <1>2, <1>3, <1>5, <2>1, <2>2 DEF WireReplied, WireServing
<1>7. SessionTypeOK'
  <2>1. Len(to_client') =< 4
    BY <1>4, AnswerLength
  <2>2. QED BY <1>1, <1>3, <2>1 DEF SInv, SessionTypeOK
<1>8. RunIsAcknowledged' /\ Turns'
  BY <1>1, <1>3 DEF RunIsAcknowledged, Turns
<1>9. QED BY <1>6, <1>7, <1>8 DEF SInv, Wire

\* An end of stream or a Ctrl-C ends the server, and all is over.
LEMMA FailInvariant == SInv /\ Fail => SInv'
<1> SUFFICES ASSUME SInv, Fail PROVE SInv'
  OBVIOUS
<1>1. /\ ~ Up' /\ ~ serving /\ to_server # <<>> /\ to_server' = Tail(to_server)
      /\ alive' = FALSE
      /\ UNCHANGED <<vars, to_client, serving, client, ran>>
  BY DEF Fail, Receive, Up
<1>2. UNCHANGED <<state, regs, bps_by_addr, outstanding, acked, inserted, view>>
  BY <1>1 DEF vars, engine, client
<1>3. SessionTypeOK'
  <2>1. to_server' \in Seq(Packets \cup {Ack, Hangup, Ctrl_C}) /\ Len(to_server') =< 3
    BY <1>1, QueueTypes DEF SInv, SessionTypeOK, Travels
  <2>2. QED BY <1>1, <1>2, <2>1 DEF SInv, SessionTypeOK
<1>4. RunIsAcknowledged' /\ Turns'
  BY <1>1, <1>2 DEF SInv, RunIsAcknowledged, Turns
<1>5. QED BY <1>1, <1>3, <1>4 DEF SInv

-----------------------------------------------------------------------------
(* The client's steps.                                                     *)

\* Nothing else is under way when the client sends a packet or hangs up.
LEMMA SendInvariant ==
  ASSUME SInv, NEW p \in Packets \cup {Hangup}, Idle,
         p \in Packets => Allowed(p),
         to_server' = Append(to_server, p), outstanding' = p, acked' = FALSE,
         ran' \in BOOLEAN,
         UNCHANGED <<vars, to_client, serving, alive, inserted, view>>
  PROVE  SInv'
<1>1. WireIdle /\ Up
  BY SessionAssumption DEF SInv, Idle, Wire, WireUnread, WireServing, WireReplied
<1>2. UNCHANGED <<state, regs, bps_by_addr>>
  BY DEF vars, engine
<1>3. to_server' \in {<<p>>, <<Ack, p>>, <<Ctrl_C, Ack, p>>}
  <2>1. CASE to_server = <<>>
    BY <2>1
  <2>2. CASE to_server = <<Ack>>
    BY <2>2, AppendToOne
  <2>3. CASE to_server = <<Ctrl_C, Ack>>
    BY <2>3, AppendToTwo
  <2>4. QED BY <1>1, <2>1, <2>2, <2>3 DEF WireIdle
<1>4. p # [cmd |-> "q"] /\ (p.cmd = "z" => <<p.type, p.addr>> \in inserted)
  <2>1. CASE p = Hangup
    BY <2>1 DEF Hangup
  <2>2. CASE p \in Packets /\ p.cmd = "z"
    BY <2>2 DEF Allowed
  <2>3. CASE p \in Packets /\ p.cmd \notin {"z"}
    BY <2>3 DEF Allowed
  <2>4. QED BY <2>1, <2>2, <2>3
<1>5. NoReply'
  BY <1>1, <1>4 DEF WireIdle, NoReply
<1>6. WireUnread'
  BY <1>1, <1>2, <1>3, <1>4, <1>5
     DEF WireIdle, WireUnread, Agree, BreaksAt, Current, Places
<1>7. SessionTypeOK'
  <2>2. Len(to_server') =< 3
    BY <1>3, ShortLength
  <2>3. to_server' \in Seq(Packets \cup {Ack, Hangup, Ctrl_C})
    BY DEF SInv, SessionTypeOK
  <2>4. QED BY <2>2, <2>3 DEF SInv, SessionTypeOK
<1>8. RunIsAcknowledged' /\ Turns'
  BY <1>1, <1>2 DEF WireIdle, RunIsAcknowledged, Turns
<1>9. QED BY <1>6, <1>7, <1>8 DEF SInv, Wire

\* An acknowledgement is read, whichever it is.
LEMMA ReadAckInvariant == SInv /\ ReadAck => SInv'
<1> SUFFICES ASSUME SInv, ReadAck PROVE SInv'
  OBVIOUS
<1>1. /\ Up /\ Wire /\ outstanding # Null
      /\ to_client # <<>> /\ Head(to_client) = Ack
      /\ to_client' = Tail(to_client) /\ acked' = TRUE
      /\ UNCHANGED <<vars, to_server, serving, alive, outstanding, inserted,
                     view, ran>>
  BY DEF ReadAck, SInv
<1>2. UNCHANGED <<state, regs, bps_by_addr>>
  BY <1>1 DEF vars, engine
<1>3. ASSUME NoReply
      PROVE  NoReply' /\ Len(to_client') =< 4
  <2>1. to_client = <<Ack>>
    BY <1>1, <1>3 DEF NoReply
  <2>2. to_client' = <<>>
    BY <1>1, <2>1
  <2>3. Len(to_client') = 0
    BY <2>2
  <2>4. QED BY <1>1, <2>2, <2>3 DEF NoReply
<1>4. CASE WireUnread
  <2>1. WireUnread'
    BY <1>1, <1>2, <1>3, <1>4
       DEF WireUnread, Agree, BreaksAt, Current, Places
  <2>2. QED
    BY <1>1, <1>2, <1>3, <1>4, <2>1
       DEF SInv, Wire, WireUnread, SessionTypeOK, RunIsAcknowledged, Turns
<1>5. CASE WireServing
  <2>1. WireServing'
    BY <1>1, <1>2, <1>3, <1>5 DEF WireServing, Agree, BreaksAt, Places
  <2>2. QED
    BY <1>1, <1>2, <1>3, <1>5, <2>1
       DEF SInv, Wire, WireServing, SessionTypeOK, RunIsAcknowledged, Turns
<1>6. CASE WireReplied
  <2>1. PICK r : WireReply(r)
    BY <1>6 DEF WireReplied
  <2>2. \/ to_client' \in {<<r, Ack>>, <<Ack, r, Ack>>}
    <3>1. r # Ack
      BY <2>1, OtherFacts DEF WireReply
    <3>2. CASE to_client = <<Ack, r, Ack>>
      BY <1>1, <3>2
    <3>3. CASE to_client = <<Ack, Ack, r, Ack>>
      BY <1>1, <3>3
    <3>4. CASE to_client = <<r, Ack>>
      BY <1>1, <3>1, <3>4
    <3>5. QED BY <2>1, <3>2, <3>3, <3>4 DEF WireReply
  <2>3. WireReply(r)'
    BY <1>1, <1>2, <2>1, <2>2 DEF WireReply
  <2>4. WireReplied'
    BY <1>1, <1>2, <1>6, <2>3
       DEF WireReplied, Agree, BreaksAt, Current, Places
  <2>5. Len(to_client') =< 4
    <3>1. CASE to_client' = <<r, Ack>>
      BY <3>1
    <3>2. CASE to_client' = <<Ack, r, Ack>>
      BY <3>2
    <3>3. QED BY <2>2, <3>1, <3>2
  <2>6. QED
    BY <1>1, <1>2, <2>4, <2>5
       DEF SInv, Wire, SessionTypeOK, RunIsAcknowledged, Turns
<1>7. ~ WireIdle
  BY <1>1 DEF WireIdle
<1>8. QED BY <1>1, <1>4, <1>5, <1>6, <1>7 DEF Wire

\* The places of the breakpoints when one more was set, or one was removed that
\* was there.
LEMMA PlacesChange ==
  ASSUME inserted \subseteq BreakTypes \X BreakAddrs,
         NEW t \in BreakTypes, NEW a \in BreakAddrs
  PROVE  /\ inserted' = inserted \cup {<<t, a>>} => Places' = Places \cup {a}
         /\ OneBreakType /\ inserted' = inserted \ {<<t, a>>}
              => Places' = Places \ {a}
<1>1. \A b \in inserted : b = <<b[1], b[2]>> /\ b[1] \in BreakTypes
  OBVIOUS
<1>2. ASSUME inserted' = inserted \cup {<<t, a>>}
      PROVE  Places' = Places \cup {a}
  <2>1. \A x : x \in Places' <=> \E b \in inserted \cup {<<t, a>>} : x = b[2]
    BY <1>2 DEF Places
  <2>2. \A x : x \in Places <=> \E b \in inserted : x = b[2]
    BY DEF Places
  <2>3. <<t, a>>[2] = a
    OBVIOUS
  <2>4. \A x : x \in Places' <=> x \in Places \/ x = a
    BY <2>1, <2>2, <2>3
  <2>5. QED BY <2>4
<1>3. ASSUME OneBreakType, inserted' = inserted \ {<<t, a>>}
      PROVE  Places' = Places \ {a}
  <2>1. \A b \in inserted : b[2] = a <=> b = <<t, a>>
    BY <1>1, <1>3 DEF OneBreakType
  <2>2. QED BY <1>3, <2>1 DEF Places
<1>4. QED BY <1>2, <1>3

\* The reply is read, acknowledged and believed.
LEMMA ReadReplyInvariant == TypeOK /\ SInv /\ ReadReply => SInv'
<1> SUFFICES ASSUME TypeOK, SInv, ReadReply PROVE SInv'
  OBVIOUS
<1> DEFINE p == outstanding
<1>1. /\ Up /\ Wire /\ outstanding # Null
      /\ to_client # <<>> /\ Head(to_client).cmd = "$"
      /\ to_client' = Tail(to_client)
      /\ to_server' = Append(to_server, Ack)
      /\ outstanding' = Null
      /\ inserted' = CASE p.cmd = "Z" -> inserted \cup {<<p.type, p.addr>>}
                       [] p.cmd = "z" -> inserted \ {<<p.type, p.addr>>}
                       [] OTHER -> inserted
      /\ view' = CASE p.cmd = "g" -> Head(to_client).pc
                   [] p.cmd \in {"c", "s"} -> Null
                   [] OTHER -> view
      /\ UNCHANGED <<vars, serving, alive, acked, ran>>
  BY DEF ReadReply, SInv
<1>2. UNCHANGED <<state, regs, bps_by_addr>>
  BY <1>1 DEF vars, engine
<1>3. to_client # <<Ack>>
  BY <1>1, OtherFacts
<1>4. WireReplied
  BY <1>1, <1>3 DEF Wire, WireIdle, WireUnread, WireServing, NoReply
<1>5. PICK r : WireReply(r)
  BY <1>4 DEF WireReplied
<1>6. to_client = <<r, Ack>>
  BY <1>1, <1>5, OtherFacts DEF WireReply
<1>7. to_client' = <<Ack>> /\ Head(to_client) = r
  BY <1>1, <1>6
<1>8. to_server' \in {<<Ack>>, <<Ctrl_C, Ack>>}
  <2>1. CASE to_server = <<>>
    BY <1>1, <2>1
  <2>2. CASE to_server = <<Ctrl_C>>
    BY <1>1, <2>2, AppendToOne
  <2>3. QED BY <1>4, <2>1, <2>2 DEF WireReplied
<1>9. p \in Packets /\ inserted \subseteq BreakTypes \X BreakAddrs
  BY <1>4 DEF WireReplied, SInv, SessionTypeOK
<1>10. p.cmd \in {"Z", "z"} => p.type \in BreakTypes /\ p.addr \in BreakAddrs
  BY <1>9, PacketFacts DEF BreakPackets
<1>11. inserted' \subseteq BreakTypes \X BreakAddrs
  BY <1>1, <1>9, <1>10
<1>12. Agree'
  <2>1. CASE p.cmd = "Z"
    <3>1. inserted' = inserted \cup {<<p.type, p.addr>>}
      BY <1>1, <2>1
    <3>2. Places' = Places \cup {p.addr}
      BY <1>9, <1>10, <2>1, <3>1, PlacesChange
    <3>3. BreaksAt(Places \cup {p.addr})
      BY <1>4, <2>1 DEF WireReplied
    <3>4. QED BY <1>2, <3>2, <3>3 DEF Agree, BreaksAt
  <2>2. CASE p.cmd = "z"
    <3>1. inserted' = inserted \ {<<p.type, p.addr>>}
      BY <1>1, <2>2
    <3>2. OneBreakType => Places' = Places \ {p.addr}
      BY <1>9, <1>10, <2>2, <3>1, PlacesChange
    <3>3. BreaksAt(Places \ {p.addr})
      BY <1>4, <2>2 DEF WireReplied
    <3>4. QED BY <1>2, <3>2, <3>3 DEF Agree, BreaksAt, OneBreakType
  <2>3. CASE p.cmd \notin {"Z", "z"}
    <3>1. inserted' = inserted
      BY <1>1, <2>3
    <3>2. Agree
      BY <1>4, <2>3 DEF WireReplied
    <3>3. QED BY <1>2, <3>1, <3>2 DEF Agree, BreaksAt, Places
  <2>4. QED BY <2>1, <2>2, <2>3
<1>13. Current' /\ view' \in Addr \cup {Null}
  <2>1. regs.PC \in Addr
    BY DEF TypeOK, Regs
  <2>2. CASE p.cmd = "g"
    <3>1. view' = regs.PC
      BY <1>1, <1>5, <1>7, <2>2 DEF WireReply
    <3>2. QED BY <1>2, <2>1, <3>1 DEF Current
  <2>3. CASE p.cmd \in {"c", "s"}
    BY <1>1, <2>3 DEF Current
  <2>4. CASE p.cmd \notin {"g", "c", "s"}
    BY <1>1, <1>2, <1>4, <2>4 DEF WireReplied, Current, SInv, SessionTypeOK
  <2>5. QED BY <2>2, <2>3, <2>4
<1>14. WireIdle'
  BY <1>1, <1>2, <1>4, <1>7, <1>8, <1>12, <1>13 DEF WireIdle, WireReplied
<1>15. SessionTypeOK'
  <2>1. to_server' \in Seq(Packets \cup {Ack, Hangup, Ctrl_C})
    BY <1>1 DEF SInv, SessionTypeOK
  <2>2. Len(to_server') =< 3
    BY <1>8, ShortLength
  <2>3. Len(to_client') = 1
    BY <1>7
  <2>4. QED BY <1>1, <1>11, <1>13, <2>1, <2>2, <2>3 DEF SInv, SessionTypeOK
<1>16. RunIsAcknowledged' /\ Turns'
  BY <1>1, <1>2, <1>4 DEF WireReplied, RunIsAcknowledged, Turns
<1>17. QED BY <1>14, <1>15, <1>16 DEF SInv, Wire

\* Ctrl-C goes behind everything else; there is never a second one.
LEMMA PressCtrl_CInvariant == SInv /\ PressCtrl_C => SInv'
<1> SUFFICES ASSUME SInv, PressCtrl_C PROVE SInv'
  OBVIOUS
<1>1. /\ Up /\ Wire /\ outstanding # Null /\ outstanding.cmd = "c" /\ acked
      /\ ~ Contains(to_server, Ctrl_C)
      /\ to_server' = Append(to_server, Ctrl_C)
      /\ UNCHANGED <<vars, to_client, serving, alive, client, ran>>
  BY DEF PressCtrl_C, SInv
<1>2. UNCHANGED <<state, regs, bps_by_addr, outstanding, acked, inserted, view>>
  BY <1>1 DEF vars, engine, client
<1>3. \A a, b : /\ Contains(<<Ctrl_C, a, b>>, Ctrl_C)
                /\ Contains(<<a, b, Ctrl_C>>, Ctrl_C)
                /\ Contains(<<a, Ctrl_C>>, Ctrl_C)
                /\ Contains(<<Ctrl_C>>, Ctrl_C)
  BY DEF Contains
<1>4. RunIsAcknowledged' /\ Turns'
  BY <1>1, <1>2 DEF SInv, RunIsAcknowledged, Turns
<1>5. ASSUME Len(to_server') =< 3
      PROVE  SessionTypeOK'
  BY <1>1, <1>2, <1>5 DEF SInv, SessionTypeOK
<1>6. CASE WireUnread
  <2>1. to_server \in {<<outstanding>>, <<Ack, outstanding>>}
    BY <1>1, <1>3, <1>6 DEF WireUnread
  <2>2. to_server' \in {<<outstanding, Ctrl_C>>, <<Ack, outstanding, Ctrl_C>>}
    <3>1. CASE to_server = <<outstanding>>
      BY <1>1, <3>1, AppendToOne
    <3>2. CASE to_server = <<Ack, outstanding>>
      BY <1>1, <3>2, AppendToTwo
    <3>3. QED BY <2>1, <3>1, <3>2
  <2>3. Len(to_server') =< 3
    BY <2>2, ShortLength
  <2>4. WireUnread'
    BY <1>1, <1>2, <1>6, <2>2
       DEF WireUnread, NoReply, Agree, BreaksAt, Current, Places
  <2>5. QED BY <1>4, <1>5, <2>3, <2>4 DEF SInv, Wire
<1>7. ASSUME to_server \in {<<>>, <<Ctrl_C>>}
      PROVE  to_server' = <<Ctrl_C>> /\ Len(to_server') =< 3
  <2>1. to_server = <<>>
    BY <1>1, <1>3, <1>7
  <2>2. to_server' = <<Ctrl_C>>
    BY <1>1, <2>1
  <2>3. QED BY <2>2
<1>8. CASE WireServing
  <2>1. to_server' = <<Ctrl_C>> /\ Len(to_server') =< 3
    BY <1>7, <1>8 DEF WireServing
  <2>2. WireServing'
    BY <1>1, <1>2, <1>8, <2>1 DEF WireServing, NoReply, Agree, BreaksAt, Places
  <2>3. QED BY <1>4, <1>5, <2>1, <2>2 DEF SInv, Wire
<1>9. CASE WireReplied
  <2>1. to_server' = <<Ctrl_C>> /\ Len(to_server') =< 3
    BY <1>7, <1>9 DEF WireReplied
  <2>2. PICK r : WireReply(r)
    BY <1>9 DEF WireReplied
  <2>3. WireReply(r)'
    BY <1>1, <1>2, <2>2 DEF WireReply
  <2>4. WireReplied'
    BY <1>1, <1>2, <1>9, <2>1, <2>3
       DEF WireReplied, Agree, BreaksAt, Current, Places
  <2>5. QED BY <1>4, <1>5, <2>1, <2>4 DEF SInv, Wire
<1>10. ~ WireIdle
  BY <1>1 DEF WireIdle
<1>11. QED BY <1>1, <1>6, <1>8, <1>9, <1>10 DEF Wire

-----------------------------------------------------------------------------
(* The machine's steps, and all together.                                  *)

\* While the machine is stopped only the device acts, on nothing the client can
\* see; while it runs, nothing is said of its registers.
LEMMA TargetInvariant == SInv /\ Target => SInv'
<1> SUFFICES ASSUME SInv, Target PROVE SInv'
  OBVIOUS
<1>1. /\ Up /\ Wire /\ ran' \in BOOLEAN
      /\ UNCHANGED <<to_server, to_client, serving, alive, client>>
  BY DEF Target, SInv, SessionTypeOK
<1>2. UNCHANGED <<outstanding, acked, inserted, view>>
  BY <1>1 DEF client
<1>3. /\ bps_by_addr' = bps_by_addr
      /\ state = "stopped" => UNCHANGED <<state, regs>>
  BY DEF Target, ExecInsn, HitBreakPoint, RunCached, RunTranslated, FinishBlock,
     FinishAborting, Device, interrupt, Dispatching, Executing, engine
<1>4. SessionTypeOK' /\ RunIsAcknowledged'
  BY <1>1, <1>2 DEF SInv, SessionTypeOK, RunIsAcknowledged
<1>5. Turns'
  BY <1>1, <1>2, <1>3 DEF SInv, Turns, Up
<1>6. CASE serving
  <2>1. WireServing
    BY <1>1, <1>6 DEF Wire, WireIdle, WireUnread, WireReplied
  <2>2. WireServing'
    BY <1>1, <1>2, <1>3, <2>1 DEF WireServing, NoReply, Agree, BreaksAt, Places
  <2>3. QED BY <1>4, <1>5, <2>2 DEF SInv, Wire
<1>7. CASE ~ serving
  <2>1. UNCHANGED <<state, regs>>
    BY <1>1, <1>3, <1>7 DEF Wire, WireIdle, WireUnread, WireServing, WireReplied
  <2>2. CASE WireIdle
    BY <1>1, <1>2, <1>3, <1>4, <1>5, <2>1, <2>2
       DEF SInv, Wire, WireIdle, Agree, BreaksAt, Current, Places
  <2>3. CASE WireUnread
    BY <1>1, <1>2, <1>3, <1>4, <1>5, <2>1, <2>3
       DEF SInv, Wire, WireUnread, NoReply, Agree, BreaksAt, Current, Places
  <2>4. CASE WireReplied
    <3>1. PICK r : WireReply(r)
      BY <2>4 DEF WireReplied
    <3>2. WireReply(r)'
      BY <1>1, <1>2, <2>1, <3>1 DEF WireReply
    <3>3. WireReplied'
      BY <1>1, <1>2, <1>3, <2>1, <2>4, <3>2
         DEF WireReplied, Agree, BreaksAt, Current, Places
    <3>4. QED BY <1>4, <1>5, <3>3 DEF SInv, Wire
  <2>5. QED BY <1>1, <1>7, <2>2, <2>3, <2>4 DEF Wire, WireServing
<1>8. QED BY <1>6, <1>7

\* Every step of a session preserves its invariant.
LEMMA SessionInductive == TypeOK /\ SInv /\ [SessionNext]_all => SInv'
<1> SUFFICES ASSUME TypeOK, SInv, [SessionNext]_all PROVE SInv'
  OBVIOUS
<1>1. CASE Server
  BY <1>1, ReceiveAckInvariant, ServeQueryInvariant, ServeRegistersInvariant,
     ServeBreakPointInvariant, ServeRunInvariant, ReplyStoppedInvariant,
     FailInvariant DEF Server
<1>2. CASE Reads
  BY <1>2, ReadAckInvariant, ReadReplyInvariant DEF Reads
<1>3. ASSUME NEW p \in Packets, Send(p) PROVE SInv'
  <2>1. ran' \in BOOLEAN
    BY <1>3 DEF Send, SInv, SessionTypeOK
  <2>2. QED BY <1>3, <2>1, SendInvariant DEF Send
<1>4. CASE PressCtrl_C
  BY <1>4, PressCtrl_CInvariant
<1>5. CASE Disconnect
  <2>1. ran' \in BOOLEAN
    BY <1>5 DEF Disconnect, SInv, SessionTypeOK
  <2>2. Hangup \notin Packets
    BY PacketFacts
  <2>3. QED BY <1>5, <2>1, <2>2, SendInvariant DEF Disconnect
<1>6. CASE Target
  BY <1>6, TargetInvariant
<1>7. CASE UNCHANGED all
  <2>1. UNCHANGED <<state, regs, bps_by_addr, to_server, to_client, serving, alive,
                    outstanding, acked, inserted, view, ran>>
    BY <1>7 DEF all, vars, engine, session, client
  <2>2. SessionTypeOK' /\ RunIsAcknowledged' /\ Turns'
    BY <2>1 DEF SInv, SessionTypeOK, RunIsAcknowledged, Turns
  <2>3. Wire' = Wire /\ Up' = Up
    BY <2>1 DEF Wire, WireIdle, WireUnread, WireServing, WireReplied, WireReply,
       NoReply, Agree, BreaksAt, Current, Places, Up
  <2>4. QED BY <2>2, <2>3 DEF SInv
<1>8. QED
  BY <1>1, <1>2, <1>3, <1>4, <1>5, <1>6, <1>7 DEF SessionNext

\* A session begins with the first query on its way.
LEMMA SessionBegins == SessionInit => SInv
<1> SUFFICES ASSUME SessionInit PROVE SInv
  OBVIOUS
<1> DEFINE q == [cmd |-> "q"]
<1>1. /\ state = "stopped" /\ bps_by_addr = {} /\ inserted = {} /\ view = Null
      /\ to_server = <<q>> /\ to_client = <<>> /\ outstanding = q
      /\ serving = FALSE /\ alive = TRUE /\ acked = FALSE /\ ran = FALSE
  BY DEF SessionInit, Init
<1>2. q \in Packets /\ q.cmd = "q"
  BY DEF Packets
<1>3. SessionTypeOK
  <2>1. to_server \in Seq(Packets \cup {Ack, Hangup, Ctrl_C})
    BY <1>1, <1>2
  <2>2. Len(to_server) = 1 /\ Len(to_client) = 0
    BY <1>1
  <2>3. Len(to_server) =< 3 /\ Len(to_client) =< 4
    BY <2>2
  <2>4. outstanding \in Packets /\ view \in Addr \cup {Null}
    BY <1>1, <1>2
  <2> HIDE DEF q
  <2>5. QED BY <1>1, <2>1, <2>3, <2>4 DEF SessionTypeOK
<1>4. WireUnread
  BY <1>1, <1>2 DEF WireUnread, NoReply, Agree, BreaksAt, Current, Places
<1>5. QED BY <1>1, <1>3, <1>4 DEF SInv, Wire, RunIsAcknowledged, Turns

\* What is on its way, at any time.
THEOREM SessionInvariance == SessionSpec => []SInv
<1>1. IInv => TypeOK
  BY DEF IInv
<1>2. SessionSpec => []IInv
  BY SessionImplementsVm, Invariance, PTL
<1>3. QED
  BY <1>1, <1>2, SessionBegins, SessionInductive, PTL DEF SessionSpec

\* Never more than one packet and the acknowledgements of two travel, and the
\* client's picture of the session keeps its types.
THEOREM SessionTypes == SessionSpec => []SessionTypeOK
<1>1. SInv => SessionTypeOK
  BY DEF SInv
<1>2. QED BY <1>1, SessionInvariance, PTL

\* A run that is under way, however long, has its acknowledgement read or on
\* its way: the client has no reason to repeat c or s.
THEOREM RunsAcknowledged == SessionSpec => []RunIsAcknowledged
<1>1. SInv => RunIsAcknowledged
  BY DEF SInv
<1>2. QED BY <1>1, SessionInvariance, PTL

\* Between packets the client and the machine have the same breakpoints, if the
\* client uses breakpoints of one type.
THEOREM BreakPointsAgreed ==
  ASSUME OneBreakType
  PROVE  SessionSpec => []BreakpointsAgree
<1>1. SInv => BreakpointsAgree
  <2> SUFFICES ASSUME SInv, Up, outstanding = Null \/ outstanding.cmd \notin {"Z", "z"}
               PROVE  Places = bps_by_addr
    BY DEF BreakpointsAgree
  <2>1. Wire
    BY DEF SInv
  <2>2. CASE WireReplied
    <3>1. outstanding # Null
      BY <2>2, SessionAssumption DEF WireReplied
    <3>2. QED BY <2>2, <3>1 DEF WireReplied, Agree, BreaksAt
  <2>3. CASE ~ WireReplied
    BY <2>1, <2>3 DEF Wire, WireIdle, WireUnread, WireServing, Agree, BreaksAt
  <2>4. QED BY <2>2, <2>3
<1>2. QED BY <1>1, SessionInvariance, PTL

\* The z packet the server is about to read removes a breakpoint that is there,
\* if the client uses breakpoints of one type: the assertion of
\* bp_manager::remove holds.
THEOREM RemovalsFind ==
  ASSUME OneBreakType
  PROVE  SessionSpec => []RemovalFinds
<1>1. SInv => RemovalFinds
  <2> SUFFICES ASSUME SInv, NEW p \in BreakPackets, Up, p.cmd = "z",
                      to_server # <<>>, Head(to_server) = p
               PROVE  p.addr \in bps_by_addr
    BY DEF RemovalFinds
  <2>1. Wire /\ p \in Packets /\ p # Ack /\ p # Ctrl_C
    <3>1. p \in Packets
      BY DEF Packets
    <3>2. QED BY <3>1, PacketFacts DEF SInv
  <2>2. WireUnread
    <3>1. ~ WireIdle
      BY <2>1 DEF WireIdle
    <3>2. ~ WireServing
      BY <2>1 DEF WireServing
    <3>3. ~ WireReplied
      BY <2>1 DEF WireReplied
    <3>4. QED BY <2>1, <3>1, <3>2, <3>3 DEF Wire
  <2>3. outstanding = p
    BY <2>1, <2>2 DEF WireUnread
  <2>4. <<p.type, p.addr>> \in inserted /\ bps_by_addr = Places
    BY <2>2, <2>3 DEF WireUnread, Agree, BreaksAt
  <2>5. QED BY <2>4 DEF Places
<1>2. QED BY <1>1, SessionInvariance, PTL

\* While the client believes the machine stopped it is, and the program counter
\* the client remembers is REG_PC.
THEOREM ViewsCurrent == SessionSpec => []ViewIsCurrent
<1>1. SInv => ViewIsCurrent
  <2> SUFFICES ASSUME SInv, outstanding = Null \/ outstanding.cmd \notin {"c", "s"}
               PROVE  /\ state \in {"stopped", "aborted"}
                      /\ Up /\ view # Null => view = regs.PC
    BY DEF ViewIsCurrent
  <2>1. ~ serving
    BY SessionAssumption DEF SInv, Turns
  <2>2. state \in {"stopped", "aborted"}
    BY <2>1 DEF SInv, Turns
  <2>3. ASSUME Up PROVE Current
    <3>1. Wire
      BY <2>3 DEF SInv
    <3>2. CASE WireReplied
      BY <3>2, SessionAssumption DEF WireReplied
    <3>3. CASE ~ WireReplied
      BY <2>1, <3>1, <3>3 DEF Wire, WireIdle, WireUnread, WireServing
    <3>4. QED BY <3>2, <3>3
  <2>4. QED BY <2>2, <2>3 DEF Current
<1>2. QED BY <1>1, SessionInvariance, PTL

-----------------------------------------------------------------------------
(* c and s get the machine to move.                                        *)

\* The nearest breakpoint is here exactly if there is one here.
LEMMA NearestHere ==
  ASSUME NEW a \in Addr, bps_by_addr \subseteq Addr
  PROVE  find_nearest(a) = a <=> a \in bps_by_addr
<1> DEFINE above == {b \in bps_by_addr : b >= a}
<1>1. a \in Nat /\ a # Null
  BY AddrNat, NullAssumption
<1>2. CASE a \in bps_by_addr
  <2>1. a >= a
    BY <1>1
  <2>2. /\ a =< find_nearest(a) /\ find_nearest(a) =< a
        /\ find_nearest(a) \in bps_by_addr
    BY <1>2, <2>1, NearestLeast
  <2>3. find_nearest(a) \in Nat
    BY <2>2, AddrNat
  <2> QED BY <1>1, <1>2, <2>2, <2>3
<1>3. CASE find_nearest(a) = a
  <2>1. above # {}
    BY <1>1, <1>3 DEF find_nearest
  <2>2. above \subseteq Nat
    BY AddrNat
  <2>3. Min(above) \in above
    BY <2>1, <2>2, MinLeast
  <2>4. QED BY <1>3, <2>1, <2>3 DEF find_nearest
<1>4. QED BY <1>2, <1>3

\* A translation that succeeds has an instruction.
LEMMA DisasNotEmpty ==
  ASSUME NEW m \in [Addr -> Insn], NEW start \in Addr, NEW step \in BOOLEAN,
         NEW bp, bp = Null \/ (bp \in Addr /\ start < bp),
         ~ DisasCrashes(m, start, step, bp),
         disas(m, start, step, bp).ok
  PROVE  Len(disas(m, start, step, bp).code) \in Nat \ {0}
<1>1. WellCut(disas(m, start, step, bp)) /\ disas(m, start, step, bp) \in Block
  BY DisasCut, DisasBlock
<1> DEFINE b == disas(m, start, step, bp)
<1> HIDE DEF b
<1>2. Len(b.code) >= 1 /\ Len(b.code) \in Nat
  BY <1>1 DEF b, WellCut, Block
<1>3. QED BY <1>2 DEF b

\* Blocks have instructions.
NotEmpty(b) == Len(b.code) \in Nat \ {0}
NonEmpty ==
  /\ \A a \in DOMAIN bb_by_start : NotEmpty(bb_by_start[a])
  /\ Executing /\ bb.ok => NotEmpty(bb)

\* Where a run is before and after its first instruction, seen by a client that
\* knew where it started.
Moving ==
  /\ Up /\ WireUnread /\ outstanding.cmd \in {"c", "s"} => ~ ran
  /\ serving /\ view # Null /\ ~ ran =>
       /\ state = "dispatch" => pc = view
       /\ state = "executing" => idx = 1
       /\ state = "stopped" => view \in bps_by_addr
  /\ serving /\ view # Null /\ outstanding.cmd = "c" /\ view \in bps_by_addr =>
       ~ ran /\ state # "executing"

\* No packet is in a queue that is empty or holds a Ctrl-C only.
LEMMA NothingUnread ==
  ASSUME NEW o, o # Ctrl_C, NEW s \in {<<>>, <<Ctrl_C>>}
  PROVE  s \notin {<<o>>, <<Ack, o>>, <<Ctrl_C, Ack, o>>, <<o, Ctrl_C>>,
                  <<Ack, o, Ctrl_C>>}
<1>1. CASE s = <<>>
  BY <1>1
<1>2. CASE s = <<Ctrl_C>>
  BY <1>2
<1>3. QED BY <1>1, <1>2

\* Every step of the machine keeps blocks that have instructions.
LEMMA NonEmptyStep == IInv /\ NonEmpty /\ [Next]_vars => NonEmpty'
<1> SUFFICES ASSUME IInv, NonEmpty, [Next]_vars PROVE NonEmpty'
  OBVIOUS
<1>0. /\ mem \in [Addr -> Insn] /\ regs.PC \in Addr /\ IrqVector \in Addr
      /\ bps_by_addr \subseteq Addr
  BY VmAssumption DEF IInv, TypeOK, Regs
<1>1. CASE Step
  <2> DEFINE take  == IrqPending(regs)
             start == IF take THEN IrqVector ELSE regs.PC
             near  == find_nearest(start)
             b     == SteppedBlock(start, near)
  <2>1. start \in Addr /\ state = "stopped"
    BY <1>0, <1>1 DEF Step
  <2>2. CASE near = start
    BY <1>1, <2>1, <2>2 DEF Step, NonEmpty, Executing
  <2>3. CASE near # start /\ DisasCrashes(mem, start, TRUE, near)
    BY <1>1, <2>3 DEF Step, invalidate, NoBlocks, NonEmpty, Executing
  <2>4. CASE near # start /\ ~ DisasCrashes(mem, start, TRUE, near)
    <3>1. bb_by_start' = (IF b.ok THEN WithBlock(NoBlocks, b) ELSE NoBlocks) /\ bb' = b
      BY <1>1, <2>4 DEF Step, Enter
    <3>2. b.ok => NotEmpty(b)
      <4> HIDE DEF start
      <4>1. near = Null \/ (near \in Addr /\ start < near)
        BY <1>0, <2>1, <2>4, NearestAbove
      <4>2. QED BY <1>0, <2>1, <2>4, <4>1, DisasNotEmpty DEF SteppedBlock, NotEmpty
    <3> HIDE DEF b
    <3>3. QED BY <3>1, <3>2 DEF NonEmpty, WithBlock, NoBlocks
  <2>5. QED BY <2>2, <2>3, <2>4
<1>2. CASE RunTranslated
  <2> DEFINE near == find_nearest(pc)
             b    == disas(mem, pc, FALSE, near)
  <2>1. near # pc /\ pc \in Addr
    BY <1>2 DEF RunTranslated, Dispatching, IInv, TypeOK
  <2>2. CASE DisasCrashes(mem, pc, FALSE, near)
    BY <1>2, <2>2 DEF RunTranslated, Abort, NonEmpty, Executing
  <2>3. CASE ~ DisasCrashes(mem, pc, FALSE, near)
    <3>1. /\ bb_by_start' = IF b.ok THEN WithBlock(bb_by_start, b) ELSE bb_by_start
          /\ bb' = b
      BY <1>2, <2>3 DEF RunTranslated, Enter
    <3>2. b.ok => NotEmpty(b)
      <4>1. near = Null \/ (near \in Addr /\ pc < near)
        BY <1>0, <2>1, <2>3, NearestAbove
      <4>2. QED BY <1>0, <2>1, <2>3, <4>1, DisasNotEmpty DEF NotEmpty
    <3> HIDE DEF b
    <3>3. QED BY <3>1, <3>2 DEF NonEmpty, WithBlock
  <2>4. QED BY <2>2, <2>3
<1>3. CASE RunCached
  BY <1>3 DEF RunCached, Enter, NonEmpty
<1>4. ASSUME NEW a \in BreakAddrs, SetBreakPoint(a) \/ UnsetBreakPoint(a)
      PROVE  NonEmpty'
  <2>1. CASE SetBreakPoint(a)
    BY <2>1 DEF SetBreakPoint, invalidate, NoBlocks, NonEmpty, Executing, engine
  <2>2. CASE UnsetBreakPoint(a)
    BY <2>2 DEF UnsetBreakPoint, Abort, NonEmpty, Executing, engine
  <2>3. QED BY <1>4, <2>1, <2>2
<1>5. CASE Continue \/ HitBreakPoint \/ ExecInsn \/ FinishBlock \/ FinishAborting
  BY <1>5 DEF Continue, HitBreakPoint, ExecInsn, FinishBlock, FinishAborting,
     Stop, Abort, NonEmpty, Executing
<1>6. CASE Device \/ reset \/ UNCHANGED vars
  BY <1>6 DEF Device, interrupt, reset, vars, engine, NonEmpty, Executing
<1>7. QED
  BY <1>1, <1>2, <1>3, <1>4, <1>5, <1>6 DEF Next, Debugger, Engine

\* A run that starts where the client believes it starts, and what the server
\* does otherwise.
LEMMA ServerMoving ==
  ASSUME OneBreakType, IrqVector \notin BreakAddrs
  PROVE  IInv /\ SInv /\ Moving /\ Server => Moving'
<1> SUFFICES ASSUME IInv, SInv, Moving, Server PROVE Moving'
  OBVIOUS
<1>1. CASE ServeRun
  <2>1. PICK step \in BOOLEAN :
          /\ Receive([cmd |-> IF step THEN "s" ELSE "c"])
          /\ run_continue(step)
          /\ serving' = TRUE
          /\ UNCHANGED <<to_client, alive, client, ran>>
    BY <1>1 DEF ServeRun
  <2> DEFINE p == [cmd |-> IF step THEN "s" ELSE "c"]
  <2>2. p \in Packets /\ p.cmd \in {"c", "s"} /\ (p.cmd = "c" <=> ~ step)
    BY DEF Packets
  <2>3. WireUnread /\ outstanding = p /\ Up
    <3> HIDE DEF p
    <3> QED BY <2>1, <2>2, Reading DEF p, Receive
  <2>4. /\ outstanding' = p /\ view' = view /\ ran' = ran /\ ~ ran
        /\ view # Null => view = regs.PC
    BY <2>1, <2>2, <2>3 DEF client, Moving, WireUnread, Current
  <2>5. ~ WireUnread'
    BY <2>1 DEF WireUnread
  <2> HIDE DEF p
  <2>6. CASE ~ step
    <3>1. Continue
      BY <2>1, <2>6 DEF run_continue
    <3>2. state' = "dispatch" /\ pc' = regs.PC
      BY <3>1 DEF Continue
    <3>3. QED BY <2>4, <2>5, <3>2 DEF Moving
  <2>7. CASE step
    <3>1. Step
      BY <2>1, <2>7 DEF run_continue
    <3> DEFINE take  == IrqPending(regs)
               start == IF take THEN IrqVector ELSE regs.PC
               near  == find_nearest(start)
    <3>2. start \in Addr /\ bps_by_addr \subseteq Addr /\ IrqVector \notin bps_by_addr
      BY VmAssumption DEF IInv, TypeOK, Regs
    <3>3. near = start => ~ take /\ regs.PC \in bps_by_addr
      BY <3>2, NearestHere
    <3>4. /\ bps_by_addr' = bps_by_addr
          /\ \/ near = start /\ state' = state
             \/ state' = "aborted"
             \/ state' = "executing" /\ idx' = 1
      BY <3>1 DEF Step, Enter
    <3>5. outstanding'.cmd = "s"
      BY <2>2, <2>4, <2>7
    <3>6. state = "stopped"
      BY <3>1 DEF Step
    <3> HIDE DEF start, near, take
    <3>7. QED BY <2>4, <2>5, <3>3, <3>4, <3>5, <3>6 DEF Moving
  <2>8. QED BY <2>6, <2>7
<1>2. CASE ServeQuery \/ ServeRegisters \/ ServeBreakPoint
  <2>1. PICK p \in Packets : Receive(p) /\ ~ serving' /\ ~ serving
    <3>1. CASE ServeQuery
      <4>1. [cmd |-> "q"] \in Packets
        BY DEF Packets
      <4>2. QED BY <3>1, <4>1 DEF ServeQuery, Receive
    <3>2. CASE ServeRegisters
      <4>1. [cmd |-> "g"] \in Packets
        BY DEF Packets
      <4>2. QED BY <3>2, <4>1 DEF ServeRegisters, Receive
    <3>3. CASE ServeBreakPoint
      BY <3>3 DEF ServeBreakPoint, Receive, Packets
    <3>4. QED BY <1>2, <3>1, <3>2, <3>3
  <2>2. outstanding' = outstanding /\ ran' = ran
    BY <1>2 DEF ServeQuery, ServeRegisters, ServeBreakPoint, client
  <2>3. \/ to_server' = <<>>
        \/ outstanding.cmd = "c" /\ to_server' = <<Ctrl_C>>
    BY <2>1, Reading
  <2>4. Up /\ WireUnread
    BY <2>1, Reading DEF Receive
  <2>5. ~ WireUnread'
    <3>1. outstanding # Ctrl_C
      BY <2>4, PacketFacts, OtherFacts DEF WireUnread
    <3>2. QED BY <2>2, <2>3, <3>1 DEF WireUnread
  <2>6. QED BY <2>1, <2>5 DEF Moving
<1>3. CASE ReceiveAck
  <2>1. /\ Up /\ ~ serving /\ Wire /\ ~ serving'
        /\ outstanding' = outstanding /\ ran' = ran /\ acked' = acked
        /\ to_server # <<>> /\ Head(to_server) = Ack
    BY <1>3 DEF ReceiveAck, Receive, client, SInv
  <2>2. CASE WireUnread
    BY <2>1, <2>2 DEF Moving
  <2>3. CASE WireIdle
    BY <2>1, <2>3, SessionAssumption DEF WireIdle, WireUnread, Moving
  <2>4. ~ WireServing /\ ~ WireReplied
    BY <2>1, OtherFacts DEF WireServing, WireReplied
  <2>5. QED BY <2>1, <2>2, <2>3, <2>4 DEF Wire
<1>4. CASE ReplyStopped
  <2>1. to_server' = to_server /\ serving' = FALSE /\ serving /\ Up /\ Wire
        /\ outstanding' = outstanding
    BY <1>4 DEF ReplyStopped, client, SInv
  <2>2. WireServing
    BY <2>1 DEF Wire, WireIdle, WireUnread, WireReplied
  <2>3. ~ WireUnread'
    <3>1. outstanding # Ctrl_C
      BY <2>2, PacketFacts DEF WireServing
    <3>2. to_server' \in {<<>>, <<Ctrl_C>>}
      BY <2>1, <2>2 DEF WireServing
    <3>3. QED BY <2>1, <3>1, <3>2, NothingUnread DEF WireUnread
  <2>4. QED BY <2>1, <2>3 DEF Moving
<1>5. CASE Fail
  BY <1>5 DEF Fail, Receive, Up, Moving
<1>6. QED BY <1>1, <1>2, <1>3, <1>4, <1>5 DEF Server

\* What the client does, which is nothing while the server waits for the
\* machine but to read an acknowledgement or press Ctrl-C.
LEMMA ClientMoving ==
  ASSUME SInv, Moving,
         Reads \/ (\E p \in Packets : Send(p)) \/ PressCtrl_C \/ Disconnect
  PROVE  Moving'
<1>1. Up /\ Wire /\ UNCHANGED <<state, pc, idx, bps_by_addr, serving>>
  <2>1. Up /\ UNCHANGED <<vars, serving>>
    BY DEF Reads, ReadAck, ReadReply, Send, Idle, PressCtrl_C, Disconnect
  <2>2. QED BY <2>1 DEF vars, engine, SInv
<1>2. ASSUME NEW p \in Packets, Send(p) PROVE Moving'
  <2>1. ~ serving
    BY <1>1, <1>2, SessionAssumption DEF Send, Idle, SInv, Turns
  <2>2. p.cmd \in {"c", "s"} => ~ ran'
    BY <1>2 DEF Send
  <2>3. outstanding' = p
    BY <1>2 DEF Send
  <2>4. QED BY <1>1, <2>1, <2>2, <2>3 DEF Moving
<1>3. CASE Disconnect
  <2>1. ~ serving
    BY <1>1, <1>3, SessionAssumption DEF Disconnect, Idle, SInv, Turns
  <2>2. outstanding'.cmd \notin {"c", "s"}
    BY <1>3, OtherFacts DEF Disconnect
  <2>3. QED BY <1>1, <2>1, <2>2 DEF Moving
<1>4. CASE ReadReply
  <2>1. to_client # <<>> /\ Head(to_client).cmd = "$" /\ outstanding' = Null
    BY <1>4 DEF ReadReply
  <2>2. ~ serving
    <3>1. to_client # <<Ack>>
      BY <2>1, OtherFacts
    <3>2. ~ WireServing
      BY <2>1, <3>1 DEF WireServing, NoReply
    <3>3. QED BY <1>1, <3>2 DEF Wire, WireIdle, WireUnread, WireReplied
  <2>3. ~ WireUnread'
    BY <2>1, SessionAssumption DEF WireUnread
  <2>4. QED BY <1>1, <2>2, <2>3 DEF Moving
<1>5. CASE ReadAck \/ PressCtrl_C
  <2>1. UNCHANGED <<outstanding, view, ran>> /\ outstanding # Null
    BY <1>5 DEF ReadAck, PressCtrl_C, client
  <2>2. WireUnread' /\ outstanding.cmd \in {"c", "s"} => ~ ran
    <3>1. CASE WireUnread
      BY <1>1, <3>1 DEF Moving
    <3>2. CASE WireServing
      BY <1>1, <3>2 DEF WireServing, WireUnread
    <3>3. CASE WireReplied
      <4>1. /\ to_server \in {<<>>, <<Ctrl_C>>}
            /\ outstanding # Ctrl_C /\ outstanding # Ack
        BY <3>3, PacketFacts DEF WireReplied
      <4>2. to_server' \in {<<>>, <<Ctrl_C>>}
        <5>1. CASE ReadAck
          BY <4>1, <5>1 DEF ReadAck
        <5>2. CASE PressCtrl_C
          <6>1. Contains(<<Ctrl_C>>, Ctrl_C)
            BY DEF Contains
          <6>2. to_server = <<>>
            BY <4>1, <5>2, <6>1 DEF PressCtrl_C
          <6>3. QED BY <5>2, <6>2 DEF PressCtrl_C
        <5>3. QED BY <1>5, <5>1, <5>2
      <4>3. ~ WireUnread'
        BY <2>1, <4>1, <4>2, NothingUnread DEF WireUnread
      <4>4. QED BY <4>3
    <3>4. QED BY <1>1, <2>1, <3>1, <3>2, <3>3 DEF Wire, WireIdle
  <2>3. QED BY <1>1, <2>1, <2>2 DEF Moving
<1>6. QED BY <1>2, <1>3, <1>4, <1>5 DEF Reads

\* What the machine does while the server waits.
LEMMA TargetMoving == IInv /\ NonEmpty /\ SInv /\ Moving /\ Target => Moving'
<1> SUFFICES ASSUME IInv, NonEmpty, SInv, Moving, Target PROVE Moving'
  OBVIOUS
<1>1. /\ Up /\ Wire
      /\ UNCHANGED <<to_server, to_client, serving, alive, outstanding, acked,
                     inserted, view>>
  BY DEF Target, client, SInv
<1>2. bps_by_addr' = bps_by_addr /\ (state = "stopped" => state' = state /\ ran' = ran)
  BY DEF Target, ExecInsn, HitBreakPoint, RunCached, RunTranslated, FinishBlock,
     FinishAborting, Device, interrupt, Dispatching, Executing, engine
<1>3. WireUnread' => WireUnread \/ serving
  <2>1. CASE WireIdle
    BY <1>1, <2>1, SessionAssumption DEF WireIdle, WireUnread
  <2>2. CASE WireReplied
    <3>1. outstanding # Ctrl_C
      BY <2>2, PacketFacts DEF WireReplied
    <3>2. QED BY <1>1, <2>2, <3>1, NothingUnread DEF WireReplied, WireUnread
  <2>3. QED BY <1>1, <2>1, <2>2 DEF Wire, WireServing
<1>4. Up' /\ WireUnread' /\ outstanding'.cmd \in {"c", "s"} => ~ ran'
  <2>1. serving => ~ WireUnread'
    BY <1>1 DEF WireUnread
  <2>2. CASE WireUnread
    <3>1. state = "stopped"
      BY <2>2 DEF WireUnread
    <3>2. QED BY <1>1, <1>2, <2>2, <3>1 DEF Moving
  <2>3. QED BY <1>3, <2>1, <2>2
<1>5. ASSUME UNCHANGED <<state, pc, idx, ran>>
      PROVE  Moving'
  BY <1>1, <1>2, <1>4, <1>5 DEF Moving
<1>6. CASE Device /\ UNCHANGED ran
  BY <1>5, <1>6 DEF Device, interrupt, engine
<1>7. CASE ExecInsn /\ ran' = TRUE
  <2>1. state = "executing"
    BY <1>7 DEF ExecInsn, Executing
  <2>2. QED BY <1>1, <1>2, <1>4, <1>7, <2>1 DEF Moving
<1>8. CASE HitBreakPoint /\ UNCHANGED ran
  <2>1. state = "dispatch" /\ state' = "stopped" /\ find_nearest(pc) = pc /\ pc \in Addr
    BY <1>8 DEF HitBreakPoint, Dispatching, Stop, IInv, TypeOK
  <2>2. pc \in bps_by_addr
    BY <2>1, NearestHere, VmAssumption DEF IInv, TypeOK
  <2>3. QED BY <1>1, <1>2, <1>4, <1>8, <2>1, <2>2 DEF Moving
<1>9. CASE (RunCached \/ RunTranslated) /\ UNCHANGED ran
  <2>1. /\ state = "dispatch" /\ find_nearest(pc) # pc /\ pc \in Addr
        /\ state' = "aborted" \/ (state' = "executing" /\ idx' = 1)
    BY <1>9 DEF RunCached, RunTranslated, Dispatching, Enter, Abort, IInv, TypeOK
  <2>2. pc \notin bps_by_addr
    BY <2>1, NearestHere, VmAssumption DEF IInv, TypeOK
  <2>3. QED BY <1>1, <1>2, <1>4, <1>9, <2>1, <2>2 DEF Moving
<1>10. CASE FinishBlock /\ UNCHANGED ran
  <2>1. state = "executing" /\ idx > Len(bb.code) /\ bb.ok
    BY <1>10 DEF FinishBlock, Executing
  <2>2. Len(bb.code) \in Nat \ {0}
    BY <2>1 DEF NonEmpty, NotEmpty, Executing
  <2>3. idx # 1
    BY <2>1, <2>2
  <2>4. state' \in {"stopped", "dispatch"}
    BY <1>10 DEF FinishBlock, Stop
  <2>5. QED BY <1>1, <1>2, <1>4, <1>10, <2>1, <2>3, <2>4 DEF Moving
<1>11. CASE FinishAborting /\ UNCHANGED ran
  <2>1. state' = "aborted" /\ state = "executing"
    BY <1>11 DEF FinishAborting, Abort, Executing
  <2>2. QED BY <1>1, <1>2, <1>4, <1>11, <2>1 DEF Moving
<1>12. QED
  BY <1>6, <1>7, <1>8, <1>9, <1>10, <1>11 DEF Target

\* Every step, if the client's breakpoints are of one type and none is at the
\* interrupt vector.
LEMMA MovingStep ==
  ASSUME OneBreakType, IrqVector \notin BreakAddrs
  PROVE  IInv /\ NonEmpty /\ SInv /\ Moving /\ [SessionNext]_all => Moving'
<1> SUFFICES ASSUME IInv, NonEmpty, SInv, Moving, [SessionNext]_all PROVE Moving'
  OBVIOUS
<1>1. CASE Server
  BY <1>1, ServerMoving
<1>2. CASE Reads \/ (\E p \in Packets : Send(p)) \/ PressCtrl_C \/ Disconnect
  BY <1>2, ClientMoving
<1>3. CASE Target
  BY <1>3, TargetMoving
<1>4. CASE UNCHANGED all
  <2>1. UNCHANGED <<state, pc, idx, regs, bps_by_addr, to_server, to_client,
                    serving, alive, outstanding, acked, inserted, view, ran>>
    BY <1>4 DEF all, vars, engine, session, client
  <2>2. WireUnread' = WireUnread /\ Up' = Up
    BY <2>1 DEF WireUnread, NoReply, Agree, BreaksAt, Current, Places, Up
  <2>3. QED BY <2>1, <2>2 DEF Moving
<1>5. QED BY <1>1, <1>2, <1>3, <1>4 DEF SessionNext

\* c and s execute something unless a breakpoint is where the client believes
\* the machine to be, and then c executes nothing: if breakpoints are of one
\* type and none is at the interrupt vector.
THEOREM RunsMove ==
  ASSUME OneBreakType, IrqVector \notin BreakAddrs
  PROVE  SessionSpec => []RunMoves
<1>1. SessionInit => NonEmpty /\ Moving
  BY DEF SessionInit, Init, NonEmpty, NoBlocks, Executing, Moving
<1>2. IInv /\ NonEmpty /\ [SessionNext]_all => NonEmpty'
  BY SessionStep, NonEmptyStep
<1>3. IInv /\ NonEmpty /\ SInv /\ Moving /\ [SessionNext]_all => Moving'
  BY MovingStep
<1>4. IInv /\ SInv /\ Moving => RunMoves
  <2> SUFFICES ASSUME SInv, Moving, serving, state = "stopped", view # Null, IInv
               PROVE  /\ view \notin Places => ran
                      /\ outstanding.cmd = "c" /\ view \in Places => ~ ran
    BY DEF RunMoves
  <2>1. bps_by_addr = Places
    BY DEF SInv, Turns, Up, Wire, WireIdle, WireUnread, WireServing, WireReplied, Agree,
       BreaksAt
  <2>2. QED BY <2>1 DEF Moving
<1>5. SessionSpec => []IInv
  BY SessionImplementsVm, Invariance, PTL
<1>6. QED
  BY <1>1, <1>2, <1>3, <1>4, <1>5, SessionInvariance, PTL DEF SessionSpec
=============================================================================
