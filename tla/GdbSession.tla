----------------------------- MODULE GdbSession -----------------------------
(***************************************************************************)
(* A debugging session: gdb_server::impl::wait_and_run between a client at *)
(* the other end of a TCP connection and the virtual machine of OpenriscVm *)
(* whose run(), step_exec() and set_unset_break_point() it calls.          *)
(*                                                                         *)
(* The connection delivers in order and loses nothing, so an element of    *)
(* to_server or to_client is a whole packet, an acknowledgement or the end *)
(* of the stream. The client is GDB as far as the server relies on it: one *)
(* packet outstanding, its acknowledgement read before its reply, and only *)
(* breakpoints it has inserted are removed.                                *)
(***************************************************************************)
EXTENDS OpenriscVm, SequencesExt

CONSTANT BreakTypes        \* types of breakpoint the client uses: 0, 1

VARIABLES
  to_server, to_client,    \* the two directions of the connection
  serving,                 \* the server is in run_continue()
  alive,                   \* the server has not failed an assertion of its own
  outstanding,             \* the client's packet without a reply, or Null
  acked,                   \* the client has read an acknowledgement for it
  inserted,                \* breakpoints the client was told are set
  view,                    \* the program counter it was last told, or Null
  ran                      \* history: an instruction executed since c or s

client  == <<outstanding, acked, inserted, view>>
session == <<to_server, to_client, serving, alive, client, ran>>
all     == <<vars, session>>

Ack    == [cmd |-> "+"]
Hangup == [cmd |-> "eof"]
Ctrl_C == [cmd |-> "int"]

\* "q" stands for the queries that are answered with a constant: qSupported,
\* qC, qOffsets, qAttached, qSymbol, qTStatus, Hc, Hg, ? and vCont?; "g" also
\* for p and m, which read the target and change nothing, and "bad" for a p of a
\* register that is not there, 0 included, or a packet without its tokens.
BreakPackets == [cmd : {"Z", "z"}, type : BreakTypes, addr : BreakAddrs]
Packets == [cmd : {"q", "g", "c", "s", "bad"}] \cup BreakPackets

ASSUME SessionAssumption == Null \notin Packets \cup {Hangup}

Up == alive /\ state # "aborted"

Places == {b[2] : b \in inserted}

-----------------------------------------------------------------------------
(* The server. *)

\* The next element of the stream is p, and the server reads it.
Receive(p) ==
  /\ Up /\ ~ serving
  /\ to_server # <<>> /\ Head(to_server) = p
  /\ to_server' = Tail(to_server)

\* Variants of Replied: the packet is acknowledged once, as the protocol asks;
\* when it is read as well as when it is done with.
Replied_once(reply) == <<Ack, reply>>
Replied_twice(reply) == <<Ack, Ack, reply, Ack>>

\* What the server sends when it is done with a packet: the acknowledgement
\* of the packet, the reply, and one acknowledgement more.
Replied(reply) == <<Ack, reply, Ack>>

Answer(reply) == to_client' = to_client \o Replied(reply)

\* Variants of set_or_unset and run_continue: the argument lost on the way.
set_or_unset_sets(set, a) == SetBreakPoint(a)
run_continue_runs(step) == IF step THEN Continue ELSE Continue

set_or_unset(set, a) == IF set THEN SetBreakPoint(a) ELSE UnsetBreakPoint(a)
run_continue(step)   == IF step THEN Step ELSE Continue

\* Variant of Returned: the stop is reported when the target starts.
Returned_early(s) == TRUE

Returned(s) == s = "stopped"

ReceiveAck ==
  /\ Receive(Ack)
  /\ UNCHANGED <<vars, to_client, serving, alive, client, ran>>

ServeQuery ==
  /\ Receive([cmd |-> "q"])
  /\ Answer([cmd |-> "$"])
  /\ UNCHANGED <<vars, serving, alive, client, ran>>

ServeRegisters ==
  /\ Receive([cmd |-> "g"])
  /\ Answer([cmd |-> "$", pc |-> regs.PC])
  /\ UNCHANGED <<vars, serving, alive, client, ran>>

\* The type of the breakpoint is parsed and not used.
ServeBreakPoint ==
  \E p \in BreakPackets :
    /\ Receive(p)
    /\ set_or_unset(p.cmd = "Z", p.addr)
    /\ IF state' = "aborted" THEN UNCHANGED to_client ELSE Answer([cmd |-> "$"])
    /\ UNCHANGED <<serving, alive, client, ran>>

\* The target runs while the server waits; nothing is sent before it returns.
ServeRun ==
  \E step \in BOOLEAN :
    /\ Receive([cmd |-> IF step THEN "s" ELSE "c"])
    /\ run_continue(step)
    /\ serving' = TRUE
    /\ UNCHANGED <<to_client, alive, client, ran>>

ReplyStopped ==
  /\ Up /\ serving /\ Returned(state)
  /\ Answer([cmd |-> "$"])
  /\ serving' = FALSE
  /\ UNCHANGED <<vars, to_server, alive, client, ran>>

\* An end of stream leaves an empty packet, which is "Not supported command",
\* and any character but '$', '+' and '-' between packets aborts. vector::at
\* throws for a register that is not there and nobody catches it; a token that
\* is missing fails an assertion.
Fail ==
  /\ Receive(Hangup) \/ Receive(Ctrl_C) \/ Receive([cmd |-> "bad"])
  /\ alive' = FALSE
  /\ UNCHANGED <<vars, to_client, serving, client, ran>>

-----------------------------------------------------------------------------
(* The client. *)

Idle == Up /\ outstanding = Null

Allowed(p) ==
  CASE p.cmd = "Z" -> <<p.type, p.addr>> \notin inserted
    [] p.cmd = "z" -> <<p.type, p.addr>> \in inserted
    [] OTHER -> p.cmd # "q"        \* sent once, when the session begins

Send(p) ==
  /\ Idle
  /\ Allowed(p)
  /\ to_server' = Append(to_server, p)
  /\ outstanding' = p
  /\ acked' = FALSE
  /\ ran' = IF p.cmd \in {"c", "s"} THEN FALSE ELSE ran
  /\ UNCHANGED <<vars, to_client, serving, alive, inserted, view>>

\* Any acknowledgement will do, and those in front of the reply are skipped.
ReadAck ==
  /\ Up /\ outstanding # Null
  /\ to_client # <<>> /\ Head(to_client) = Ack
  /\ to_client' = Tail(to_client)
  /\ acked' = TRUE
  /\ UNCHANGED <<vars, to_server, serving, alive, outstanding, inserted, view,
                 ran>>

ReadReply ==
  /\ Up /\ outstanding # Null /\ acked
  /\ to_client # <<>> /\ Head(to_client).cmd = "$"
  /\ to_client' = Tail(to_client)
  /\ to_server' = Append(to_server, Ack)
  /\ outstanding' = Null
  /\ LET p == outstanding IN
     /\ inserted' = CASE p.cmd = "Z" -> inserted \cup {<<p.type, p.addr>>}
                      [] p.cmd = "z" -> inserted \ {<<p.type, p.addr>>}
                      [] OTHER -> inserted
     /\ view' = CASE p.cmd = "g" -> Head(to_client).pc
                  [] p.cmd \in {"c", "s"} -> Null
                  [] OTHER -> view
  /\ UNCHANGED <<vars, serving, alive, acked, ran>>

\* The user interrupts a run that has been acknowledged; once is enough.
PressCtrl_C ==
  /\ Up /\ outstanding # Null /\ outstanding.cmd = "c" /\ acked
  /\ ~ Contains(to_server, Ctrl_C)
  /\ to_server' = Append(to_server, Ctrl_C)
  /\ UNCHANGED <<vars, to_client, serving, alive, client, ran>>

Disconnect ==
  /\ Idle
  /\ to_server' = Append(to_server, Hangup)
  /\ outstanding' = Hangup
  /\ acked' = FALSE
  /\ UNCHANGED <<vars, to_client, serving, alive, inserted, view, ran>>

-----------------------------------------------------------------------------
\* The connection has been accepted and the client has sent its first query.
SessionInit ==
  /\ Init
  /\ to_server = << [cmd |-> "q"] >>
  /\ to_client = <<>>
  /\ serving = FALSE
  /\ alive = TRUE
  /\ outstanding = [cmd |-> "q"]
  /\ acked = FALSE
  /\ inserted = {}
  /\ view = Null
  /\ ran = FALSE

Server == ReceiveAck \/ ServeQuery \/ ServeRegisters \/ ServeBreakPoint
          \/ ServeRun \/ ReplyStopped \/ Fail

Reads == ReadAck \/ ReadReply

\* The target's own steps, in run_continue(), and the device's.
Target ==
  /\ Up
  /\ \/ ExecInsn /\ ran' = TRUE
     \/ (HitBreakPoint \/ RunCached \/ RunTranslated \/ FinishBlock
           \/ FinishAborting \/ Device) /\ UNCHANGED ran
  /\ UNCHANGED <<to_server, to_client, serving, alive, client>>

SessionNext ==
  \/ Server
  \/ Reads
  \/ \E p \in Packets : Send(p)
  \/ PressCtrl_C
  \/ Disconnect
  \/ Target

\* The server keeps serving, the target keeps executing, and a client that
\* waits for a reply keeps reading.
SessionSpec ==
  SessionInit /\ [][SessionNext]_all
  /\ WF_vars(Engine) /\ WF_all(Server) /\ WF_all(Reads)

-----------------------------------------------------------------------------
(* Properties.                                                             *)

\* What travels is what the protocol has, and never more than one packet and
\* the acknowledgements of two.
SessionTypeOK ==
  /\ to_server \in Seq(Packets \cup {Ack, Hangup, Ctrl_C})
  /\ Len(to_server) =< 3 /\ Len(to_client) =< 4
  /\ serving \in BOOLEAN /\ alive \in BOOLEAN
  /\ acked \in BOOLEAN /\ ran \in BOOLEAN
  /\ outstanding \in Packets \cup {Null, Hangup}
  /\ inserted \subseteq BreakTypes \X BreakAddrs
  /\ view \in Addr \cup {Null}

\* c and s are acknowledged only when the target has stopped, which may be
\* after any time. The client does not time out and repeat them because it
\* finds the second acknowledgement of the packet before: a run that is under
\* way has its acknowledgement read or on its way.
RunIsAcknowledged ==
  serving => acked \/ Contains(to_client, Ack)

\* Between packets, the breakpoints the client was told are set are those the
\* machine honours.
BreakpointsAgree ==
  Up /\ (outstanding = Null \/ outstanding.cmd \notin {"Z", "z"}) =>
    Places = bps_by_addr

\* The assertion of bp_manager::remove, that the breakpoint is there, holds for
\* the z packet the server reads next.
RemovalFinds ==
  \A p \in BreakPackets :
    Up /\ p.cmd = "z" /\ to_server # <<>> /\ Head(to_server) = p =>
      p.addr \in bps_by_addr

\* While the client believes the target stopped, it is, and the program
\* counter the client remembers is REG_PC whatever it has set since.
ViewIsCurrent ==
  (outstanding = Null \/ outstanding.cmd \notin {"c", "s"}) =>
    /\ state \in {"stopped", "aborted"}
    /\ Up /\ view # Null => view = regs.PC

\* A client that knows the target is not at a breakpoint gets it to execute
\* something by c or s; at a breakpoint c returns without having executed
\* anything, so that the breakpoint has to be removed and stepped over.
RunMoves ==
  serving /\ state = "stopped" /\ view # Null =>
    /\ view \notin Places => ran
    /\ outstanding.cmd = "c" /\ view \in Places => ~ ran

\* Every packet but c is answered, unless the machine or the server dies.
Answered ==
  (outstanding # Null /\ outstanding.cmd # "c") ~> (outstanding = Null \/ ~ Up)
=============================================================================
