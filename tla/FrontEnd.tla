------------------------------ MODULE FrontEnd ------------------------------
(***************************************************************************)
(* What an application has of jcpu: the interface of the classes openrisc  *)
(* and riscv, which are the same, and gdb_server::wait_and_run() that run()*)
(* starts, down to the socket. Devices and other threads call interrupt()  *)
(* and reset() at any time. The virtual machine behind them is OpenriscVm  *)
(* or RiscvVm: here it exists or not, and has irq_status.                  *)
(***************************************************************************)
EXTENDS GdbTransport

CONSTANTS
  Ports,           \* how many ports are tried: 10
  MaxPackets       \* bound: packets a client sends

ASSUME FrontEndAssumption == Ports \in Nat \ {0} /\ MaxPackets \in Nat

VARIABLES
  ext_ifs, vm,     \* whether there is one
  irq_status,
  process,         \* "up", "aborted", or "undefined" after undefined behaviour
  phase,           \* where the thread that calls run() is
  port,            \* the number of the port, from that of the server
  line, missed,    \* history: the level of the device's line, and whether the
                   \* virtual machine did not hear of it
  refused          \* history: the ports that could not be listened on

board == <<ext_ifs, vm, irq_status, line, missed>>
vars  == <<board, process, phase, port, refused, session>>

Up == process = "up"

-----------------------------------------------------------------------------
(* jcpu::jcpu, openrisc::openrisc.                                         *)

Init ==
  /\ ext_ifs = FALSE /\ vm = FALSE /\ irq_status = FALSE
  /\ line = FALSE /\ missed = FALSE
  /\ process = "up" /\ phase = "app" /\ port = 0 /\ refused = {}
  /\ SessionNone

App == Up /\ phase = "app"

Ends(how) == process' = how /\ UNCHANGED <<board, phase, port, refused, session>>

\* The interface may be set once.
set_ext_interface ==
  /\ App
  /\ \/ ext_ifs /\ Ends("aborted")
     \/ ~ ext_ifs /\ ext_ifs' = TRUE
          /\ UNCHANGED <<vm, irq_status, line, missed, process, phase, port,
                         refused, session>>

\* Variant: a new machine is not reset.
Reset_forgotten(irq) == irq

\* openrisc_vm::reset, riscv_vm::reset
Reset(irq) == FALSE

\* Dropped when there is no virtual machine, whatever the level.
reset ==
  /\ Up
  /\ irq_status' = IF vm THEN Reset(irq_status) ELSE irq_status
  /\ missed' = IF vm THEN line ELSE missed
  /\ UNCHANGED <<ext_ifs, vm, line, process, phase, port, refused, session>>

\* The virtual machine has one interrupt line, 0; it is not asked if it is not
\* there.
interrupt(irq_id, enable) ==
  /\ Up
  /\ \/ vm /\ irq_id # 0 /\ Ends("aborted")
     \/ /\ vm => irq_id = 0
        /\ irq_status' = IF vm THEN enable ELSE irq_status
        /\ line' = IF irq_id = 0 THEN enable ELSE line
        /\ missed' = IF irq_id = 0 THEN ~ vm ELSE missed
        /\ UNCHANGED <<ext_ifs, vm, process, phase, port, refused, session>>

\* The first run() makes the virtual machine, of an interface that must have
\* been set, and resets it: its constructor leaves irq_status as it finds it.
\* Then run() is in the virtual machine for ever or tries the first port.
run(opt) ==
  /\ App
  /\ \/ ~ vm /\ ~ ext_ifs /\ Ends("undefined")
     \/ /\ vm \/ ext_ifs
        /\ vm' = TRUE
        /\ \E garbage \in BOOLEAN :
             irq_status' = IF vm THEN irq_status ELSE Reset(garbage)
        /\ missed' = IF vm THEN missed ELSE line
        /\ phase' = IF opt = "RUN_OPTION_NORMAL" THEN "cpu" ELSE "listening"
        /\ port' = 0 /\ refused' = {}
        /\ UNCHANGED <<ext_ifs, line, process, session>>

\* No machine, no count.
get_total_insn_count == App /\ ~ vm /\ Ends("undefined")

-----------------------------------------------------------------------------
(* gdb_server::wait_and_run and the sockets.                               *)

\* acceptor::start(): socket(), bind() and listen() succeed.
Listen ==
  /\ Up /\ phase = "listening"
  /\ phase' = "accepting"
  /\ UNCHANGED <<board, process, port, refused, session>>

\* Variants: the last port is not tried; one too many is.
TriesAnother_more(i) == i < Ports
TriesAnother_less(i) == i + 2 < Ports

TriesAnother(i) == i + 1 < Ports

\* One of them fails: the socket_error is caught and the next port tried. After
\* the last one, run() returns.
PortRefused ==
  /\ Up /\ phase = "listening"
  /\ refused' = refused \cup {port}
  /\ port' = port + 1
  /\ phase' = IF TriesAnother(port) THEN "listening" ELSE "app"
  /\ UNCHANGED <<board, process, session>>

\* acceptor::accept() gives the client's socket, or one on which every
\* operation fails, when ten calls of ::accept() have.
Accept ==
  /\ Up /\ phase = "accepting"
  /\ phase' = "serving"
  /\ \/ \E n \in 0 .. MaxPackets : \E texts \in [1 .. n -> Payloads] :
          \E f \in Faults(Sent(texts)), eof \in BOOLEAN :
            (f.kind = "cut" => eof) /\ Opened(texts, f, eof)
     \/ Opened(<<>>, [kind |-> "none"], TRUE)
  /\ UNCHANGED <<board, process, port, refused>>

\* One turn of the loop, of which only the end of the process is the end.
Session ==
  /\ Up /\ phase = "serving"
  /\ \/ (Receive \/ Serve) /\ UNCHANGED process
     \/ (Garbled \/ Unsupported) /\ process' = "aborted" /\ UNCHANGED session
  /\ UNCHANGED <<board, phase, port, refused>>

-----------------------------------------------------------------------------
Options == {"RUN_OPTION_NORMAL", "RUN_OPTION_WATI_GDB"}

\* What the thread in run() does of itself, without waiting for a client to
\* come or for the target to stop.
Server == Listen \/ PortRefused \/ (~ Running /\ Session)

\* run_continue() is back with the breakpoint that the target met.
ContinueReturns == Running /\ Session

Next ==
  \/ set_ext_interface
  \/ reset
  \/ \E irq_id \in {0, 1}, enable \in BOOLEAN : interrupt(irq_id, enable)
  \/ \E opt \in Options : run(opt)
  \/ get_total_insn_count
  \/ Accept
  \/ Server
  \/ ContinueReturns

\* The thread in run() goes on. A client may never come, and "c" never return.
Spec == Init /\ [][Next]_vars /\ WF_vars(Server)

-----------------------------------------------------------------------------
(* Properties.                                                             *)

\* There is a virtual machine once run() is under way, an interrupt only in one,
\* and the ports before the one being used were refused.
TypeOK ==
  /\ process \in {"up", "aborted", "undefined"}
  /\ phase \in {"app", "cpu", "listening", "accepting", "serving"}
  /\ phase # "app" => vm
  /\ vm => ext_ifs
  /\ irq_status => vm
  /\ port \in 0 .. Ports /\ refused = 0 .. port - 1
  /\ st \in {"idle", "body", "escaped", "csum0", "csum1", "done"}
  /\ csum \in 0 .. 255

\* The virtual machine sees the level of the device's line unless it was not
\* there when the device set it, or has been reset since: then it sees no
\* interrupt, and hears of the line when the device sets it again
\* (openrisc::interrupt, openrisc::reset and run).
IrqFollowsLine ==
  vm => irq_status = (line /\ ~ missed)

\* run() returns from the debugger's session only when it could listen on none
\* of the ports (gdb_server::wait_and_run).
GivesUpOnlyWhenRefused ==
  [][phase = "listening" /\ phase' = "app" => refused' = 0 .. Ports - 1]_vars

\* The server listens or gives up, and then carries out every command of a
\* client whose packets arrive whole, unless the process is aborted or the target
\* runs on: the commands behind "c" wait for as long as it does.
Serves ==
  /\ phase = "listening" ~> phase # "listening" \/ ~ Up
  /\ (phase = "serving" /\ fault.kind = "none") ~> (executed = sent \/ Running \/ ~ Up)
=============================================================================
