---------------------------- MODULE GdbTransport ----------------------------
(***************************************************************************)
(* Packets on the byte stream between the debugger and gdb_server:         *)
(* gdb_rcv_msg, gdb_send_msg and what wait_and_run() does around them. A   *)
(* character is its ASCII code. The client is beyond the socket: what it   *)
(* sent, with at most one fault of the line, is there to be read. What the *)
(* commands do to the target is GdbSession's business.                     *)
(***************************************************************************)
EXTENDS Integers, SequencesExt

CONSTANTS
  Commands,        \* the prefixes start_with() looks for: a function to the
                   \* number of tokens that are asserted to be there
  Replies,         \* texts the target's state may make a reply of
  Payloads,        \* what the client may send
  Noise            \* characters a damaged one may turn into

Char  == 0 .. 255
Plus  == 43     \* '+'
Minus == 45     \* '-'
Comma == 44
Open  == 36     \* '$'
Close == 35     \* '#'
Esc   == 125    \* '}'

Special == {Open, Close, Esc}

\* A command is recognised by one character at least, and no reply has one that
\* must be escaped.
ASSUME TransportAssumption ==
  /\ Payloads \subseteq Seq(Char) /\ Noise \subseteq Char
  /\ Commands \in [DOMAIN Commands -> Nat]
  /\ DOMAIN Commands \subseteq Seq(Char) \ {<<>>}
  /\ Replies \subseteq Seq(Char \ Special)

VARIABLES
  sent, fault,     \* history: the client's packets, and what befell them
  wire, closed,    \* characters to be read; the end of the stream follows
  good,            \* ss.good()
  st, msg, csum,   \* gdb_rcv_msg: its state and what it has collected
  executed,        \* history: the messages carried out
  out              \* the last reply written

stream  == <<sent, fault, closed>>
session == <<stream, wire, good, st, msg, csum, executed, out>>

-----------------------------------------------------------------------------
(* gdb_send_msg.                                                           *)

\* m ^ 0x20
Flipped(m) == IF (m \div 32) % 2 = 1 THEN m - 32 ELSE m + 32

Coded(m) == IF m \in Special THEN <<Esc, Flipped(m)>> ELSE <<m>>

Body(text) == FlattenSeq([k \in DOMAIN text |-> Coded(text[k])])

Sum8(text) ==
  LET sum[n \in 0 .. Len(text)] ==
        IF n = 0 THEN 0 ELSE (sum[n - 1] + text[n]) % 256
  IN  sum[Len(text)]

\* The character that announces an escaped one is left out of the sum.
SendCsum(text) == Sum8([k \in DOMAIN text |-> Last(Coded(text[k]))])

\* Variant: the digits are in the wrong order.
get_csum_reversed(sum, idx) ==
  LET n == (sum \div IF idx = 0 THEN 1 ELSE 16) % 16
  IN  IF n > 9 THEN n + 87 ELSE n + 48

get_csum(sum, idx) ==
  LET n == (sum \div IF idx = 0 THEN 16 ELSE 1) % 16
  IN  IF n > 9 THEN n + 87 ELSE n + 48

Written(text) ==
  <<Open>> \o Body(text)
    \o <<Close, get_csum(SendCsum(text), 0), get_csum(SendCsum(text), 1)>>

-----------------------------------------------------------------------------
(* The client: what GDB sends, and what it makes of a reply.               *)

Hex == <<48, 49, 50, 51, 52, 53, 54, 55, 56, 57, 97, 98, 99, 100, 101, 102>>

\* A packet's sum is of all that is between '$' and '#'.
Framed(body) ==
  <<Open>> \o body
    \o <<Close, Hex[(Sum8(body) \div 16) + 1], Hex[(Sum8(body) % 16) + 1]>>

Packet(text) == Framed(Body(text))

\* Packets, each but the first after the acknowledgement of a reply.
Sent(texts) ==
  FlattenSeq([k \in DOMAIN texts |-> (IF k = 1 THEN <<>> ELSE <<Plus>>) \o Packet(texts[k])])

Verifies(reply) ==
  LET body == SubSeq(reply, 2, Len(reply) - 3)
  IN  reply = Framed(body)

\* The line damages one character or loses it, or the connection ends there.
Faults(chars) ==
  [kind : {"none"}]
    \cup [kind : {"damaged"}, at : DOMAIN chars, as : Noise]
    \cup [kind : {"lost", "cut"}, at : DOMAIN chars]

Through(chars, f) ==
  CASE f.kind = "none"    -> chars
    [] f.kind = "damaged" -> [chars EXCEPT ![f.at] = f.as]
    [] f.kind = "lost"    -> RemoveAt(chars, f.at)
    [] f.kind = "cut"     -> SubSeq(chars, 1, f.at - 1)

-----------------------------------------------------------------------------
(* gdb_rcv_msg.                                                            *)

\* The value of a hexadecimal digit, or -1.
Digit(m) == CASE m \in 48 .. 57  -> m - 48
              [] m \in 65 .. 70  -> m - 55
              [] m \in 97 .. 102 -> m - 87
              [] OTHER -> -1

start_with(m, str) == IsPrefix(str, m)

\* split(): a comma ends a token, and so does the end unless a comma is there.
Tokens(m) ==
  Cardinality({k \in DOMAIN m : m[k] = Comma})
    + IF m # <<>> /\ Last(m) # Comma THEN 1 ELSE 0

check_csum(m, sum) == Sum8(m) = sum

Supported(m) ==
  \E str \in DOMAIN Commands : start_with(m, str) /\ Tokens(m) >= Commands[str]

Reading == good /\ st # "done"

\* c = is.get()
c == Head(wire)

Get == Reading /\ wire # <<>> /\ wire' = Tail(wire)

Stays == UNCHANGED <<stream, good, executed, out>>

\* Variant: an escaped character is taken as it is.
Unescaped_raw(real_c) == real_c

Unescaped(real_c) == Flipped(real_c)

ReceiveBody ==
  /\ st \in {"body", "escaped"} /\ Get
  /\ \/ st = "body" /\ c = Esc /\ st' = "escaped" /\ UNCHANGED msg
     \/ st = "body" /\ c = Close /\ st' = "csum0" /\ UNCHANGED msg
     \/ /\ st = "body" /\ c \notin {Esc, Close}
        /\ msg' = Append(msg, c) /\ UNCHANGED st
     \/ st = "escaped" /\ msg' = Append(msg, Unescaped(c)) /\ st' = "body"
  /\ Stays /\ UNCHANGED csum

\* Variant: a third digit is waited for.
AfterDigit_third(s) == IF s = "csum0" THEN "csum1" ELSE "csum0"

AfterDigit(s) == IF s = "csum0" THEN "csum1" ELSE "done"

ReceiveDigit ==
  /\ st \in {"csum0", "csum1"} /\ Get /\ Digit(c) # -1
  /\ csum' = (16 * csum + Digit(c)) % 256
  /\ st' = AfterDigit(st)
  /\ Stays /\ UNCHANGED msg

\* Between packets. A NACK is the end of a message.
ReceiveIdle ==
  /\ st = "idle" /\ Get
  /\ \/ c = Plus /\ UNCHANGED <<st, msg>>
     \/ c = Minus /\ st' = "done" /\ UNCHANGED msg
     \/ c = Open /\ st' = "body" /\ msg' = <<>>
  /\ Stays /\ UNCHANGED csum

\* The end of the stream is the end of a message, too.
ReceiveEof ==
  /\ Reading /\ closed /\ wire = <<>>
  /\ good' = FALSE /\ st' = "done"
  /\ UNCHANGED <<stream, wire, msg, csum, executed, out>>

Receive == ReceiveBody \/ ReceiveDigit \/ ReceiveIdle \/ ReceiveEof

\* abort() on a character that is none of those.
Garbled ==
  /\ Reading /\ wire # <<>>
  /\ \/ st = "idle" /\ c \notin {Plus, Minus, Open}
     \/ st \in {"csum0", "csum1"} /\ Digit(c) = -1

-----------------------------------------------------------------------------
(* wait_and_run().                                                         *)

\* "c", which returns only when the target meets a breakpoint: it may never.
Running == st = "done" /\ Supported(msg) /\ start_with(msg, <<99>>)

\* The message has been read and is carried out, which is over when the reply is
\* written; nothing is written to a stream that is not good. The next message is
\* read into a new gdb_rcv_msg.
Serve ==
  /\ st = "done" /\ Supported(msg)
  /\ executed' = Append(executed, msg)
  /\ IF good THEN \E text \in Replies : out' = Written(text) ELSE UNCHANGED out
  /\ st' = IF good THEN "idle" ELSE "done"
  /\ msg' = <<>> /\ csum' = 0
  /\ UNCHANGED <<stream, wire, good>>

\* The assertion that the command is supported, or has its tokens.
Unsupported == st = "done" /\ ~ Supported(msg)

SessionNone ==
  /\ sent = <<>> /\ fault = [kind |-> "none"] /\ wire = <<>> /\ closed = FALSE
  /\ good = FALSE /\ st = "idle" /\ msg = <<>> /\ csum = 0
  /\ executed = <<>> /\ out = <<>>

\* The stream of a new connection.
Opened(texts, f, eof) ==
  /\ sent' = texts /\ fault' = f /\ closed' = eof
  /\ wire' = Through(Sent(texts), f)
  /\ good' = TRUE
  /\ UNCHANGED <<st, msg, csum, executed, out>>

-----------------------------------------------------------------------------
(* Properties.                                                             *)

\* The commands carried out are those that were sent, in order; the end of the
\* stream within a packet makes a command of the part that arrived. A character
\* damaged or lost makes at most one command be carried out that was not sent,
\* whatever it does to the packet's frame (gdb_rcv_msg, wait_and_run).
ExecutesWhatWasSent ==
  LET n == Len(executed)
      IsSent(k) == k \in DOMAIN sent /\ executed[k] = sent[k]
      IsPart(k) == k \in DOMAIN sent /\ IsPrefix(executed[k], sent[k])
  IN  CASE fault.kind = "none" -> \A k \in 1 .. n : IsSent(k)
        [] fault.kind = "cut"  -> /\ \A k \in 1 .. n - 1 : IsSent(k)
                                  /\ n > 0 => IsSent(n) \/ (~ good /\ IsPart(n))
        [] OTHER -> Cardinality({k \in 1 .. n : executed[k] \notin ToSet(sent)}) <= 1

\* The character the fault befell.
Befallen == Sent(sent)[fault.at]

\* A sum tells of a fault: no character is escaped, the '#' that ends a packet is
\* neither what is hit nor what is made of it, and what is lost weighs something.
Weighs ==
  /\ \A k \in DOMAIN sent : ToSet(sent[k]) \cap Special = {}
  /\ fault.kind = "damaged" => Befallen # Close /\ fault.as \notin {Close, Esc}
  /\ fault.kind = "lost"    => Befallen \notin {0, Close}

\* check_csum(), which nobody calls, would accept no command that was not sent
\* where a sum of characters can tell at all; and it would reject none that was
\* sent and came undamaged but those that have an escaped character.
CheckWouldTell ==
  st = "done" /\ good /\ msg # <<>> =>
    /\ Weighs /\ check_csum(msg, csum) => msg \in ToSet(sent)
    /\ ~ check_csum(msg, csum) =>
         \/ fault.kind \in {"damaged", "lost"}
         \/ ToSet(msg) \cap Special # {}

\* Every reply is a packet the client finds undamaged (gdb_send_msg): no reply
\* has a character to be escaped, which would be left out of its sum.
ReplyVerifies == out # <<>> => Verifies(out)
=============================================================================
