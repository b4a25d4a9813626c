---------------------------- MODULE MCGdbSession ----------------------------
(* Small guests for model-checking GdbSession.                             *)
EXTENDS GdbSession

I(o, a) == [op |-> o, k |-> a]
Image(words) == [a \in 0 .. 4 |-> words[a + 1]]

\* A loop with a store over its own second word, and the interrupt handler at
\* word 4.
Loop(w) == Image(<< w, I("bf", 0), I("nop", 0), I("j", 0), I("rfe", 0) >>)

Guests == {Loop(I("sw", 1)), Loop(I("sfeq", 0))}
Stored == I("nop", 0)
BreakHere == {0, 2}
OneType == {0}
TwoTypes == {0, 1}
=============================================================================
