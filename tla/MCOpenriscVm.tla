---------------------------- MODULE MCOpenriscVm ----------------------------
(* Small guests for model-checking OpenriscVm: seven words of code, an     *)
(* interrupt handler at word 5.                                            *)
EXTENDS OpenriscVmRefinement

I(o, a) == [op |-> o, k |-> a]
Image(words) == [a \in 0 .. 6 |-> words[a + 1]]

\* A loop that ends in either of two ways; w may store over the block that
\* is executing (word 3) or over the handler (word 5).
Loop(w) == Image(<< w, I("bf", 4), I("addi", 0), I("nop", 0),
                    I("j", 0), I("sfeq", 0), I("rfe", 0) >>)
\* A call and a return, with w in the delay slot of the call.
Call(w) == Image(<< I("jal", 4), w, I("sfeq", 0), I("rfe", 0),
                    I("jr", 0), I("nop", 0), I("rfe", 0) >>)
\* An indirect call, with w in its delay slot; its first return finds the
\* flag clear.
Indirect(t, w) ==
  Image(<< I("li", t), I("jalr", 0), w, I("bnf", 0),
           I("addi", 0), I("rfe", 0), I("unsupported", 0) >>)
\* A jump to the last word. If that is a jump, its delay slot is the first
\* word; if not, the scan goes on there. The store in it may put a jump into
\* a delay slot.
WrapAround(w, last) == Image(<< w, I("j", 6), I("nop", 0), I("nop", 0),
                                I("nop", 0), I("rfe", 0), last >>)

SafetyPrograms == {Loop(I("sfeq", 0)), Loop(I("sw", 3)), Loop(I("sw", 5)),
                   Call(I("nop", 0)), Call(I("sw", 2)),
                   Call(I("mflr", 0)), Indirect(3, I("sfeq", 2)),
                   Indirect(4, I("mflr", 0)), Indirect(4, I("mtlr", 0)),
                   WrapAround(I("nop", 0), I("jal", 1)),
                   WrapAround(I("sw", 0), I("jal", 1)),
                   WrapAround(I("nop", 0), I("addi", 0)),
                   WrapAround(I("sw", 0), I("addi", 0))}
LivePrograms == {Call(I("sw", 2)), WrapAround(I("nop", 0), I("jal", 1))}
Stored == I("jr", 0)
BreakHere == {0, 2, 4}
BreakOne == {2}
BreakAtVector == {2, 5}
=============================================================================
