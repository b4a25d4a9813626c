----------------------------- MODULE RiscvWidth -----------------------------
(* The widths of an instruction's fields and of what it works on. RV64I is *)
(* XLEN = 64, ImmBits = 12: words of 32 bits, of which lui leaves the      *)
(* upper 20, and shifts of a word by 5.                                    *)
EXTENDS Integers

CONSTANTS
  XLEN,       \* bits of a register
  ImmBits     \* bits of an I-immediate

HalfBits == XLEN \div 2

\* Bits of a shift amount in a word, of a U-immediate.
ShBits == CHOOSE n \in 0 .. HalfBits : 2^n = HalfBits
UpBits == HalfBits - ImmBits

\* An I-immediate holds the amount of a shift, of ShBits + 1 bits, and above it
\* the bit that says arithmetic and one more; it is shorter than a word.
ASSUME WidthAssumption ==
  /\ XLEN \in Nat /\ \E n \in 4 .. XLEN : XLEN = 2^n
  /\ ImmBits \in ShBits + 3 .. HalfBits - 1
=============================================================================
