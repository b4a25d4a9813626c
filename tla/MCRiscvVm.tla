----------------------------- MODULE MCRiscvVm -----------------------------
(* Small guests for model-checking RiscvVm.                                *)
EXTENDS RiscvVm, TLC

\* Parcels 0..7 are immediates and 8 .. 14 opcodes. Read from the middle, an
\* instruction's immediate and the next one's opcode make an instruction too.
SmallParcel == 0 .. 14
OpOf == 8 :> "jal" @@ 9 :> "jalr" @@ 10 :> "beq" @@ 11 :> "li" @@ 12 :> "addi"
          @@ 13 :> "sw" @@ 14 :> "unsupported"
SmallDecode ==
  [p \in SmallParcel \X SmallParcel |->
     LET o == IF p[1] >= 8 THEN p[1] ELSE p[2]
         k == IF p[1] >= 8 THEN p[2] ELSE p[1]
     IN  [op |-> IF o >= 8 THEN OpOf[o] ELSE "unsupported",
          k  |-> IF k < 8 THEN k ELSE 0]]

Image(w) == [a \in 0 .. 7 |-> w[a + 1]]

\* addi; sw over the next instruction; beq back; unsupported, jumped to by none
Storing == Image(<<12, 0,  13, 4,  11, 0,  10, 0>>)

\* A loop whose second round is through the odd parcels, by jalr to parcel 3.
Misaligned == Image(<<11, 3,  12, 1,  9, 0,  8, 0>>)

\* The last instruction falls through the end of the address space.
Wrapping == Image(<<8, 6,  14, 0,  12, 0,  12, 0>>)

\* A call, a counted loop and an unsupported instruction behind it.
Counting == Image(<<8, 4,  14, 0,  12, 0,  10, 2>>)

Guests == {Storing, Misaligned, Wrapping, Counting}
StoredPair == <<9, 0>>
EvenBreaks == {0, 2, 6}
MixedBreaks == {3, 4}
=============================================================================
