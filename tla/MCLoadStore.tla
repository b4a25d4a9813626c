---------------------------- MODULE MCLoadStore ----------------------------
(* Bytes of one bit, two words of them, and registers full or with a byte. *)
EXTENDS LoadStore, TLC

MCImages == {[w \in 0 .. 1 |-> 0], (0 :> 9) @@ (1 :> 6)}
MCBases  == {0, 3, 5, 13}
MCValues == {0, 1, 6, 13, 16 + 9, 255}
=============================================================================
