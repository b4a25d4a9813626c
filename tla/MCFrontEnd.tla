---------------------------- MODULE MCFrontEnd ----------------------------
(* Commands of one token and of two, one of them with a '#' to be escaped. *)
EXTENDS FrontEnd

\* "c" and "m0,1", and the prefix "qC" of "qC#".
MCCommands == [str \in {<<99>>, <<109>>, <<113, 67>>} |-> IF str = <<109>> THEN 2 ELSE 1]
MCPayloads == {<<99>>, <<109, 48, 44, 49>>, <<113, 67, 35>>}

\* "S05" and none.
MCReplies == {<<83, 48, 53>>, <<>>}

MCNoise == {Plus, Minus, Open, Close, Esc, 48, 99}
=============================================================================
