------------------------------ MODULE RegFile ------------------------------
(***************************************************************************)
(* The registers as the guest's code must see them: every read returns     *)
(* what was written last, in a block or between blocks.                    *)
(***************************************************************************)
CONSTANTS Reg,                    \* the registers of an architecture
          GR00, PC, PNEXT_PC,     \* three of them
          Value, zero             \* what they hold

VARIABLES
  now,         \* the current value of each register
  got,         \* the value returned by the last read
  in_func      \* a block's code is executing

vars == <<now, got, in_func>>

Init ==
  /\ now \in [Reg -> Value]
  /\ now[GR00] = zero
  /\ got = zero
  /\ in_func = FALSE

Begin ==
  /\ ~ in_func
  /\ in_func' = TRUE
  /\ now' = [now EXCEPT ![PC] = now[PNEXT_PC]]
  /\ got' = now[PNEXT_PC]

Read(r) ==
  /\ got' = now[r]
  /\ UNCHANGED <<now, in_func>>

\* GR00 is hard-wired.
Write(r, v) ==
  /\ now' = IF r = GR00 THEN now ELSE [now EXCEPT ![r] = v]
  /\ UNCHANGED <<got, in_func>>

End ==
  /\ in_func
  /\ in_func' = FALSE
  /\ now' = [now EXCEPT ![PC] = now[PNEXT_PC]]
  /\ got' = now[PNEXT_PC]

Next ==
  \/ Begin
  \/ \E r \in Reg : Read(r)
  \/ \E r \in Reg, v \in Value : Write(r, v)
  \/ End

Spec == Init /\ [][Next]_vars
=============================================================================
