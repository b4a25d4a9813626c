------------------------------ MODULE RegCache ------------------------------
(***************************************************************************)
(* general_reg_cache: while a block is translated, the value a register    *)
(* was last read or given is kept, reads are served from it, and what was  *)
(* given is written to the register file by code at the end of the block.  *)
(*                                                                         *)
(* Translation and execution are followed together: emitting an            *)
(* instruction and executing it is one step, since which registers are     *)
(* cached and which are dirty does not depend on what they hold.           *)
(***************************************************************************)
CONSTANTS Reg, GR00, PC, PNEXT_PC, Value, zero,
          Null                    \* JCPU_NULLPTR

ASSUME RegAssumption ==
  /\ {GR00, PC, PNEXT_PC} \subseteq Reg
  /\ GR00 # PC /\ GR00 # PNEXT_PC /\ PC # PNEXT_PC
  /\ zero \in Value
  /\ Null \notin Value

VARIABLES
  file,        \* the array the generated code keeps the registers in
  latest,      \* regs[r].first
  dirty,       \* regs[r].second
  got,         \* the value the last read returned
  in_func      \* cur_func is set

vars == <<file, latest, dirty, got, in_func>>

Clear == [r \in Reg |-> Null]
Clean == [r \in Reg |-> FALSE]

\* Variant of is_dirty: what is given to a register counts as read.
is_dirty_never(old, new) == old

\* regs[r].second |= dirty
is_dirty(old, new) == old \/ new

\* flush_and_clear writes the dirty registers.
Flushed(r) == IF dirty[r] THEN latest[r] ELSE file[r]

\* Variant of Cleared: the values go and the marks stay.
Cleared_marked(marks) == marks

\* flush_and_clear leaves no register cached or dirty.
Cleared(marks) == Clean

\* Variant of EndPc: PNEXT_PC is read before the flush.
EndPc_early(flushed) == file[PNEXT_PC]

\* end_func's epilogue reads PNEXT_PC with a call of get_reg, behind the flush.
EndPc(flushed) == flushed[PNEXT_PC]

Init ==
  /\ file \in [Reg -> Value]
  /\ file[GR00] = zero
  /\ latest = Clear
  /\ dirty = Clean
  /\ got = zero
  /\ in_func = FALSE

\* gen_get_reg: the latest value, or a call of get_reg whose result is kept.
Obtained(r) == IF latest[r] # Null THEN latest[r] ELSE file[r]

\* start_func's prologue sets PC to PNEXT_PC, which it reads.
start_func ==
  /\ ~ in_func
  /\ in_func' = TRUE
  /\ LET v == Obtained(PNEXT_PC) IN
     /\ latest' = [latest EXCEPT ![PNEXT_PC] = v, ![PC] = v]
     /\ dirty' = [dirty EXCEPT ![PC] = is_dirty(@, TRUE)]
     /\ got' = v
  /\ UNCHANGED file

\* GR00 reads as a constant and is not cached.
gen_get_reg(r) ==
  /\ in_func
  /\ IF r = GR00
     THEN got' = zero /\ UNCHANGED <<latest, dirty>>
     ELSE /\ got' = Obtained(r)
          /\ latest' = [latest EXCEPT ![r] = Obtained(r)]
          /\ UNCHANGED dirty
  /\ UNCHANGED <<file, in_func>>

gen_set_reg(r, v) ==
  /\ in_func
  /\ IF r = GR00
     THEN UNCHANGED <<latest, dirty>>
     ELSE /\ latest' = [latest EXCEPT ![r] = v]
          /\ dirty' = [dirty EXCEPT ![r] = is_dirty(@, TRUE)]
  /\ UNCHANGED <<file, got, in_func>>

\* The flush, then PNEXT_PC is read from the file and written to PC.
end_func ==
  /\ in_func
  /\ in_func' = FALSE
  /\ LET flushed == [r \in Reg |-> Flushed(r)] IN
     /\ file' = [flushed EXCEPT ![PC] = EndPc(flushed)]
     /\ got' = EndPc(flushed)
  /\ latest' = Clear
  /\ dirty' = Cleared(dirty)

\* get_reg_func and set_reg_func, called by run(), step_exec() and the GDB
\* server between blocks.
get_reg_func(r) ==
  /\ ~ in_func
  /\ got' = file[r]
  /\ UNCHANGED <<file, latest, dirty, in_func>>

set_reg_func(r, v) ==
  /\ ~ in_func
  /\ r # GR00                \* run() and step_exec() write EPCR0, SR, PNEXT_PC
  /\ file' = [file EXCEPT ![r] = v]
  /\ UNCHANGED <<latest, dirty, got, in_func>>

Next ==
  \/ start_func
  \/ \E r \in Reg : gen_get_reg(r)
  \/ \E r \in Reg, v \in Value : gen_set_reg(r, v)
  \/ end_func
  \/ \E r \in Reg : get_reg_func(r)
  \/ \E r \in Reg, v \in Value : set_reg_func(r, v)

Spec == Init /\ [][Next]_vars

-----------------------------------------------------------------------------
(* Properties.                                                             *)

\* Values are values; a dirty register has one to write; between blocks
\* nothing is cached, so that the file can be read and written directly.
TypeOK ==
  /\ file \in [Reg -> Value]
  /\ latest \in [Reg -> Value \cup {Null}]
  /\ dirty \in [Reg -> BOOLEAN]
  /\ got \in Value
  /\ in_func \in BOOLEAN
  /\ \A r \in Reg : dirty[r] => latest[r] # Null
  /\ ~ in_func => latest = Clear /\ dirty = Clean

\* A cached value that will not be written back is the one the file has, and
\* GR00 is zero in the file as well as in the code.
CleanIsCurrent ==
  /\ \A r \in Reg : latest[r] # Null /\ ~ dirty[r] => latest[r] = file[r]
  /\ file[GR00] = zero /\ latest[GR00] = Null

File == INSTANCE RegFile WITH now <- [r \in Reg |-> Obtained(r)]

\* No read, in a block or after it, can tell the cache from a register file
\* written at once.
ImplementsRegFile == File!Spec
=============================================================================
