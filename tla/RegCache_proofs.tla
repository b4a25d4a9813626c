-------------------------- MODULE RegCache_proofs --------------------------
(***************************************************************************)
(* The register cache implements a register file, for every set of         *)
(* registers and of values.                                                *)
(***************************************************************************)
EXTENDS RegCache, TLAPS

\* What the cache relies on.
IInv == TypeOK /\ CleanIsCurrent

\* A read returns a value.
LEMMA ObtainedValue ==
  ASSUME TypeOK, NEW r \in Reg
  PROVE  Obtained(r) \in Value
BY DEF TypeOK, Obtained

\* Every action preserves the invariant.
LEMMA NextInvariant == IInv /\ [Next]_vars => IInv'
<1> SUFFICES ASSUME IInv, [Next]_vars PROVE IInv'
  OBVIOUS
<1> USE RegAssumption DEF IInv
<1>0. \A r \in Reg : Obtained(r) \in Value
  BY ObtainedValue
<1>1. CASE start_func
  <2>1. TypeOK'
    BY <1>0, <1>1 DEF start_func, TypeOK, is_dirty
  <2>2. CleanIsCurrent'
    BY <1>1 DEF start_func, TypeOK, CleanIsCurrent, is_dirty, Obtained
  <2>3. QED BY <2>1, <2>2
<1>2. ASSUME NEW r \in Reg, gen_get_reg(r) PROVE IInv'
  <2>1. CASE r = GR00
    BY <1>2, <2>1 DEF gen_get_reg, TypeOK, CleanIsCurrent
  <2>2. CASE r # GR00
    <3>1. TypeOK'
      BY <1>0, <1>2, <2>2 DEF gen_get_reg, TypeOK
    <3>2. CleanIsCurrent'
      BY <1>2, <2>2 DEF gen_get_reg, TypeOK, CleanIsCurrent, Obtained
    <3>3. QED BY <3>1, <3>2
  <2>3. QED BY <2>1, <2>2
<1>3. ASSUME NEW r \in Reg, NEW v \in Value, gen_set_reg(r, v) PROVE IInv'
  <2>1. CASE r = GR00
    BY <1>3, <2>1 DEF gen_set_reg, TypeOK, CleanIsCurrent
  <2>2. CASE r # GR00
    BY <1>3, <2>2 DEF gen_set_reg, TypeOK, CleanIsCurrent, is_dirty
  <2>3. QED BY <2>1, <2>2
<1>4. CASE end_func
  <2>1. \A r \in Reg : Flushed(r) \in Value
    BY DEF TypeOK, Flushed
  <2>2. TypeOK'
    BY <1>4, <2>1 DEF end_func, TypeOK, Clear, Clean, Cleared, EndPc
  <2>3. Flushed(GR00) = zero
    BY DEF TypeOK, CleanIsCurrent, Flushed
  <2>4. CleanIsCurrent'
    BY <1>4, <2>3 DEF end_func, CleanIsCurrent, Clear, Clean, Cleared
  <2>5. QED BY <2>2, <2>4
<1>5. ASSUME NEW r \in Reg, get_reg_func(r) PROVE IInv'
  BY <1>5 DEF get_reg_func, TypeOK, CleanIsCurrent
<1>6. ASSUME NEW r \in Reg, NEW v \in Value, set_reg_func(r, v) PROVE IInv'
  <2>1. latest = Clear
    BY <1>6 DEF set_reg_func, TypeOK
  <2>2. QED BY <1>6, <2>1 DEF set_reg_func, TypeOK, CleanIsCurrent, Clear
<1>7. CASE UNCHANGED vars
  BY <1>7 DEF vars, TypeOK, CleanIsCurrent
<1>8. QED BY <1>1, <1>2, <1>3, <1>4, <1>5, <1>6, <1>7 DEF Next

\* Nothing is cached when the program starts.
LEMMA InitInvariant == Init => IInv
BY RegAssumption DEF Init, IInv, TypeOK, CleanIsCurrent, Clear, Clean

\* Types, and that nothing is cached or dirty between blocks.
THEOREM TypeCorrect == Spec => []TypeOK
<1>1. IInv => TypeOK
  BY DEF IInv
<1>2. QED BY <1>1, InitInvariant, NextInvariant, PTL DEF Spec

\* A register that is cached and not dirty has its value in the file too.
THEOREM CleanCurrent == Spec => []CleanIsCurrent
<1>1. IInv => CleanIsCurrent
  BY DEF IInv
<1>2. QED BY <1>1, InitInvariant, NextInvariant, PTL DEF Spec

-----------------------------------------------------------------------------
(* Refinement.                                                             *)

\* The register file's current values.
Now == [r \in Reg |-> Obtained(r)]

\* An empty cache shows the file.
LEMMA ClearShowsFile ==
  ASSUME IInv, ~ in_func
  PROVE  \A r \in Reg : Obtained(r) = file[r]
BY DEF IInv, TypeOK, Obtained, Clear

\* Every step of the cache is a step of the register file, or a stutter.
LEMMA StepSimulation == IInv /\ [Next]_vars => [File!Next]_(File!vars)
<1> SUFFICES ASSUME IInv, [Next]_vars
             PROVE  File!Next \/ UNCHANGED <<Now, got, in_func>>
  BY DEF File!vars, Now
<1> USE RegAssumption
<1>0. TypeOK /\ CleanIsCurrent
  BY DEF IInv
<1>1. CASE start_func
  <2>1. Now' = [Now EXCEPT ![PC] = Now[PNEXT_PC]]
    BY <1>0, <1>1 DEF start_func, Now, Obtained, TypeOK, Clear
  <2>2. File!Begin
    BY <1>1, <2>1 DEF start_func, File!Begin, Now
  <2>3. QED BY <2>2 DEF File!Next
<1>2. ASSUME NEW r \in Reg, gen_get_reg(r) PROVE File!Next
  <2>1. Now[GR00] = zero
    BY <1>0 DEF Now, Obtained, CleanIsCurrent
  <2>2. got' = Now[r]
    BY <1>2, <2>1 DEF gen_get_reg, Now
  <2>3. Now' = Now
    BY <1>0, <1>2 DEF gen_get_reg, Now, Obtained, TypeOK
  <2>4. File!Read(r)
    BY <1>2, <2>2, <2>3 DEF gen_get_reg, File!Read, Now
  <2>5. QED BY <2>4 DEF File!Next
<1>3. ASSUME NEW r \in Reg, NEW v \in Value, gen_set_reg(r, v) PROVE File!Next
  <2>1. CASE r = GR00
    <3>1. Now' = Now
      BY <1>3, <2>1 DEF gen_set_reg, Now, Obtained
    <3>2. File!Write(r, v)
      BY <1>3, <2>1, <3>1 DEF gen_set_reg, File!Write, Now
    <3>3. QED BY <3>2 DEF File!Next
  <2>2. CASE r # GR00
    <3>1. Now' = [Now EXCEPT ![r] = v]
      BY <1>0, <1>3, <2>2 DEF gen_set_reg, Now, Obtained, TypeOK
    <3>2. File!Write(r, v)
      BY <1>3, <2>2, <3>1 DEF gen_set_reg, File!Write, Now
    <3>3. QED BY <3>2 DEF File!Next
  <2>3. QED BY <2>1, <2>2
<1>4. CASE end_func
  <2>1. \A r \in Reg : Flushed(r) = Obtained(r)
    BY <1>0 DEF TypeOK, CleanIsCurrent, Flushed, Obtained
  <2>2. latest' = Clear
    BY <1>4 DEF end_func
  <2>3. Now' = [r \in Reg |-> file'[r]]
    BY <2>2 DEF Now, Obtained, Clear
  <2>4. /\ file' = [[r \in Reg |-> Flushed(r)] EXCEPT ![PC] = Flushed(PNEXT_PC)]
        /\ got' = Flushed(PNEXT_PC)
    BY <1>4 DEF end_func, EndPc
  <2>5. /\ Now' = [Now EXCEPT ![PC] = Now[PNEXT_PC]]
        /\ got' = Now[PNEXT_PC]
    BY <2>1, <2>3, <2>4 DEF Now
  <2>6. File!End
    BY <1>4, <2>5 DEF end_func, File!End, Now
  <2>7. QED BY <2>6 DEF File!Next
<1>5. ASSUME NEW r \in Reg, get_reg_func(r) PROVE File!Next
  <2>1. got' = Now[r] /\ Now' = Now
    BY <1>5, ClearShowsFile DEF get_reg_func, Now, Obtained
  <2>2. File!Read(r)
    BY <1>5, <2>1 DEF get_reg_func, File!Read, Now
  <2>3. QED BY <2>2 DEF File!Next
<1>6. ASSUME NEW r \in Reg, NEW v \in Value, set_reg_func(r, v)
      PROVE  File!Next
  <2>1. Now' = [Now EXCEPT ![r] = v]
    BY <1>0, <1>6 DEF set_reg_func, Now, Obtained, TypeOK, Clear
  <2>2. File!Write(r, v)
    BY <1>6, <2>1 DEF set_reg_func, File!Write, Now
  <2>3. QED BY <2>2 DEF File!Next
<1>7. CASE UNCHANGED vars
  BY <1>7 DEF vars, Now, Obtained
<1>8. QED BY <1>1, <1>2, <1>3, <1>4, <1>5, <1>6, <1>7 DEF Next

\* Code that keeps registers in the cache behaves as code that reads and
\* writes them at once.
THEOREM CacheImplementsFile == Spec => ImplementsRegFile
<1>1. Init => File!Init
  BY DEF Init, File!Init, Obtained, Clear
<1>2. QED
  BY <1>1, InitInvariant, NextInvariant, StepSimulation, PTL
  DEF Spec, ImplementsRegFile, File!Spec
=============================================================================
