------------------------ MODULE BruteForceSATProofs ------------------------
(***************************************************************************)
(* Proofs about the SAT engine, for every size of engine and whatever the  *)
(* environment does to the inputs while a search runs.                     *)
(***************************************************************************)
EXTENDS BruteForceSAT, TLAPS

(* The powers of two that bound the registers are positive naturals.  The   *)
(* widths are small, so this is a finite case analysis.                     *)
LEMMA PowPositive == \A n \in 0..30 : Pow2(n) \in Nat \ {0}
<1> DEFINE P(n) == Pow2(n) \in Nat \ {0}
<1>1. P(0) /\ P(1) /\ P(2) /\ P(3) /\ P(4) /\ P(5) /\ P(6) /\ P(7)
  BY DEF Pow2
<1>2. P(8) /\ P(9) /\ P(10) /\ P(11) /\ P(12) /\ P(13) /\ P(14) /\ P(15)
  BY DEF Pow2
<1>3. P(16) /\ P(17) /\ P(18) /\ P(19) /\ P(20) /\ P(21) /\ P(22) /\ P(23)
  BY DEF Pow2
<1>4. P(24) /\ P(25) /\ P(26) /\ P(27) /\ P(28) /\ P(29) /\ P(30)
  BY DEF Pow2
<1>5. \A n \in 0..30 : \/ n \in {0, 1, 2, 3, 4, 5, 6, 7}
                       \/ n \in {8, 9, 10, 11, 12, 13, 14, 15}
                       \/ n \in {16, 17, 18, 19, 20, 21, 22, 23}
                       \/ n \in {24, 25, 26, 27, 28, 29, 30}
  OBVIOUS
<1> HIDE DEF P
<1>6. \A n \in 0..30 : P(n)
  BY <1>1, <1>2, <1>3, <1>4, <1>5
<1> QED BY <1>6 DEF P

(* max_assign is in range of the assignment register for every n_vars.      *)
LEMMA MaxAssignRange == n_vars \in NVars => max_assign \in Assignments
<1> SUFFICES ASSUME n_vars \in NVars PROVE max_assign \in Assignments
  OBVIOUS
<1>1. Pow2(n_vars) \in Nat \ {0} /\ Pow2(MaxVars) \in Nat \ {0}
  BY PowPositive, ParamAssumption DEF NVars
<1> QED BY <1>1 DEF max_assign, Assignments

(* The widths that every later proof uses.                                  *)
LEMMA Widths ==
  /\ Pow2(MaxVars) \in Nat \ {0} /\ Pow2(CyclesWidth) \in Nat \ {0}
  /\ Pow2(MaxVars) < Pow2(CyclesWidth)
BY PowPositive, ParamAssumption

(* Counting one assignment more never wraps the cycle counter.              *)
LEMMA NoWrap ==
  \A a \in Assignments : (a + 1) % Pow2(CyclesWidth) = a + 1
<1> DEFINE W == Pow2(CyclesWidth)
<1>1. \A x \in Nat, y \in Nat \ {0} : x < y => x % y = x
  OBVIOUS
<1>2. \A a \in Assignments : a + 1 \in Nat /\ a + 1 < W
  BY Widths DEF Assignments
<1> QED BY <1>1, <1>2, Widths

(* Every edge keeps every register within its width.                        *)
LEMMA TypeInductive == TypeOK /\ [Next]_vars => TypeOK'
<1> SUFFICES ASSUME TypeOK, [Next]_vars PROVE TypeOK'
  OBVIOUS
<1> USE DEF TypeOK
<1>1. CASE UNCHANGED vars
  BY <1>1 DEF vars, formula, regs
<1>2. CASE Next
  <2>1. /\ start' \in Bit /\ n_vars' \in NVars /\ n_clauses' \in NClauses
        /\ lit_var' \in [Clauses -> [Slots -> LitVar]]
        /\ lit_neg' \in [Clauses -> [Slots -> Bit]]
        /\ lit_used' \in [Clauses -> [Slots -> Bit]]
    <3>1. CASE UNCHANGED formula
      BY <1>2, <3>1 DEF Next, Environment, formula
    <3>2. CASE SetVars
      BY <1>2, <3>2, InputAssumption DEF Next, Environment, SetVars
    <3>3. CASE SetClauses
      BY <1>2, <3>3, InputAssumption DEF Next, Environment, SetClauses
    <3>4. CASE SetLiteral
      <4>1. start' \in Bit
        BY <1>2 DEF Next, Environment
      <4>2. PICK c \in Clauses, l \in Slots, x \in LitsIn :
              /\ lit_var' = [lit_var EXCEPT ![c][l] = x[1]]
              /\ lit_neg' = [lit_neg EXCEPT ![c][l] = x[2]]
              /\ lit_used' = [lit_used EXCEPT ![c][l] = x[3]]
              /\ UNCHANGED <<n_vars, n_clauses>>
        BY <3>4 DEF SetLiteral
      <4>3. x[1] \in LitVar /\ x[2] \in Bit /\ x[3] \in Bit
        BY InputAssumption
      <4> QED BY <4>1, <4>2, <4>3
    <3> QED BY <1>2, <3>1, <3>2, <3>3, <3>4 DEF Next, Environment
  <2>2. /\ assignment' \in Assignments /\ model_r' \in Assignments
        /\ running' \in Bit /\ done_r' \in Bit /\ sat_r' \in Bit
        /\ cycles_r' \in Cycles
    <3> USE Widths DEF Assignments, Cycles, Bit, Count
    <3>1. CASE StartEdge
      BY <3>1 DEF StartEdge
    <3>2. CASE SatEdge
      BY <3>2 DEF SatEdge
    <3>3. CASE UnsatEdge
      BY <3>3 DEF UnsatEdge
    <3>4. CASE StepEdge
      BY <3>4 DEF StepEdge
    <3>5. CASE IdleEdge
      BY <3>5 DEF IdleEdge, regs
    <3> QED BY <1>2, <3>1, <3>2, <3>3, <3>4, <3>5 DEF Next, SolverEdge
  <2>3. fresh' \in BOOLEAN
    BY <1>2 DEF Next, Witness
  <2> QED BY <2>1, <2>2, <2>3
<1> QED BY <1>1, <1>2

(* The reset values are in range.                                           *)
LEMMA InitType == Init => TypeOK
<1> SUFFICES ASSUME Init PROVE TypeOK
  OBVIOUS
<1>1. 0 \in Assignments /\ 0 \in Cycles
  BY Widths DEF Assignments, Cycles
<1>2. 0 \in Bit /\ 0 \in NVars /\ 0 \in NClauses /\ 0 \in LitVar
  BY DEF Bit, NVars, NClauses, LitVar
<1>3. /\ lit_var \in [Clauses -> [Slots -> LitVar]]
      /\ lit_neg \in [Clauses -> [Slots -> Bit]]
      /\ lit_used \in [Clauses -> [Slots -> Bit]]
  BY <1>2 DEF Init
<1> QED BY <1>1, <1>2, <1>3 DEF Init, TypeOK

(* Type correctness: no register ever overflows its declared width.         *)
THEOREM TypeCorrect == Spec => []TypeOK
BY InitType, TypeInductive, PTL DEF Spec

-----------------------------------------------------------------------------

(* The verdict on an assignment depends only on the formula registers.      *)
LEMMA FormulaDetermines ==
  formula' = formula =>
    /\ \A a \in Assignments : all_sat(a)' <=> all_sat(a)
    /\ max_assign' = max_assign
BY DEF formula, all_sat, clause_sat, lit_val, max_assign

SolverInv == TypeOK /\ SearchInv /\ DoneMeansIdle /\ AnswerExact

(* The invariant of the search is inductive, one case per kind of edge.     *)
LEMMA SearchInductive == SolverInv /\ [Next]_vars => SolverInv'
<1> SUFFICES ASSUME SolverInv, [Next]_vars PROVE SolverInv'
  OBVIOUS
<1>t. TypeOK /\ TypeOK'
  BY TypeInductive DEF SolverInv
<1>i. SearchInv /\ DoneMeansIdle /\ AnswerExact
  BY DEF SolverInv
<1>0. max_assign \in Assignments /\ max_assign' \in Assignments
  <2>1. n_vars' \in NVars => max_assign' \in Assignments
    <3>1. ASSUME n_vars' \in NVars PROVE Pow2(n_vars') \in Nat \ {0}
      BY <3>1, PowPositive DEF NVars
    <3> QED BY <3>1, Widths DEF max_assign, Assignments
  <2> QED BY <1>t, <2>1, MaxAssignRange DEF TypeOK
<1>1. CASE UNCHANGED vars
  <2>1. formula' = formula /\ regs' = regs /\ fresh' = fresh
    BY <1>1 DEF vars
  <2>2. SearchInv' /\ DoneMeansIdle' /\ AnswerExact'
    BY <2>1, <1>i, <1>t, FormulaDetermines
       DEF SearchInv, DoneMeansIdle, AnswerExact, NoneBelow, regs, TypeOK
  <2> QED BY <1>t, <2>2 DEF SolverInv
<1>2. CASE Next
  <2>1. CASE StartEdge
    <3>1. /\ assignment' = 0 /\ cycles_r' = 0 /\ done_r' = 0 /\ running' = 1
      BY <2>1 DEF StartEdge
    <3>2. 0 <= max_assign'
      BY <1>0, Widths DEF Assignments
    <3>3. NoneBelow(0)'
      BY Widths DEF NoneBelow, Assignments
    <3> QED BY <1>t, <3>1, <3>2, <3>3
            DEF SolverInv, SearchInv, DoneMeansIdle, AnswerExact, NoneBelow
  <2>2. ASSUME start = 0, fresh'
        PROVE  /\ fresh /\ max_assign' = max_assign
               /\ \A a \in Assignments : all_sat(a)' <=> all_sat(a)
    <3>1. start # 1
      BY <2>2
    <3>2. fresh /\ formula' = formula
      BY <1>2, <2>2, <3>1, Zenon DEF Next, Witness
    <3> QED BY <3>2, FormulaDetermines
  <2> HIDE DEF all_sat, max_assign
  <2>3. CASE SatEdge
    <3>1. /\ start = 0 /\ running = 1 /\ all_sat(assignment)
          /\ done_r' = 1 /\ sat_r' = 1 /\ model_r' = assignment /\ running' = 0
          /\ cycles_r' = (cycles_r + 1) % Pow2(CyclesWidth)
      BY <2>3 DEF SatEdge, Count
    <3>2. SearchInv' /\ DoneMeansIdle'
      BY <3>1 DEF SearchInv, DoneMeansIdle
    <3>3. AnswerExact'
      <4> SUFFICES ASSUME fresh' PROVE
             /\ all_sat(model_r)' /\ NoneBelow(model_r)'
             /\ model_r' <= max_assign' /\ cycles_r' = model_r' + 1
        BY <3>1 DEF AnswerExact
      <4>1. /\ NoneBelow(assignment) /\ assignment <= max_assign
            /\ cycles_r = assignment
        BY <2>2, <3>1, <1>i DEF SearchInv
      <4>2. cycles_r' = assignment + 1
        BY <4>1, <3>1, <1>t, NoWrap, Widths DEF TypeOK
      <4>3. NoneBelow(model_r)'
        BY <4>1, <3>1, <2>2 DEF NoneBelow
      <4>4. all_sat(model_r)'
        BY <3>1, <2>2, <1>t DEF TypeOK, all_sat, clause_sat, lit_val
      <4> QED BY <4>1, <4>2, <4>3, <4>4, <2>2, <3>1
    <3> QED BY <1>t, <3>2, <3>3 DEF SolverInv
  <2>4. CASE UnsatEdge
    <3>1. /\ start = 0 /\ running = 1 /\ ~all_sat(assignment)
          /\ assignment = max_assign
          /\ done_r' = 1 /\ sat_r' = 0 /\ running' = 0
          /\ cycles_r' = (cycles_r + 1) % Pow2(CyclesWidth)
      BY <2>4 DEF UnsatEdge, Count
    <3>2. SearchInv' /\ DoneMeansIdle'
      BY <3>1 DEF SearchInv, DoneMeansIdle
    <3>3. AnswerExact'
      <4> SUFFICES ASSUME fresh' PROVE
             NoneBelow(max_assign + 1)' /\ cycles_r' = max_assign' + 1
        BY <3>1 DEF AnswerExact
      <4>1. NoneBelow(assignment) /\ cycles_r = assignment
        BY <2>2, <3>1, <1>i DEF SearchInv
      <4>2. cycles_r' = assignment + 1
        BY <4>1, <3>1, <1>t, NoWrap DEF TypeOK
      <4>3. \A a \in Assignments :
              a < assignment + 1 => a < assignment \/ a = assignment
        BY <1>t, Widths DEF TypeOK, Assignments
      <4>4. \A a \in Assignments : a < assignment + 1 => ~all_sat(a)
        BY <4>1, <4>3, <3>1 DEF NoneBelow
      <4>5. \A a \in Assignments : a < max_assign' + 1 => ~all_sat(a)'
        BY <4>4, <2>2, <3>1
      <4> QED BY <4>2, <4>5, <2>2, <3>1 DEF NoneBelow
    <3> QED BY <1>t, <3>2, <3>3 DEF SolverInv
  <2>5. CASE StepEdge
    <3>1. /\ start = 0 /\ running = 1 /\ ~all_sat(assignment)
          /\ assignment # max_assign
          /\ assignment' = (assignment + 1) % Pow2(MaxVars)
          /\ cycles_r' = (cycles_r + 1) % Pow2(CyclesWidth)
          /\ done_r' = done_r /\ running' = running
      BY <2>5 DEF StepEdge, Count
    <3>2. DoneMeansIdle' /\ AnswerExact'
      BY <3>1, <1>i, <1>t DEF AnswerExact, DoneMeansIdle, TypeOK, Bit
    <3>3. SearchInv'
      <4> SUFFICES ASSUME fresh' PROVE
             /\ NoneBelow(assignment)' /\ assignment' <= max_assign'
             /\ cycles_r' = assignment'
        BY DEF SearchInv
      <4>1. /\ NoneBelow(assignment) /\ assignment <= max_assign
            /\ cycles_r = assignment
        BY <2>2, <3>1, <1>i DEF SearchInv
      <4>2. assignment + 1 <= max_assign /\ assignment + 1 \in Nat
        BY <4>1, <3>1, <1>t, <1>0, Widths DEF TypeOK, Assignments
      <4>3. assignment' = assignment + 1
        <5>1. \A x \in Nat, y \in Nat \ {0} : x < y => x % y = x
          OBVIOUS
        <5>2. assignment + 1 < Pow2(MaxVars)
          BY <4>2, <1>0, Widths DEF Assignments
        <5> QED BY <3>1, <4>2, <5>1, <5>2, Widths
      <4>4. cycles_r' = assignment + 1
        BY <4>1, <3>1, <1>t, NoWrap DEF TypeOK
      <4>5. \A a \in Assignments :
              a < assignment + 1 => a < assignment \/ a = assignment
        BY <1>t, Widths DEF TypeOK, Assignments
      <4>6. \A a \in Assignments : a < assignment' => ~all_sat(a)'
        BY <4>1, <4>3, <4>5, <3>1, <2>2 DEF NoneBelow
      <4> QED BY <4>2, <4>3, <4>4, <4>6, <2>2, <3>1 DEF NoneBelow
    <3> QED BY <1>t, <3>2, <3>3 DEF SolverInv
  <2>6. CASE IdleEdge
    <3>1. start = 0 /\ running = 0 /\ regs' = regs
      BY <2>6 DEF IdleEdge
    <3>2. SearchInv' /\ DoneMeansIdle'
      BY <3>1, <1>i DEF SearchInv, DoneMeansIdle, regs
    <3>3. AnswerExact'
      BY <3>1, <1>i, <1>t, <2>2 DEF AnswerExact, NoneBelow, regs, TypeOK
    <3> QED BY <1>t, <3>2, <3>3 DEF SolverInv
  <2> QED BY <1>2, <2>1, <2>3, <2>4, <2>5, <2>6 DEF Next, SolverEdge
<1> QED BY <1>1, <1>2

(* The engine is right whenever it says done: the smallest model, or unsat  *)
(* after every assignment was tried, in exactly as many cycles; done and    *)
(* running exclude each other.  No assumption on the environment is needed  *)
(* beyond what the ghost fresh says of the formula.                         *)
THEOREM SolverCorrect ==
  Spec => [](SearchInv /\ DoneMeansIdle /\ AnswerExact)
<1>1. Init => SearchInv /\ DoneMeansIdle /\ AnswerExact
  BY DEF Init, SearchInv, DoneMeansIdle, AnswerExact
<1>2. Init => SolverInv
  BY <1>1, InitType DEF SolverInv
<1>3. SolverInv => SearchInv /\ DoneMeansIdle /\ AnswerExact
  BY DEF SolverInv
<1> QED BY <1>2, <1>3, SearchInductive, PTL DEF Spec
=============================================================================
