--------------------------- MODULE BruteForceSAT ---------------------------
(***************************************************************************)
(* The brute-force SAT engine of soc/sat_solver.py, one step per clock     *)
(* edge.  The ports that other hardware drives (start, n_vars, n_clauses   *)
(* and the literals) are variables that the environment may change at any  *)
(* edge, one register per edge: SATSlave decodes one bus write per cycle.  *)
(* One-bit signals are 0 or 1; vectors are the unsigned integer they hold. *)
(***************************************************************************)
EXTENDS Integers

CONSTANTS MaxVars,      \* MAX_VARS: bits of the assignment and of the model
          MaxClauses,   \* MAX_CLAUSES
          ClauseLen,    \* CLAUSE_LEN: literal slots of a clause
          CyclesWidth,  \* bits of the cycle counter (20)
          VarsIn,       \* values the environment drives on n_vars
          ClausesIn,    \* ... on n_clauses
          LitsIn        \* ... on a literal slot, as <<var, neg, used>>

Pow2(n) == 2^n

Bit == 0..1
NVars == 0..15          \* Signal(range(MAX_VARS + 1)) has 4 bits
NClauses == 0..31       \* Signal(range(MAX_CLAUSES + 1)) has 5 bits
LitVar == 0..15         \* Signal(range(MAX_VARS)) has 4 bits

\* The widths in the code are MaxVars = 10 and CyclesWidth = 20: a counter
\* wider than the assignment never wraps during one search.
ASSUME ParamAssumption ==
  /\ MaxVars \in 1..15 /\ CyclesWidth \in 2..30
  /\ Pow2(MaxVars) < Pow2(CyclesWidth)
  /\ MaxClauses \in Nat \ {0} /\ ClauseLen \in Nat \ {0}

ASSUME InputAssumption ==
  /\ VarsIn \subseteq NVars
  /\ ClausesIn \subseteq NClauses
  /\ LitsIn \subseteq LitVar \X Bit \X Bit

Clauses == 0..(MaxClauses - 1)
Slots == 0..(ClauseLen - 1)
Assignments == 0..(Pow2(MaxVars) - 1)
Cycles == 0..(Pow2(CyclesWidth) - 1)

VARIABLES start, n_vars, n_clauses, lit_var, lit_neg, lit_used,
          assignment, running, done_r, sat_r, model_r, cycles_r,
          fresh   \* ghost: the formula has not changed since the last start

formula == <<n_vars, n_clauses, lit_var, lit_neg, lit_used>>
regs == <<assignment, running, done_r, sat_r, model_r, cycles_r>>
vars == <<start, formula, regs, fresh>>

-----------------------------------------------------------------------------
(* Combinational logic *)

\* assignment.word_select(i, 1): an index past the vector reads 0.
var_val(a, i) == IF i < MaxVars THEN (a \div Pow2(i)) % 2 ELSE 0

lit_val(a, c, l) ==
  /\ lit_used[c][l] = 1
  /\ var_val(a, lit_var[c][l]) # lit_neg[c][l]

clause_sat(a, c) == \E l \in Slots : lit_val(a, c, l)

\* Mutant of all_sat: the first clause past n_clauses still counts.
all_sat_Mutant(a) == \A c \in Clauses : clause_sat(a, c) \/ c > n_clauses

\* Every clause is satisfied or inactive.
all_sat(a) == \A c \in Clauses : clause_sat(a, c) \/ c >= n_clauses

\* Mutant of max_assign: the bound keeps its carry bits.
max_assign_Mutant == Pow2(n_vars) - 1

\* (1 << n_vars) - 1, truncated to the MaxVars bits of the signal.
max_assign == (Pow2(n_vars) - 1) % Pow2(MaxVars)

-----------------------------------------------------------------------------
(* The clocked registers *)

\* Mutants of StartEdge: the search resumes where the last one stopped; the
\* done flag of the last search survives the start.
StartEdge_KeepAssignment ==
  /\ start = 1
  /\ model_r' = 0 /\ cycles_r' = 0 /\ done_r' = 0 /\ sat_r' = 0
  /\ running' = 1
  /\ UNCHANGED assignment

StartEdge_KeepDone ==
  /\ start = 1
  /\ assignment' = 0 /\ model_r' = 0 /\ cycles_r' = 0
  /\ running' = 1
  /\ UNCHANGED <<done_r, sat_r>>

StartEdge ==
  /\ start = 1
  /\ assignment' = 0 /\ model_r' = 0 /\ cycles_r' = 0
  /\ done_r' = 0 /\ sat_r' = 0
  /\ running' = 1

Count == cycles_r' = (cycles_r + 1) % Pow2(CyclesWidth)

SatEdge ==
  /\ start = 0 /\ running = 1 /\ all_sat(assignment)
  /\ Count
  /\ done_r' = 1 /\ sat_r' = 1 /\ model_r' = assignment /\ running' = 0
  /\ UNCHANGED assignment

\* Mutant of UnsatEdge: the last assignment ends the search before all_sat is
\* looked at.
UnsatEdge_Mutant ==
  /\ start = 0 /\ running = 1
  /\ assignment = max_assign
  /\ Count
  /\ done_r' = 1 /\ sat_r' = 0 /\ running' = 0
  /\ UNCHANGED <<assignment, model_r>>

UnsatEdge ==
  /\ start = 0 /\ running = 1 /\ ~all_sat(assignment)
  /\ assignment = max_assign
  /\ Count
  /\ done_r' = 1 /\ sat_r' = 0 /\ running' = 0
  /\ UNCHANGED <<assignment, model_r>>

\* Mutant of StepEdge: the increment is not truncated.
StepEdge_Mutant ==
  /\ start = 0 /\ running = 1 /\ ~all_sat(assignment)
  /\ assignment # max_assign
  /\ Count
  /\ assignment' = assignment + 1
  /\ UNCHANGED <<running, done_r, sat_r, model_r>>

StepEdge ==
  /\ start = 0 /\ running = 1 /\ ~all_sat(assignment)
  /\ assignment # max_assign
  /\ Count
  /\ assignment' = (assignment + 1) % Pow2(MaxVars)
  /\ UNCHANGED <<running, done_r, sat_r, model_r>>

IdleEdge ==
  /\ start = 0 /\ running = 0
  /\ UNCHANGED regs

SolverEdge == StartEdge \/ SatEdge \/ UnsatEdge \/ StepEdge \/ IdleEdge

-----------------------------------------------------------------------------
(* The environment and the ghost *)

SetVars ==
  /\ n_vars' \in VarsIn
  /\ UNCHANGED <<n_clauses, lit_var, lit_neg, lit_used>>

SetClauses ==
  /\ n_clauses' \in ClausesIn
  /\ UNCHANGED <<n_vars, lit_var, lit_neg, lit_used>>

SetLiteral == \E c \in Clauses, l \in Slots, x \in LitsIn :
  /\ lit_var' = [lit_var EXCEPT ![c][l] = x[1]]
  /\ lit_neg' = [lit_neg EXCEPT ![c][l] = x[2]]
  /\ lit_used' = [lit_used EXCEPT ![c][l] = x[3]]
  /\ UNCHANGED <<n_vars, n_clauses>>

Environment ==
  /\ start' \in Bit
  /\ UNCHANGED formula \/ SetVars \/ SetClauses \/ SetLiteral

Witness == fresh' = (start = 1 \/ (fresh /\ formula' = formula))

Init ==
  /\ start = 0 /\ n_vars = 0 /\ n_clauses = 0
  /\ lit_var = [c \in Clauses |-> [l \in Slots |-> 0]]
  /\ lit_neg = lit_var /\ lit_used = lit_var
  /\ assignment = 0 /\ running = 0 /\ done_r = 0 /\ sat_r = 0
  /\ model_r = 0 /\ cycles_r = 0
  /\ fresh = FALSE

Next == SolverEdge /\ Environment /\ Witness

Spec == Init /\ [][Next]_vars

\* The clock does not stop during a search; whether anybody ever writes to the
\* inputs of an idle engine is left open.
FairSpec == Spec /\ WF_vars(running = 1 /\ Next)

-----------------------------------------------------------------------------
(* Properties *)

(* Every register holds a value of its declared width. *)
TypeOK ==
  /\ start \in Bit /\ n_vars \in NVars /\ n_clauses \in NClauses
  /\ lit_var \in [Clauses -> [Slots -> LitVar]]
  /\ lit_neg \in [Clauses -> [Slots -> Bit]]
  /\ lit_used \in [Clauses -> [Slots -> Bit]]
  /\ assignment \in Assignments /\ model_r \in Assignments
  /\ running \in Bit /\ done_r \in Bit /\ sat_r \in Bit
  /\ cycles_r \in Cycles
  /\ fresh \in BOOLEAN

NoneBelow(n) == \A a \in Assignments : a < n => ~all_sat(a)

(* The search has rejected every assignment below the one it is at, has not *)
(* run past the last one, and has spent one cycle on each: what the         *)
(* running branch of elaborate maintains while the formula is left alone.   *)
SearchInv ==
  fresh /\ running = 1 =>
    /\ NoneBelow(assignment)
    /\ assignment <= max_assign
    /\ cycles_r = assignment

(* done never stands while a search runs, so a poll that reads done = 1     *)
(* reads the result of the last start.                                      *)
DoneMeansIdle == done_r = 1 => running = 0

(* The answer is exact: sat with the smallest model in range, or unsat with *)
(* every assignment of the n_vars variables rejected; and cycles counts the *)
(* assignments tried, so at most 2^n_vars ("1024 cycles max").              *)
AnswerExact ==
  fresh /\ done_r = 1 =>
    IF sat_r = 1
    THEN /\ all_sat(model_r) /\ NoneBelow(model_r)
         /\ model_r <= max_assign /\ cycles_r = model_r + 1
    ELSE /\ NoneBelow(max_assign + 1)
         /\ cycles_r = max_assign + 1

\* The formula in the input registers read as a mathematical CNF, over
\* valuations of the variables 0 .. n_vars - 1.
ClauseLits(c) ==
  { <<lit_var[c][l], lit_neg[c][l]>> : l \in {s \in Slots : lit_used[c][s] = 1} }

WellFormed ==
  /\ n_vars \in 1..MaxVars /\ n_clauses \in 1..MaxClauses
  /\ \A c \in 0..(n_clauses - 1) : \A x \in ClauseLits(c) : x[1] < n_vars

Satisfies(v) ==
  \A c \in 0..(n_clauses - 1) : \E x \in ClauseLits(c) : v[x[1]] = (x[2] = 0)

Satisfiable == \E v \in [0..(n_vars - 1) -> BOOLEAN] : Satisfies(v)

(* For a well-formed formula the hardware's verdict is the one of           *)
(* propositional logic, and the bits of model are a satisfying valuation.   *)
(* An independent definition: it mentions neither bits nor assignments.     *)
AnswerMeansSatisfiable ==
  fresh /\ done_r = 1 /\ WellFormed =>
    /\ (sat_r = 1) <=> Satisfiable
    /\ sat_r = 1 =>
         Satisfies([i \in 0..(n_vars - 1) |-> var_val(model_r, i) = 1])

(* Once nobody restarts the engine or edits the formula, the search ends,   *)
(* even when an earlier edit left it past max_assign: the assignment wraps. *)
Termination ==
  <>[][start' = 0 /\ formula' = formula]_vars => <>[](running = 0)
=============================================================================
