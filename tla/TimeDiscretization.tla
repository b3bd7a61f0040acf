------------------------- MODULE TimeDiscretization -------------------------
(***************************************************************************)
(* The time discretization schemes of NumLib/ODESolver and the protocol by *)
(* which the time loop drives the one of a process: setInitialState, then  *)
(* for every attempted step nextTimestep (once per coupling iteration) and *)
(* a solve, then pushState if the step is accepted or popState if it is    *)
(* rejected.                                                               *)
(*                                                                         *)
(* A solution vector is a natural number: 0 is the initial condition, and  *)
(* every solve gives a new one.                                            *)
(***************************************************************************)
EXTENDS Integers, SequencesExt

CONSTANTS
  Scheme,       \* the time discretization scheme
  NumSteps,     \* _num_steps, the order of the BDF
  MaxTime,      \* bound: the time the run ends
  MaxDt,        \* bound: the largest step size
  MaxCoupling,  \* at most so many solves in one attempt
  MaxRejected   \* bound: at most so many attempts are rejected

SingleStepSchemes == {"BackwardEuler", "ForwardEuler", "CrankNicolson"}

ASSUME SchemeAssumption ==
  Scheme \in SingleStepSchemes \cup {"BackwardDifferentiationFormula"}
ASSUME NumStepsAssumption == NumSteps \in 1 .. 6
ASSUME BoundsAssumption ==
  MaxTime \in Nat /\ MaxDt \in Nat /\ MaxCoupling \in Nat /\ MaxRejected \in Nat

VARIABLES
  phase,      \* "idle", "residuum", "solve" or "decide"
  x,          \* the process's solution vector
  xsOld,      \* _xs_old of the BDF; the other schemes keep _x_old alone
  offset,     \* _offset, where the BDF's circular buffer begins
  time,       \* _t
  timeOld,    \* _t_old of the forward Euler scheme
  bars,       \* the solution and the matrices that _M_bar, _b_bar come from
  clock,      \* the time loop's time of the last accepted step
  attempt,    \* the time of the step being attempted
  assembled,  \* the time the equations were last assembled at
  solves, coupling, rejected, residuumDone,
  past        \* history: the accepted solutions, the latest last

driverVars == <<clock, attempt, coupling, rejected, residuumDone, past>>
schemeVars == <<xsOld, offset, time, timeOld, bars>>
vars == <<phase, x, assembled, solves, driverVars, schemeVars>>

BDF == Scheme = "BackwardDifferentiationFormula"

CurrentTimeOld == timeOld   \* a mutant of CurrentTime

(* t_C: forward Euler assembles at the preceding time step.                *)
CurrentTime == IF Scheme = "ForwardEuler" THEN timeOld ELSE time

-----------------------------------------------------------------------------
(* The operations of TimeDiscretization *)

NextTimestep(t) == time' = t /\ timeOld' = time

RoomForOneMore == Len(xsOld) <= NumSteps   \* a mutant of HasRoom

(* Until _xs_old is filled, the BDF keeps every solution.                  *)
HasRoom == BDF /\ Len(xsOld) < NumSteps

NextOffsetUnwrapped == offset + 1   \* a mutant of NextOffset

NextOffset == IF BDF THEN (offset + 1) % NumSteps ELSE offset

BarsBeforeCopy(xs) ==   \* a mutant of PushedBars
  IF Scheme = "CrankNicolson"
  THEN [old |-> xsOld[1], matrices |-> assembled] ELSE bars

(* pushMatrices: from the matrices of the last assembly and the new x_old  *)
PushedBars(xs) ==
  IF Scheme = "CrankNicolson" THEN [old |-> xs[1], matrices |-> assembled] ELSE bars

PushState ==
  /\ IF HasRoom
     THEN xsOld' = Append(xsOld, x) /\ UNCHANGED offset
     ELSE xsOld' = [xsOld EXCEPT ![offset + 1] = x] /\ offset' = NextOffset
  /\ bars' = PushedBars(xsOld')

PopNothing == x' = x   \* a mutant of PopState

PopState == x' = Last(xsOld)

(* The buffer's element that the relative change of the solution is        *)
(* computed against.                                                       *)
RelativeChangeReference == xsOld[offset + 1]

WeightedFromOldest ==   \* a mutant of WeightedOldX
  [j \in 1 .. Len(xsOld) |-> xsOld[((offset + j - 1) % Len(xsOld)) + 1]]

(* The old solutions by the column of the coefficient they are multiplied  *)
(* with; a single-step scheme weights its one old solution.                *)
WeightedOldX ==
  LET k == Len(xsOld)
  IN  [j \in 1 .. k |-> IF j = k THEN xsOld[offset + 1]
                        ELSE xsOld[((offset + k - j) % k) + 1]]

-----------------------------------------------------------------------------
(* The time loop *)

(* setInitialConditions; the Crank-Nicolson scheme is preloaded with an    *)
(* assembly at the initial state.                                          *)
Init ==
  /\ phase = "idle" /\ x = 0
  /\ xsOld = <<0>> /\ offset = 0 /\ time = 0 /\ timeOld = 0
  /\ assembled = 0 /\ bars = [old |-> 0, matrices |-> 0]
  /\ clock = 0 /\ attempt = 0
  /\ solves = 0 /\ coupling = 0 /\ rejected = 0 /\ residuumDone = FALSE
  /\ past = <<0>>

(* loop(): t += dt, with any size the steppers may have chosen.            *)
BeginTimestep ==
  /\ phase = "idle"
  /\ \E dt \in 1 .. MaxDt :
       clock + dt <= MaxTime /\ attempt' = clock + dt
  /\ phase' = IF residuumDone THEN "solve" ELSE "residuum"
  /\ coupling' = 0
  /\ UNCHANGED <<x, assembled, solves, clock, rejected, residuumDone, past, schemeVars>>

(* calculateNonEquilibriumInitialResiduum: once, before the first solve,   *)
(* the scheme is moved to the dummy time 0 and step size 1, and a solver   *)
(* that compensates the residuum assembles the equations.                  *)
NonEquilibriumInitialResiduum ==
  /\ phase = "residuum"
  /\ NextTimestep(0)
  /\ assembled' \in {assembled, CurrentTime'}
  /\ residuumDone' = TRUE
  /\ phase' = "solve"
  /\ UNCHANGED <<x, xsOld, offset, bars, solves, clock, attempt, coupling, rejected, past>>

(* solveOneTimeStepOneProcess: advance the time discretization, assemble   *)
(* and solve; with the staggered scheme once per coupling iteration.       *)
SolveOneTimeStep ==
  /\ phase = "solve"
  /\ NextTimestep(attempt)
  /\ assembled' = CurrentTime'
  /\ solves' = solves + 1
  /\ x' = solves'
  /\ coupling' = coupling + 1
  /\ \/ phase' = "decide"
     \/ coupling' < MaxCoupling /\ UNCHANGED phase
  /\ UNCHANGED <<xsOld, offset, bars, clock, attempt, rejected, residuumDone, past>>

(* computeTimeStepping, for an accepted and for a rejected step.           *)
AcceptStep ==
  /\ phase = "decide"
  /\ PushState
  /\ clock' = attempt
  /\ past' = Append(past, x)
  /\ phase' = "idle"
  /\ UNCHANGED <<x, assembled, time, timeOld, attempt, solves, coupling, rejected,
                 residuumDone>>

RejectStep ==
  /\ phase = "decide"
  /\ rejected < MaxRejected
  /\ PopState
  /\ rejected' = rejected + 1
  /\ phase' = "idle"
  /\ UNCHANGED <<schemeVars, assembled, clock, attempt, solves, coupling, residuumDone, past>>

Finished == phase = "idle" /\ clock = MaxTime /\ UNCHANGED vars

Next ==
  \/ BeginTimestep
  \/ NonEquilibriumInitialResiduum
  \/ SolveOneTimeStep
  \/ AcceptStep
  \/ RejectStep
  \/ Finished

Spec == Init /\ [][Next]_vars

-----------------------------------------------------------------------------
(* Properties *)

(* Every variable has its type.                                            *)
TypeOK ==
  /\ phase \in {"idle", "residuum", "solve", "decide"}
  /\ x \in Nat /\ solves \in Nat /\ assembled \in Nat
  /\ xsOld \in Seq(Nat) /\ Len(xsOld) \in 1 .. NumSteps
  /\ offset \in 0 .. Len(xsOld) - 1
  /\ time \in Nat /\ timeOld \in Nat
  /\ bars \in [old: Nat, matrices: Nat]
  /\ clock \in 0 .. MaxTime /\ attempt \in 0 .. MaxTime
  /\ coupling \in Nat /\ rejected \in Nat /\ residuumDone \in BOOLEAN
  /\ past \in Seq(Nat)

(* The j-th coefficient of the formula is applied to the j-th last         *)
(* accepted solution: whatever was accepted and rejected in between, the   *)
(* circular buffer holds the latest solutions, and getWeightedOldX walks   *)
(* it in the order of their age.                                           *)
OldSolutionsWeightedByAge ==
  \A j \in DOMAIN WeightedOldX : WeightedOldX[j] = past[Len(past) + 1 - j]

(* The buffer is as long as the order of the formula allows: lower-order   *)
(* formulas are used only until enough steps have been accepted.           *)
OrderGrowsWithHistory ==
  Len(xsOld) = IF ~BDF \/ NumSteps < Len(past)
               THEN (IF BDF THEN NumSteps ELSE 1) ELSE Len(past)

(* A rejected step leaves the process with the last accepted solution.     *)
RejectionRestoresLastAccepted ==
  [][rejected' > rejected => x' = Last(past)]_vars

(* The change of the solution, which decides on the acceptance of a step,  *)
(* is taken between two successive time steps.                             *)
ChangeIsAgainstLastAccepted ==
  phase = "decide" => RelativeChangeReference = Last(past)

(* The equations are assembled at the preceding time step by the forward   *)
(* Euler scheme, and at the new one by the others.                         *)
AssembledAtSchemesTime ==
  phase = "decide" =>
    assembled = IF Scheme = "ForwardEuler" THEN clock ELSE attempt

(* What the Crank-Nicolson scheme keeps of the preceding step belongs to   *)
(* the last accepted solution and to its time, not to a rejected attempt.  *)
BarsBelongToLastAccepted ==
  Scheme = "CrankNicolson" => bars = [old |-> Last(past), matrices |-> clock]

=============================================================================
