---------------------------- MODULE TimeStepper ----------------------------
(***************************************************************************)
(* The time step algorithms of NumLib/TimeStepping, as pure operators on a *)
(* stepper record.  The module TimeLoop owns one stepper per process and   *)
(* calls these operators where ProcessLib/TimeLoop.cpp calls the virtual   *)
(* member functions of TimeStepAlgorithm.                                  *)
(*                                                                         *)
(* Time is counted in ticks, the natural numbers standing for a grid of    *)
(* doubles on which sums and differences are exact.  The comparisons of    *)
(* the code against an epsilon are then comparisons for equality, and the  *)
(* field _dt of a TimeStep is the difference of its two times.  Factors on *)
(* step sizes are given in units of 1/Scale, and a scaled size is rounded  *)
(* down to the grid.                                                       *)
(***************************************************************************)
EXTENDS Integers, Sequences, FiniteSetsExt

CONSTANT Scale    \* the denominator of multipliers and of relative limits

ASSUME ScaleAssumption == Scale \in Nat \ {0}

Kinds == {"FixedTimeStepping", "IterationNumberBased", "EvolutionaryPID"}

(***************************************************************************)
(* The parameters of a stepper, one record type for the three kinds:       *)
(*   dts         _dt_vector of FixedTimeStepping                           *)
(*   minDt, ...  _min_dt, _max_dt, _initial_dt (PID: _h_min, _h_max, _h0)  *)
(*   iters,mults _iter_times_vector and _multiplier_vector                 *)
(*   relMin, ... _rel_h_min, _rel_h_max                                    *)
(***************************************************************************)
StepperConfig ==
  [kind: Kinds, begin: Nat, end: Nat, dts: Seq(Nat),
   minDt: Nat, maxDt: Nat, initialDt: Nat,
   iters: Seq(Nat), mults: Seq(Nat), relMin: Nat, relMax: Nat,
   fixedTimes: SUBSET Nat]

(* What the constructors and createFixedTimeStepping insist on; that the   *)
(* begin is before the end is left to the project.                         *)
ValidConfig(c) ==
  /\ c.begin < c.end
  /\ c.kind = "FixedTimeStepping" =>
       c.dts # <<>> /\ \A i \in DOMAIN c.dts : c.dts[i] > 0
  /\ c.kind = "IterationNumberBased" =>
       c.iters # <<>> /\ Len(c.mults) = Len(c.iters)

TimeStep == [previous: Int, current: Int, steps: Nat]

Stepper ==
  [prev: TimeStep, cur: TimeStep, accepted: BOOLEAN, fixedTimes: SUBSET Nat]

(* std::clamp *)
Clamp(x, lo, hi) == IF x < lo THEN lo ELSE IF hi < x THEN hi ELSE x

Scaled(x, factor) == (x * factor) \div Scale

-----------------------------------------------------------------------------
(* TimeStep *)

TimeStepAt(t) == [previous |-> t, current |-> t, steps |-> 0]

Dt(ts) == ts.current - ts.previous

Advanced(ts, dt) ==
  [previous |-> ts.current, current |-> ts.current + dt, steps |-> ts.steps + 1]

-----------------------------------------------------------------------------
(* What the base class TimeStepAlgorithm provides. *)

NewStepper(c) ==
  [prev |-> TimeStepAt(c.begin), cur |-> TimeStepAt(c.begin),
   accepted |-> TRUE, fixedTimes |-> c.fixedTimes]

ResetFromCurrent(s, dt) == [s EXCEPT !.cur = Advanced(s.cur, dt)]   \* a mutant

ResetCurrentTimeStep(s, dt) == [s EXCEPT !.cur = Advanced(s.prev, dt)]

(* The default implementations, which FixedTimeStepping inherits, ignore   *)
(* the solver's verdict and the output times.                              *)
SetAcceptedOrNot(c, s, met) ==
  IF c.kind = "FixedTimeStepping" THEN s ELSE [s EXCEPT !.accepted = met]

AddFixedOutputTimes(c, s, times) ==
  IF c.kind = "FixedTimeStepping" THEN s
  ELSE [s EXCEPT !.fixedTimes = @ \cup times]

CanReduceTimestepSize(c, s) ==
  /\ c.kind # "FixedTimeStepping"
  /\ ~ (Dt(s.cur) = c.minDt /\ Dt(s.prev) = c.minDt)

KeepDt(t, dt, times) == dt   \* a mutant of PossiblyClampDtToNextFixedTime

(* The step size that does not jump over the next fixed time after t. *)
PossiblyClampDtToNextFixedTime(t, dt, times) ==
  LET jumped == {f \in times : t < f /\ f < t + dt}
  IN  IF jumped = {} THEN dt ELSE Min(jumped) - t

-----------------------------------------------------------------------------
(* FixedTimeStepping *)

FixedNext(c, s) ==
  IF s.cur.steps = Len(c.dts) \/ s.cur.current = c.end
  THEN [stepper |-> s, more |-> FALSE]
  ELSE LET wanted == c.dts[s.cur.steps + 1]
           dt     == IF s.cur.current + wanted > c.end
                     THEN c.end - s.cur.current ELSE wanted
       IN  [stepper |-> [s EXCEPT !.prev = s.cur, !.cur = Advanced(s.cur, dt)],
            more    |-> TRUE]

-----------------------------------------------------------------------------
(* IterationNumberBasedTimeStepping *)

MultiplierOfIterations(c, accepted, iterations) ==   \* a mutant
  LET reached == {i \in DOMAIN c.iters : iterations >= c.iters[i]}
  IN  c.mults[IF reached = {} THEN 1 ELSE Max(reached)]

FindMultiplier(c, accepted, iterations) ==
  LET reached    == {i \in DOMAIN c.iters : iterations >= c.iters[i]}
      multiplier == c.mults[IF reached = {} THEN 1 ELSE Max(reached)]
  IN  IF ~accepted /\ multiplier >= Scale
      THEN Min({c.mults[i] : i \in DOMAIN c.mults})
      ELSE multiplier

GetNextTimeStepSize(c, s, iterations) ==
  LET wanted  == IF s.prev.steps = 0 /\ iterations = 0
                 THEN c.initialDt
                 ELSE Scaled(Dt(s.prev), FindMultiplier(c, s.accepted, iterations))
      bounded == Clamp(wanted, c.minDt, c.maxDt)
  IN  IF s.prev.current + bounded > c.end THEN c.end - s.prev.current ELSE bounded

(* A rejected step keeps its size, not its time: the previous step is      *)
(* rebuilt from its own start with the size of the rejected step.          *)
IterationNext(c, s, iterations) ==
  LET base  == IF s.accepted THEN s.cur
               ELSE [s.prev EXCEPT !.current = s.prev.previous + Dt(s.cur)]
      moved == [s EXCEPT !.prev = base]
      dt    == PossiblyClampDtToNextFixedTime(
                 base.current, GetNextTimeStepSize(c, moved, iterations), s.fixedTimes)
  IN  [stepper |-> [moved EXCEPT !.cur = Advanced(base, dt)], more |-> TRUE]

-----------------------------------------------------------------------------
(* EvolutionaryPIDcontroller.  The solution error is known here only as    *)
(* "zero", "within" the tolerance or "above" it, and the size the PID      *)
(* formula computes from it is a parameter h: PIDSizes has the sizes the   *)
(* formula can give.                                                       *)

Errors == {"zero", "within", "above"}

(* dt * tol / error is below dt for an error above the tolerance, the size *)
(* is kept for a zero error, and a power of error ratios has any value.    *)
PIDSizes(c, s, err) ==
  CASE err = "zero"   -> {Dt(s.cur)}
    [] err = "above"  -> {0} \cup {h \in 1 .. c.maxDt : h < Dt(s.cur)}
    [] err = "within" -> 0 .. c.maxDt

LimitStepSize(c, s, h) ==
  LET hn      == Dt(s.cur)
      inRange == Max({c.minDt, Min({h, c.maxDt})})
      limited == Max({Scaled(hn, c.relMin), Min({inRange, Scaled(hn, c.relMax)})})
      halved  == IF limited = hn THEN Max({c.minDt, limited \div 2}) ELSE limited
  IN  IF s.accepted THEN limited
      ELSE IF halved > hn THEN Max({c.minDt, hn \div 2}) ELSE halved

PIDNext(c, s, err, h) ==
  LET limited == PossiblyClampDtToNextFixedTime(
                   s.cur.current, LimitStepSize(c, s, h), s.fixedTimes)
      dt      == IF s.cur.steps = 0 THEN c.initialDt ELSE limited
  IN  IF err = "above"
      THEN [stepper |-> [s EXCEPT !.accepted = FALSE,
                                  !.cur = Advanced(s.prev, limited)],
            more    |-> FALSE]
      ELSE [stepper |-> [s EXCEPT !.accepted = TRUE, !.prev = s.cur,
                                  !.cur = Advanced(s.cur, dt)],
            more    |-> TRUE]

-----------------------------------------------------------------------------

(* The results next() can have: the stepper after the call, and the value  *)
(* returned.                                                               *)
NextResults(c, s, err, iterations) ==
  CASE c.kind = "FixedTimeStepping"    -> {FixedNext(c, s)}
    [] c.kind = "IterationNumberBased" -> {IterationNext(c, s, iterations)}
    [] c.kind = "EvolutionaryPID"      ->
         {PIDNext(c, s, err, h) : h \in PIDSizes(c, s, err)}

(* The errors the loop can compute for a stepper: only the PID controller  *)
(* makes use of them, and the initial state has none.                      *)
PossibleErrors(c, t) ==
  IF c.kind = "EvolutionaryPID" /\ t # c.begin THEN Errors ELSE {"zero"}

=============================================================================
