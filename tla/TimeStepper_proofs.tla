-------------------------- MODULE TimeStepper_proofs --------------------------
(***************************************************************************)
(* Lemmas about the operators of the time step algorithms: the least and   *)
(* the greatest elements they choose exist, the steppers they return have  *)
(* their types, and a size clamped to the fixed times does not pass one.   *)
(***************************************************************************)
EXTENDS TimeStepper, FiniteSetTheorems, WellFoundedInduction, TLAPS

-----------------------------------------------------------------------------
(* Least and greatest elements *)

LEMMA LeastNatural ==
  ASSUME NEW S, S \subseteq Nat, S # {}
  PROVE  \E x \in S : \A y \in S : x <= y
<1>1. PICK x \in S : \A y \in S : ~(<<y, x>> \in OpToRel(<, Nat))
  BY NatLessThanWellFounded, WFMin
<1>2. ASSUME NEW y \in S PROVE x <= y
  <2>1. x \in Nat /\ y \in Nat
    OBVIOUS
  <2>2. ~(y < x)
    BY <1>1, <2>1 DEF OpToRel
  <2>3. QED BY <2>1, <2>2
<1>3. QED BY <1>2

LEMMA MinOfNaturals ==
  ASSUME NEW S, S \subseteq Nat, S # {}
  PROVE  Min(S) \in S /\ \A y \in S : Min(S) <= y
BY LeastNatural DEF Min

(* A bounded set of naturals has a greatest element: the one whose         *)
(* distance from the bound is least.                                       *)
LEMMA MaxOfBounded ==
  ASSUME NEW S, S \subseteq Nat, S # {}, NEW b \in Nat, \A y \in S : y <= b
  PROVE  Max(S) \in S /\ \A y \in S : Max(S) >= y
<1> DEFINE D == {b - y : y \in S}
<1>1. D \subseteq Nat /\ D # {}
  <2>1. \A y \in S : b - y \in Nat
    OBVIOUS
  <2>2. QED BY <2>1
<1>2. PICK d \in D : \A e \in D : d <= e
  BY <1>1, LeastNatural
<1>3. PICK x \in S : d = b - x
  BY <1>2
<1>4. \A y \in S : x >= y
  BY <1>2, <1>3
<1>5. QED BY <1>3, <1>4 DEF Max

LEMMA MaxOfTwo ==
  ASSUME NEW a \in Int, NEW b \in Int
  PROVE  Max({a, b}) = IF a >= b THEN a ELSE b
<1>1. CASE a >= b BY <1>1 DEF Max
<1>2. CASE ~(a >= b) BY <1>2 DEF Max
<1>3. QED BY <1>1, <1>2

LEMMA MinOfTwo ==
  ASSUME NEW a \in Int, NEW b \in Int
  PROVE  Min({a, b}) = IF a <= b THEN a ELSE b
<1>1. CASE a <= b BY <1>1 DEF Min
<1>2. CASE ~(a <= b) BY <1>2 DEF Min
<1>3. QED BY <1>1, <1>2

(* Finite sets of integers have a least element, by the least cardinality  *)
(* of a set that had none.                                                 *)
LEMMA MinOfFinite ==
  ASSUME NEW S, S \subseteq Int, S # {}, IsFiniteSet(S)
  PROVE  Min(S) \in S /\ \A y \in S : Min(S) <= y
<1> DEFINE HasLeast(T) == \E x \in T : \A y \in T : x <= y
           Sizes == {n \in Nat : \E T : /\ T \subseteq Int /\ T # {}
                                        /\ IsFiniteSet(T) /\ Cardinality(T) = n
                                        /\ ~HasLeast(T)}
<1>1. Sizes = {}
  <2> SUFFICES ASSUME Sizes # {} PROVE FALSE
    OBVIOUS
  <2>1. PICK n \in Sizes : \A m \in Sizes : n <= m
    BY LeastNatural
  <2>2. PICK T : /\ T \subseteq Int /\ T # {}
                 /\ IsFiniteSet(T) /\ Cardinality(T) = n /\ ~HasLeast(T)
    BY <2>1
  <2>3. PICK x \in T : TRUE
    BY <2>2
  <2>4. IsFiniteSet(T \ {x}) /\ Cardinality(T \ {x}) = n - 1
    BY <2>2, <2>3, FS_RemoveElement
  <2>5. CASE T \ {x} = {}
    <3>1. \A y \in T : x <= y
      BY <2>2, <2>3, <2>5
    <3>2. QED BY <2>2, <2>3, <3>1
  <2>6. CASE T \ {x} # {}
    <3>1. n - 1 \in Nat /\ ~(n <= n - 1)
      BY <2>4, FS_CardinalityType
    <3>2. n - 1 \notin Sizes
      BY <2>1, <3>1
    <3>3. HasLeast(T \ {x})
      BY <2>2, <2>4, <2>6, <3>1, <3>2
    <3>4. PICK z \in T \ {x} : \A y \in T \ {x} : z <= y
      BY <3>3
    <3>5. CASE x <= z
      <4>1. \A y \in T : x <= y
        BY <2>2, <2>3, <3>4, <3>5
      <4>2. QED BY <2>2, <2>3, <4>1
    <3>6. CASE ~(x <= z)
      <4>1. \A y \in T : z <= y
        BY <2>2, <2>3, <3>4, <3>6
      <4>2. QED BY <2>2, <3>4, <4>1
    <3>7. QED BY <3>5, <3>6
  <2>7. QED BY <2>5, <2>6
<1>2. Cardinality(S) \in Nat
  BY FS_CardinalityType
<1>3. HasLeast(S)
  BY <1>1, <1>2
<1>4. QED BY <1>3 DEF Min

-----------------------------------------------------------------------------
(* Sizes *)

LEMMA ClampType ==
  ASSUME NEW x \in Int, NEW lo \in Int, NEW hi \in Int
  PROVE  Clamp(x, lo, hi) \in Int
BY DEF Clamp

LEMMA ScaledType ==
  ASSUME NEW x \in Int, NEW factor \in Int
  PROVE  Scaled(x, factor) \in Int
<1>1. x * factor \in Int
  OBVIOUS
<1>2. QED BY <1>1, ScaleAssumption DEF Scaled

(* The clamping to the fixed times leaves a positive size positive, never  *)
(* enlarges it, and no fixed time lies inside the clamped step.            *)
THEOREM ClampedSizeJumpsOverNoFixedTime ==
  ASSUME NEW t \in Int, NEW dt \in Int, NEW times \in SUBSET Nat
  PROVE  /\ PossiblyClampDtToNextFixedTime(t, dt, times) \in Int
         /\ PossiblyClampDtToNextFixedTime(t, dt, times) <= dt
         /\ dt > 0 => PossiblyClampDtToNextFixedTime(t, dt, times) > 0
         /\ \A f \in times :
              ~(t < f /\ f < t + PossiblyClampDtToNextFixedTime(t, dt, times))
<1> DEFINE jumped == {f \in times : t < f /\ f < t + dt}
           clamped == PossiblyClampDtToNextFixedTime(t, dt, times)
<1>1. CASE jumped = {}
  <2>1. clamped = dt
    BY <1>1 DEF PossiblyClampDtToNextFixedTime
  <2>2. QED BY <1>1, <2>1
<1>2. CASE jumped # {}
  <2>1. Min(jumped) \in jumped /\ \A f \in jumped : Min(jumped) <= f
    BY <1>2, MinOfNaturals
  <2>2. clamped = Min(jumped) - t
    BY <1>2 DEF PossiblyClampDtToNextFixedTime
  <2>3. Min(jumped) \in Int /\ t < Min(jumped) /\ Min(jumped) < t + dt
    <3>1. \A f \in jumped : f \in Int /\ t < f /\ f < t + dt
      OBVIOUS
    <3>2. QED BY <2>1, <3>1
  <2>4. clamped \in Int /\ clamped <= dt /\ clamped > 0 /\ t + clamped = Min(jumped)
    BY <2>2, <2>3
  <2>5. ASSUME NEW f \in times, t < f, f < t + clamped
        PROVE  FALSE
    <3>1. f \in jumped
      BY <2>3, <2>4, <2>5
    <3>2. Min(jumped) <= f /\ f < Min(jumped) /\ f \in Int
      BY <2>1, <2>4, <2>5, <3>1
    <3>3. QED BY <2>3, <3>2
  <2>6. QED BY <2>4, <2>5
<1>3. QED BY <1>1, <1>2

-----------------------------------------------------------------------------
(***************************************************************************)
(* A stepper of its type; that of FixedTimeStepping has a step size left   *)
(* in its table for the step it is to make.                                *)
(***************************************************************************)
StepperOK(c, s) ==
  /\ s \in Stepper
  /\ c.kind = "FixedTimeStepping" =>
       s.cur.steps <= Len(c.dts) /\ s.prev.steps + 1 <= Len(c.dts)

LEMMA StepperFields ==
  ASSUME NEW s \in Stepper
  PROVE  /\ s.prev \in TimeStep /\ s.cur \in TimeStep
         /\ s.accepted \in BOOLEAN /\ s.fixedTimes \in SUBSET Nat
BY DEF Stepper

LEMMA AdvancedType ==
  ASSUME NEW ts \in TimeStep, NEW dt \in Int
  PROVE  /\ Advanced(ts, dt) \in TimeStep
         /\ Advanced(ts, dt).steps = ts.steps + 1
BY DEF TimeStep, Advanced

LEMMA DtType == ASSUME NEW ts \in TimeStep PROVE Dt(ts) \in Int
BY DEF TimeStep, Dt

LEMMA NewStepperOK ==
  ASSUME NEW c \in StepperConfig, ValidConfig(c), NEW times \in SUBSET Nat
  PROVE  StepperOK(c, AddFixedOutputTimes(c, NewStepper(c), times))
<1>1. TimeStepAt(c.begin) \in TimeStep /\ c.fixedTimes \in SUBSET Nat
  BY DEF StepperConfig, TimeStep, TimeStepAt
<1>2. NewStepper(c) \in Stepper
  BY <1>1 DEF NewStepper, Stepper
<1>3. AddFixedOutputTimes(c, NewStepper(c), times) \in Stepper
  BY <1>1, <1>2 DEF AddFixedOutputTimes, NewStepper, Stepper
<1>4. /\ AddFixedOutputTimes(c, NewStepper(c), times).cur.steps = 0
      /\ AddFixedOutputTimes(c, NewStepper(c), times).prev.steps = 0
  BY DEF AddFixedOutputTimes, NewStepper, TimeStepAt
<1>5. c.kind = "FixedTimeStepping" => Len(c.dts) >= 1
  <2>1. c.dts \in Seq(Nat)
    BY DEF StepperConfig
  <2>2. QED BY <2>1 DEF ValidConfig
<1>6. c.kind = "FixedTimeStepping" => Len(c.dts) \in Nat
  BY DEF StepperConfig
<1>7. QED BY <1>3, <1>4, <1>5, <1>6 DEF StepperOK

LEMMA SetAcceptedOrNotOK ==
  ASSUME NEW c \in StepperConfig, NEW s, StepperOK(c, s), NEW met \in BOOLEAN
  PROVE  StepperOK(c, SetAcceptedOrNot(c, s, met))
BY DEF StepperOK, SetAcceptedOrNot, Stepper

LEMMA ResetCurrentTimeStepOK ==
  ASSUME NEW c \in StepperConfig, NEW s, StepperOK(c, s), NEW dt \in Int
  PROVE  StepperOK(c, ResetCurrentTimeStep(s, dt))
<1>1. Advanced(s.prev, dt) \in TimeStep /\ Advanced(s.prev, dt).steps = s.prev.steps + 1
  BY StepperFields, AdvancedType DEF StepperOK
<1>2. /\ ResetCurrentTimeStep(s, dt) \in Stepper
      /\ ResetCurrentTimeStep(s, dt).cur = Advanced(s.prev, dt)
      /\ ResetCurrentTimeStep(s, dt).prev = s.prev
  BY <1>1 DEF StepperOK, ResetCurrentTimeStep, Stepper
<1>3. QED BY <1>1, <1>2 DEF StepperOK

-----------------------------------------------------------------------------
(* The results of next() *)

NextResult == [stepper: Stepper, more: BOOLEAN]

LEMMA FixedNextOK ==
  ASSUME NEW c \in StepperConfig, c.kind = "FixedTimeStepping",
         NEW s, StepperOK(c, s)
  PROVE  FixedNext(c, s) \in NextResult /\ StepperOK(c, FixedNext(c, s).stepper)
<1>1. /\ c.dts \in Seq(Nat) /\ c.end \in Int /\ Len(c.dts) \in Nat
      /\ s \in Stepper /\ s.cur \in TimeStep /\ s.cur.steps \in Nat /\ s.cur.current \in Int
      /\ s.cur.steps <= Len(c.dts)
  <2>1. s \in Stepper /\ s.cur.steps <= Len(c.dts)
    BY DEF StepperOK
  <2>2. s.cur \in TimeStep
    BY <2>1, StepperFields
  <2>3. s.cur.steps \in Nat /\ s.cur.current \in Int
    BY <2>2 DEF TimeStep
  <2>4. c.dts \in Seq(Nat) /\ c.end \in Int
    BY DEF StepperConfig
  <2>5. Len(c.dts) \in Nat
    BY <2>4
  <2>6. QED BY <2>1, <2>2, <2>3, <2>4, <2>5
<1>2. CASE s.cur.steps = Len(c.dts) \/ s.cur.current = c.end
  BY <1>1, <1>2 DEF FixedNext, NextResult
<1>3. CASE ~(s.cur.steps = Len(c.dts) \/ s.cur.current = c.end)
  <2>1. PICK dt \in Int :
          FixedNext(c, s) = [stepper |-> [s EXCEPT !.prev = s.cur, !.cur = Advanced(s.cur, dt)],
                             more    |-> TRUE]
    <3>1. s.cur.steps + 1 \in 1 .. Len(c.dts)
      BY <1>1, <1>3
    <3>2. c.dts[s.cur.steps + 1] \in Int /\ c.end - s.cur.current \in Int
      BY <1>1, <3>1
    <3>3. QED BY <1>3, <3>2 DEF FixedNext
  <2>2. Advanced(s.cur, dt) \in TimeStep /\ Advanced(s.cur, dt).steps = s.cur.steps + 1
    BY <1>1, AdvancedType
  <2>3. /\ FixedNext(c, s).stepper \in Stepper
        /\ FixedNext(c, s).stepper.prev = s.cur
        /\ FixedNext(c, s).stepper.cur = Advanced(s.cur, dt)
        /\ FixedNext(c, s).more = TRUE
    <3>1. [s EXCEPT !.prev = s.cur, !.cur = Advanced(s.cur, dt)] \in Stepper
      BY <1>1, <2>2 DEF Stepper
    <3>2. /\ [s EXCEPT !.prev = s.cur, !.cur = Advanced(s.cur, dt)].prev = s.cur
          /\ [s EXCEPT !.prev = s.cur, !.cur = Advanced(s.cur, dt)].cur = Advanced(s.cur, dt)
      BY <1>1 DEF Stepper
    <3>3. /\ FixedNext(c, s).stepper
               = [s EXCEPT !.prev = s.cur, !.cur = Advanced(s.cur, dt)]
          /\ FixedNext(c, s).more = TRUE
      BY <2>1
    <3>4. QED BY <3>1, <3>2, <3>3, Zenon
  <2>4. FixedNext(c, s) \in NextResult
    BY <2>1, <2>3 DEF NextResult
  <2>5. QED BY <1>1, <1>3, <2>2, <2>3, <2>4 DEF StepperOK
<1>4. QED BY <1>2, <1>3

LEMMA FindMultiplierType ==
  ASSUME NEW c \in StepperConfig, c.kind = "IterationNumberBased", ValidConfig(c),
         NEW accepted \in BOOLEAN, NEW iterations \in Int
  PROVE  FindMultiplier(c, accepted, iterations) \in Nat
<1> DEFINE reached == {i \in DOMAIN c.iters : iterations >= c.iters[i]}
           all == {c.mults[i] : i \in DOMAIN c.mults}
<1>1. /\ c.iters \in Seq(Nat) /\ c.mults \in Seq(Nat)
      /\ Len(c.iters) \in Nat /\ Len(c.iters) >= 1 /\ Len(c.mults) = Len(c.iters)
  BY DEF StepperConfig, ValidConfig
<1>2. (IF reached = {} THEN 1 ELSE Max(reached)) \in 1 .. Len(c.iters)
  <2>1. reached # {} => Max(reached) \in reached
    <3>1. reached \subseteq Nat /\ \A i \in reached : i <= Len(c.iters)
      BY <1>1
    <3>2. QED BY <1>1, <3>1, MaxOfBounded
  <2>2. reached \subseteq 1 .. Len(c.iters)
    BY <1>1
  <2>3. QED BY <1>1, <2>1, <2>2
<1>3. c.mults[IF reached = {} THEN 1 ELSE Max(reached)] \in Nat
  BY <1>1, <1>2
<1>4. Min(all) \in Nat
  <2>1. all \subseteq Nat /\ all # {}
    <3>1. DOMAIN c.mults = 1 .. Len(c.mults) /\ \A i \in DOMAIN c.mults : c.mults[i] \in Nat
      BY <1>1
    <3>2. 1 \in DOMAIN c.mults
      BY <1>1, <3>1
    <3>3. QED BY <3>1, <3>2
  <2>2. QED BY <2>1, MinOfNaturals
<1>5. QED BY <1>3, <1>4 DEF FindMultiplier

LEMMA GetNextTimeStepSizeType ==
  ASSUME NEW c \in StepperConfig, c.kind = "IterationNumberBased", ValidConfig(c),
         NEW s \in Stepper, NEW iterations \in Int
  PROVE  GetNextTimeStepSize(c, s, iterations) \in Int
<1>1. /\ c.initialDt \in Int /\ c.minDt \in Int /\ c.maxDt \in Int /\ c.end \in Int
      /\ s.prev \in TimeStep /\ s.prev.current \in Int /\ s.accepted \in BOOLEAN
  BY StepperFields DEF StepperConfig, TimeStep
<1>2. FindMultiplier(c, s.accepted, iterations) \in Int /\ Dt(s.prev) \in Int
  BY <1>1, FindMultiplierType, DtType
<1>3. (IF s.prev.steps = 0 /\ iterations = 0 THEN c.initialDt
       ELSE Scaled(Dt(s.prev), FindMultiplier(c, s.accepted, iterations))) \in Int
  BY <1>1, <1>2, ScaledType
<1>4. Clamp(IF s.prev.steps = 0 /\ iterations = 0 THEN c.initialDt
            ELSE Scaled(Dt(s.prev), FindMultiplier(c, s.accepted, iterations)),
            c.minDt, c.maxDt) \in Int
  BY <1>1, <1>3, ClampType
<1>5. QED BY <1>1, <1>4 DEF GetNextTimeStepSize

LEMMA IterationNextOK ==
  ASSUME NEW c \in StepperConfig, c.kind = "IterationNumberBased", ValidConfig(c),
         NEW s \in Stepper, NEW iterations \in Int
  PROVE  IterationNext(c, s, iterations) \in NextResult
<1> DEFINE base == IF s.accepted THEN s.cur
                   ELSE [s.prev EXCEPT !.current = s.prev.previous + Dt(s.cur)]
           moved == [s EXCEPT !.prev = base]
           size == PossiblyClampDtToNextFixedTime(
                     base.current, GetNextTimeStepSize(c, moved, iterations), s.fixedTimes)
<1>1. s.prev \in TimeStep /\ s.cur \in TimeStep /\ s.fixedTimes \in SUBSET Nat
      /\ Dt(s.cur) \in Int
  BY StepperFields, DtType
<1>2. base \in TimeStep /\ base.current \in Int
  BY <1>1 DEF TimeStep
<1>3. moved \in Stepper
  BY <1>2 DEF Stepper
<1>4. GetNextTimeStepSize(c, moved, iterations) \in Int
  BY <1>3, GetNextTimeStepSizeType
<1>5. size \in Int
  BY <1>1, <1>2, <1>4, ClampedSizeJumpsOverNoFixedTime
<1>6. [moved EXCEPT !.cur = Advanced(base, size)] \in Stepper
  BY <1>2, <1>3, <1>5, AdvancedType DEF Stepper
<1>7. QED BY <1>6 DEF IterationNext, NextResult

LEMMA LimitStepSizeType ==
  ASSUME NEW c \in StepperConfig, NEW s \in Stepper, NEW h \in Int
  PROVE  LimitStepSize(c, s, h) \in Int
<1> DEFINE hn      == Dt(s.cur)
           inRange == Max({c.minDt, Min({h, c.maxDt})})
           limited == Max({Scaled(hn, c.relMin), Min({inRange, Scaled(hn, c.relMax)})})
           halved  == IF limited = hn THEN Max({c.minDt, limited \div 2}) ELSE limited
<1>1. c.minDt \in Int /\ c.maxDt \in Int /\ c.relMin \in Int /\ c.relMax \in Int
  BY DEF StepperConfig
<1>2. hn \in Int
  BY StepperFields, DtType
<1>3. Scaled(hn, c.relMin) \in Int /\ Scaled(hn, c.relMax) \in Int
  BY <1>1, <1>2, ScaledType
<1>4. inRange \in Int
  <2>1. Min({h, c.maxDt}) \in Int
    BY <1>1, MinOfTwo
  <2>2. QED BY <1>1, <2>1, MaxOfTwo
<1>5. limited \in Int
  <2>1. Min({inRange, Scaled(hn, c.relMax)}) \in Int
    BY <1>3, <1>4, MinOfTwo
  <2>2. QED BY <1>3, <2>1, MaxOfTwo
<1>6. \A k \in Int : Max({c.minDt, k \div 2}) \in Int
  <2> SUFFICES ASSUME NEW k \in Int PROVE Max({c.minDt, k \div 2}) \in Int
    OBVIOUS
  <2>1. k \div 2 \in Int
    OBVIOUS
  <2>2. QED BY <1>1, <2>1, MaxOfTwo
<1>7. halved \in Int
  BY <1>5, <1>6
<1>8. Max({c.minDt, hn \div 2}) \in Int
  BY <1>2, <1>6
<1>9. QED BY <1>5, <1>7, <1>8 DEF LimitStepSize

LEMMA PIDNextOK ==
  ASSUME NEW c \in StepperConfig, NEW s \in Stepper, NEW err, NEW h \in Int
  PROVE  PIDNext(c, s, err, h) \in NextResult
<1> DEFINE limited == PossiblyClampDtToNextFixedTime(
                        s.cur.current, LimitStepSize(c, s, h), s.fixedTimes)
           size == IF s.cur.steps = 0 THEN c.initialDt ELSE limited
<1>1. /\ s.prev \in TimeStep /\ s.cur \in TimeStep /\ s.fixedTimes \in SUBSET Nat
      /\ s.cur.current \in Int /\ c.initialDt \in Int
  BY StepperFields DEF TimeStep, StepperConfig
<1>2. limited \in Int /\ size \in Int
  BY <1>1, LimitStepSizeType, ClampedSizeJumpsOverNoFixedTime
<1>3. [s EXCEPT !.accepted = FALSE, !.cur = Advanced(s.prev, limited)] \in Stepper
  BY <1>1, <1>2, AdvancedType DEF Stepper
<1>4. [s EXCEPT !.accepted = TRUE, !.prev = s.cur, !.cur = Advanced(s.cur, size)] \in Stepper
  BY <1>1, <1>2, AdvancedType DEF Stepper
<1>5. CASE err = "above"
  BY <1>3, <1>5 DEF PIDNext, NextResult
<1>6. CASE err # "above"
  BY <1>4, <1>6 DEF PIDNext, NextResult
<1>7. QED BY <1>5, <1>6

LEMMA PIDSizesType ==
  ASSUME NEW c \in StepperConfig, NEW s \in Stepper, NEW err \in Errors
  PROVE  PIDSizes(c, s, err) \subseteq Int
<1>1. Dt(s.cur) \in Int /\ c.maxDt \in Int
  BY StepperFields, DtType DEF StepperConfig
<1>2. CASE err = "zero"   BY <1>1, <1>2 DEF PIDSizes
<1>3. CASE err = "above"  BY <1>1, <1>3 DEF PIDSizes
<1>4. CASE err = "within" BY <1>1, <1>4 DEF PIDSizes
<1>5. QED BY <1>2, <1>3, <1>4 DEF Errors

(* Whatever the kind of the stepper, next() keeps it well-formed; that of  *)
(* FixedTimeStepping never reads behind the end of its table of sizes.     *)
THEOREM NextKeepsSteppersWellFormed ==
  ASSUME NEW c \in StepperConfig, ValidConfig(c), NEW s, StepperOK(c, s),
         NEW err \in Errors, NEW iterations \in Int,
         NEW r \in NextResults(c, s, err, iterations)
  PROVE  r \in NextResult /\ StepperOK(c, r.stepper)
<1>1. CASE c.kind = "FixedTimeStepping"
  BY <1>1, FixedNextOK DEF NextResults
<1>2. CASE c.kind = "IterationNumberBased"
  <2>1. r = IterationNext(c, s, iterations)
    BY <1>2 DEF NextResults
  <2>2. QED BY <1>2, <2>1, IterationNextOK DEF StepperOK, NextResult
<1>3. CASE c.kind = "EvolutionaryPID"
  <2>1. PICK h \in PIDSizes(c, s, err) : r = PIDNext(c, s, err, h)
    BY <1>3 DEF NextResults
  <2>2. QED BY <1>3, <2>1, PIDSizesType, PIDNextOK DEF StepperOK, NextResult
<1>4. QED BY <1>1, <1>2, <1>3 DEF StepperConfig, Kinds

=============================================================================
