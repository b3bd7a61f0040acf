---------------------- MODULE TimeDiscretization_proofs ----------------------
(***************************************************************************)
(* Proofs about the time discretization schemes: whatever steps are        *)
(* accepted and rejected, the circular buffer of the BDF of any order      *)
(* holds the latest accepted solutions, and the coefficients meet them in  *)
(* the order of their age.                                                 *)
(***************************************************************************)
EXTENDS TimeDiscretization, SequenceTheorems, TLAPS

USE DEF BDF

(* The modulo of a circular buffer's index that has passed the end at most *)
(* once.                                                                   *)
LEMMA WrappedIndex ==
  ASSUME NEW k \in 1 .. 6, NEW a \in Nat, a < 2 * k
  PROVE  a % k = IF a < k THEN a ELSE a - k
<1>1. CASE k = 1 BY <1>1
<1>2. CASE k = 2 BY <1>2
<1>3. CASE k = 3 BY <1>3
<1>4. CASE k = 4 BY <1>4
<1>5. CASE k = 5 BY <1>5
<1>6. CASE k = 6 BY <1>6
<1>7. QED BY <1>1, <1>2, <1>3, <1>4, <1>5, <1>6

LEMMA OrderIsSmall == ASSUME NEW k \in 1 .. NumSteps PROVE k \in 1 .. 6
BY NumStepsAssumption

(* The offset stays inside the buffer, which is full when it moves.        *)
LEMMA NextOffsetInside ==
  ASSUME TypeOK, ~HasRoom
  PROVE  /\ BDF => /\ Len(xsOld) = NumSteps
                   /\ NextOffset = IF offset + 1 = NumSteps THEN 0 ELSE offset + 1
         /\ ~BDF => NextOffset = offset
<1>1. Len(xsOld) \in 1 .. NumSteps /\ offset \in 0 .. Len(xsOld) - 1 /\ NumSteps \in 1 .. 6
  BY NumStepsAssumption DEF TypeOK
<1>2. BDF => Len(xsOld) = NumSteps
  BY <1>1 DEF HasRoom
<1>3. BDF => (offset + 1) % NumSteps = IF offset + 1 = NumSteps THEN 0 ELSE offset + 1
  BY <1>1, <1>2, WrappedIndex
<1>4. QED BY <1>2, <1>3 DEF NextOffset

-----------------------------------------------------------------------------

LEMMA InitTypeOK == Init => TypeOK
<1> SUFFICES ASSUME Init PROVE TypeOK
  OBVIOUS
<1>1. xsOld \in Seq(Nat) /\ past \in Seq(Nat) /\ Len(xsOld) = 1
  BY DEF Init
<1>2. bars \in [old: Nat, matrices: Nat]
  BY DEF Init
<1>3. Len(xsOld) \in 1 .. NumSteps /\ offset \in 0 .. Len(xsOld) - 1
  BY <1>1, NumStepsAssumption DEF Init
<1>4. phase \in {"idle", "residuum", "solve", "decide"} /\ residuumDone \in BOOLEAN
  BY DEF Init
<1>5. x \in Nat /\ solves \in Nat /\ assembled \in Nat /\ time \in Nat /\ timeOld \in Nat
      /\ coupling \in Nat /\ rejected \in Nat
  BY DEF Init
<1>6. clock \in 0 .. MaxTime /\ attempt \in 0 .. MaxTime
  BY BoundsAssumption DEF Init
<1>7. QED BY <1>1, <1>2, <1>3, <1>4, <1>5, <1>6 DEF TypeOK

(* Type correctness is inductive.                                          *)
LEMMA NextTypeOK == TypeOK /\ [Next]_vars => TypeOK'
<1> SUFFICES ASSUME TypeOK, [Next]_vars PROVE TypeOK'
  OBVIOUS
<1> USE NumStepsAssumption, BoundsAssumption
<1>1. CASE BeginTimestep
  BY <1>1 DEF TypeOK, BeginTimestep, schemeVars
<1>2. CASE NonEquilibriumInitialResiduum
  BY <1>2 DEF TypeOK, NonEquilibriumInitialResiduum, NextTimestep, CurrentTime
<1>3. CASE SolveOneTimeStep
  BY <1>3 DEF TypeOK, SolveOneTimeStep, NextTimestep, CurrentTime
<1>4. CASE AcceptStep
  <2>1. /\ xsOld' \in Seq(Nat) /\ Len(xsOld') \in 1 .. NumSteps
        /\ offset' \in 0 .. Len(xsOld') - 1
    <3>0. /\ xsOld \in Seq(Nat) /\ x \in Nat /\ Len(xsOld) \in 1 .. NumSteps
          /\ offset \in 0 .. Len(xsOld) - 1
      BY DEF TypeOK
    <3>1. CASE HasRoom
      <4>1. xsOld' = Append(xsOld, x) /\ offset' = offset
        BY <1>4, <3>1 DEF AcceptStep, PushState
      <4>2. xsOld' \in Seq(Nat) /\ Len(xsOld') = Len(xsOld) + 1
        BY <3>0, <4>1, AppendProperties
      <4>3. Len(xsOld) < NumSteps
        BY <3>1 DEF HasRoom
      <4>4. QED BY <3>0, <4>1, <4>2, <4>3
    <3>2. CASE ~HasRoom
      <4>1. xsOld' = [xsOld EXCEPT ![offset + 1] = x] /\ offset' = NextOffset
        BY <1>4, <3>2 DEF AcceptStep, PushState
      <4>2. xsOld' \in Seq(Nat) /\ Len(xsOld') = Len(xsOld)
        BY <3>0, <4>1, ExceptSeq
      <4>3. offset' \in 0 .. Len(xsOld) - 1
        BY <3>0, <3>2, <4>1, NextOffsetInside
      <4>4. QED BY <3>0, <4>2, <4>3
    <3>3. QED BY <3>1, <3>2
  <2>2. bars' \in [old: Nat, matrices: Nat]
    <3>1. xsOld'[1] \in Nat /\ assembled \in Nat /\ bars \in [old: Nat, matrices: Nat]
      BY <2>1, ElementOfSeq DEF TypeOK
    <3>2. bars' = PushedBars(xsOld')
      BY <1>4 DEF AcceptStep, PushState
    <3>3. QED BY <3>1, <3>2 DEF PushedBars
  <2>3. past' \in Seq(Nat)
    BY <1>4 DEF TypeOK, AcceptStep
  <2>4. QED BY <1>4, <2>1, <2>2, <2>3 DEF TypeOK, AcceptStep
<1>5. CASE RejectStep
  BY <1>5 DEF TypeOK, RejectStep, PopState, Last, schemeVars
<1>6. CASE Finished \/ UNCHANGED vars
  BY <1>6 DEF TypeOK, Finished, vars, driverVars, schemeVars
<1>7. QED BY <1>1, <1>2, <1>3, <1>4, <1>5, <1>6 DEF Next

(* Every variable has its type.                                            *)
THEOREM TypeCorrect == Spec => []TypeOK
BY InitTypeOK, NextTypeOK, PTL DEF Spec

-----------------------------------------------------------------------------
(***************************************************************************)
(* The inductive invariant: where in the circular buffer the accepted      *)
(* solutions are.  The elements up to the offset are the latest ones, the  *)
(* elements behind it the ones before.                                     *)
(***************************************************************************)
BufferHoldsLatest ==
  /\ Len(past) >= Len(xsOld)
  /\ offset # 0 => BDF /\ Len(xsOld) = NumSteps
  /\ OrderGrowsWithHistory
  /\ \A i \in 1 .. Len(xsOld) :
       xsOld[i] = past[IF i > offset THEN Len(past) - Len(xsOld) + i - offset
                                     ELSE Len(past) - offset + i]

LEMMA InitBuffer == Init => BufferHoldsLatest
BY NumStepsAssumption DEF Init, BufferHoldsLatest, OrderGrowsWithHistory

LEMMA NextBuffer == TypeOK /\ BufferHoldsLatest /\ [Next]_vars => BufferHoldsLatest'
<1> SUFFICES ASSUME TypeOK, BufferHoldsLatest, [Next]_vars PROVE BufferHoldsLatest'
  OBVIOUS
<1>1. CASE UNCHANGED <<xsOld, offset, past>>
  BY <1>1 DEF BufferHoldsLatest, OrderGrowsWithHistory
<1>2. CASE AcceptStep
  <2>0. /\ NumSteps \in 1 .. 6 /\ x \in Nat
        /\ xsOld \in Seq(Nat) /\ Len(xsOld) \in 1 .. NumSteps
        /\ offset \in 0 .. Len(xsOld) - 1
        /\ past \in Seq(Nat) /\ Len(past) \in Nat
    BY NumStepsAssumption DEF TypeOK
  <2>1. /\ Len(past) >= Len(xsOld)
        /\ offset # 0 => BDF /\ Len(xsOld) = NumSteps
        /\ Len(xsOld) = IF ~BDF \/ NumSteps < Len(past)
                        THEN (IF BDF THEN NumSteps ELSE 1) ELSE Len(past)
    BY DEF BufferHoldsLatest, OrderGrowsWithHistory
  <2>2. \A i \in 1 .. Len(xsOld) :
          xsOld[i] = past[IF i > offset THEN Len(past) - Len(xsOld) + i - offset
                                        ELSE Len(past) - offset + i]
    BY DEF BufferHoldsLatest
  <2>3. /\ Len(past') = Len(past) + 1
        /\ \A i \in 1 .. Len(past) : past'[i] = past[i]
        /\ past'[Len(past) + 1] = x
    BY <1>2, <2>0, AppendProperties DEF AcceptStep
  <2>4. CASE HasRoom
    <3>1. BDF /\ Len(xsOld) < NumSteps /\ offset = 0 /\ Len(past) = Len(xsOld)
      BY <2>0, <2>1, <2>4 DEF HasRoom
    <3>2. xsOld' = Append(xsOld, x) /\ offset' = 0
      BY <1>2, <2>4, <3>1 DEF AcceptStep, PushState
    <3>3. /\ Len(xsOld') = Len(xsOld) + 1
          /\ \A i \in 1 .. Len(xsOld) : xsOld'[i] = xsOld[i]
          /\ xsOld'[Len(xsOld) + 1] = x
      BY <2>0, <3>2, AppendProperties
    <3>4. OrderGrowsWithHistory'
      BY <2>0, <2>3, <3>1, <3>3 DEF OrderGrowsWithHistory
    <3>5. ASSUME NEW i \in 1 .. Len(xsOld')
          PROVE  xsOld'[i] = past'[i]
      <4>1. CASE i = Len(xsOld) + 1
        BY <2>0, <2>3, <3>1, <3>3, <4>1
      <4>2. CASE i # Len(xsOld) + 1
        <5>1. i \in 1 .. Len(xsOld) /\ i > offset
          BY <2>0, <3>1, <3>3, <4>2
        <5>2. xsOld[i] = past[Len(past) - Len(xsOld) + i - offset]
          BY <2>2, <5>1
        <5>3. Len(past) - Len(xsOld) + i - offset = i
          BY <2>0, <3>1, <5>1
        <5>4. QED BY <2>3, <3>1, <3>3, <5>1, <5>2, <5>3
      <4>3. QED BY <4>1, <4>2
    <3>6. QED BY <2>0, <2>3, <3>1, <3>2, <3>3, <3>4, <3>5 DEF BufferHoldsLatest
  <2>5. CASE ~HasRoom
    <3>1. /\ BDF => /\ Len(xsOld) = NumSteps
                    /\ offset' = IF offset + 1 = NumSteps THEN 0 ELSE offset + 1
          /\ ~BDF => Len(xsOld) = 1 /\ offset' = 0
      BY <1>2, <2>0, <2>1, <2>5, NextOffsetInside DEF AcceptStep, PushState
    <3>2. /\ Len(xsOld') = Len(xsOld)
          /\ \A i \in 1 .. Len(xsOld) : xsOld'[i] = IF i = offset + 1 THEN x ELSE xsOld[i]
      BY <1>2, <2>0, <2>5, ExceptSeq DEF AcceptStep, PushState
    <3>3. OrderGrowsWithHistory'
      BY <2>0, <2>1, <2>3, <3>1, <3>2 DEF OrderGrowsWithHistory
    <3>4. ASSUME NEW i \in 1 .. Len(xsOld')
          PROVE  xsOld'[i] = past'[IF i > offset'
                                   THEN Len(past') - Len(xsOld') + i - offset'
                                   ELSE Len(past') - offset' + i]
      <4>0. /\ i \in 1 .. Len(xsOld) /\ i \in Int /\ 1 <= i /\ i <= Len(xsOld)
            /\ offset \in Nat /\ offset < Len(xsOld) /\ Len(xsOld) <= Len(past)
            /\ Len(xsOld) \in Nat /\ Len(past) \in Nat
        BY <2>0, <2>1, <3>2
      <4>k. Len(xsOld') = Len(xsOld) /\ Len(past') = Len(past) + 1
        BY <2>3, <3>2
      <4>o. offset' = IF offset + 1 = Len(xsOld) THEN 0 ELSE offset + 1
        <5>1. CASE BDF BY <3>1, <5>1
        <5>2. CASE ~BDF BY <2>1, <3>1, <5>2
        <5>3. QED BY <5>1, <5>2
      <4>1. CASE i = offset + 1
        <5>1. (IF i > offset' THEN Len(past') - Len(xsOld') + i - offset'
                              ELSE Len(past') - offset' + i) = Len(past) + 1
          BY <4>0, <4>k, <4>o, <4>1
        <5>2. xsOld'[i] = x
          BY <3>2, <4>0, <4>1
        <5>3. QED BY <2>3, <5>1, <5>2
      <4>2. CASE i # offset + 1
        <5>1. xsOld'[i] = past[IF i > offset THEN Len(past) - Len(xsOld) + i - offset
                                             ELSE Len(past) - offset + i]
          BY <2>0, <2>2, <3>2, <4>2
        <5>2. (IF i > offset' THEN Len(past') - Len(xsOld') + i - offset'
                              ELSE Len(past') - offset' + i)
              = (IF i > offset THEN Len(past) - Len(xsOld) + i - offset
                               ELSE Len(past) - offset + i)
          BY <4>0, <4>k, <4>o, <4>2
        <5>3. (IF i > offset THEN Len(past) - Len(xsOld) + i - offset
                             ELSE Len(past) - offset + i) \in 1 .. Len(past)
          BY <4>0
        <5>4. QED BY <2>3, <5>1, <5>2, <5>3
      <4>3. QED BY <4>1, <4>2
    <3>5. Len(past') >= Len(xsOld') /\ (offset' # 0 => BDF /\ Len(xsOld') = NumSteps)
      BY <2>0, <2>1, <2>3, <3>1, <3>2
    <3>6. QED BY <3>3, <3>4, <3>5 DEF BufferHoldsLatest
  <2>6. QED BY <2>4, <2>5
<1>3. CASE ~AcceptStep /\ Next
  BY <1>1, <1>3
  DEF Next, BeginTimestep, NonEquilibriumInitialResiduum, SolveOneTimeStep, RejectStep,
      Finished, vars, driverVars, schemeVars
<1>4. CASE UNCHANGED vars
  BY <1>1, <1>4 DEF vars, driverVars, schemeVars
<1>5. QED BY <1>2, <1>3, <1>4

(* For every scheme, every order of the BDF and every sequence of accepted *)
(* and rejected steps, getWeightedOldX multiplies the j-th coefficient     *)
(* with the j-th last accepted solution.                                   *)
THEOREM WeightedByAge == Spec => []OldSolutionsWeightedByAge
<1>1. TypeOK /\ BufferHoldsLatest => OldSolutionsWeightedByAge
  <2> SUFFICES ASSUME TypeOK, BufferHoldsLatest,
                      NEW j \in 1 .. Len(xsOld)
               PROVE  WeightedOldX[j] = past[Len(past) + 1 - j]
    BY DEF OldSolutionsWeightedByAge, WeightedOldX
  <2>1. Len(xsOld) \in 1 .. 6 /\ offset \in 0 .. Len(xsOld) - 1 /\ Len(past) \in Nat
    <3>1. Len(xsOld) \in 1 .. NumSteps /\ past \in Seq(Nat) /\ offset \in 0 .. Len(xsOld) - 1
      BY DEF TypeOK
    <3>2. Len(xsOld) \in 1 .. 6
      BY <3>1, OrderIsSmall
    <3>3. Len(past) \in Nat
      BY <3>1
    <3>4. QED BY <3>1, <3>2, <3>3
  <2>0. \A i \in 1 .. Len(xsOld) :
          xsOld[i] = past[IF i > offset THEN Len(past) - Len(xsOld) + i - offset
                                        ELSE Len(past) - offset + i]
    BY DEF BufferHoldsLatest
  <2>2. CASE j = Len(xsOld)
    <3>1. WeightedOldX[j] = xsOld[offset + 1]
      BY <2>2 DEF WeightedOldX
    <3>2. QED BY <2>0, <2>1, <2>2, <3>1
  <2>3. CASE j # Len(xsOld)
    <3>1. (offset + Len(xsOld) - j) % Len(xsOld)
            = IF offset < j THEN offset + Len(xsOld) - j ELSE offset - j
      BY <2>1, <2>3, WrappedIndex
    <3>2. WeightedOldX[j] = xsOld[IF offset < j THEN offset + Len(xsOld) - j + 1
                                                ELSE offset - j + 1]
      BY <2>1, <2>3, <3>1 DEF WeightedOldX
    <3>3. CASE offset < j
      <4>1. WeightedOldX[j] = xsOld[offset + Len(xsOld) - j + 1]
        BY <3>2, <3>3
      <4>2. offset + Len(xsOld) - j + 1 \in 1 .. Len(xsOld)
            /\ offset + Len(xsOld) - j + 1 > offset
        BY <2>1, <2>3, <3>3
      <4>3. xsOld[offset + Len(xsOld) - j + 1]
              = past[Len(past) - Len(xsOld) + (offset + Len(xsOld) - j + 1) - offset]
        BY <2>0, <4>2
      <4>4. Len(past) - Len(xsOld) + (offset + Len(xsOld) - j + 1) - offset = Len(past) + 1 - j
        BY <2>1
      <4>5. QED BY <4>1, <4>3, <4>4
    <3>4. CASE ~(offset < j)
      <4>1. WeightedOldX[j] = xsOld[offset - j + 1]
        BY <3>2, <3>4
      <4>2. offset - j + 1 \in 1 .. Len(xsOld) /\ ~(offset - j + 1 > offset)
        BY <2>1, <2>3, <3>4
      <4>3. xsOld[offset - j + 1] = past[Len(past) - offset + (offset - j + 1)]
        BY <2>0, <4>2
      <4>4. Len(past) - offset + (offset - j + 1) = Len(past) + 1 - j
        BY <2>1
      <4>5. QED BY <4>1, <4>3, <4>4
    <3>5. QED BY <3>3, <3>4
  <2>4. QED BY <2>2, <2>3
<1>2. QED BY <1>1, InitTypeOK, NextTypeOK, InitBuffer, NextBuffer, PTL DEF Spec

(* Lower-order formulas are used only until enough steps are accepted.     *)
THEOREM OrderGrows == Spec => []OrderGrowsWithHistory
<1>1. BufferHoldsLatest => OrderGrowsWithHistory
  BY DEF BufferHoldsLatest
<1>2. QED BY <1>1, InitTypeOK, NextTypeOK, InitBuffer, NextBuffer, PTL DEF Spec

-----------------------------------------------------------------------------
(***************************************************************************)
(* The schemes with a single old solution: it is the last accepted one,    *)
(* and what the Crank-Nicolson scheme keeps beside it belongs to it.       *)
(***************************************************************************)
SingleStep == Scheme \in SingleStepSchemes

LEMMA SingleOldSolution ==
  ASSUME SingleStep, TypeOK, BufferHoldsLatest
  PROVE  offset = 0 /\ Len(xsOld) = 1 /\ xsOld[1] = Last(past) /\ Last(xsOld) = Last(past)
<1>1. ~BDF
  BY DEF SingleStep, SingleStepSchemes
<1>2. /\ xsOld \in Seq(Nat) /\ past \in Seq(Nat) /\ Len(xsOld) \in Nat /\ Len(past) \in Nat
  BY DEF TypeOK
<1>3. Len(xsOld) = 1 /\ offset = 0
  BY <1>1 DEF BufferHoldsLatest, OrderGrowsWithHistory
<1>4. 1 \in 1 .. Len(xsOld) /\ 1 > offset
  BY <1>3
<1>5. xsOld[1] = past[Len(past) - Len(xsOld) + 1 - offset]
  BY <1>4 DEF BufferHoldsLatest
<1>6. Len(past) - Len(xsOld) + 1 - offset = Len(past)
  BY <1>2, <1>3
<1>7. QED BY <1>3, <1>5, <1>6 DEF Last

(* When a step is decided on, the equations were last assembled for it.    *)
AssembledForAttempt ==
  phase = "decide" /\ Scheme # "ForwardEuler" => assembled = attempt

LEMMA InitBars == Init => AssembledForAttempt /\ BarsBelongToLastAccepted
<1> SUFFICES ASSUME Init PROVE AssembledForAttempt /\ BarsBelongToLastAccepted
  OBVIOUS
<1>1. past = <<0>> /\ Last(past) = 0
  BY DEF Init, Last
<1>2. QED BY <1>1 DEF Init, AssembledForAttempt, BarsBelongToLastAccepted

LEMMA NextAssembled == AssembledForAttempt /\ [Next]_vars => AssembledForAttempt'
<1> SUFFICES ASSUME AssembledForAttempt, [Next]_vars PROVE AssembledForAttempt'
  OBVIOUS
<1>1. CASE SolveOneTimeStep
  BY <1>1 DEF SolveOneTimeStep, NextTimestep, CurrentTime, AssembledForAttempt
<1>2. CASE BeginTimestep \/ NonEquilibriumInitialResiduum \/ AcceptStep \/ RejectStep
  BY <1>2
  DEF BeginTimestep, NonEquilibriumInitialResiduum, AcceptStep, RejectStep,
      AssembledForAttempt
<1>3. CASE Finished \/ UNCHANGED vars
  BY <1>3 DEF Finished, vars, driverVars, AssembledForAttempt
<1>4. QED BY <1>1, <1>2, <1>3 DEF Next

LEMMA NextBars ==
  /\ TypeOK /\ BufferHoldsLatest /\ BufferHoldsLatest' /\ TypeOK'
  /\ AssembledForAttempt /\ BarsBelongToLastAccepted /\ [Next]_vars
  => BarsBelongToLastAccepted'
<1> SUFFICES ASSUME TypeOK', BufferHoldsLatest', AssembledForAttempt,
                    BarsBelongToLastAccepted, [Next]_vars, Scheme = "CrankNicolson"
             PROVE  bars' = [old |-> Last(past'), matrices |-> clock']
  BY DEF BarsBelongToLastAccepted
<1>0. SingleStep /\ bars = [old |-> Last(past), matrices |-> clock]
  BY DEF SingleStep, SingleStepSchemes, BarsBelongToLastAccepted
<1>1. CASE AcceptStep
  <2>1. assembled = attempt /\ clock' = attempt
    BY <1>1 DEF AcceptStep, AssembledForAttempt
  <2>2. bars' = [old |-> xsOld'[1], matrices |-> assembled]
    BY <1>1 DEF AcceptStep, PushState, PushedBars
  <2>3. xsOld'[1] = Last(past')
    <3>0. past' \in Seq(Nat)
      BY DEF TypeOK
    <3>1. Len(past') \in Nat
      BY <3>0, LenProperties
    <3>2. Len(xsOld') = 1 /\ offset' = 0
      BY <1>0 DEF BufferHoldsLatest, OrderGrowsWithHistory, SingleStep, SingleStepSchemes
    <3>3. 1 \in 1 .. Len(xsOld') /\ 1 > offset'
      BY <3>2
    <3>4. xsOld'[1] = past'[Len(past') - Len(xsOld') + 1 - offset']
      BY <3>3 DEF BufferHoldsLatest
    <3>5. Len(past') - Len(xsOld') + 1 - offset' = Len(past')
      BY <3>1, <3>2
    <3>6. QED BY <3>4, <3>5 DEF Last
  <2>4. QED BY <2>1, <2>2, <2>3
<1>2. CASE UNCHANGED <<bars, past, clock>>
  BY <1>0, <1>2
<1>3. CASE ~AcceptStep /\ Next
  BY <1>2, <1>3
  DEF Next, BeginTimestep, NonEquilibriumInitialResiduum, SolveOneTimeStep, RejectStep,
      Finished, vars, driverVars, schemeVars
<1>4. CASE UNCHANGED vars
  BY <1>2, <1>4 DEF vars, driverVars, schemeVars
<1>5. QED BY <1>1, <1>3, <1>4

(* What the Crank-Nicolson scheme keeps of the preceding step belongs to   *)
(* the last accepted solution and its time, however often steps were       *)
(* rejected and assembled again in between.                                *)
THEOREM BarsBelong == Spec => []BarsBelongToLastAccepted
BY InitTypeOK, NextTypeOK, InitBuffer, NextBuffer, InitBars, NextAssembled, NextBars, PTL
DEF Spec

(* All schemes but the forward Euler one assemble at the new time step.    *)
THEOREM AssembledAtNewTime ==
  ASSUME Scheme # "ForwardEuler" PROVE Spec => []AssembledAtSchemesTime
<1>1. AssembledForAttempt => AssembledAtSchemesTime
  BY DEF AssembledForAttempt, AssembledAtSchemesTime
<1>2. Init => AssembledForAttempt
  BY InitBars
<1>3. QED BY <1>1, <1>2, NextAssembled, PTL DEF Spec

(* With a single old solution, the change of the solution is taken between *)
(* successive time steps.                                                  *)
THEOREM ChangeAgainstLast ==
  ASSUME SingleStep PROVE Spec => []ChangeIsAgainstLastAccepted
<1>1. TypeOK /\ BufferHoldsLatest => ChangeIsAgainstLastAccepted
  BY SingleOldSolution DEF ChangeIsAgainstLastAccepted, RelativeChangeReference
<1>2. QED BY <1>1, InitTypeOK, NextTypeOK, InitBuffer, NextBuffer, PTL DEF Spec

(* With a single old solution, a rejection restores the last accepted one. *)
THEOREM RejectionRestores ==
  ASSUME SingleStep PROVE Spec => RejectionRestoresLastAccepted
<1>1. TypeOK /\ BufferHoldsLatest /\ [Next]_vars
      => [rejected' > rejected => x' = Last(past)]_vars
  <2> SUFFICES ASSUME TypeOK, BufferHoldsLatest, [Next]_vars, rejected' > rejected
               PROVE  x' = Last(past)
    BY DEF vars
  <2>0. rejected \in Nat
    BY DEF TypeOK
  <2>1. CASE RejectStep
    BY <2>1, SingleOldSolution DEF RejectStep, PopState
  <2>2. CASE UNCHANGED rejected
    BY <2>0, <2>2
  <2>3. QED
    BY <2>1, <2>2
    DEF Next, BeginTimestep, NonEquilibriumInitialResiduum, SolveOneTimeStep, AcceptStep,
        Finished, vars, driverVars
<1>2. QED
  BY <1>1, InitTypeOK, NextTypeOK, InitBuffer, NextBuffer, PTL
  DEF Spec, RejectionRestoresLastAccepted
=============================================================================
