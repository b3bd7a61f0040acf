--------------------------- MODULE TimeLoop_proofs ---------------------------
(***************************************************************************)
(* Proofs about the time loop, for every number of processes, every kind   *)
(* and every parameters of their time steppers, every schedule of failing  *)
(* solves and of rejected steps.                                           *)
(***************************************************************************)
EXTENDS TimeLoop, TimeStepper_proofs, SequenceTheorems

-----------------------------------------------------------------------------
(* The constants *)

LEMMA ConfigFacts ==
  /\ NumProcesses \in Nat /\ NumProcesses >= 1 /\ 1 \in Proc
  /\ \A p \in Proc : /\ Config[p] \in StepperConfig /\ ValidConfig(Config[p])
                     /\ Config[p].begin \in Nat /\ Config[p].end \in Nat
                     /\ Config[p].begin < Config[p].end
                     /\ Config[p].end < MaxDouble
  /\ MaxDouble \in Nat
<1>1. NumProcesses \in Nat /\ NumProcesses >= 1 /\ 1 \in Proc
  BY ConfigAssumption DEF NumProcesses, Proc
<1>2. \A p \in Proc : Config[p] \in StepperConfig /\ ValidConfig(Config[p])
  BY ConfigAssumption DEF NumProcesses, Proc
<1>3. \A p \in Proc : /\ Config[p].begin \in Nat /\ Config[p].end \in Nat
                      /\ Config[p].begin < Config[p].end
  BY <1>2 DEF StepperConfig, ValidConfig
<1>4. QED BY <1>1, <1>2, <1>3, MaxDoubleAssumption

LEMMA EndTimeIsGreatest ==
  EndTime \in Nat /\ \A p \in Proc : Config[p].end <= EndTime
<1> DEFINE ends == {Config[p].end : p \in Proc}
<1>1. ends \subseteq Nat /\ ends # {} /\ \A e \in ends : e <= MaxDouble
  BY ConfigFacts
<1>2. EndTime \in ends /\ \A e \in ends : EndTime >= e
  BY <1>1, ConfigFacts, MaxOfBounded DEF EndTime
<1>3. ASSUME NEW p \in Proc PROVE Config[p].end <= EndTime
  <2>1. Config[p].end \in ends
    OBVIOUS
  <2>2. QED BY <1>1, <1>2, <2>1
<1>4. QED BY <1>1, <1>2, <1>3

(* The process whose begin is the start time is the one that ends first.   *)
LEMMA StartTimeIsBegin ==
  /\ StartTime \in Nat
  /\ \E p \in Proc : StartTime = Config[p].begin
  /\ \A q \in Proc : StartTime < Config[q].end
<1> DEFINE Starts(p) == /\ \A q \in Proc : Config[p].end <= Config[q].end
                        /\ \A q \in 1 .. p - 1 : Config[p].end < Config[q].end
           ends == {Config[p].end : p \in Proc}
<1>1. \E p \in Proc : Starts(p)
  <2>1. ends \subseteq Nat /\ ends # {}
    BY ConfigFacts
  <2>2. PICK m \in ends : \A e \in ends : m <= e
    BY <2>1, LeastNatural
  <2> DEFINE firsts == {p \in Proc : Config[p].end = m}
  <2>3. firsts \subseteq Nat /\ firsts # {}
    BY <2>2, ConfigFacts DEF Proc
  <2>4. PICK p \in firsts : \A q \in firsts : p <= q
    BY <2>3, LeastNatural
  <2>5. \A q \in Proc : Config[p].end <= Config[q].end
    BY <2>2, <2>4
  <2>6. ASSUME NEW q \in 1 .. p - 1 PROVE Config[p].end < Config[q].end
    <3>1. q \in Proc /\ ~(p <= q) /\ p \in Proc
      BY <2>3, <2>4, ConfigFacts DEF Proc
    <3>2. Config[q].end # m /\ Config[p].end = m /\ Config[p].end <= Config[q].end
      BY <2>4, <2>5, <3>1
    <3>3. QED BY <3>1, <3>2, ConfigFacts
  <2>7. QED BY <2>4, <2>5, <2>6
<1>2. PICK p \in Proc : StartTime = Config[p].begin /\ Starts(p)
  BY <1>1 DEF StartTime
<1>3. ASSUME NEW q \in Proc PROVE StartTime < Config[q].end
  <2>1. Config[p].end <= Config[q].end
    BY <1>2
  <2>2. QED BY <1>2, <2>1, ConfigFacts
<1>4. QED BY <1>2, <1>3, ConfigFacts

LEMMA StartBeforeEnd == StartTime < EndTime
<1>1. StartTime < Config[1].end /\ Config[1].end <= EndTime
  BY ConfigFacts, StartTimeIsBegin, EndTimeIsGreatest
<1>2. QED BY <1>1, ConfigFacts, StartTimeIsBegin, EndTimeIsGreatest

-----------------------------------------------------------------------------
(* The next step size *)

LEMMA LeastSizeChosen ==
  ASSUME NEW next \in [Proc -> NextResult]
  PROVE  /\ LeastSize(next) \in Int
         /\ (\A p \in Proc : t # Config[p].end) => LeastSize(next) > 0
         /\ (\A p \in Proc : Dt(next[p].stepper.cur) > 0) => LeastSize(next) > 0
         /\ \A p \in Proc : Dt(next[p].stepper.cur) > 0
                            => LeastSize(next) <= Dt(next[p].stepper.cur)
<1> DEFINE size(p) == Dt(next[p].stepper.cur)
           named == {q \in Proc : size(q) > 0 \/ t = Config[q].end}
           sizes == {size(p) : p \in named}
           f == [p \in named |-> size(p)]
<1>1. \A p \in Proc : size(p) \in Int
  BY StepperFields, DtType DEF NextResult
<1>2. IsFiniteSet(named)
  <2>1. IsFiniteSet(Proc)
    BY ConfigFacts, FS_Interval DEF Proc
  <2>2. named \in SUBSET Proc
    OBVIOUS
  <2>3. QED BY <2>1, <2>2, FS_Subset
<1>3. IsFiniteSet(sizes)
  <2>1. f \in Surjection(named, sizes)
    BY DEF Surjection
  <2>2. QED BY <1>2, <2>1, FS_Surjection
<1>4. IsFiniteSet({MaxDouble} \cup sizes)
  <2>1. IsFiniteSet(sizes \cup {MaxDouble})
    BY <1>3, FS_AddElement
  <2>2. sizes \cup {MaxDouble} = {MaxDouble} \cup sizes
    OBVIOUS
  <2>3. QED BY <2>1, <2>2
<1>5. {MaxDouble} \cup sizes \subseteq Int
  BY <1>1, ConfigFacts
<1>6. /\ Min({MaxDouble} \cup sizes) \in {MaxDouble} \cup sizes
      /\ \A s \in sizes : Min({MaxDouble} \cup sizes) <= s
  BY <1>4, <1>5, MinOfFinite
<1>7. LeastSize(next) = Min({MaxDouble} \cup sizes)
  BY DEF LeastSize
<1>8. ASSUME (\A p \in Proc : t # Config[p].end) \/ \A p \in Proc : size(p) > 0
      PROVE  LeastSize(next) > 0
  <2>1. \A s \in sizes : s > 0
    BY <1>8
  <2>2. MaxDouble > 0
    BY ConfigFacts
  <2>3. QED BY <1>6, <1>7, <2>1, <2>2
<1>9. ASSUME NEW p \in Proc, size(p) > 0 PROVE LeastSize(next) <= size(p)
  <2>1. size(p) \in sizes
    BY <1>9
  <2>2. QED BY <1>6, <1>7, <2>1
<1>10. QED BY <1>5, <1>6, <1>7, <1>8, <1>9

-----------------------------------------------------------------------------
(***************************************************************************)
(* Types.  FixedTimeStepping reads its table of sizes at the number of the *)
(* step, so that the types are inductive only together with a bound on     *)
(* that number.                                                            *)
(***************************************************************************)
TypeInv == TypeOK /\ \A p \in Proc : StepperOK(Config[p], stepper[p])

LEMMA InitTypeInv == Init => TypeInv
<1> SUFFICES ASSUME Init PROVE TypeInv
  OBVIOUS
<1>1. OutputTimes \in SUBSET Nat
  BY OutputAssumption
<1>2. \A p \in Proc : StepperOK(Config[p], stepper[p])
  BY <1>1, ConfigFacts, NewStepperOK DEF Init
<1>3. stepper \in [Proc -> Stepper]
  BY <1>2 DEF Init, StepperOK
<1>4. status \in [Proc -> Status] /\ lastStatus \in Status
  BY DEF Init, Status
<1>5. solution \in [Proc -> Solution] /\ previous \in [Proc -> Solution]
  <2>1. [time |-> StartTime, ok |-> TRUE] \in Solution
    BY StartTimeIsBegin DEF Solution
  <2>2. QED BY <2>1 DEF Init
<1>6. t \in Int /\ dt \in Int /\ prevDt \in Int /\ history \in [Proc -> Int]
  BY StartTimeIsBegin DEF Init
<1>7. pc \in Phases /\ lastRejected \in BOOLEAN
  BY DEF Init, Phases
<1>8. /\ proc \in Proc /\ coupling \in Nat /\ timestep \in Nat
      /\ accepted \in Nat /\ rejected \in Nat
  BY ConfigFacts DEF Init
<1>9. pending \in SUBSET Nat /\ written \in Seq(File)
  BY <1>1 DEF Init
<1>10. QED BY <1>2, <1>3, <1>4, <1>5, <1>6, <1>7, <1>8, <1>9 DEF TypeInv, TypeOK

LEMMA OutputSolutionType ==
  ASSUME TypeInv, OutputSolution
  PROVE  TypeInv'
<1> DEFINE last == pc = "outputLast"
           step == IF last THEN accepted + rejected ELSE timestep
           file == [step |-> step, time |-> t, from |-> solution[proc],
                    kind |-> IF last THEN "last" ELSE "output"]
<1>0. /\ proc \in Proc /\ solution \in [Proc -> Solution] /\ t \in Int
      /\ accepted \in Nat /\ rejected \in Nat /\ timestep \in Nat
      /\ pending \in SUBSET Nat /\ written \in Seq(File)
  BY DEF TypeInv, TypeOK
<1>1. file \in File
  <2>1. step \in Nat
    BY <1>0
  <2>2. QED BY <1>0, <2>1 DEF File
<1>2. pending' \in SUBSET Nat
  BY <1>0 DEF OutputSolution, PendingAfter, outputVars
<1>3. written' \in {written, Append(written, file)}
  BY DEF OutputSolution, outputVars
<1>4. written' \in Seq(File)
  BY <1>0, <1>1, <1>3, AppendProperties
<1>5. proc' \in Proc
  BY <1>0, ConfigFacts DEF OutputSolution, LastProcess, Proc
<1>6. pc' \in Phases
  BY DEF OutputSolution, Phases, TypeInv, TypeOK
<1>7. UNCHANGED <<clockVars, stepper, solverVars, stateVars, coupling, countVars>>
  BY DEF OutputSolution
<1>8. QED
  BY <1>2, <1>4, <1>5, <1>6, <1>7
  DEF TypeInv, TypeOK, clockVars, solverVars, stateVars, countVars

LEMMA DecideOnStepType ==
  ASSUME TypeInv, pc \in {"first", "stepping"},
         NEW next \in [Proc -> NextResult],
         \A p \in Proc : StepperOK(Config[p], next[p].stepper),
         DecideOnStep(next)
  PROVE  TypeInv'
<1>1. LeastSize(next) \in Int
  BY LeastSizeChosen
<1>2. \A p \in Proc : StepperOK(Config[p], stepper'[p])
  BY <1>1, ConfigFacts, ResetCurrentTimeStepOK DEF DecideOnStep
<1>3. stepper' \in [Proc -> Stepper]
  <2>1. stepper' = [p \in Proc |-> stepper'[p]]
    BY DEF DecideOnStep
  <2>2. QED BY <1>2, <2>1 DEF StepperOK
<1>4. solution' \in [Proc -> Solution] /\ previous' \in [Proc -> Solution]
  BY DEF TypeInv, TypeOK, DecideOnStep, PushedStates, PoppedStates
<1>5. t' \in Int
  BY DEF TypeInv, TypeOK, DecideOnStep
<1>6. dt' \in Int
  BY <1>1, <1>5, EndTimeIsGreatest DEF DecideOnStep, CappedSize
<1>7. accepted' \in Nat /\ rejected' \in Nat
  BY DEF TypeInv, TypeOK, DecideOnStep
<1>8. lastRejected' \in BOOLEAN
  <2>1. lastRejected' = lastRejected \/ lastRejected' = (~AcceptsStep(next) /\ t <= EndTime)
    BY DEF DecideOnStep
  <2>2. (~AcceptsStep(next) /\ t <= EndTime) \in BOOLEAN
    OBVIOUS
  <2>3. QED BY <2>1, <2>2 DEF TypeInv, TypeOK
<1>9. pc' \in Phases
  <2>1. pc' \in {"fatal", "loop", "check", "output"}
    BY DEF DecideOnStep
  <2>2. QED BY <2>1 DEF Phases
<1>10. proc' \in Proc
  BY ConfigFacts DEF DecideOnStep
<1>11. UNCHANGED <<prevDt, status, lastStatus, history, coupling, timestep, outputVars>>
  BY DEF DecideOnStep
<1>12. QED
  BY <1>2, <1>3, <1>4, <1>5, <1>6, <1>7, <1>8, <1>9, <1>10, <1>11
  DEF TypeInv, TypeOK, outputVars

(* What next() gives DecideOnStep to work with, for each process the       *)
(* result of its own stepper.                                              *)
LEMMA NextOfEach ==
  ASSUME TypeInv, ComputeTimeStepping
  PROVE  \E err \in [Proc -> Errors], next \in [Proc -> NextResult] :
           /\ DecideOnStep(next)
           /\ \A p \in Proc :
                /\ err[p] \in PossibleErrors(Config[p], t)
                /\ err[p] = "above" => rejected < MaxRejected
                /\ next[p] \in NextResults(Config[p],
                                 SetAcceptedOrNot(Config[p], stepper[p], status[p].met),
                                 err[p], status[p].iterations)
                /\ StepperOK(Config[p], next[p].stepper)
<1> DEFINE results(err, p) ==
             NextResults(Config[p],
                         SetAcceptedOrNot(Config[p], stepper[p], status[p].met),
                         err[p], status[p].iterations)
<1>1. PICK err \in [Proc -> Errors] :
        /\ \A p \in Proc : /\ err[p] \in PossibleErrors(Config[p], t)
                           /\ err[p] = "above" => rejected < MaxRejected
        /\ \E next \in [Proc -> UNION {results(err, p) : p \in Proc}] :
             (\A p \in Proc : next[p] \in results(err, p)) /\ DecideOnStep(next)
  BY DEF ComputeTimeStepping
<1>2. PICK next \in [Proc -> UNION {results(err, p) : p \in Proc}] :
        (\A p \in Proc : next[p] \in results(err, p)) /\ DecideOnStep(next)
  BY <1>1
<1>3. ASSUME NEW p \in Proc
      PROVE  next[p] \in NextResult /\ StepperOK(Config[p], next[p].stepper)
  <2>1. /\ Config[p] \in StepperConfig /\ ValidConfig(Config[p])
        /\ StepperOK(Config[p], stepper[p])
        /\ status[p].met \in BOOLEAN /\ status[p].iterations \in Int
        /\ err[p] \in Errors
    BY ConfigFacts DEF TypeInv, TypeOK, Status
  <2>2. StepperOK(Config[p], SetAcceptedOrNot(Config[p], stepper[p], status[p].met))
    BY <2>1, SetAcceptedOrNotOK
  <2>3. QED BY <1>2, <2>1, <2>2, NextKeepsSteppersWellFormed
<1>4. next \in [Proc -> NextResult]
  BY <1>3
<1>5. QED BY <1>1, <1>2, <1>3, <1>4

LEMMA NextIsWellFormed ==
  ASSUME TypeInv, ComputeTimeStepping
  PROVE  \E next \in [Proc -> NextResult] :
           /\ \A p \in Proc : StepperOK(Config[p], next[p].stepper)
           /\ DecideOnStep(next)
BY NextOfEach

LEMMA SolveType ==
  ASSUME TypeInv, SolveConverged \/ SolveDiverged
  PROVE  TypeInv'
<1>0. /\ proc \in Proc /\ t \in Int /\ timestep \in Nat /\ coupling \in Nat
      /\ solution \in [Proc -> Solution] /\ status \in [Proc -> Status]
      /\ written \in Seq(File)
  BY DEF TypeInv, TypeOK
<1>1. lastStatus' \in Status /\ status' = RecordedStatus(lastStatus')
  <2>1. PICK n \in Nat : lastStatus' \in {[met |-> TRUE, iterations |-> n],
                                          [met |-> FALSE, iterations |-> n]}
    BY SolverAssumption DEF SolveConverged, SolveDiverged
  <2>2. /\ [met |-> TRUE, iterations |-> n] \in Status
        /\ [met |-> FALSE, iterations |-> n] \in Status
    BY DEF Status
  <2>3. lastStatus' \in Status
    BY <2>1, <2>2
  <2>4. QED BY <2>3 DEF SolveConverged, SolveDiverged
<1>2. status' \in [Proc -> Status]
  BY <1>0, <1>1 DEF RecordedStatus
<1>3. PICK ok \in BOOLEAN : solution' = [solution EXCEPT ![proc] = [time |-> t, ok |-> ok]]
  BY DEF SolveConverged, SolveDiverged
<1>4. solution' \in [Proc -> Solution] /\ solution'[proc] \in Solution
  <2>1. [time |-> t, ok |-> ok] \in Solution
    BY <1>0 DEF Solution
  <2>2. QED BY <1>0, <1>3, <2>1
<1>5. pc' \in Phases
  BY DEF SolveConverged, SolveDiverged, AfterFailure, Phases
<1>6. proc' \in Proc /\ coupling' \in Nat
  BY <1>0, ConfigFacts
  DEF SolveConverged, SolveDiverged, LastProcess, NextCoupling, Proc, positionVars
<1>7. written' \in Seq(File)
  <2> DEFINE file == [step |-> timestep, time |-> t, from |-> solution'[proc],
                      kind |-> "always"]
  <2>1. file \in File
    BY <1>0, <1>4 DEF File
  <2>2. written' \in {written, Append(written, file)}
    BY DEF SolveConverged, SolveDiverged, outputVars
  <2>3. QED BY <1>0, <2>1, <2>2, AppendProperties
<1>8. UNCHANGED <<clockVars, stepper, stateVars, countVars, pending>>
  BY DEF SolveConverged, SolveDiverged, outputVars
<1>9. QED
  BY <1>1, <1>2, <1>4, <1>5, <1>6, <1>7, <1>8
  DEF TypeInv, TypeOK, clockVars, stateVars, countVars

LEMMA NextTypeInv == TypeInv /\ [Next]_vars => TypeInv'
<1> SUFFICES ASSUME TypeInv, [Next]_vars PROVE TypeInv'
  OBVIOUS
<1>1. CASE OutputSolution
  BY <1>1, OutputSolutionType
<1>2. CASE ComputeTimeStepping
  <2>1. pc \in {"first", "stepping"}
    BY <1>2 DEF ComputeTimeStepping
  <2>2. QED BY <1>2, <2>1, NextIsWellFormed, DecideOnStepType
<1>3. CASE BeginTimestep
  <2>1. lastStatus' \in Status
    <3>1. lastStatus' \in {lastStatus, [met |-> FALSE, iterations |-> -1]}
      BY <1>3 DEF BeginTimestep
    <3>2. [met |-> FALSE, iterations |-> -1] \in Status
      BY DEF Status
    <3>3. QED BY <3>1, <3>2 DEF TypeInv, TypeOK
  <2>2. pc' \in Phases /\ proc' \in Proc /\ coupling' \in Nat
    BY <1>3, ConfigFacts DEF BeginTimestep, Phases
  <2>3. t' \in Int /\ prevDt' \in Int /\ dt' \in Int /\ timestep' \in Nat
    BY <1>3 DEF TypeInv, TypeOK, BeginTimestep
  <2>4. QED
    BY <1>3, <2>1, <2>2, <2>3 DEF TypeInv, TypeOK, BeginTimestep, stateVars, outputVars
<1>4. CASE SolveConverged \/ SolveDiverged
  BY <1>4, SolveType
<1>5. CASE PostTimestep
  <2>1. history' \in [Proc -> Int] /\ pc' \in Phases
    BY <1>5 DEF TypeInv, TypeOK, PostTimestep, Phases
  <2>2. QED
    BY <1>5, <2>1
    DEF TypeInv, TypeOK, PostTimestep, clockVars, solverVars, positionVars, countVars,
        outputVars
<1>6. CASE CheckEnd
  <2>1. pc' \in Phases /\ proc' \in Proc
    BY <1>6, ConfigFacts DEF CheckEnd, Phases
  <2>2. QED
    BY <1>6, <2>1
    DEF TypeInv, TypeOK, CheckEnd, clockVars, solverVars, stateVars, countVars, outputVars
<1>7. CASE UNCHANGED vars
  BY <1>7
  DEF TypeInv, TypeOK, vars, clockVars, solverVars, stateVars, positionVars, countVars,
      outputVars
<1>8. QED BY <1>1, <1>2, <1>3, <1>4, <1>5, <1>6, <1>7 DEF Next, Terminated

(* Every variable has its type, and FixedTimeStepping never reads behind   *)
(* its table.                                                              *)
THEOREM TypeCorrect == Spec => []TypeOK
<1>1. TypeInv => TypeOK
  BY DEF TypeInv
<1>2. QED BY <1>1, InitTypeInv, NextTypeInv, PTL DEF Spec

-----------------------------------------------------------------------------
(***************************************************************************)
(* The clock.  Before the first step the loop's time is the start time and *)
(* nothing has been rejected; afterwards a rollback by prevDt is harmless  *)
(* because prevDt is the positive size that the time has advanced by.      *)
(***************************************************************************)
ClockInv ==
  /\ ClockWithinRun
  /\ pc \in {"outputInitial", "first"} => t = StartTime /\ prevDt = 0 /\ ~lastRejected
  /\ pc = "loop" => t < EndTime
  /\ pc \in {"solve", "post", "stepping"} => prevDt > 0

LEMMA InitClockInv == Init => ClockInv
BY StartBeforeEnd, StartTimeIsBegin, EndTimeIsGreatest DEF Init, ClockInv, ClockWithinRun

LEMMA NextClockInv == TypeInv /\ ClockInv /\ [Next]_vars => ClockInv'
<1> SUFFICES ASSUME TypeInv, ClockInv, [Next]_vars PROVE ClockInv'
  OBVIOUS
<1>0. /\ t \in Int /\ dt \in Int /\ prevDt \in Int
      /\ StartTime \in Nat /\ EndTime \in Nat /\ StartTime < EndTime
  BY StartBeforeEnd, StartTimeIsBegin, EndTimeIsGreatest DEF TypeInv, TypeOK
<1>1. CASE OutputSolution
  <2>1. UNCHANGED <<t, dt, prevDt, lastRejected>>
    BY <1>1 DEF OutputSolution, clockVars, countVars
  <2>2. \/ pc' = pc /\ pc \in {"outputInitial", "output", "outputLast"}
        \/ pc = "outputInitial" /\ pc' = "first"
        \/ pc' \in {"check", "done"}
    BY <1>1 DEF OutputSolution
  <2>3. QED BY <1>0, <2>1, <2>2 DEF ClockInv, ClockWithinRun
<1>2. CASE ComputeTimeStepping
  <2>1. PICK next \in [Proc -> NextResult] : DecideOnStep(next)
    BY <1>2, NextIsWellFormed
  <2>2. LeastSize(next) \in Int
    BY LeastSizeChosen
  <2>3. pc \in {"first", "stepping"} /\ prevDt' = prevDt
    BY <1>2, <2>1 DEF ComputeTimeStepping, DecideOnStep
  <2>4. CASE pc = "first"
    <3>1. t = StartTime /\ prevDt = 0 /\ ~lastRejected
      BY <2>4 DEF ClockInv
    <3>2. InitialStep
      BY <3>1, StartTimeIsBegin DEF InitialStep
    <3>3. t' = t /\ lastRejected' = lastRejected
      BY <2>1, <3>2 DEF DecideOnStep
    <3>4. LeastSize(next) > 0
      <4>1. \A p \in Proc : t # Config[p].end
        BY <3>1, StartTimeIsBegin, ConfigFacts
      <4>2. QED BY <4>1, LeastSizeChosen
    <3>5. dt' = CappedSize(t, LeastSize(next))
      BY <2>1, <3>3 DEF DecideOnStep
    <3>6. 0 < dt' /\ t + dt' <= EndTime /\ dt' \in Int
      BY <1>0, <2>2, <3>1, <3>4, <3>5 DEF CappedSize
    <3>7. pc' = "loop"
      BY <2>1, <2>4, <3>1, <3>3 DEF DecideOnStep
    <3>8. QED BY <1>0, <3>1, <3>3, <3>6, <3>7 DEF ClockInv, ClockWithinRun
  <2>5. CASE pc = "stepping"
    <3>1. t' \in {t, t - prevDt}
      BY <2>1 DEF DecideOnStep
    <3>2. pc' \in {"fatal", "check", "output"}
      BY <2>1, <2>5 DEF DecideOnStep
    <3>3. StartTime <= t - prevDt /\ prevDt > 0 /\ StartTime <= t /\ t <= EndTime
      BY <2>5 DEF ClockInv, ClockWithinRun
    <3>4. StartTime <= t' /\ t' <= EndTime
      BY <1>0, <3>1, <3>3
    <3>5. QED BY <3>2, <3>4 DEF ClockInv, ClockWithinRun
  <2>6. QED BY <2>3, <2>4, <2>5
<1>3. CASE BeginTimestep
  <2>1. /\ pc = "loop" /\ t' = t + dt /\ prevDt' = dt /\ dt' = dt
        /\ pc' \in {"solve", "post"}
    BY <1>3 DEF BeginTimestep
  <2>2. QED BY <1>0, <2>1 DEF ClockInv, ClockWithinRun
<1>4. CASE SolveConverged \/ SolveDiverged
  <2>1. pc = "solve" /\ pc' \in {"solve", "post", "stepping", "fatal"}
    BY <1>4 DEF SolveConverged, SolveDiverged, AfterFailure
  <2>2. UNCHANGED <<t, dt, prevDt>>
    BY <1>4 DEF SolveConverged, SolveDiverged, clockVars
  <2>3. QED BY <1>0, <2>1, <2>2 DEF ClockInv, ClockWithinRun
<1>5. CASE PostTimestep
  BY <1>5 DEF PostTimestep, clockVars, ClockInv, ClockWithinRun
<1>6. CASE CheckEnd
  <2>1. UNCHANGED <<t, dt, prevDt>> /\ pc' \in {"outputLast", "done", "loop"}
    BY <1>6 DEF CheckEnd, clockVars
  <2>2. pc' = "loop" => t < EndTime /\ t + dt <= EndTime /\ 0 < dt
    BY <1>0, <1>6 DEF CheckEnd, LoopEnds
  <2>3. QED BY <1>0, <2>1, <2>2 DEF ClockInv, ClockWithinRun
<1>7. CASE UNCHANGED vars
  BY <1>7 DEF vars, clockVars, countVars, ClockInv, ClockWithinRun
<1>8. QED BY <1>1, <1>2, <1>3, <1>4, <1>5, <1>6, <1>7 DEF Next, Terminated

(* Whatever the steppers propose and however steps fail, the loop's time   *)
(* stays between start and end and no step is begun beyond the end.        *)
THEOREM ClockStaysWithinRun == Spec => []ClockWithinRun
<1>1. ClockInv => ClockWithinRun
  BY DEF ClockInv
<1>2. QED BY <1>1, InitTypeInv, NextTypeInv, InitClockInv, NextClockInv, PTL DEF Spec

-----------------------------------------------------------------------------
(***************************************************************************)
(* The acceptance and the rollback of steps: every step starts from a      *)
(* converged solution of the loop's current time, and every result file    *)
(* holds one.  Both need that the processes begin together (pushState and  *)
(* popState are skipped by a process whose begin is the current time) and  *)
(* that a step solves its processes at least once.                         *)
(***************************************************************************)
BeginTogether == \A p \in Proc : Config[p].begin = StartTime
SolvesEachStep == Staggered => MaxCoupling > 0

Now == [time |-> t, ok |-> TRUE]
Before == [time |-> t - prevDt, ok |-> TRUE]

(* The phases between two steps, and those of a step.                      *)
Between == {"outputInitial", "first", "loop", "output", "check", "outputLast"}
Within == {"solve", "post", "stepping"}

(* Between two steps every process holds the accepted solution twice;      *)
(* within one, the previous solution is what a rollback returns to.        *)
AcceptedBetween == pc \in Between => \A p \in Proc : solution[p] = Now /\ previous[p] = Now
KeptWithin == pc \in Within => \A p \in Proc : previous[p] = Before

(* In the first round of a step the processes before proc have been        *)
(* solved, in a later round all of them have.                              *)
SolvedSoFar ==
  pc = "solve" =>
    \A p \in Proc : p < proc \/ coupling > 0 => status[p].met /\ solution[p] = Now

(* What computeTimeStepping relies on when it accepts a step.              *)
SolvedIfAllMet ==
  pc \in {"post", "stepping"} /\ (\A p \in Proc : status[p].met) =>
    \A p \in Proc : solution[p] = Now

AcceptInv ==
  /\ AcceptedBetween /\ KeptWithin /\ SolvedSoFar /\ SolvedIfAllMet
  /\ FilesHoldAcceptedSolutions

LEMMA InitAcceptInv == Init => AcceptInv
<1> SUFFICES ASSUME Init PROVE AcceptInv
  OBVIOUS
<1>1. pc = "outputInitial" /\ t = StartTime /\ written = <<>>
  BY DEF Init
<1>2. \A p \in Proc : solution[p] = Now /\ previous[p] = Now
  BY DEF Init, Now
<1>3. FilesHoldAcceptedSolutions
  BY <1>1 DEF FilesHoldAcceptedSolutions
<1>4. QED
  BY <1>1, <1>2, <1>3
  DEF AcceptInv, AcceptedBetween, KeptWithin, SolvedSoFar, SolvedIfAllMet, Within

(* A file added at the end keeps the property if it has it itself.         *)
LEMMA AppendedFile ==
  ASSUME written \in Seq(File), FilesHoldAcceptedSolutions,
         NEW file \in File, written' = Append(written, file),
         file.kind # "always" => file.from = [time |-> file.time, ok |-> TRUE]
  PROVE  FilesHoldAcceptedSolutions'
<1>1. /\ DOMAIN written' = 1 .. Len(written) + 1
      /\ Len(written) \in Nat /\ DOMAIN written = 1 .. Len(written)
      /\ \A i \in DOMAIN written : written'[i] = written[i]
      /\ written'[Len(written) + 1] = file
  BY AppendProperties, LenProperties
<1>2. ASSUME NEW i \in DOMAIN written', written'[i].kind # "always"
      PROVE  written'[i].from = [time |-> written'[i].time, ok |-> TRUE]
  <2>1. CASE i = Len(written) + 1
    BY <1>1, <1>2, <2>1
  <2>2. CASE i # Len(written) + 1
    <3>1. i \in DOMAIN written
      BY <1>1, <1>2, <2>2
    <3>2. QED BY <1>1, <1>2, <3>1 DEF FilesHoldAcceptedSolutions
  <2>3. QED BY <2>1, <2>2
<1>3. QED BY <1>2 DEF FilesHoldAcceptedSolutions

LEMMA OutputKeepsAccepted == TypeInv /\ AcceptInv /\ OutputSolution => AcceptInv'
<1> SUFFICES ASSUME TypeInv, AcceptInv, OutputSolution PROVE AcceptInv'
  OBVIOUS
<1>1. /\ UNCHANGED <<t, prevDt, solution, previous, status>>
      /\ pc \in Between /\ proc \in Proc
  BY DEF OutputSolution, clockVars, solverVars, stateVars, Between, TypeInv, TypeOK
<1>2. pc' \in Between \cup {"done"}
  BY DEF OutputSolution, Between
<1>3. solution[proc] = Now
  BY <1>1 DEF AcceptInv, AcceptedBetween
<1>4. FilesHoldAcceptedSolutions'
  <2>1. written \in Seq(File) /\ accepted + rejected \in Nat /\ timestep \in Nat
        /\ t \in Int /\ solution[proc] \in Solution /\ FilesHoldAcceptedSolutions
    BY <1>1 DEF TypeInv, TypeOK, AcceptInv
  <2> DEFINE last == pc = "outputLast"
             file == [step |-> IF last THEN accepted + rejected ELSE timestep,
                      time |-> t, from |-> solution[proc],
                      kind |-> IF last THEN "last" ELSE "output"]
  <2>2. file \in File
    BY <2>1 DEF File
  <2>3. written' = written \/ written' = Append(written, file)
    BY DEF OutputSolution, outputVars
  <2>4. file.from = [time |-> file.time, ok |-> TRUE]
    BY <1>3 DEF Now
  <2>5. CASE written' = written
    BY <2>1, <2>5 DEF FilesHoldAcceptedSolutions
  <2>6. CASE written' = Append(written, file)
    <3> HIDE DEF file
    <3>1. QED BY <2>1, <2>2, <2>4, <2>6, AppendedFile
  <2>7. QED BY <2>3, <2>5, <2>6
<1>5. pc' \notin Within /\ pc' # "solve" /\ pc' \notin {"post", "stepping"}
  BY <1>2 DEF Between, Within
<1>6. AcceptedBetween'
  BY <1>1 DEF AcceptInv, AcceptedBetween, Now
<1>7. QED
  BY <1>4, <1>5, <1>6 DEF AcceptInv, KeptWithin, SolvedSoFar, SolvedIfAllMet

(* Accepted, the step's solutions become the previous ones; rejected, the  *)
(* previous ones and their time come back.                                 *)
LEMMA DecisionKeepsAccepted ==
  ASSUME BeginTogether, TypeInv, ClockInv, AcceptInv, pc \in {"first", "stepping"},
         NEW next \in [Proc -> NextResult], DecideOnStep(next)
  PROVE  AcceptInv'
<1>0. /\ t \in Int /\ prevDt \in Int /\ StartTime \in Int /\ EndTime \in Int
      /\ solution \in [Proc -> Solution] /\ previous \in [Proc -> Solution]
  BY StartTimeIsBegin, EndTimeIsGreatest, StartBeforeEnd DEF TypeInv, TypeOK
<1> DEFINE accept == AcceptsStep(next)
           reject == ~accept /\ t <= EndTime
<1>1. /\ previous' = PushedStates(accept) /\ solution' = PoppedStates(reject)
      /\ t' = IF reject /\ ~InitialStep THEN t - prevDt ELSE t
      /\ written' = written /\ prevDt' = prevDt
      /\ pc' \in Between \cup {"fatal"}
  BY DEF DecideOnStep, outputVars, Between
<1>2. accept => \A p \in Proc : status[p].met
  BY DEF AcceptsStep
<1>3. ~accept => reject
  BY DEF ClockInv, ClockWithinRun
<1> HIDE DEF accept, reject
<1>4. FilesHoldAcceptedSolutions'
  BY <1>1 DEF AcceptInv, FilesHoldAcceptedSolutions
<1>5. ASSUME NEW p \in Proc
      PROVE  solution'[p] = Now' /\ previous'[p] = Now'
  <2>1. CASE pc = "first"
    <3>1. t = StartTime /\ solution[p] = Now /\ previous[p] = Now
      BY <1>5, <2>1 DEF ClockInv, AcceptInv, AcceptedBetween, Between
    <3>2. InitialStep /\ t = Config[p].begin
      BY <1>5, <3>1, StartTimeIsBegin DEF InitialStep, BeginTogether
    <3>3. t' = t /\ Now' = Now
      BY <1>1, <3>2 DEF Now
    <3>4. QED BY <1>1, <1>5, <3>1, <3>2, <3>3 DEF PushedStates, PoppedStates
  <2>2. CASE pc = "stepping"
    <3>1. StartTime <= t - prevDt /\ prevDt > 0
      BY <2>2 DEF ClockInv, ClockWithinRun
    <3>2. t # Config[p].begin /\ ~InitialStep
      BY <1>0, <1>5, <3>1 DEF BeginTogether, InitialStep
    <3>3. previous[p] = Before
      BY <1>5, <2>2 DEF AcceptInv, KeptWithin, Within
    <3>4. CASE accept
      <4>1. solution[p] = Now
        BY <1>2, <1>5, <2>2, <3>4 DEF AcceptInv, SolvedIfAllMet
      <4>2. ~reject
        BY <3>4 DEF reject
      <4>3. t' = t /\ Now' = Now
        BY <1>1, <4>2 DEF Now
      <4>4. QED
        BY <1>1, <1>5, <3>2, <3>4, <4>1, <4>2, <4>3 DEF PushedStates, PoppedStates
    <3>5. CASE ~accept
      <4>1. reject
        BY <1>3, <3>5
      <4>2. Now' = Before
        BY <1>1, <3>2, <4>1 DEF Now, Before
      <4>3. QED
        BY <1>1, <1>5, <3>2, <3>3, <3>5, <4>1, <4>2 DEF PushedStates, PoppedStates
    <3>6. QED BY <3>4, <3>5
  <2>3. QED BY <2>1, <2>2
<1>6. pc' \notin Within /\ pc' # "solve" /\ pc' \notin {"post", "stepping"}
  BY <1>1 DEF Between, Within
<1>7. QED
  BY <1>4, <1>5, <1>6
  DEF AcceptInv, AcceptedBetween, KeptWithin, SolvedSoFar, SolvedIfAllMet

LEMMA BeginKeepsAccepted ==
  ASSUME SolvesEachStep, TypeInv, AcceptInv, BeginTimestep
  PROVE  AcceptInv'
<1>1. /\ pc = "loop" /\ pc' = "solve" /\ proc' = 1 /\ coupling' = 0
      /\ t' = t + dt /\ prevDt' = dt
      /\ UNCHANGED <<solution, previous, status, written>>
  BY CouplingAssumption DEF BeginTimestep, SolvesEachStep, stateVars, outputVars
<1>2. Before' = Now
  BY <1>1 DEF TypeInv, TypeOK, Before, Now
<1>3. KeptWithin'
  BY <1>1, <1>2 DEF AcceptInv, AcceptedBetween, KeptWithin, Between
<1>4. SolvedSoFar'
  BY <1>1 DEF SolvedSoFar, Proc
<1>5. QED
  BY <1>1, <1>3, <1>4
  DEF AcceptInv, AcceptedBetween, SolvedIfAllMet, FilesHoldAcceptedSolutions, Between

LEMMA ConvergedKeepsAccepted == TypeInv /\ AcceptInv /\ SolveConverged => AcceptInv'
<1> SUFFICES ASSUME TypeInv, AcceptInv, SolveConverged PROVE AcceptInv'
  OBVIOUS
<1>1. /\ proc \in Proc /\ coupling \in Nat /\ NumProcesses \in Nat
      /\ solution \in [Proc -> Solution] /\ status \in [Proc -> Status]
  BY ConfigFacts DEF TypeInv, TypeOK
<1>2. /\ pc = "solve" /\ UNCHANGED <<t, prevDt, previous, written>>
      /\ solution' = [solution EXCEPT ![proc] = Now]
  BY DEF SolveConverged, clockVars, stateVars, outputVars, Now
<1>3. status' = [status EXCEPT ![proc] = lastStatus'] /\ lastStatus'.met
  BY DEF SolveConverged, RecordedStatus
<1>4. Now' = Now /\ Before' = Before
  BY <1>2 DEF Now, Before
<1>5. \A p \in Proc : p <= proc \/ coupling > 0 => status'[p].met /\ solution'[p] = Now
  BY <1>1, <1>2, <1>3 DEF AcceptInv, SolvedSoFar, Proc
<1>6. \/ ~LastProcess(proc) /\ proc' = proc + 1 /\ pc' = "solve" /\ coupling' = coupling
      \/ LastProcess(proc) /\ pc' = "post"
      \/ LastProcess(proc) /\ pc' = "solve"
  BY <1>2 DEF SolveConverged
<1>7. LastProcess(proc) => \A p \in Proc : status'[p].met /\ solution'[p] = Now
  BY <1>1, <1>5 DEF LastProcess, Proc
<1>8. SolvedSoFar' /\ SolvedIfAllMet'
  <2>1. CASE ~LastProcess(proc)
    <3>1. \A p \in Proc : p < proc' => p <= proc
      BY <1>1, <1>6, <2>1 DEF Proc
    <3>2. QED BY <1>4, <1>5, <1>6, <2>1, <3>1 DEF SolvedSoFar, SolvedIfAllMet
  <2>2. CASE LastProcess(proc)
    BY <1>4, <1>7, <2>2 DEF SolvedSoFar, SolvedIfAllMet
  <2>3. QED BY <2>1, <2>2
<1>9. AcceptedBetween' /\ KeptWithin' /\ FilesHoldAcceptedSolutions'
  BY <1>2, <1>4, <1>6
  DEF AcceptInv, AcceptedBetween, KeptWithin, FilesHoldAcceptedSolutions, Between, Within
<1>10. QED BY <1>8, <1>9 DEF AcceptInv

LEMMA DivergedKeepsAccepted == TypeInv /\ AcceptInv /\ SolveDiverged => AcceptInv'
<1> SUFFICES ASSUME TypeInv, AcceptInv, SolveDiverged PROVE AcceptInv'
  OBVIOUS
<1>1. /\ proc \in Proc /\ status \in [Proc -> Status] /\ written \in Seq(File)
      /\ solution \in [Proc -> Solution] /\ t \in Int /\ timestep \in Nat
  BY DEF TypeInv, TypeOK
<1>2. /\ pc = "solve" /\ pc' \in {"post", "stepping", "fatal"}
      /\ UNCHANGED <<t, prevDt, previous>>
      /\ solution' = [solution EXCEPT ![proc] = [time |-> t, ok |-> FALSE]]
  BY DEF SolveDiverged, AfterFailure, clockVars, stateVars
<1>3. ~status'[proc].met
  BY <1>1 DEF SolveDiverged, RecordedStatus
<1>4. FilesHoldAcceptedSolutions'
  <2> DEFINE file == [step |-> timestep, time |-> t, from |-> solution'[proc],
                      kind |-> "always"]
  <2>1. [time |-> t, ok |-> FALSE] \in Solution
    BY <1>1 DEF Solution
  <2>2. solution'[proc] \in Solution
    BY <1>1, <1>2, <2>1
  <2>3. file \in File
    BY <1>1, <2>2 DEF File
  <2>4. written' = written \/ written' = Append(written, file)
    BY DEF SolveDiverged
  <2>5. CASE written' = written
    BY <2>5 DEF AcceptInv, FilesHoldAcceptedSolutions
  <2>6. CASE written' = Append(written, file)
    <3>1. file.kind = "always"
      OBVIOUS
    <3> HIDE DEF file
    <3>2. QED BY <1>1, <2>3, <2>6, <3>1, AppendedFile DEF AcceptInv
  <2>7. QED BY <2>4, <2>5, <2>6
<1>5. KeptWithin'
  BY <1>2 DEF AcceptInv, KeptWithin, Before, Within
<1>6. AcceptedBetween' /\ SolvedSoFar' /\ SolvedIfAllMet'
  BY <1>1, <1>2, <1>3 DEF AcceptedBetween, SolvedSoFar, SolvedIfAllMet, Between
<1>7. QED BY <1>4, <1>5, <1>6 DEF AcceptInv

LEMMA NextAcceptInv ==
  ASSUME BeginTogether, SolvesEachStep
  PROVE  TypeInv /\ ClockInv /\ AcceptInv /\ [Next]_vars => AcceptInv'
<1> SUFFICES ASSUME TypeInv, ClockInv, AcceptInv, [Next]_vars PROVE AcceptInv'
  OBVIOUS
<1>1. CASE OutputSolution
  BY <1>1, OutputKeepsAccepted
<1>2. CASE ComputeTimeStepping
  <2>1. pc \in {"first", "stepping"}
    BY <1>2 DEF ComputeTimeStepping
  <2>2. PICK next \in [Proc -> NextResult] : DecideOnStep(next)
    BY <1>2, NextIsWellFormed
  <2>3. QED BY <2>1, <2>2, DecisionKeepsAccepted
<1>3. CASE BeginTimestep
  BY <1>3, BeginKeepsAccepted
<1>4. CASE SolveConverged
  BY <1>4, ConvergedKeepsAccepted
<1>5. CASE SolveDiverged
  BY <1>5, DivergedKeepsAccepted
<1>6. CASE PostTimestep
  BY <1>6
  DEF PostTimestep, clockVars, solverVars, outputVars, AcceptInv, AcceptedBetween,
      KeptWithin, SolvedSoFar, SolvedIfAllMet, FilesHoldAcceptedSolutions, Now, Before,
      Between, Within
<1>7. CASE CheckEnd
  <2>1. /\ pc = "check" /\ pc' \in {"outputLast", "done", "loop"}
        /\ UNCHANGED <<t, solution, previous, written>>
    BY <1>7 DEF CheckEnd, clockVars, solverVars, stateVars, outputVars
  <2>2. QED
    BY <2>1
    DEF AcceptInv, AcceptedBetween, KeptWithin, SolvedSoFar, SolvedIfAllMet,
        FilesHoldAcceptedSolutions, Now, Between, Within
<1>8. CASE UNCHANGED vars
  BY <1>8
  DEF vars, clockVars, solverVars, stateVars, positionVars, outputVars, AcceptInv,
      AcceptedBetween, KeptWithin, SolvedSoFar, SolvedIfAllMet,
      FilesHoldAcceptedSolutions, Now, Before
<1>9. QED BY <1>1, <1>2, <1>3, <1>4, <1>5, <1>6, <1>7, <1>8 DEF Next, Terminated

(* However steps fail and are rolled back, a step always starts from a     *)
(* converged solution of the loop's time, in _process_solutions and in the *)
(* time discretization alike.                                              *)
THEOREM StepsStartFromAcceptedStates ==
  ASSUME BeginTogether, SolvesEachStep
  PROVE  Spec => []StepStartsFromAcceptedState
<1>1. AcceptInv => StepStartsFromAcceptedState
  BY DEF AcceptInv, AcceptedBetween, Between, Now, StepStartsFromAcceptedState
<1>2. TypeInv /\ ClockInv /\ AcceptInv /\ [Next]_vars => AcceptInv'
  BY NextAcceptInv
<1>3. QED
  BY <1>1, <1>2, InitTypeInv, NextTypeInv, InitClockInv, NextClockInv, InitAcceptInv, PTL
  DEF Spec

(* No rolled back or unconverged solution is ever written as a result,     *)
(* except by the output that precedes an abort.                            *)
THEOREM FilesHoldAccepted ==
  ASSUME BeginTogether, SolvesEachStep
  PROVE  Spec => []FilesHoldAcceptedSolutions
<1>1. AcceptInv => FilesHoldAcceptedSolutions
  BY DEF AcceptInv
<1>2. TypeInv /\ ClockInv /\ AcceptInv /\ [Next]_vars => AcceptInv'
  BY NextAcceptInv
<1>3. QED
  BY <1>1, <1>2, InitTypeInv, NextTypeInv, InitClockInv, NextClockInv, InitAcceptInv, PTL
  DEF Spec

=============================================================================
