---------------------- MODULE TimeLoopSuccess_proofs ----------------------
(***************************************************************************)
(* How the time loop ends, which steps it rejects on the way, and that it  *)
(* implements the abstract march through time.  That success means the end *)
(* time needs processes that end together: at the end of a process that    *)
(* ends before the others no step size is asked of its stepper.            *)
(***************************************************************************)
EXTENDS TimeLoopRefinement, TimeLoop_proofs

EndTogether == \A p \in Proc : Config[p].end = EndTime

(* In the first round of a step the processes before proc have converged,  *)
(* in a later round all of them.                                           *)
RoundsConverge ==
  pc = "solve" => \A p \in Proc : p < proc \/ coupling > 0 => status[p].met

(* The status loop() keeps is the last process's: it speaks for all.       *)
LastSpeaksForAll ==
  pc \in {"post", "stepping"} /\ lastStatus.met => \A p \in Proc : status[p].met

RoundInv == RoundsConverge /\ LastSpeaksForAll

LEMMA InitRoundInv == Init => RoundInv
BY DEF Init, RoundInv, RoundsConverge, LastSpeaksForAll

LEMMA ConvergedKeepsRounds == TypeInv /\ RoundInv /\ SolveConverged => RoundInv'
<1> SUFFICES ASSUME TypeInv, RoundInv, SolveConverged PROVE RoundInv'
  OBVIOUS
<1>1. /\ proc \in Proc /\ coupling \in Nat /\ NumProcesses \in Nat
      /\ status \in [Proc -> Status]
  BY ConfigFacts DEF TypeInv, TypeOK
<1>2. /\ pc = "solve" /\ pc' \in {"solve", "post"}
      /\ status' = [status EXCEPT ![proc] = lastStatus'] /\ lastStatus'.met
  BY DEF SolveConverged, RecordedStatus
<1>3. \A p \in Proc : p <= proc \/ coupling > 0 => status'[p].met
  BY <1>1, <1>2 DEF RoundInv, RoundsConverge, Proc
<1>4. \/ ~LastProcess(proc) /\ proc' = proc + 1 /\ pc' = "solve" /\ coupling' = coupling
      \/ LastProcess(proc)
  BY <1>2 DEF SolveConverged
<1>5. LastProcess(proc) => \A p \in Proc : status'[p].met
  BY <1>1, <1>3 DEF LastProcess, Proc
<1>6. CASE LastProcess(proc)
  BY <1>5, <1>6 DEF RoundInv, RoundsConverge, LastSpeaksForAll
<1>7. CASE ~LastProcess(proc)
  <2>1. \A p \in Proc : p < proc' => p <= proc
    BY <1>1, <1>4, <1>7 DEF Proc
  <2>2. QED BY <1>3, <1>4, <1>7, <2>1 DEF RoundInv, RoundsConverge, LastSpeaksForAll
<1>8. QED BY <1>6, <1>7

LEMMA NextRoundInv == TypeInv /\ RoundInv /\ [Next]_vars => RoundInv'
<1> SUFFICES ASSUME TypeInv, RoundInv, [Next]_vars PROVE RoundInv'
  OBVIOUS
<1>1. CASE OutputSolution \/ CheckEnd \/ ComputeTimeStepping
  <2>1. ComputeTimeStepping => pc' \in {"fatal", "loop", "check", "output"}
    BY NextIsWellFormed DEF DecideOnStep
  <2>2. pc' \notin {"solve", "post", "stepping"}
    BY <1>1, <2>1 DEF OutputSolution, CheckEnd
  <2>3. QED BY <2>2 DEF RoundInv, RoundsConverge, LastSpeaksForAll
<1>2. CASE BeginTimestep
  <2>1. \/ pc' = "solve" /\ proc' = 1 /\ coupling' = 0
        \/ pc' = "post" /\ ~lastStatus'.met
    BY <1>2 DEF BeginTimestep
  <2>2. QED BY <2>1 DEF RoundInv, RoundsConverge, LastSpeaksForAll, Proc
<1>3. CASE SolveConverged
  BY <1>3, ConvergedKeepsRounds
<1>4. CASE SolveDiverged
  <2>1. pc' \in {"post", "stepping", "fatal"} /\ ~lastStatus'.met
    BY <1>4 DEF SolveDiverged, AfterFailure
  <2>2. QED BY <2>1 DEF RoundInv, RoundsConverge, LastSpeaksForAll
<1>5. CASE PostTimestep
  <2>1. pc = "post" /\ pc' = "stepping" /\ UNCHANGED <<status, lastStatus>>
    BY <1>5 DEF PostTimestep, solverVars
  <2>2. QED BY <2>1 DEF RoundInv, RoundsConverge, LastSpeaksForAll
<1>6. CASE UNCHANGED vars
  BY <1>6
  DEF vars, solverVars, positionVars, RoundInv, RoundsConverge, LastSpeaksForAll
<1>7. QED BY <1>1, <1>2, <1>3, <1>4, <1>5, <1>6 DEF Next, Terminated

-----------------------------------------------------------------------------
(* The end of the loop *)

(* After a step whose solves have converged there is a next step to take,  *)
(* unless the end has been reached.                                        *)
EndOrGoOn ==
  pc \in {"output", "check"} /\ lastStatus.met =>
    t = EndTime \/ (0 < dt /\ t + dt <= EndTime)

EndInv ==
  /\ EndOrGoOn
  /\ pc = "outputLast" => lastStatus.met /\ t = EndTime
  /\ SuccessMeansEndReached

LEMMA InitEndInv == Init => EndInv
BY DEF Init, EndInv, EndOrGoOn, SuccessMeansEndReached

LEMMA DecisionKeepsEnd ==
  ASSUME EndTogether, TypeInv, ClockInv, RoundInv, EndInv, pc \in {"first", "stepping"},
         NEW next \in [Proc -> NextResult], DecideOnStep(next)
  PROVE  EndInv'
<1> DEFINE accept == AcceptsStep(next)
           reject == ~accept /\ t <= EndTime
           least  == LeastSize(next)
<1>0. /\ t \in Int /\ prevDt \in Int /\ EndTime \in Nat /\ least \in Int
      /\ t <= EndTime /\ (pc = "stepping" => prevDt > 0)
  BY EndTimeIsGreatest, LeastSizeChosen DEF TypeInv, TypeOK, ClockInv, ClockWithinRun
<1>1. /\ t' = IF reject /\ ~InitialStep THEN t - prevDt ELSE t
      /\ dt' = CappedSize(t', least) /\ lastStatus' = lastStatus
      /\ pc' \in {"fatal", "loop", "check", "output"}
  BY DEF DecideOnStep
<1>2. pc = "first" => t' = t
  <2>1. pc = "first" => InitialStep
    BY StartTimeIsBegin DEF ClockInv, InitialStep
  <2>2. QED BY <1>1, <2>1
<1>3. pc = "first" => pc' \notin {"check", "output"}
  <2>1. pc = "first" => pc' \in {"fatal", "loop"}
    BY DEF DecideOnStep
  <2>2. QED BY <2>1
<1>4. ASSUME pc = "stepping", lastStatus.met
      PROVE  t' = EndTime \/ (0 < dt' /\ t' + dt' <= EndTime)
  <2>1. CASE t = EndTime
    <3>1. accept
      <4>1. \A p \in Proc : status[p].met /\ t >= Config[p].end
        BY <1>0, <1>4, <2>1 DEF RoundInv, LastSpeaksForAll, EndTogether
      <4>2. QED BY <4>1 DEF AcceptsStep
    <3>2. t' = t
      BY <1>1, <3>1
    <3>3. QED BY <2>1, <3>2
  <2>2. CASE t # EndTime
    <3>1. least > 0
      <4>1. \A p \in Proc : t # Config[p].end
        BY <2>2 DEF EndTogether
      <4>2. QED BY <4>1, LeastSizeChosen
    <3>2. t' \in Int /\ t' < EndTime
      BY <1>0, <1>1, <1>4, <2>2
    <3> HIDE DEF least
    <3>3. QED BY <1>0, <1>1, <3>1, <3>2 DEF CappedSize
  <2>3. QED BY <2>1, <2>2
<1>5. EndOrGoOn'
  BY <1>1, <1>3, <1>4 DEF EndOrGoOn
<1>6. QED
  BY <1>1, <1>5 DEF EndInv, SuccessMeansEndReached

LEMMA NextEndInv ==
  ASSUME EndTogether
  PROVE  TypeInv /\ ClockInv /\ RoundInv /\ EndInv /\ [Next]_vars => EndInv'
<1> SUFFICES ASSUME TypeInv, ClockInv, RoundInv, EndInv, [Next]_vars PROVE EndInv'
  OBVIOUS
<1>0. t \in Int /\ dt \in Int /\ t <= EndTime /\ EndTime \in Nat
  BY EndTimeIsGreatest DEF TypeInv, TypeOK, ClockInv, ClockWithinRun
<1>1. CASE OutputSolution
  <2>1. /\ UNCHANGED <<t, dt, lastStatus>>
        /\ \/ pc' = pc /\ pc \in {"outputInitial", "output", "outputLast"}
           \/ pc = "outputInitial" /\ pc' = "first"
           \/ pc = "output" /\ pc' = "check"
           \/ pc = "outputLast" /\ pc' = "done"
    BY <1>1 DEF OutputSolution, clockVars, solverVars
  <2>2. QED BY <2>1 DEF EndInv, EndOrGoOn, SuccessMeansEndReached
<1>2. CASE ComputeTimeStepping
  <2>1. pc \in {"first", "stepping"}
    BY <1>2 DEF ComputeTimeStepping
  <2>2. PICK next \in [Proc -> NextResult] : DecideOnStep(next)
    BY <1>2, NextIsWellFormed
  <2>3. QED BY <2>1, <2>2, DecisionKeepsEnd
<1>3. CASE BeginTimestep
  <2>1. \/ pc' = "solve" /\ proc' = 1 /\ coupling' = 0
        \/ pc' = "post" /\ ~lastStatus'.met
    BY <1>3 DEF BeginTimestep
  <2>2. QED BY <2>1 DEF EndInv, EndOrGoOn, SuccessMeansEndReached
<1>4. CASE SolveConverged
  <2>1. pc' \in {"solve", "post"}
    BY <1>4 DEF SolveConverged
  <2>2. QED BY <2>1 DEF EndInv, EndOrGoOn, SuccessMeansEndReached
<1>5. CASE SolveDiverged
  <2>1. pc' \in {"post", "stepping", "fatal"} /\ ~lastStatus'.met
    BY <1>5 DEF SolveDiverged, AfterFailure
  <2>2. QED BY <2>1 DEF EndInv, EndOrGoOn, SuccessMeansEndReached
<1>6. CASE PostTimestep
  <2>1. /\ pc = "post" /\ pc' = "stepping" /\ UNCHANGED <<status, lastStatus>>
    BY <1>6 DEF PostTimestep, solverVars
  <2>2. QED BY <2>1 DEF EndInv, EndOrGoOn, SuccessMeansEndReached
<1>7. CASE CheckEnd
  <2>1. /\ pc = "check" /\ UNCHANGED <<t, dt, lastStatus>>
        /\ pc' = IF LoopEnds THEN IF lastStatus.met THEN "outputLast" ELSE "done"
                 ELSE "loop"
    BY <1>7 DEF CheckEnd, clockVars, solverVars
  <2>2. LoopEnds /\ lastStatus.met => t = EndTime
    BY <1>0, <2>1 DEF EndInv, EndOrGoOn, LoopEnds
  <2>3. QED BY <2>1, <2>2 DEF EndInv, EndOrGoOn, SuccessMeansEndReached
<1>8. CASE UNCHANGED vars
  BY <1>8
  DEF vars, clockVars, solverVars, EndInv, EndOrGoOn, SuccessMeansEndReached
<1>9. QED BY <1>1, <1>2, <1>3, <1>4, <1>5, <1>6, <1>7, <1>8 DEF Next, Terminated

(* loop() returns true only when the end time has been reached: a solve    *)
(* that converged at the end is accepted there, and before the end the     *)
(* next step has a positive size that does not pass it.                    *)
THEOREM SuccessAtEnd ==
  ASSUME EndTogether PROVE Spec => []SuccessMeansEndReached
<1>1. EndInv => SuccessMeansEndReached
  BY DEF EndInv
<1>2. TypeInv /\ ClockInv /\ RoundInv /\ EndInv /\ [Next]_vars => EndInv'
  BY NextEndInv
<1>3. QED
  BY <1>1, <1>2, InitTypeInv, NextTypeInv, InitClockInv, NextClockInv, InitRoundInv,
     NextRoundInv, InitEndInv, PTL
  DEF Spec

-----------------------------------------------------------------------------
(* Rejected steps *)

NoFixedSteps == \A p \in Proc : Config[p].kind # "FixedTimeStepping"

(* Whether next() agrees to go on: FixedTimeStepping does not when its     *)
(* table of sizes is exhausted, the PID controller when the error is above *)
(* the tolerance.  Agreeing after a converged solve, every stepper moves   *)
(* on from the step it has proposed last.                                  *)
LEMMA NextOutcome ==
  ASSUME NEW c \in StepperConfig, ValidConfig(c), NEW s \in Stepper, NEW met \in BOOLEAN,
         NEW err \in Errors, NEW iterations \in Int,
         NEW r \in NextResults(c, SetAcceptedOrNot(c, s, met), err, iterations)
  PROVE  /\ r.more /\ met => r.stepper.prev = s.cur
         /\ c.kind # "FixedTimeStepping" => r.more \/ err = "above"
         /\ s.cur = TimeStepAt(c.begin) /\ err = "zero" => r.more
<1> DEFINE told == SetAcceptedOrNot(c, s, met)
<1>1. told \in Stepper /\ told.cur = s.cur /\ told.prev = s.prev
  BY DEF SetAcceptedOrNot, Stepper
<1>2. c.kind # "FixedTimeStepping" => told.accepted = met
  BY DEF SetAcceptedOrNot, Stepper
<1>3. c.kind \in Kinds
  BY DEF StepperConfig
<1> HIDE DEF told
<1>4. CASE c.kind = "FixedTimeStepping"
  <2>1. r = FixedNext(c, told)
    BY <1>4 DEF NextResults, told
  <2>2. r.more => r.stepper.prev = told.cur
    BY <1>1, <2>1 DEF FixedNext, Stepper
  <2>3. told.cur = TimeStepAt(c.begin) => r.more
    <3>1. c.dts # <<>> /\ c.dts \in Seq(Nat) /\ c.begin < c.end
          /\ c.begin \in Nat /\ c.end \in Nat
      BY <1>4 DEF ValidConfig, StepperConfig
    <3>2. Len(c.dts) # 0 /\ c.begin # c.end
      BY <3>1, EmptySeq
    <3>3. QED BY <2>1, <3>2 DEF FixedNext, TimeStepAt
  <2>4. QED BY <1>1, <1>4, <2>2, <2>3
<1>5. CASE c.kind = "IterationNumberBased"
  <2>1. r = IterationNext(c, told, iterations)
    BY <1>5 DEF NextResults, told
  <2>2. r.more
    BY <2>1 DEF IterationNext
  <2>3. met => r.stepper.prev = told.cur
    BY <1>1, <1>2, <1>5, <2>1 DEF IterationNext, Stepper
  <2>4. QED BY <1>1, <2>2, <2>3
<1>6. CASE c.kind = "EvolutionaryPID"
  <2>1. PICK h \in PIDSizes(c, told, err) : r = PIDNext(c, told, err, h)
    BY <1>6 DEF NextResults, told
  <2>2. r.more <=> err # "above"
    BY <2>1 DEF PIDNext
  <2>3. err # "above" => r.stepper.prev = told.cur
    BY <1>1, <2>1 DEF PIDNext, Stepper
  <2>4. QED BY <1>1, <2>2, <2>3
<1>7. QED BY <1>3, <1>4, <1>5, <1>6 DEF Kinds

(* The same for all the processes in computeTimeStepping.                  *)
LEMMA ComputedNext ==
  ASSUME TypeInv, ComputeTimeStepping
  PROVE  \E next \in [Proc -> NextResult] :
           /\ DecideOnStep(next)
           /\ \A p \in Proc :
                /\ next[p].more /\ status[p].met => next[p].stepper.prev = stepper[p].cur
                /\ NoFixedSteps => next[p].more \/ rejected < MaxRejected
                /\ t = Config[p].begin /\ stepper[p].cur = TimeStepAt(t) => next[p].more
<1>1. PICK err \in [Proc -> Errors], next \in [Proc -> NextResult] :
        /\ DecideOnStep(next)
        /\ \A p \in Proc :
             /\ err[p] \in PossibleErrors(Config[p], t)
             /\ err[p] = "above" => rejected < MaxRejected
             /\ next[p] \in NextResults(Config[p],
                              SetAcceptedOrNot(Config[p], stepper[p], status[p].met),
                              err[p], status[p].iterations)
  BY NextOfEach
<1>2. ASSUME NEW p \in Proc
      PROVE  /\ next[p].more /\ status[p].met => next[p].stepper.prev = stepper[p].cur
             /\ NoFixedSteps => next[p].more \/ rejected < MaxRejected
             /\ t = Config[p].begin /\ stepper[p].cur = TimeStepAt(t) => next[p].more
  <2>1. /\ Config[p] \in StepperConfig /\ ValidConfig(Config[p]) /\ stepper[p] \in Stepper
        /\ status[p].met \in BOOLEAN /\ status[p].iterations \in Int
        /\ err[p] \in Errors
    BY ConfigFacts DEF TypeInv, TypeOK, Status
  <2>2. /\ next[p].more /\ status[p].met => next[p].stepper.prev = stepper[p].cur
        /\ Config[p].kind # "FixedTimeStepping" => next[p].more \/ err[p] = "above"
        /\ stepper[p].cur = TimeStepAt(Config[p].begin) /\ err[p] = "zero" => next[p].more
    BY <1>1, <2>1, NextOutcome
  <2>3. t = Config[p].begin => err[p] = "zero"
    BY <1>1 DEF PossibleErrors
  <2>4. QED BY <1>1, <2>2, <2>3 DEF NoFixedSteps
<1>3. QED BY <1>1, <1>2

(* Each of the bounded number of failures rejects one step at most.        *)
FailureWithinBound ==
  pc \in {"post", "stepping"} =>
    rejected < MaxRejected \/ \A p \in Proc : status[p].met

RejectInv == OnlyFailuresReject /\ FailureWithinBound

LEMMA InitRejectInv == Init => RejectInv
BY SolverAssumption DEF Init, RejectInv, OnlyFailuresReject, FailureWithinBound

LEMMA NextRejectInv ==
  ASSUME NoFixedSteps, SolvesEachStep
  PROVE  TypeInv /\ ClockInv /\ RoundInv' /\ RejectInv /\ [Next]_vars => RejectInv'
<1> SUFFICES ASSUME TypeInv, ClockInv, RoundInv', RejectInv, [Next]_vars
             PROVE  RejectInv'
  OBVIOUS
<1>0. rejected \in Nat /\ MaxRejected \in Nat
  BY SolverAssumption DEF TypeInv, TypeOK
<1>1. CASE ComputeTimeStepping
  <2>1. PICK next \in [Proc -> NextResult] :
          /\ DecideOnStep(next)
          /\ \A p \in Proc : next[p].more \/ rejected < MaxRejected
    BY <1>1, ComputedNext
  <2>2. pc' \notin {"post", "stepping"}
    BY <2>1 DEF DecideOnStep
  <2>3. rejected' = rejected \/ (rejected' = rejected + 1 /\ ~AcceptsStep(next) /\ ~InitialStep)
    BY <2>1 DEF DecideOnStep
  <2>4. ~AcceptsStep(next) /\ ~InitialStep => rejected < MaxRejected
    <3>1. pc = "first" => InitialStep
      BY StartTimeIsBegin DEF ClockInv, InitialStep
    <3>2. pc \in {"first", "stepping"}
      BY <1>1 DEF ComputeTimeStepping
    <3>3. QED BY <2>1, <3>1, <3>2 DEF AcceptsStep, RejectInv, FailureWithinBound
  <2>5. QED
    BY <1>0, <2>2, <2>3, <2>4 DEF RejectInv, OnlyFailuresReject, FailureWithinBound
<1>2. CASE BeginTimestep
  <2>1. pc' = "solve" /\ rejected' = rejected
    BY <1>2, CouplingAssumption DEF BeginTimestep, SolvesEachStep
  <2>2. QED BY <2>1 DEF RejectInv, OnlyFailuresReject, FailureWithinBound
<1>3. CASE SolveConverged
  <2>1. /\ pc' \in {"solve", "post"} /\ lastStatus'.met /\ rejected' = rejected
    BY <1>3 DEF SolveConverged, countVars
  <2>2. QED
    BY <2>1
    DEF RejectInv, OnlyFailuresReject, FailureWithinBound, RoundInv, LastSpeaksForAll
<1>4. CASE SolveDiverged
  <2>1. rejected < MaxRejected /\ rejected' = rejected
    BY <1>4 DEF SolveDiverged, countVars
  <2>2. QED BY <2>1 DEF RejectInv, OnlyFailuresReject, FailureWithinBound
<1>5. CASE PostTimestep
  <2>1. pc = "post" /\ UNCHANGED <<status, rejected>>
    BY <1>5 DEF PostTimestep, solverVars, countVars
  <2>2. QED BY <2>1 DEF RejectInv, OnlyFailuresReject, FailureWithinBound
<1>6. CASE OutputSolution \/ CheckEnd
  <2>1. pc' \notin {"post", "stepping"} /\ rejected' = rejected
    BY <1>6 DEF OutputSolution, CheckEnd, countVars
  <2>2. QED BY <2>1 DEF RejectInv, OnlyFailuresReject, FailureWithinBound
<1>7. CASE UNCHANGED vars
  BY <1>7
  DEF vars, solverVars, countVars, RejectInv, OnlyFailuresReject, FailureWithinBound
<1>8. QED BY <1>1, <1>2, <1>3, <1>4, <1>5, <1>6, <1>7 DEF Next, Terminated

(* Without a FixedTimeStepping, whose table of sizes may be exhausted, no  *)
(* step is rejected but for a failed solve or for an error above the       *)
(* tolerance: their number bounds that of the rejected steps.              *)
THEOREM RejectedByFailures ==
  ASSUME NoFixedSteps, SolvesEachStep PROVE Spec => []OnlyFailuresReject
<1>1. RejectInv => OnlyFailuresReject
  BY DEF RejectInv
<1>2. TypeInv /\ ClockInv /\ RoundInv' /\ RejectInv /\ [Next]_vars => RejectInv'
  BY NextRejectInv
<1>3. QED
  BY <1>1, <1>2, InitTypeInv, NextTypeInv, InitClockInv, NextClockInv, InitRoundInv,
     NextRoundInv, InitRejectInv, PTL
  DEF Spec

-----------------------------------------------------------------------------
(* The steppers' own clocks *)

(* The step a stepper has proposed ends where the loop's next step does,   *)
(* unless the loop has shortened that step to end at the end time.         *)
ProposalAgrees(p) == stepper[p].cur.current = t + dt \/ t + dt = EndTime

FollowInv ==
  rejected = 0 =>
    \A p \in Proc :
      /\ pc \in {"outputInitial", "first"} =>
           status[p].met /\ stepper[p].cur = TimeStepAt(t)
      /\ pc \in {"loop", "output", "check"} =>
           t = EndTime \/ (stepper[p].prev.current = t /\ ProposalAgrees(p))
      /\ pc \in Within => t = EndTime \/ stepper[p].cur.current = t

LEMMA InitFollowInv == BeginTogether /\ Init => FollowInv
<1> SUFFICES ASSUME BeginTogether, Init PROVE FollowInv
  OBVIOUS
<1>1. pc = "outputInitial" /\ t = StartTime /\ \A p \in Proc : status[p].met
  BY DEF Init
<1>2. ASSUME NEW p \in Proc PROVE stepper[p].cur = TimeStepAt(t)
  <2>1. stepper[p] = AddFixedOutputTimes(Config[p], NewStepper(Config[p]), OutputTimes)
    BY <1>2 DEF Init
  <2>2. stepper[p].cur = TimeStepAt(Config[p].begin)
    BY <2>1 DEF AddFixedOutputTimes, NewStepper
  <2>3. QED BY <1>1, <1>2, <2>2 DEF BeginTogether
<1>3. QED BY <1>1, <1>2 DEF FollowInv, Within

LEMMA DecisionFollows ==
  ASSUME BeginTogether, EndTogether, TypeInv, ClockInv, FollowInv, ComputeTimeStepping
  PROVE  FollowInv'
<1>1. PICK next \in [Proc -> NextResult] :
        /\ DecideOnStep(next)
        /\ \A p \in Proc :
             /\ next[p].more /\ status[p].met => next[p].stepper.prev = stepper[p].cur
             /\ t = Config[p].begin /\ stepper[p].cur = TimeStepAt(t) => next[p].more
  BY ComputedNext
<1> DEFINE accept == AcceptsStep(next)
           reject == ~accept /\ t <= EndTime
           least  == LeastSize(next)
<1>2. /\ t \in Int /\ prevDt \in Int /\ EndTime \in Nat /\ least \in Int
      /\ rejected \in Nat /\ t <= EndTime /\ pc \in {"first", "stepping"}
  BY EndTimeIsGreatest, LeastSizeChosen
  DEF TypeInv, TypeOK, ClockInv, ClockWithinRun, ComputeTimeStepping
<1>3. /\ t' = IF reject /\ ~InitialStep THEN t - prevDt ELSE t
      /\ rejected' = IF reject /\ ~InitialStep THEN rejected + 1 ELSE rejected
      /\ dt' = CappedSize(t', least)
      /\ stepper' = [p \in Proc |-> ResetCurrentTimeStep(next[p].stepper, least)]
      /\ pc' \notin Within /\ pc' \notin {"outputInitial", "first"}
  BY <1>1 DEF DecideOnStep, Within
<1> SUFFICES ASSUME rejected' = 0, t' # EndTime, NEW p \in Proc
             PROVE  stepper'[p].prev.current = t' /\ ProposalAgrees(p)'
  BY <1>3 DEF FollowInv
<1>4. t' = t /\ rejected = 0
  BY <1>2, <1>3
<1>5. next[p].more /\ status[p].met /\ stepper[p].cur.current = t
  <2>1. CASE pc = "first"
    <3>1. status[p].met /\ stepper[p].cur = TimeStepAt(t)
      BY <1>4, <2>1 DEF FollowInv
    <3>2. t = Config[p].begin
      BY <2>1 DEF ClockInv, BeginTogether
    <3>3. QED BY <1>1, <3>1, <3>2 DEF TimeStepAt
  <2>2. CASE pc = "stepping"
    <3>1. ~InitialStep
      BY <1>2, <2>2, StartTimeIsBegin
      DEF ClockInv, ClockWithinRun, InitialStep, BeginTogether
    <3>2. accept
      BY <1>2, <1>3, <1>4, <3>1
    <3>3. t < Config[p].end
      BY <1>2, <1>4 DEF EndTogether
    <3>4. next[p].more /\ status[p].met
      BY <1>2, <3>2, <3>3, ConfigFacts DEF AcceptsStep
    <3>5. QED BY <1>4, <2>2, <3>4 DEF FollowInv, Within
  <2>3. QED BY <1>2, <2>1, <2>2
<1>6. next[p].stepper.prev.current = t /\ next[p].stepper \in Stepper
  BY <1>1, <1>5 DEF NextResult
<1>7. /\ stepper'[p].prev = next[p].stepper.prev
      /\ stepper'[p].cur.current = t + least
  BY <1>3, <1>6 DEF ResetCurrentTimeStep, Advanced, Stepper
<1>8. dt' = least \/ t' + dt' = EndTime
  <2> HIDE DEF least
  <2>1. QED BY <1>2, <1>3, <1>4 DEF CappedSize
<1>9. QED BY <1>4, <1>6, <1>7, <1>8 DEF ProposalAgrees

LEMMA NextFollowInv ==
  ASSUME BeginTogether, EndTogether
  PROVE  TypeInv /\ ClockInv /\ FollowInv /\ [Next]_vars => FollowInv'
<1> SUFFICES ASSUME TypeInv, ClockInv, FollowInv, [Next]_vars PROVE FollowInv'
  OBVIOUS
<1>1. CASE OutputSolution
  <2>1. /\ UNCHANGED <<t, dt, stepper, status, rejected>>
        /\ \/ pc' = pc
           \/ pc = "outputInitial" /\ pc' = "first"
           \/ pc = "output" /\ pc' = "check"
           \/ pc = "outputLast" /\ pc' = "done"
    BY <1>1 DEF OutputSolution, clockVars, solverVars, countVars
  <2>2. QED BY <2>1 DEF FollowInv, ProposalAgrees, Within
<1>2. CASE ComputeTimeStepping
  BY <1>2, DecisionFollows
<1>3. CASE BeginTimestep
  <2>1. /\ pc = "loop" /\ pc' \in {"solve", "post"} /\ t' = t + dt
        /\ UNCHANGED <<stepper, rejected>> /\ t # EndTime
    BY <1>3, EndTimeIsGreatest DEF BeginTimestep, TypeInv, TypeOK
  <2>2. QED BY <2>1 DEF FollowInv, ProposalAgrees
<1>4. CASE SolveConverged \/ SolveDiverged \/ PostTimestep
  <2>1. /\ pc \in Within /\ pc' \in Within \cup {"fatal"}
        /\ UNCHANGED <<t, stepper, rejected>>
    BY <1>4
    DEF SolveConverged, SolveDiverged, AfterFailure, PostTimestep, Within, clockVars,
        countVars
  <2>2. QED BY <2>1 DEF FollowInv, Within
<1>5. CASE CheckEnd
  <2>1. /\ pc = "check" /\ pc' \in {"loop", "outputLast", "done"}
        /\ UNCHANGED <<t, dt, stepper, rejected>>
    BY <1>5 DEF CheckEnd, clockVars, countVars
  <2>2. QED BY <2>1 DEF FollowInv, ProposalAgrees, Within
<1>6. CASE UNCHANGED vars
  BY <1>6 DEF vars, clockVars, solverVars, countVars, FollowInv, ProposalAgrees
<1>7. QED BY <1>1, <1>2, <1>3, <1>4, <1>5, <1>6 DEF Next, Terminated

(* As long as no step has been rejected, every stepper starts the next     *)
(* step from the loop's time, although the loop replaces the size it has   *)
(* proposed by the least of all of them.                                   *)
THEOREM SteppersFollowTheClock ==
  ASSUME BeginTogether, EndTogether PROVE Spec => []StepperFollowsClock
<1>1. ClockInv /\ FollowInv => StepperFollowsClock
  <2>1. ClockInv /\ pc = "loop" => t # EndTime
    BY EndTimeIsGreatest DEF ClockInv
  <2>2. QED BY <2>1 DEF FollowInv, StepperFollowsClock
<1>2. TypeInv /\ ClockInv /\ FollowInv /\ [Next]_vars => FollowInv'
  BY NextFollowInv
<1>3. Init => FollowInv
  BY InitFollowInv
<1>4. QED
  BY <1>1, <1>2, <1>3, InitTypeInv, NextTypeInv, InitClockInv, NextClockInv, PTL DEF Spec

-----------------------------------------------------------------------------
(***************************************************************************)
(* The time loop implements TimeMarch, for processes that begin and end    *)
(* together and are solved in every step.  The abstract clock is the time  *)
(* of the first process's previous solution, which AcceptInv ties to the   *)
(* loop's time.                                                            *)
(***************************************************************************)
Clock == previous[1].time

(* A file that is written publishes its time.                              *)
LEMMA PublishedAppended ==
  ASSUME written \in Seq(File), NEW file \in File, written' = Append(written, file)
  PROVE  PublishedTimes' = Append(PublishedTimes, file.time)
<1>1. /\ written' \in Seq(File) /\ Len(written) \in Nat
      /\ DOMAIN written = 1 .. Len(written) /\ DOMAIN written' = 1 .. Len(written) + 1
      /\ \A i \in 1 .. Len(written) : written'[i] = written[i]
      /\ written'[Len(written) + 1] = file
  BY AppendProperties, LenProperties
<1>2. PublishedTimes \in Seq(Int) /\ Len(PublishedTimes) = Len(written)
  <2>1. \A i \in 1 .. Len(written) : written[i].time \in Int
    <3>1. \A i \in 1 .. Len(written) : written[i] \in File
      BY ElementOfSeq
    <3>2. QED BY <3>1 DEF File
  <2>2. PublishedTimes = [i \in 1 .. Len(written) |-> written[i].time]
    BY <1>1 DEF PublishedTimes
  <2>3. QED BY <1>1, <2>1, <2>2
<1> DEFINE published == Append(PublishedTimes, file.time)
<1>3. file.time \in Int
  BY DEF File
<1>4. /\ published \in Seq(Int)
      /\ DOMAIN published = 1 .. Len(written) + 1
      /\ \A i \in 1 .. Len(written) : published[i] = PublishedTimes[i]
      /\ published[Len(written) + 1] = file.time
  BY <1>2, <1>3, AppendProperties, LenProperties
<1>5. published = [i \in 1 .. Len(written) + 1 |-> published[i]]
  BY <1>4
<1>6. ASSUME NEW i \in 1 .. Len(written) + 1 PROVE written'[i].time = published[i]
  <2>1. CASE i = Len(written) + 1
    BY <1>1, <1>4, <2>1
  <2>2. CASE i # Len(written) + 1
    <3>1. i \in 1 .. Len(written)
      BY <1>1, <2>2
    <3>2. QED BY <1>1, <1>4, <3>1 DEF PublishedTimes
  <2>3. QED BY <2>1, <2>2
<1> HIDE DEF published
<1>7. PublishedTimes' = [i \in 1 .. Len(written) + 1 |-> published[i]]
  BY <1>1, <1>6 DEF PublishedTimes
<1>8. QED BY <1>5, <1>7 DEF published

LEMMA InitMarch == Init => March!MarchInit
<1> SUFFICES ASSUME Init PROVE March!MarchInit
  OBVIOUS
<1>1. /\ pc = "outputInitial" /\ accepted = 0 /\ written = <<>>
      /\ previous[1].time = StartTime
  BY ConfigFacts DEF Init
<1>2. PublishedTimes = <<>>
  BY <1>1 DEF PublishedTimes
<1>3. Outcome = "running"
  BY <1>1 DEF Outcome
<1>4. QED BY <1>1, <1>2, <1>3 DEF March!MarchInit

(* What the invariants say of the abstract state.                          *)
LEMMA MarchFacts ==
  ASSUME TypeInv, ClockInv, AcceptInv
  PROVE  /\ pc \in Between => Clock = t
         /\ pc \in Within => Clock = t - prevDt /\ Clock < t
         /\ Clock \in Int /\ t \in Int /\ t <= EndTime /\ EndTime \in Nat
         /\ Outcome = "running" <=> pc \notin {"done", "fatal"}
<1>1. /\ pc \in Between => Clock = t
      /\ pc \in Within => Clock = t - prevDt
  BY ConfigFacts DEF AcceptInv, AcceptedBetween, KeptWithin, Now, Before, Clock
<1>2. /\ previous[1] \in Solution /\ t \in Int /\ prevDt \in Int
      /\ pc \in Within => prevDt > 0
  BY ConfigFacts DEF TypeInv, TypeOK, ClockInv, Within
<1>3. Clock \in Int /\ t <= EndTime /\ EndTime \in Nat
  BY <1>2, EndTimeIsGreatest DEF Clock, Solution, ClockInv, ClockWithinRun
<1>4. Outcome = "running" <=> pc \notin {"done", "fatal"}
  BY DEF Outcome
<1>5. QED BY <1>1, <1>2, <1>3, <1>4

(* Output publishes the accepted state, and the last one is at the end.    *)
LEMMA OutputMarches ==
  ASSUME TypeInv, ClockInv, AcceptInv, EndInv, OutputSolution
  PROVE  [March!MarchNext]_(March!marchVars)
<1> DEFINE last == pc = "outputLast"
           file == [step |-> IF last THEN accepted + rejected ELSE timestep,
                    time |-> t, from |-> solution[proc],
                    kind |-> IF last THEN "last" ELSE "output"]
<1>1. /\ pc \in {"outputInitial", "output", "outputLast"}
      /\ \/ pc' \notin {"done", "fatal"}
         \/ last /\ pc' = "done"
      /\ UNCHANGED <<previous, accepted, lastStatus>>
  BY DEF OutputSolution, solverVars, stateVars, countVars
<1>2. /\ Outcome = "running" /\ Clock = t
  BY <1>1, MarchFacts DEF Between
<1>3. file \in File /\ written \in Seq(File)
  <2>1. /\ proc \in Proc /\ solution \in [Proc -> Solution] /\ t \in Int
        /\ accepted + rejected \in Nat /\ timestep \in Nat /\ written \in Seq(File)
    BY DEF TypeInv, TypeOK
  <2>2. QED BY <2>1 DEF File
<1>4. PublishedTimes' \in {PublishedTimes, Append(PublishedTimes, Clock)}
  <2>1. written' = written \/ written' = Append(written, file)
    BY DEF OutputSolution, outputVars
  <2>2. CASE written' = written
    BY <2>2 DEF PublishedTimes
  <2>3. CASE written' = Append(written, file)
    <3>1. file.time = Clock
      BY <1>2
    <3> HIDE DEF file
    <3>2. QED BY <1>3, <2>3, <3>1, PublishedAppended
  <2>4. QED BY <2>1, <2>2, <2>3
<1>5. Clock' = Clock
  BY <1>1 DEF Clock
<1>6. CASE pc' \notin {"done", "fatal"}
  <2>1. Outcome' = "running"
    BY <1>6 DEF Outcome
  <2>2. QED
    BY <1>1, <1>2, <1>4, <1>5, <2>1
    DEF March!MarchNext, March!Publish, March!marchVars, Clock
<1>7. CASE last /\ pc' = "done"
  <2>1. lastStatus.met /\ t = EndTime
    BY <1>7 DEF EndInv
  <2>2. Outcome' = "succeeded"
    BY <1>1, <1>7, <2>1 DEF Outcome
  <2>3. QED
    BY <1>1, <1>2, <1>4, <1>5, <2>1, <2>2
    DEF March!MarchNext, March!Succeed, March!marchVars, Clock
<1>8. QED BY <1>1, <1>6, <1>7

(* An accepted step moves the clock; a rejected one, and the zeroth, leave *)
(* it, unless the run fails.                                               *)
LEMMA DecisionMarches ==
  ASSUME BeginTogether, TypeInv, ClockInv, AcceptInv, ComputeTimeStepping
  PROVE  [March!MarchNext]_(March!marchVars)
<1>1. PICK next \in [Proc -> NextResult] : DecideOnStep(next)
  BY NextIsWellFormed
<1> DEFINE accept == AcceptsStep(next)
           reject == ~accept /\ t <= EndTime
<1>2. /\ previous' = PushedStates(accept) /\ written' = written
      /\ accepted' = IF accept /\ ~InitialStep THEN accepted + 1 ELSE accepted
      /\ lastRejected' = IF InitialStep \/ ~(accept \/ reject) THEN lastRejected ELSE reject
      /\ prevDt' = prevDt
      /\ pc' \in {"fatal", "loop", "check", "output"}
      /\ pc' = "fatal" => lastRejected' /\ dt' = prevDt
  BY <1>1 DEF DecideOnStep, outputVars
<1>3. pc \in {"first", "stepping"} /\ Outcome = "running"
  BY MarchFacts DEF ComputeTimeStepping
<1>4. PublishedTimes' = PublishedTimes
  BY <1>2 DEF PublishedTimes
<1>5. Outcome' = IF pc' = "fatal" THEN "failed" ELSE "running"
  BY <1>2 DEF Outcome
<1>6. /\ t \in Int /\ Clock \in Int /\ t <= EndTime /\ accepted \in Nat
      /\ 1 \in Proc /\ (pc = "stepping" => Clock < t)
  BY MarchFacts, ConfigFacts DEF TypeInv, TypeOK, Within
<1>7. CASE pc = "stepping" /\ accept
  <2>1. /\ t # Config[1].begin /\ ~InitialStep
    BY <1>6, <1>7, StartTimeIsBegin
    DEF ClockInv, ClockWithinRun, BeginTogether, InitialStep, TypeInv, TypeOK
  <2>2. solution[1] = Now
    BY <1>6, <1>7 DEF AcceptsStep, AcceptInv, SolvedIfAllMet
  <2>3. Clock' = t
    BY <1>2, <1>6, <1>7, <2>1, <2>2 DEF PushedStates, Now, Clock
  <2>4. accepted' = accepted + 1 /\ ~lastRejected'
    BY <1>2, <1>7, <2>1
  <2>5. Outcome' = "running"
    BY <1>2, <1>5, <2>4
  <2>6. t \in Clock + 1 .. EndTime
    BY <1>6, <1>7, MarchFacts
  <2>7. March!Accept
    BY <1>3, <1>4, <2>3, <2>4, <2>5, <2>6 DEF March!Accept, Clock
  <2>8. QED BY <2>7 DEF March!MarchNext
<1>8. CASE ~(pc = "stepping" /\ accept)
  <2>1. pc = "first" => t = Config[1].begin /\ InitialStep
    BY <1>6 DEF ClockInv, BeginTogether, InitialStep
  <2>2. previous'[1] = previous[1]
    BY <1>2, <1>3, <1>6, <1>8, <2>1 DEF PushedStates
  <2>3. Clock' = Clock /\ accepted' = accepted
    BY <1>2, <1>3, <1>8, <2>1, <2>2 DEF Clock
  <2>4. CASE pc' = "fatal"
    <3>1. March!Fail
      BY <1>3, <1>4, <1>5, <2>3, <2>4 DEF March!Fail, Clock
    <3>2. QED BY <3>1 DEF March!MarchNext
  <2>5. CASE pc' # "fatal"
    BY <1>3, <1>4, <1>5, <2>3, <2>5 DEF March!marchVars, Clock
  <2>6. QED BY <2>4, <2>5
<1>9. QED BY <1>7, <1>8

(* A failed solve that ends the run may document the attempt.              *)
LEMMA DivergedMarches ==
  ASSUME TypeInv, ClockInv, AcceptInv, SolveDiverged
  PROVE  [March!MarchNext]_(March!marchVars)
<1> DEFINE file == [step |-> timestep, time |-> t, from |-> solution'[proc],
                    kind |-> "always"]
<1>1. /\ pc = "solve" /\ pc' \in {"post", "stepping", "fatal"}
      /\ UNCHANGED <<previous, accepted>>
      /\ written' = written \/ (pc' = "fatal" /\ written' = Append(written, file))
  BY DEF SolveDiverged, AfterFailure, stateVars, countVars
<1>2. Outcome = "running" /\ Clock' = Clock
  BY <1>1, MarchFacts DEF Clock
<1>3. t \in Clock + 1 .. EndTime
  BY <1>1, MarchFacts DEF Within
<1>4. Outcome' = IF pc' = "fatal" THEN "failed" ELSE "running"
  BY <1>1 DEF Outcome
<1>5. \/ PublishedTimes' = PublishedTimes
      \/ pc' = "fatal" /\ PublishedTimes' = Append(PublishedTimes, t)
  <2>1. CASE written' = written
    BY <2>1 DEF PublishedTimes
  <2>2. CASE written' = Append(written, file)
    <3>1. /\ proc \in Proc /\ t \in Int /\ timestep \in Nat /\ written \in Seq(File)
          /\ solution' = [solution EXCEPT ![proc] = [time |-> t, ok |-> FALSE]]
          /\ solution \in [Proc -> Solution]
      BY DEF TypeInv, TypeOK, SolveDiverged
    <3>2. solution'[proc] \in Solution
      BY <3>1 DEF Solution
    <3>3. file \in File /\ file.time = t
      BY <3>1, <3>2 DEF File
    <3> HIDE DEF file
    <3>4. PublishedTimes' = Append(PublishedTimes, t)
      BY <2>2, <3>1, <3>3, PublishedAppended
    <3>5. QED BY <1>1, <2>1, <3>4
  <2>3. QED BY <1>1, <2>1, <2>2
<1>6. CASE pc' = "fatal"
  <2>1. March!Fail
    BY <1>1, <1>2, <1>3, <1>4, <1>5, <1>6 DEF March!Fail, Clock
  <2>2. QED BY <2>1 DEF March!MarchNext
<1>7. CASE pc' # "fatal"
  BY <1>1, <1>2, <1>4, <1>5, <1>7 DEF March!marchVars, Clock
<1>8. QED BY <1>6, <1>7

LEMMA NextMarches ==
  ASSUME BeginTogether
  PROVE  TypeInv /\ ClockInv /\ AcceptInv /\ EndInv /\ [Next]_vars
         => [March!MarchNext]_(March!marchVars)
<1> SUFFICES ASSUME TypeInv, ClockInv, AcceptInv, EndInv, [Next]_vars
             PROVE  [March!MarchNext]_(March!marchVars)
  OBVIOUS
<1>1. CASE OutputSolution
  BY <1>1, OutputMarches
<1>2. CASE ComputeTimeStepping
  BY <1>2, DecisionMarches
<1>3. CASE SolveDiverged
  BY <1>3, DivergedMarches
<1>4. CASE BeginTimestep \/ SolveConverged \/ PostTimestep
  <2>1. /\ pc \notin {"done", "fatal"} /\ pc' \notin {"done", "fatal"}
        /\ UNCHANGED <<previous, accepted, written>>
    BY <1>4
    DEF BeginTimestep, SolveConverged, PostTimestep, stateVars, countVars, outputVars
  <2>2. QED BY <2>1 DEF March!marchVars, Outcome, PublishedTimes
<1>5. CASE CheckEnd
  <2>1. /\ pc = "check" /\ UNCHANGED <<previous, accepted, written, lastStatus>>
        /\ \/ pc' \in {"loop", "outputLast"}
           \/ pc' = "done" /\ ~lastStatus.met
    BY <1>5 DEF CheckEnd, solverVars, stateVars, countVars, outputVars
  <2>2. PublishedTimes' = PublishedTimes /\ Outcome = "running"
    BY <2>1 DEF PublishedTimes, Outcome
  <2>3. CASE pc' \in {"loop", "outputLast"}
    <3>1. Outcome' = "running"
      BY <2>3 DEF Outcome
    <3>2. QED BY <2>1, <2>2, <3>1 DEF March!marchVars
  <2>4. CASE pc' = "done" /\ ~lastStatus.met
    <3>1. Outcome' = "failed"
      BY <2>1, <2>4 DEF Outcome
    <3>2. QED BY <2>1, <2>2, <3>1 DEF March!MarchNext, March!Fail
  <2>5. QED BY <2>1, <2>3, <2>4
<1>6. CASE UNCHANGED vars
  BY <1>6
  DEF vars, solverVars, stateVars, countVars, outputVars, March!marchVars, Outcome,
      PublishedTimes
<1>7. QED BY <1>1, <1>2, <1>3, <1>4, <1>5, <1>6 DEF Next, Terminated

(* Every behaviour of the time loop is one of TimeMarch: rejected steps do *)
(* not show, the clock moves in accepted steps and not beyond the end,     *)
(* results belong to the accepted state, success comes at the end only.    *)
THEOREM Refinement ==
  ASSUME BeginTogether, EndTogether, SolvesEachStep
  PROVE  Spec => ImplementsMarch
<1>1. TypeInv /\ ClockInv /\ AcceptInv /\ [Next]_vars => AcceptInv'
  BY NextAcceptInv
<1>2. TypeInv /\ ClockInv /\ RoundInv /\ EndInv /\ [Next]_vars => EndInv'
  BY NextEndInv
<1>3. TypeInv /\ ClockInv /\ AcceptInv /\ EndInv /\ [Next]_vars
      => [March!MarchNext]_(March!marchVars)
  BY NextMarches
<1>4. QED
  BY <1>1, <1>2, <1>3, InitTypeInv, NextTypeInv, InitClockInv, NextClockInv,
     InitAcceptInv, InitRoundInv, NextRoundInv, InitEndInv, InitMarch, PTL
  DEF Spec, ImplementsMarch, March!MarchSpec

=============================================================================
