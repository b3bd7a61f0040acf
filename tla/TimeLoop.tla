------------------------------ MODULE TimeLoop ------------------------------
(***************************************************************************)
(* The time loop of OpenGeoSys, ProcessLib/TimeLoop.cpp: it marches the    *)
(* solutions of one or several processes from the start to the end time,   *)
(* solves the processes of a step one after the other (or, coupled by the  *)
(* staggered scheme, in rounds of coupling iterations), lets the time      *)
(* steppers decide on the step and on the next step size, keeps or rolls   *)
(* back the solutions accordingly, and writes output.                      *)
(*                                                                         *)
(* The program is sequential: pc names the place in loop() and in the      *)
(* functions it calls.  What the processes compute is not modelled; the    *)
(* outcome of a nonlinear solve, of the check of the coupling and of the   *)
(* error estimate are choices of the environment.  A solution vector is    *)
(* represented by the time it was computed for and by whether the solver   *)
(* that produced it converged.                                             *)
(***************************************************************************)
EXTENDS TimeStepper, Output

CONSTANTS
  Config,          \* the steppers' parameters, a sequence with one per process
  Staggered,       \* are the processes coupled by the staggered scheme?
  MaxCoupling,     \* _global_coupling_max_iterations
  OutputPairs,     \* _repeats_each_steps
  OutputTimes,     \* the fixed output times of the project file
  IterationCounts, \* iteration numbers of a converging solve
  FailureIterations, \* those of a failing one: all, or where the linear solver failed
  MaxRejected,     \* bound: at most so many steps are rejected
  MaxDouble        \* std::numeric_limits<double>::max()

NumProcesses == Len(Config)
Proc == 1 .. NumProcesses
OneProcessTooMany(p) == p > NumProcesses   \* a mutant of LastProcess
LastProcess(p) == p = NumProcesses

(* createTimeLoop takes the end of the process that ends last and the      *)
(* begin of the process that ends first.                                   *)
EndTime == Max({Config[p].end : p \in Proc})
StartTime ==
  Config[CHOOSE p \in Proc : /\ \A q \in Proc : Config[p].end <= Config[q].end
                             /\ \A q \in 1 .. p - 1 : Config[p].end < Config[q].end].begin

ASSUME ConfigAssumption ==
  /\ Config \in Seq(StepperConfig)
  /\ NumProcesses > 0
  /\ \A p \in Proc : ValidConfig(Config[p])
ASSUME CouplingAssumption == Staggered \in BOOLEAN /\ MaxCoupling \in Nat
ASSUME OutputAssumption ==
  /\ OutputPairs \in Seq(PairRepeatEachSteps)
  /\ OutputTimes \in SUBSET Nat
ASSUME SolverAssumption ==
  IterationCounts \subseteq Nat /\ FailureIterations \subseteq Nat /\ MaxRejected \in Nat
ASSUME MaxDoubleAssumption ==
  MaxDouble \in Nat /\ \A p \in Proc : Config[p].end < MaxDouble

VARIABLES
  pc,             \* where the program is
  t,              \* the loop's current time
  dt,             \* the size of the next time step
  prevDt,         \* prev_dt, the size of the step being computed
  stepper,        \* the time stepper of each process
  status,         \* the nonlinear_solver_status kept for each process
  lastStatus,     \* the status loop() keeps, of the latest solve of a step
  solution,       \* _process_solutions
  previous,       \* the solution of the previous step in the time discretization
  history,        \* the time up to which postTimestep() advanced each process
  proc,           \* the process the current for loop has reached
  coupling,       \* global_coupling_iteration
  timestep,       \* timesteps, the number of the step being computed
  accepted,       \* accepted_steps
  rejected,       \* rejected_steps
  lastRejected,   \* _last_step_rejected
  pending,        \* _fixed_output_times of the Output object
  written         \* the result files, in the order they were written

clockVars    == <<t, dt, prevDt>>
solverVars   == <<status, lastStatus, solution>>
stateVars    == <<previous, history>>
countVars    == <<timestep, accepted, rejected, lastRejected>>
outputVars   == <<pending, written>>
positionVars == <<proc, coupling>>

vars == <<pc, clockVars, stepper, solverVars, stateVars, positionVars,
          countVars, outputVars>>

Status == [met: BOOLEAN, iterations: Int]
Solution == [time: Int, ok: BOOLEAN]
File == [step: Nat, time: Int, from: Solution, kind: {"output", "last", "always"}]

-----------------------------------------------------------------------------
(* The constructors and initialize(): the steppers learn the output times, *)
(* every process gets its initial condition as solution and as state of    *)
(* the previous step.                                                      *)
Init ==
  /\ pc = "outputInitial"
  /\ t = StartTime /\ dt = 0 /\ prevDt = 0
  /\ stepper = [p \in Proc |->
                  AddFixedOutputTimes(Config[p], NewStepper(Config[p]), OutputTimes)]
  /\ status = [p \in Proc |-> [met |-> TRUE, iterations |-> 0]]
  /\ lastStatus = [met |-> FALSE, iterations |-> -1]
  /\ solution = [p \in Proc |-> [time |-> StartTime, ok |-> TRUE]]
  /\ previous = solution
  /\ history = [p \in Proc |-> StartTime]
  /\ proc = 1 /\ coupling = 0 /\ timestep = 0
  /\ accepted = 0 /\ rejected = 0 /\ lastRejected = FALSE
  /\ pending = OutputTimes
  /\ written = <<>>

WritesIfDue(due, last) == due               \* mutants of WritesNow
WritesLastAlways(due, last) == due \/ last

(* doOutput writes a solution that is due, doOutputLastTimestep one that is *)
(* not.                                                                    *)
WritesNow(due, last) == due # last

(* One turn of the for loop of outputSolutions: the initial state, the     *)
(* state after an accepted step, or the state after the loop.  The last    *)
(* one is written if shallDoOutput says no.                                *)
OutputSolution ==
  /\ pc \in {"outputInitial", "output", "outputLast"}
  /\ LET last == pc = "outputLast"
         step == IF last THEN accepted + rejected ELSE timestep
         due  == ShallDoOutput(OutputPairs, step, t, pending)
         file == [step |-> step, time |-> t, from |-> solution[proc],
                  kind |-> IF last THEN "last" ELSE "output"]
     IN  IF status[proc].met
         THEN /\ pending' = PendingAfter(t, pending)
              /\ written' = IF WritesNow(due, last) /\ WritesFile(Staggered, proc, NumProcesses)
                            THEN Append(written, file) ELSE written
         ELSE UNCHANGED outputVars
  /\ IF ~LastProcess(proc)
     THEN proc' = proc + 1 /\ UNCHANGED pc
     ELSE /\ proc' = 1
          /\ pc' = CASE pc = "outputInitial" -> "first"
                     [] pc = "output"        -> "check"
                     [] pc = "outputLast"    -> "done"
  /\ UNCHANGED <<clockVars, stepper, solverVars, stateVars, coupling, countVars>>

(* The zeroth step, before which no step has been computed.                *)
InitialStep == \E p \in Proc : t = Config[p].begin

AcceptsUnsolved(next) ==   \* a mutant of AcceptsStep
  \A p \in Proc : next[p].more \/ t >= Config[p].end

(* A step is accepted if no next() has returned false before the stepper's *)
(* end time and every process's last nonlinear solve has converged.        *)
AcceptsStep(next) ==
  \A p \in Proc : (next[p].more \/ t >= Config[p].end) /\ status[p].met

(* The least of the sizes the steppers propose.                            *)
LeastSize(next) ==
  LET size(p) == Dt(next[p].stepper.cur)
  IN  Min({MaxDouble} \cup
            {size(p) : p \in {q \in Proc : size(q) > 0 \/ t = Config[q].end}})

PushedAlways(accept) == solution         \* a mutant of PushedStates
PoppedByFirstOnly(reject) ==             \* a mutant of PoppedStates
  IF reject THEN [solution EXCEPT ![1] = previous[1]] ELSE solution

(* pushState and popState of the time discretizations.                     *)
PushedStates(accept) ==
  [p \in Proc |-> IF accept /\ t # Config[p].begin THEN solution[p] ELSE previous[p]]
PoppedStates(reject) ==
  [p \in Proc |-> IF reject /\ t # Config[p].begin THEN previous[p] ELSE solution[p]]

(* The size with which the end time is not passed.                         *)
CappedSize(now, size) ==
  IF now < EndTime /\ now + size > EndTime THEN EndTime - now ELSE size

(* The part of computeTimeStepping after the calls of next().              *)
DecideOnStep(next) ==
  LET accept == AcceptsStep(next)
      reject == ~accept /\ t <= EndTime
      least  == LeastSize(next)
  IN  /\ stepper' = [p \in Proc |-> ResetCurrentTimeStep(next[p].stepper, least)]
      /\ previous' = PushedStates(accept)
      /\ solution' = PoppedStates(reject)
      /\ accepted' = IF accept /\ ~InitialStep THEN accepted + 1 ELSE accepted
      /\ rejected' = IF reject /\ ~InitialStep THEN rejected + 1 ELSE rejected
      /\ lastRejected' = IF InitialStep \/ ~(accept \/ reject) THEN lastRejected
                          ELSE reject
      /\ t' = IF reject /\ ~InitialStep THEN t - prevDt ELSE t
      /\ dt' = CappedSize(t', least)
      /\ pc' = IF dt' = prevDt /\ lastRejected' THEN "fatal"
               ELSE CASE pc = "first"                     -> "loop"
                      [] pc = "stepping" /\ lastRejected' -> "check"
                      [] OTHER                            -> "output"
      /\ proc' = 1
      /\ UNCHANGED <<prevDt, status, lastStatus, history, coupling, timestep, outputVars>>

(* computeTimeStepping: the steppers decide on the step that has just been *)
(* solved and on the next size.  Unless this is the zeroth step, the       *)
(* solutions are kept, or rolled back together with the clock.             *)
ComputeTimeStepping ==
  /\ pc \in {"first", "stepping"}
  /\ \E err \in [Proc -> Errors] :
     /\ \A p \in Proc : /\ err[p] \in PossibleErrors(Config[p], t)
                        /\ err[p] = "above" => rejected < MaxRejected
     /\ LET results(p) ==
              NextResults(Config[p],
                          SetAcceptedOrNot(Config[p], stepper[p], status[p].met),
                          err[p], status[p].iterations)
        IN  \E next \in [Proc -> UNION {results(p) : p \in Proc}] :
              /\ \A p \in Proc : next[p] \in results(p)
              /\ DecideOnStep(next)

BeginTimestep ==
  /\ pc = "loop"
  /\ t < EndTime
  /\ t' = t + dt /\ prevDt' = dt /\ UNCHANGED dt
  /\ timestep' = accepted + 1
  /\ proc' = 1 /\ coupling' = 0
  /\ IF Staggered /\ MaxCoupling = 0
     THEN pc' = "post" /\ lastStatus' = [met |-> FALSE, iterations |-> -1]
     ELSE pc' = "solve" /\ UNCHANGED lastStatus
  /\ UNCHANGED <<stepper, status, solution, stateVars, accepted, rejected,
                 lastRejected, outputVars>>

CouplingNotCounted == coupling   \* a mutant of NextCoupling
NextCoupling == coupling + 1

StickyFailure(new) ==            \* a mutant of RecordedStatus
  [status EXCEPT ![proc] = [new EXCEPT !.met = new.met /\ status[proc].met]]
RecordedStatus(new) == [status EXCEPT ![proc] = new]

(* A nonlinear solve that converges.  After the last process the uncoupled *)
(* scheme is done; the staggered scheme checks, from the second iteration  *)
(* on, the change of the last process's solution, and iterates.            *)
SolveConverged ==
  /\ pc = "solve"
  /\ \E n \in IterationCounts :
       /\ lastStatus' = [met |-> TRUE, iterations |-> n]
       /\ status' = RecordedStatus(lastStatus')
  /\ solution' = [solution EXCEPT ![proc] = [time |-> t, ok |-> TRUE]]
  /\ \/ /\ ~LastProcess(proc)
        /\ proc' = proc + 1
        /\ UNCHANGED <<pc, coupling>>
     \/ /\ LastProcess(proc)
        /\ \/ ~Staggered
           \/ NextCoupling = MaxCoupling
           \/ coupling > 0                   \* the coupling has converged
        /\ pc' = "post"
        /\ UNCHANGED positionVars
     \/ /\ LastProcess(proc)
        /\ Staggered /\ NextCoupling < MaxCoupling
        /\ coupling' = NextCoupling /\ proc' = 1
        /\ UNCHANGED pc
  /\ UNCHANGED <<clockVars, stepper, stateVars, countVars, outputVars>>

PostAnyway == "post"   \* a mutant of AfterFailure

(* Where the step goes on after a failed solve: it is given up, but in the *)
(* second and later iterations of the staggered scheme only the coupling   *)
(* loop is left.                                                           *)
AfterFailure == IF Staggered /\ coupling > 0 THEN "post" ELSE "stepping"

(* A nonlinear solve that fails.  If the stepper cannot reduce the step    *)
(* size, the unsuccessful solution is written and the program aborts.      *)
SolveDiverged ==
  /\ pc = "solve"
  /\ rejected < MaxRejected
  /\ \E n \in FailureIterations :
       /\ lastStatus' = [met |-> FALSE, iterations |-> n]
       /\ status' = RecordedStatus(lastStatus')
  /\ solution' = [solution EXCEPT ![proc] = [time |-> t, ok |-> FALSE]]
  /\ IF CanReduceTimestepSize(Config[proc], stepper[proc])
     THEN pc' = AfterFailure /\ UNCHANGED written
     ELSE /\ pc' = "fatal"
          /\ written' = IF WritesFile(Staggered, proc, NumProcesses)
                        THEN Append(written, [step |-> timestep, time |-> t,
                                              from |-> solution'[proc], kind |-> "always"])
                        ELSE written
  /\ UNCHANGED <<clockVars, stepper, stateVars, positionVars, countVars, pending>>

(* postTimestepForAllProcesses: every process takes the step's solution    *)
(* over into its internal state (secondary and history variables).         *)
PostTimestep ==
  /\ pc = "post"
  /\ history' = [p \in Proc |-> t]
  /\ pc' = "stepping"
  /\ UNCHANGED <<clockVars, stepper, solverVars, previous, positionVars,
                 countVars, outputVars>>

LoopEndsLate == t > EndTime \/ dt <= 0            \* mutants of LoopEnds
LoopEndsEarly == t + dt >= EndTime \/ dt <= 0
LoopEndsOnFailure == t >= EndTime \/ dt <= 0 \/ ~lastStatus.met

(* The conditions under which loop() leaves its while loop.                *)
LoopEnds == t >= EndTime \/ t + dt > EndTime \/ dt <= 0

CheckEnd ==
  /\ pc = "check"
  /\ pc' = IF LoopEnds
           THEN IF lastStatus.met THEN "outputLast" ELSE "done"
           ELSE "loop"
  /\ proc' = 1
  /\ UNCHANGED <<clockVars, stepper, solverVars, stateVars, coupling,
                 countVars, outputVars>>

Terminated == pc \in {"done", "fatal"} /\ UNCHANGED vars

Next ==
  \/ OutputSolution
  \/ ComputeTimeStepping
  \/ BeginTimestep
  \/ SolveConverged
  \/ SolveDiverged
  \/ PostTimestep
  \/ CheckEnd
  \/ Terminated

Spec == Init /\ [][Next]_vars

(* The program runs to its end: no step of it waits for anything.          *)
FairSpec == Spec /\ WF_vars(Next)

-----------------------------------------------------------------------------
(* Properties *)

Phases == {"outputInitial", "first", "loop", "solve", "post", "stepping",
           "output", "check", "outputLast", "done", "fatal"}

(* Every variable has its type.                                            *)
TypeOK ==
  /\ pc \in Phases
  /\ t \in Int /\ dt \in Int /\ prevDt \in Int
  /\ stepper \in [Proc -> Stepper]
  /\ status \in [Proc -> Status] /\ lastStatus \in Status
  /\ solution \in [Proc -> Solution] /\ previous \in [Proc -> Solution]
  /\ history \in [Proc -> Int]
  /\ proc \in Proc /\ coupling \in Nat
  /\ timestep \in Nat /\ accepted \in Nat /\ rejected \in Nat
  /\ lastRejected \in BOOLEAN
  /\ pending \in SUBSET Nat /\ written \in Seq(File)

(* The loop's clock stays between start and end: a step is never computed  *)
(* beyond the end, and a rollback (t -= prev_dt) never goes below the      *)
(* start, whatever the steppers propose.                                   *)
ClockWithinRun ==
  /\ StartTime <= t /\ t <= EndTime
  /\ pc = "loop" => 0 < dt /\ t + dt <= EndTime
  /\ pc \in {"solve", "post", "stepping"} => StartTime <= t - prevDt

(* Whenever a step begins, after any sequence of accepted and rejected     *)
(* steps, every process starts from a converged solution computed for the  *)
(* loop's current time, and the time discretization holds the same one.    *)
StepStartsFromAcceptedState ==
  pc = "loop" => \A p \in Proc : /\ solution[p] = [time |-> t, ok |-> TRUE]
                                 /\ previous[p] = solution[p]

(* Whenever a step begins, the internal state that postTimestep() advances *)
(* belongs to the same time as the solution.                               *)
HistoryMatchesSolution ==
  pc = "loop" => \A p \in Proc : history[p] = t

(* As long as no step was rejected, every stepper takes the loop's time    *)
(* for the time the next step starts from; its clamping to fixed times and *)
(* to the end time relies on it.                                           *)
StepperFollowsClock ==
  pc = "loop" /\ rejected = 0 => \A p \in Proc : stepper[p].prev.current = t

(* A file, unless it documents a failure, holds a converged solution, of   *)
(* the time the file is labelled with.                                     *)
FilesHoldAcceptedSolutions ==
  \A i \in DOMAIN written :
    written[i].kind # "always" =>
      written[i].from = [time |-> written[i].time, ok |-> TRUE]

(* When the loop has succeeded without rejecting a step, there is a file   *)
(* for every fixed output time.                                            *)
FixedTimesWritten ==
  pc = "done" /\ lastStatus.met /\ rejected = 0 =>
    \A f \in OutputTimes \cap (StartTime .. EndTime) :
      \E i \in DOMAIN written : written[i].time = f

(* When the loop has succeeded without rejecting a step, its last state    *)
(* has been written.                                                       *)
LastStateWritten ==
  pc = "done" /\ lastStatus.met /\ rejected = 0 =>
    \E i \in DOMAIN written : written[i].time = t

(* As long as no step was rejected, no state is written twice, as a time   *)
(* step's state and as the last one.                                       *)
NoStateWrittenTwice ==
  rejected = 0 => \A i, j \in DOMAIN written : i # j => written[i].time # written[j].time

(* loop() returns true only when the end time has been reached.            *)
SuccessMeansEndReached == pc = "done" /\ lastStatus.met => t = EndTime

(* A rejected step is repeated with a smaller size, or the run stops.      *)
RejectedStepIsReduced ==
  [][rejected' > rejected => dt' < prevDt \/ pc' = "fatal"]_vars

(* A rejected step is repeated: the loop does not leave it at that, except *)
(* by aborting.                                                            *)
RejectedStepIsRepeated == [][pc = "check" /\ lastRejected => pc' = "loop"]_vars

(* Steps are rejected only because of failed solves and of errors above    *)
(* the tolerance, of which the environment produces MaxRejected at most.   *)
OnlyFailuresReject == rejected <= MaxRejected

(* A step counts as accepted only if no stepper has rejected it.           *)
AcceptedByEveryStepper ==
  [][accepted' > accepted => \A p \in Proc : stepper'[p].accepted]_vars

(* The loop comes to an end if only MaxRejected steps fail.                *)
Terminates == <>(pc \in {"done", "fatal"})

=============================================================================
