# OpenGeoSys: specifications, checks and proofs

OpenGeoSys (OGS) simulates coupled thermo-hydro-mechanical-chemical processes in
porous media. This directory holds TLA+ modules of the parts of it that are a
*protocol* rather than a formula: the time loop, which marches several processes
through time, retries failed steps with smaller sizes, rolls their solutions back,
and decides when results are written; the time steppers it asks; the time
discretization schemes that keep the previous solutions; the output control; the
nonlinear solvers with their convergence criteria and the provider they take their
matrices and vectors from; the configuration tree, which checks that a project file
is read completely; and the partitioning of a mesh for a parallel run with the
indices the ranks derive from it.
TLC checks the modules on small instances and TLAPS proves theorems about them for
every value of their constants.

Paths are relative to the repository.

## 1. The system

| component | where | state it keeps | operations | talks to |
|---|---|---|---|---|
| time loop | `ProcessLib/TimeLoop.cpp` | `_process_solutions`, `_solutions_of_last_cpl_iteration`, `_last_step_rejected`, the counts of accepted and rejected steps, `t`, `dt` | `initialize`, `loop`, `computeTimeStepping`, `solveUncoupledEquationSystems`, `solveCoupledEquationSystemsByStaggeredScheme`, `outputSolutions` | everything below, by calls |
| time steppers | `NumLib/TimeStepping` | `_ts_prev`, `_ts_current`, accepted flag, fixed times | `next`, `setAcceptedOrNot`, `resetCurrentTimeStep`, `canReduceTimestepSize`, `addFixedOutputTimes` | called by the time loop, one per process |
| time discretization | `NumLib/ODESolver/TimeDiscretization.*` | old solutions, time, matrices of the Crank-Nicolson scheme | `setInitialState`, `nextTimestep`, `pushState`, `popState`, `getWeightedOldX` | time loop, equation system, matrix translator |
| output control | `ProcessLib/Output` | fixed output times still to come | `doOutput`, `doOutputLastTimestep`, `doOutputAlways` | time loop; VTK and PVD files |
| nonlinear solvers | `NumLib/ODESolver/NonlinearSolver.cpp` | `_r_neq`, ids of pooled vectors; may be shared by processes | `solve`, `assemble`, `calculateNonEquilibriumInitialResiduum` | equation system, linear solver, convergence criterion |
| convergence criteria | `NumLib/ODESolver/ConvergenceCriterion*` | `_satisfied`, `_is_first_iteration`, first residual | `preFirstIteration`, `reset`, `checkDeltaX`, `checkResidual` | nonlinear solver, coupling loop |
| discretized equation system | `NumLib/ODESolver/TimeDiscretizedODESystem.cpp` | M, K, b, Jacobian, known solutions | `assemble`, `getResidual`, `applyKnownSolutions` | process, provider |
| provider of matrices and vectors | `NumLib/DOF/SimpleMatrixVectorProvider.cpp` | used and unused objects by id | `getVector`, `releaseVector`, ... | all of `NumLib` |
| configuration tree | `BaseLib/ConfigTree*` | of each object the node, the settings visited and their counts, whether the data were read; globally the swallowed errors | `getConfigParameter`, `getConfigSubtree`, the lists, `ignoreConfigParameter`, `checkAndInvalidate`, moves, destructor | every `create...` function; `ogs.cpp` |
| mesh partitioning | `Applications/Utils/ModelPreparation/PartitionMesh` | partitions, owners and global ids of the nodes | `partitionByMETIS`, `partitionOtherMesh`, `renumberBulk...IdsProperty` | METIS, files read by each rank |
| parallel mesh and numbering | `MeshLib/NodePartitionedMesh.h`, `NumLib/DOF/MeshComponentMap.cpp` | three counts of nodes; indices of the degrees of freedom, ghosts | `isGhostNode`, the constructor, `getSubset`, `getLocalIndex` | PETSc |
| processes | `ProcessLib/Process.cpp` and one directory per physics | local assemblers with internal (history) variables | `preTimestep`, `assemble`, `postTimestep` | time loop, equation system |
| everything else | `MaterialLib`, `ChemistryLib`, `ParameterLib`, `MathLib`, `MeshLib`, `GeoLib`, `BaseLib`, `Applications` | | | see section 8 |

The program is sequential. What makes it hard is not concurrency but *protocol*:
a step may be solved completely, post-processed, and then be rejected; with several
processes some have succeeded and some have not; four clocks (the loop's `t`, the
stepper's, the time discretization's, and the steps counted for the output) must
agree again after any sequence of accepted and rejected steps; the retry of a
step is computed from state that the failed attempt has already changed; a solver,
its criterion and its pooled objects keep state from one solve to the next, and from
one process to another; errors found in destructors are noted and must be asked for;
and the ranks of a parallel run must derive the same numbering from what each of them
knows.

What makes each component correct:

* **time loop** - a step starts from accepted, converged solutions of the current
  time, in every place a solution is kept; the time never leaves the run; success
  means that the end was reached; a rejected step is repeated or the run aborts;
  it terminates.
* **steppers** - the size proposed hits every fixed time, is positive, is smaller
  after a rejection; the stepper's clock is the loop's.
* **time discretization** - the old solutions are the last accepted ones, in the
  order of their age, and a rejection changes none of them.
* **output** - every fixed time and the last state are written, the latter once, and
  files hold accepted solutions only.
* **nonlinear solver and criteria** - a solve converges only if the checks of its
  own last iteration are satisfied, and whenever they are; an iteration works on the
  last iterate that was not thrown away; the residuum subtracted is the process's own.
* **provider** - a pooled object has one user; what is taken is given back.
* **configuration tree** - what is reported is exactly what was not read exactly once;
  nothing is reported twice or lost when objects are moved; a strict program neither
  simulates nor succeeds if anything was reported.
* **partitioning** - every node has one owner; a rank has all it assembles into its
  rows; ghosts are known under their owner's index; a boundary mesh refers to the
  right nodes and elements.

## 2. Modules

| module | models | remarks |
|---|---|---|
| `TimeStepper` | the three algorithms of `NumLib/TimeStepping/Algorithms` as operators on a stepper record | pure operators; `FixedNext`, `IterationNext`, `PIDNext` are the virtual `next()` |
| `Output` | `Output::shallDoOutput` and the rule which process writes | pure operators |
| `TimeLoop` | `ProcessLib/TimeLoop.cpp`: `pc` is the place in `loop()`, one action per function | EXTENDS `TimeStepper` and `Output`, so it is the composition of the three |
| `TimeMarch` | abstract: a clock that moves in accepted steps only, results published for the clock's time (a failing run may publish its last attempt), success at the end only | |
| `TimeLoopRefinement` | the refinement mapping from `TimeLoop` to `TimeMarch` | `ImplementsMarch` is a PROPERTY of two runs and a theorem |
| `MC_TimeLoop` | small projects for TLC | |
| `TimeDiscretization` | the schemes of `TimeDiscretization.h` with the calls the time loop makes on them | own state machine: the ring buffer and the rollback |
| `MatrixVectorProvider` | `SimpleMatrixVectorProvider` | pure operators on a pool |
| `NonlinearSolver` | the Picard and the Newton `solve()` over a sequence of solves, the convergence criteria, the objects taken from the provider | EXTENDS `MatrixVectorProvider`; the composition of solver, criterion, equation system and provider |
| `MC_NonlinearSolver` | projects of two processes | |
| `ConfigTree` | `BaseLib/ConfigTree` and what `ogs.cpp` does with its errors | any number of objects held by variables |
| `MC_ConfigTree` | a document of five elements | |
| `MeshPartition` | the tool `partmesh`, then each rank's numbering | one module from METIS's output to PETSc's indices |
| `MC_MeshPartition` | a mesh of three elements and a boundary mesh of two | |
| `*_proofs` | theorems; `TimeLoop_proofs`, `TimeLoopSuccess_proofs` and `TimeLoopOutput_proofs` build on each other | section 6 |

### State and actions of `TimeLoop`

| action | code |
|---|---|
| `Init` | `TimeLoop::initialize`: output times go to the steppers, initial conditions to solutions and time discretizations |
| `OutputSolution` | one turn of the loop in `outputSolutions`, for the initial state, after an accepted step, and after the loop |
| `ComputeTimeStepping` (`AcceptsStep`, `LeastSize`, `DecideOnStep`) | `computeTimeStepping`: every stepper's `next()`, the decision, push or pop of every process, the new `t` and `dt`, the abort on an unchanged size |
| `BeginTimestep` | the head of the `while` loop |
| `SolveConverged`, `SolveDiverged` | one nonlinear solve in either solve function, with what follows it: the next process, the check of the coupling, the next coupling iteration, or giving the step up |
| `PostTimestep` | `postTimestepForAllProcesses` |
| `CheckEnd` | the two `break`s of `loop()` and its return value |

A solution vector is represented by the time it was computed for and whether the
solver converged. The environment chooses: the outcome and the iteration number of
each nonlinear solve, whether the coupling has converged, and (PID) how the error
compares to the tolerance and what size the PID formula gives.

Time is counted in ticks on which sums are exact; comparisons against an epsilon
become equality. Multipliers are integers over `Scale`, and scaled sizes are rounded
down to the grid, so that "too small" sizes occur as the size 0.

### State and actions of `TimeDiscretization`

A solution is a number, 0 for the initial condition and a new one for every solve.
`past` is a history variable with the accepted solutions. `BeginTimestep`,
`NonEquilibriumInitialResiduum`, `SolveOneTimeStep` (several times in the staggered
scheme), `AcceptStep` and `RejectStep` are the calls of the time loop, in the order
it makes them. The numerical coefficients are left out: `WeightedOldX` gives the old
solutions in the order of the coefficients they are multiplied with.

### State and actions of `NonlinearSolver`

| action | code |
|---|---|
| `Init`, `InitialResiduum` | `calculateNonEquilibriumInitialResiduum` for one process after the other, Picard and Newton |
| `StartSolve` | `solveOneTimeStepOneProcess` and `solve()` up to its loop: the objects are taken, `preFirstIteration()` |
| `Assemble` | one iteration up to the check of the residual, with what `assemble()` and `getResidual()` take and give back |
| `AssemblyFails` | an `AssemblyException`: caught by the Newton method only |
| `LinearSolverFails` | the `break` before `postIteration()` |
| `IterationSucceeds`, `IterationFails`, `IterationRepeats` | the three answers of `postIteration()`, with the check of delta x, the increment and `reset()` |
| `EndSolve` | the objects are released and `{met, iteration}` returned |

An iterate is the number of the iteration it comes from, an object of the provider its
id, a norm a small number; `seen`, `kept` and `dxPassed` are history variables the
properties judge a solve by. `Projects` is a set, so that one run covers projects with
separate and with shared solvers of both types and all four criteria.

### State and actions of `ConfigTree`

`object` says what each variable that may hold a `ConfigTree` holds. One action per
reading call *that returns* (`GetSubtree`, `GetParameter`, `GetAbsent`, `GetList` with
`NextSubtree` and `NextValue`, `IgnoreParameter`, `IgnoreParameterAll`, `GetAttribute`,
`GetValue`), per way an object lives and dies (`MoveConstruct`, `MoveAssign`,
`Destruct`), and per step of `main()` (`StartSimulation`, `Finish`). `Throw` stands for
every call that throws, from anywhere up to the `catch` of `main()`. The creating
functions make these calls in any order, which is more than the real ones do. `reads`
counts, per element, how often each of its parts was read: the ground truth the
reports are compared with. Abstracted: names and paths, the types of settings (that a
setting is read with two types cannot occur, since it cannot be read twice), all text.
Two kinds of calls that the interface allows and no caller makes are not modelled: to
dereference the same iterator twice, and to go through a range twice.

### State and actions of `MeshPartition`

`ProcessPartition`, `RenumberNodeIndices`, `PartitionOtherMesh` and `RenumberBulkIds`
are the steps of the tool; `CreateMap(r)` and `GetSubset(r)` those of rank `r`. The
result of METIS is any map from nodes to partitions. Files are not modelled: a rank
works on the partition the tool made for it.

## 3. Runs

All runs finish within seconds. Those marked *disagrees* are expected to be
violated: they show that the code does not do what a comment or a document of the
repository says.

| run | instance | shows |
|---|---|---|
| `PID` | one process, PID controller, up to 2 rejections, fixed times 3 and 5 | clock, success, no rejection without a failure, repetition of rejected steps, refinement; as long as no step is rejected also the stepper's clock, every fixed time, the last state exactly once |
| `Staggered` | three processes, one with each kind of stepper, staggered, 1 failure | rollback of all processes, files, refinement |
| `StaggeredFair` | two iteration-number based steppers, staggered, 2 rejections, fairness | reduction of sizes, agreement of the steppers, termination |
| `BDF` | BDF of order 3, 6 ticks, 2 rejections, 2 coupling iterations | ring buffer |
| `CrankNicolson` | the same for Crank-Nicolson | old solution, stored matrices, time of assembly |
| `NonlinearSolver` | four projects of two processes, 3 iterations, 3 solves | convergence, repetition, residuum, use of objects |
| `ConfigTree` | 5 elements, an attribute, 3 variables, ruthless or not | reports, moves, swallowed errors |
| `MeshPartition` | 6 nodes (2 of them extra nodes), 3 elements, all 729 partitions for 3 ranks, mixed or not, 2 components | owners, assembly, ghosts, boundary mesh |
| `HistoryStaggered` *disagrees* | two iteration-number based steppers, staggered, 1 rejection | `postTimestep` runs for a step that is rejected |
| `BDFRejection` *disagrees* | BDF of order 2 | after the buffer has wrapped, a rejection restores the wrong solution |
| `CriterionReset` *disagrees* | as `NonlinearSolver` | after a solve that ended unconverged, the first iteration of the next one cannot converge |
| `MeshPartitionMixed` *disagrees* | as `MeshPartition` | with linear and quadratic elements, the nodes stored first are not the base nodes |

The operators called *mutants* in the modules are plausible mistakes in the operator
that follows them; replacing that operator by its mutant makes TLC refute the
property `PROJECT.json` names with it. They are not used by the specifications.

### More disagreements, without a run of their own

Each is seen by checking the property, with the instance described.

Time loop and steppers; where a property is conditional on `rejected = 0`, without
this condition:

* `FixedTimesWritten`, one iteration-number based stepper, 1 rejection, fixed time 5:
  after a rejected step the stepper clamps to the fixed times from a time that is too
  late, and a fixed time is passed without output (`IterationNumberBasedTimeStepping.cpp:75`;
  `Documentation/ProjectFile/prj/time_loop/output/t_fixed_output_times.md`: "fixed
  times, at which the output of the results must be conducted").
* `FixedTimesWritten`, two of them, staggered, no rejection: the first process consumes
  the fixed time, and the last one, the only one that writes, does not find it
  (`Output.cpp:89`).
* `LastStateWritten`, one of them, 1 rejection: the step number given to
  `doOutputLastTimestep` counts rejected steps too, and the output it takes for done was
  never made (`TimeLoop.cpp:578`); `NoStateWrittenTwice`: or it is made twice.
* `RejectedStepIsRepeated`, one of them with sizes up to 8: a step that reaches the end
  and fails is not repeated, the loop stops with the size 0
  (`IterationNumberBasedTimeStepping.cpp:128`).
* `AcceptedByEveryStepper`, as `PID`: a step that ends at the end time is accepted
  although the PID controller rejected it (`TimeLoop.cpp:309`; the condition is meant
  for `FixedTimeStepping`).
* `HistoryMatchesSolution`, as `PID`: a step rejected for its error has been
  post-processed already (`TimeLoop.cpp:676`).
* `RejectedStepIsReduced`, one iteration-number based stepper with a least size of 2,
  fixed time 3: a step clamped below the minimum size is repeated with a larger one
  (`IterationNumberBasedTimeStepping.cpp:126`).
* `RejectedStepIsReduced`, an iteration-number based stepper (initial size 4, sizes up to
  8) and a PID controller, staggered, 3 rejections: the clock of the former, which a
  retry does not set back correctly, has passed its end; the sizes it proposes are
  negative and not counted (`TimeLoop.cpp:321`), so that its failed step of size 2 is
  repeated with the 3 the PID controller proposes.
* `OnlyFailuresReject`, `FixedTimeStepping` and an iteration-number based stepper,
  staggered, no rejection: the table of sizes is used up before the end time and
  converged steps are rejected (`FixedTimeStepping.cpp:38`).
* `OnlyFailuresReject`, as `Staggered`: `FixedTimeStepping` does not take back a
  rejected step, its clock runs ahead of the loop's and reaches its end time early; the
  step after that, although solved, is rejected (`FixedTimeStepping.cpp:38`,
  `TimeLoop.cpp:309`).
* `ChangeIsAgainstLastAccepted`, BDF of order 2: the relative change is computed
  against the oldest solution (`TimeDiscretization.cpp:78`).
* `AssembledAtSchemesTime`, `ForwardEuler`: after a rejection, or in the second
  coupling iteration, the scheme assembles at the attempted time
  (`TimeDiscretization.h:347`).

Nonlinear solvers:

* `OwnResiduumSubtracted` and `NewtonReturnsObjects` with `SharedResiduum`: processes
  that share a solver share `_r_neq`; the residuum of the last one is subtracted from
  the equations of all, and the others' vectors are never given back
  (`NonlinearSolver.cpp:47`, `:233`).
* `ObjectsReturned`: the Picard variant never gives back the vectors for the time
  derivative (`TimeDiscretizedODESystem.cpp:224`), nor the matrix and right-hand side
  taken for the residuum (`NonlinearSolver.cpp:40`).

Partitioning:

* `LocalIndicesAreConsistent` for mixed meshes: the numbers of a rank's nodes are not
  contiguous, so `getLocalIndex` leaves the range of its rows
  (`NodeWiseMeshPartitioner.cpp:680`, `MeshComponentMap.cpp:328`).
* Seen while reading, not expressed in the model: `copyNodePropertyVectorValues` copies
  one value per node whatever the number of components (`NodeWiseMeshPartitioner.cpp:343`);
  the nodes of another mesh are written with the global ids found under *its* node ids
  in a table of the bulk mesh (`NodeWiseMeshPartitioner.cpp:1029`).

## 4. Bounds, and why they are enough

* `end = 8` ticks, sizes 1 to 4: at least two steps, at most eight; fixed times 3 and
  5 fall inside steps, next to each other's reach, and on step ends.
* `MaxRejected` 1 or 2: a rejection, and a rejection of the retry. It bounds the
  environment in the guards of `SolveDiverged` and `ComputeTimeStepping`, so no state
  constraint is needed and liveness is checked soundly.
* `MaxCoupling = 2`: a failure in the first and in a later coupling iteration, the
  coupling converging and not converging.
* one to three processes: the first, one in the middle and the last, with the same and
  with different steppers.
* iteration numbers: quick and slow convergence (1, 3), a failure in the first
  iteration (the linear solver's) and one after the last (5).
* `OneThenEveryThird`: output in each of the first two steps and then in every third,
  so both sides of `timestep > repeat * each_steps` occur.
* BDF of order 3 in 6 ticks: the buffer fills, wraps, and is written once more.
* nonlinear solver: `MaxIter = 3` has a first, a middle and a last iteration, and a
  repetition in each; `MaxSolves = 3` a solve after one of the same and one of the other
  process, each of which may have ended in any way; norms 0, 1 and 3 with tolerances
  1 and 1/2: below the machine's epsilon, and between and above the tolerances, in
  absolute and relative terms.
* configuration tree: a tag that occurs twice, one that occurs once and one that is
  absent, a subtree, an attribute, data that can and cannot be converted; three
  variables hold the toplevel object, one below it, and one to move to (or one more
  level). Variables are symmetric.
* partition: three parts, so that an element can have nodes of all of them and a rank
  can see ghosts of two others or none; parts without nodes occur; two components, so
  that the ghosts' order by component differs from their order by node. All partitions
  of six nodes are taken for METIS's result, the useless ones too.

## 5. Fairness

`FairSpec` of `TimeLoop` is weak fairness of `Next`. The program is one thread that
waits for nobody: if it can make a step it does. A nonlinear solve is a single step of
that module, that is, it is assumed to return. The number of rejections is bounded by
`MaxRejected`: `Terminates` says that the loop ends if the environment stops failing,
not that it does so under any failures (then only the abort on an unchanged size ends
it).

Why a nonlinear solve returns is the subject of `NonlinearSolver`, and needs no
fairness: a solve has at most `_maxiter` iterations (`AssemblesAtMostMaxIter`,
repeated iterations included), and each step of an iteration is a call that is assumed
to return. The other modules state no liveness: reading a configuration and
partitioning a mesh are finite sequences of calls.

## 6. Proofs

All theorems hold for every value of the constants that the ASSUMEs of the modules
allow: every number of processes, every stepper, every order of a scheme, every
document, every mesh and partition of it. For the time loop the ASSUMEs are `ValidConfig`: what the constructors
check, and that a process begins before it ends, which OGS leaves to the project.
Where a theorem needs more, its statement says so.

### Time loop

* `TimeStepper_proofs` - `ClampedSizeJumpsOverNoFixedTime`, a contract of
  `possiblyClampDtToNextFixedTime`; `NextKeepsSteppersWellFormed`: `next()` preserves
  `StepperOK`, which for `FixedTimeStepping` says that the number of steps taken does
  not exceed its table. This is what makes `_dt_vector[_ts_prev.steps()]` a valid
  access although the loop changes the step sizes behind the stepper's back.
* `TimeLoop_proofs` - `TypeCorrect` with the invariant `TypeInv` (types and
  `StepperOK` of every stepper); `ClockStaysWithinRun` with `ClockInv`, which adds
  that `prevDt` is positive while a step is computed and that nothing has been
  rejected before the first step: without the former a rollback could go below the
  start, without the latter the first call of `computeTimeStepping` could abort.
* `TimeLoop_proofs`, second part - `StepsStartFromAcceptedStates` and
  `FilesHoldAccepted` with `AcceptInv`. Its parts follow a step through: between steps every process holds
  the accepted solution twice; within a step the time discretization still holds the
  one to go back to; in the first coupling iteration the processes before `proc` are
  solved, in later ones all are; therefore "every status is met" implies that every
  solution is of the new time. Two assumptions are needed and are real: the
  processes begin together (`BeginTogether`: a process whose begin is the current
  time is skipped by push and pop, `TimeLoop.cpp:351`) and the staggered scheme makes
  at least one iteration (`SolvesEachStep`: with `max_iter` 0 nothing is solved and
  the statuses kept from earlier accept the step).
* `TimeLoopSuccess_proofs` - three theorems with an invariant each, over `RoundInv`
  (the status that `loop()` keeps is the last process's, but if it is met, all are).
  * `SuccessAtEnd` with `EndInv`: a step that converges below the end is followed by
    one of positive size, so the `break` on a size of 0 is not taken with a met status.
    It needs `EndTogether`: a stepper that has reached its own, earlier end proposes 0,
    and the least of the proposals counts.
  * `RejectedByFailures` with `RejectInv`: a step is rejected only after a failure.
    It needs `NoFixedSteps`, because `FixedTimeStepping` gives up when its table is
    exhausted, and `SolvesEachStep`.
  * `SteppersFollowTheClock` with `FollowInv`: what a stepper holds as its current
    step ends where the loop's step does, because the loop resets the size of every
    stepper to the least one; the exception is the last step, which the loop shortens.
* `TimeLoopSuccess_proofs`, last part - `Refinement`: `Spec` implements `TimeMarch`. The
  abstract clock is the time of the first process's previous solution, so a rejected
  step is a stutter although `t` moves forth and back; `AcceptInv` says that this
  solution is the one of the loop's time whenever a step is accepted or a file written.
  An accepting `ComputeTimeStepping` maps to `Accept`, `OutputSolution` to `Publish` (or
  to a stutter, or to `Succeed` with the last file), `CheckEnd` to `Succeed`, to `Fail`
  or to a stutter, and the abort to `Fail`. A failing run may publish the attempt it
  fails in: that is what the output of a step that did not converge is for.
* `TimeLoopOutput_proofs` - what is written, over the lemma `Turn` (all that one
  process's turn at the output changes) and `CountInv` (the step number given to the
  output is the number of accepted steps as long as nothing was rejected). All three
  theorems are about runs without a rejected step, as the properties are, and about
  processes that begin together.
  * `LastStateIsWritten` with `LastInv`: at the end of a step the state has a file or
    was not due; in the latter case the list of fixed times is as it was, so
    `doOutputLastTimestep`, which asks the same question again, writes it.
  * `NoStateTwice` with `OnceInv`: files have different times, all before `t` while a
    state may still be put out as a step's. It needs a single writer (`OneWriter`: in a
    run that is not staggered every process writes its own file) and an end time that
    is no fixed output time: a fixed time is taken off the list by the output of the
    step, so `doOutputLastTimestep` does not find it again and writes the last state a
    second time.
  * `EveryFixedTimeWritten` with `TimesInv`: each fixed time is still in the list and
    not passed, or has a file of its own; the clamped step cannot jump over the first
    one, and the loop takes the least of the proposals. The assumptions are real: one
    stepper must clamp and propose positive sizes (`HeedsOutputTimes`: the PID
    controller ignores the fixed times in its first step, `FixedTimeStepping` in all of
    them), no fixed time may lie
    before the start (the list is looked at from its front, so an early one blocks the
    others), and several staggered processes must not share the list (section 3).
  * `AcceptedUnlessAtEnd`, `EveryStepperAccepts`: a step counts as accepted only if
    every stepper accepts it. For every mixture of algorithms the sole exception is a
    PID controller in a step that ends at its end time, the disagreement of section 3;
    without one there is none.
  * `RejectedIsRepeated` with `RepeatInv`: a rejected step is below the end time again
    and the size of the retry is positive, so none of the three conditions under which
    `loop()` ends holds. It needs `PositiveControllers`: the sizes of the PID
    controller stay positive at the end time, those of the other two algorithms need
    not (section 3).
  * `RejectedIsReduced` and `EachRejectedIsReduced` with `SizeInv` (all steppers hold one
    size, of which the attempted step is the part before the end time): the retry is
    smaller, or the run stops because it has the same size. It needs
    `ReducingControllers` (also `rel_min <= 1`), since the other steppers may propose
    what does not count, and a rejected step that is not below a minimum size already,
    to which the retry would be raised (section 3 has both).

### Time discretization

`TimeDiscretization_proofs` - everything follows from `BufferHoldsLatest`: element `i`
of the buffer, counted from `offset`, is the `i`-th oldest of the accepted solutions
kept. From it `TypeCorrect`, `OrderGrows` and `WeightedByAge` for every scheme and
order; `ChangeAgainstLast` and `RejectionRestores` for the schemes with a single old
solution (for the BDF they are false, see section 3); `BarsBelong` for the Crank-Nicolson
scheme and `AssembledAtNewTime` for all but forward Euler with `AssembledForAttempt`:
when a step is decided on, the matrices are those of the attempt, whatever was
assembled before.

### Nonlinear solver

`NonlinearSolver_proofs` - one inductive invariant `Inv`, whose parts are named after
what they are about: `IteratesInv` (which iterate the equations were assembled at),
`CriterionInv` (whose norm the criterion holds; only the first iteration of a solve can
meet a flag of another), `ForgettingInv` (`reset()` has been called after every
iteration), `CountInv`, and `ObjectsInv` (used and unused objects are disjoint, the
objects of the solve and the residua of all solvers are distinct and in use). From it
`TypeCorrect`, `ConvergedMeansChecked`, `LaterIterationsForget`, `AssembledAtKept`,
`SolveIsBounded` and `ObjectsHaveOneUser`, for every mixture of solvers.
`ResiduumIsOwn` (with `OwnerInv`) and `NewtonReturnsAll` (with `NewtonInv`: the objects
in use are the residua and those of the solve under way) need `ResiduaUnshared`: a
process that asks for its residuum shares its solver with none. Without it both are
false (section 3).

### Configuration tree

`ConfigTree_proofs` - for every document, any number of variables and every order of
reading. The central invariant relates what an object has counted to the ground truth
`reads`: an element is either unopened, or held by exactly one valid object whose counts
are its reads, or gone, and then it was reported exactly if misread. `TypeCorrect`
includes that no setting is counted more often than it occurs: the message for that case
in `checkAndInvalidate` is never given. `OneObject`, `ReportsAreExact`,
`SuccessIsComplete` and `SimulationIsWellRead` follow; the last two also use that success is
reported after the list of swallowed errors was found empty and with no object left.

### Partition of a mesh

`MeshPartition_proofs` - for every mesh and boundary mesh (`BulkAssumption`,
`BoundaryAssumption`: ids are in range, an element has a node once, the faces of a
boundary mesh belong to the bulk elements they refer to), every number of parts and
every result of METIS. The argument has three layers.

* The sequences. `Those`, `FlattenSeq` and the row ranges are recursive, and what they
  hold for every length is shown by the least counterexample: `NatSetInduction` follows
  from the well-foundedness of the natural numbers, `Recursion` says that a recursively
  defined function has its defining equation. From them `ThoseElements`,
  `EachOnceElements`, `FlattenPlaces`: a filtered sequence has the filtered elements,
  each as often as before; a place of a concatenation is a place of one part.
* One partition. `PartitionIsPart`: its nodes are injective, the four groups are where
  the three stored numbers say, the own ones are those METIS gave to it, and each
  element with such a node is in it, once, with all nodes.
* The tool and the ranks. `Inv` says in each phase that what is stored is what the
  operators computed from METIS's result, which no later phase changes (`Invariance`).

`OneOwner` follows because the numbers of a partition tell its groups apart.
`CompleteAssembly` follows from `PartitionIsPart`. `BoundaryReference` holds because a
partition of the boundary mesh owns only nodes the bulk partition has, and its ghosts
are nodes of a face whose bulk element is in the bulk partition: the look-up that gives 0
for a missing id is never asked for one. `LocalIndices` is the longest: without extra
nodes the numbers of a rank's nodes are contiguous and begin where the ranks before it
end (`Numbering`, `RowsBegin`), so that `getLocalIndex` takes owned indices to the rank's
rows and ghosts, found by their global index, behind them. For mixed meshes it is false
(section 3).

### Only model-checked

* `Terminates`: liveness and ENABLED are beyond the prover.
* `RejectedStepIsReduced` for iteration-number based steppers, as `StaggeredFair` has
  them: it depends on how sizes, fixed times and multipliers meet (section 3); the
  theorem is about PID controllers.
* The properties the four disagreeing runs refute, but for `RejectionRestores`, which is
  proved for the schemes with one old solution.

## 7. Plan

Done: `TimeStepper`, `Output`, `TimeLoop`, `TimeMarch` and its refinement,
`TimeDiscretization`, `MatrixVectorProvider` with `NonlinearSolver` (solver, criteria,
equation system and provider in one composition), `ConfigTree`, `MeshPartition`, and the
theorems of section 6.

What could follow:

1. The composition of `NonlinearSolver` with `TimeLoop`, so that the numbers of
   iterations a failing solve reports are derived instead of taken from the set
   `FailureIterations`; and the criteria in their second use, for the coupling of
   processes (`setNoFirstIteration`), instead of a free choice.
2. Processes with different begin and end times in the runs.
3. The numbering of degrees of freedom in serial runs (`MeshComponentMap`,
   `LocalToGlobalIndexMap`), as far as it is more than arithmetic.

## 8. Not modelled

The modules cover a small share of the repository's lines, and that will stay so. Most of
OGS is numerical kernels, readers and writers of file formats, data structures, graphical
tools and third-party code: functions of their input without a state that outlives the
call. A model of those would be the function written again in another language, checked
against itself. What is modelled is where state is kept from one call to the next and
several components must agree on it.

Within the modelled components:

* floating-point rounding (`t += dt; t -= dt` need not give `t` back; the model's ticks
  are exact), matrix and vector arithmetic, norms, damping, the coefficients of the
  schemes;
* the content of result files, several output meshes, output of nonlinear iterations,
  in-situ visualisation;
* the chemical solver's calls, deactivated subdomains, `preTimestep`: they change
  nothing the properties are about;
* uncoupled runs of more than one process: `Output::findProcessData` aborts for the
  second one, so uncoupled projects have one process;
* processes with different begin or end times: allowed by the modules and by the clock
  theorems, not explored by the runs;
* the content of the provider's objects: a vector found by its id is handed out with its
  old content and size, and every caller overwrites it;
* names, paths and types of settings in the configuration tree, and the text of its
  messages. A ruthless program (one without `--config-warnings-nonfatal`) throws at the
  first setting of the wrong number, so of several in one element only the first is
  named: the model says *that* an element is reported. Objects that live until after the
  simulation starts (`BoundaryConditionConfig`) are objects that are not destructed yet;
* the property vectors and the file format of `partmesh`, METIS itself, and the reader
  of partitioned meshes: a rank works on what the tool made for it.

Not modelled at all: the physics (`ProcessLib/*` but the time loop and the output,
`MaterialLib`), chemistry (`ChemistryLib`), parameters, geometry and search structures,
finite elements and the serial numbering of degrees of freedom, linear algebra, the
command line tools but `partmesh`, the data explorer, and everything under `ThirdParty`.
