--------------------------- MODULE NonlinearSolver --------------------------
(***************************************************************************)
(* The Picard and the Newton method of NumLib/ODESolver/NonlinearSolver    *)
(* with the convergence criterion of each process and with the matrices    *)
(* and vectors they take from the provider.  A project's processes may     *)
(* name the same solver; it then keeps one set of ids, one residuum _r_neq *)
(* and one flag for all of them.  The time loop solves the processes in    *)
(* any order and again after any result.                                   *)
(*                                                                         *)
(* An iterate is the number of the iteration of this solve it comes from,  *)
(* 0 for the initial guess.  Norms are small numbers, 0 for one below the  *)
(* machine's epsilon.                                                      *)
(***************************************************************************)
EXTENDS MatrixVectorProvider, SequencesExt

CONSTANTS
  Projects,   \* the projects to be considered
  NumProcs,   \* the number of processes of a project
  MaxIter,    \* _maxiter
  Norms,      \* the norms a residual may have
  AbsTol,     \* the absolute tolerance of the residual
  RelTol,     \* the reciprocal of its relative tolerance
  MaxSolves   \* bound: the number of solves of a run

Procs == 1 .. NumProcs

Tags == {"Picard", "Newton"}
DeltaXKinds == {"DeltaX", "PerComponentDeltaX"}
ResidualKinds == {"Residual", "PerComponentResidual"}

(* What the project file says: the type of each solver, and of each        *)
(* process its solver, criterion, and flag, and whether it is linear.      *)
Process ==
  [solver: Procs, criterion: DeltaXKinds \cup ResidualKinds,
   linear: BOOLEAN, compensate: BOOLEAN]
Project == [tag: [Procs -> Tags], procs: [Procs -> Process]]

ASSUME ProjectsAssumption == Projects \subseteq Project
ASSUME NumbersAssumption ==
  /\ NumProcs \in Nat \ {0} /\ MaxIter \in Nat /\ Norms \subseteq Nat
  /\ AbsTol \in Nat /\ RelTol \in Nat /\ MaxSolves \in Nat

VARIABLES
  project,     \* the project, which does not change
  phase,       \* where the time loop or solve() is
  proc,        \* the process that is solved or initialised
  pool,        \* the provider
  ids,         \* of each solver, the ids it asks the provider with
  xdotId,      \* of each process, _xdot_id of its equation system
  neq,         \* of each solver, the process of _r_neq and its vector
  crit,        \* of each process, the state of its convergence criterion
  iteration,   \* iteration of solve()
  met,         \* error_norms_met
  x,           \* the iterate in the process's solution vector
  xNew,        \* the iterate in x_new of the Picard method
  assembledAt, \* the iterate the equations were last assembled at
  solves,      \* the number of solves begun
  kept,        \* history: the last iterate that was not thrown away
  seen,        \* history: the norms of the residual in this solve
  dxPassed     \* history: the result of the check of delta x in this iteration

iterates == <<x, xNew, assembledAt, kept>>
checks == <<crit, seen, dxPassed>>
objects == <<pool, ids, xdotId, neq>>
vars == <<project, phase, proc, objects, checks, iteration, met, iterates, solves>>

Solver(p) == project.procs[p].solver
Criterion(p) == project.procs[p].criterion
Linear(p) == project.procs[p].linear
Picard(p) == project.tag[Solver(p)] = "Picard"

AnyFlag(p) == \E q \in Procs : project.procs[q].compensate   \* a mutant of Compensates

(* The flag of the solver is set by each process that names it, and the    *)
(* last one decides for all of them.                                       *)
Compensates(p) ==
  project.procs[Max({q \in Procs : Solver(q) = Solver(p)})].compensate

-----------------------------------------------------------------------------
(* The convergence criterion *)

KeepFirstIteration(c) == c   \* a mutant of PreFirstIteration

PreFirstIteration(c) == [c EXCEPT !.first = TRUE]

KeepChecks(kind, c) == [c EXCEPT !.first = FALSE]   \* a mutant of Reset

(* The criteria on delta x override reset() and leave the flag alone.      *)
Reset(kind, c) ==
  [c EXCEPT !.satisfied = TRUE, !.first = @ /\ kind \in DeltaXKinds]

RelativePasses(norm, norm0) == norm = 0 \/ RelTol * norm < norm0

(* Residual, but not PerComponentResidual, takes a later norm for the      *)
(* reference if the first one was zero.                                    *)
ReferenceNorm(kind, c, norm) ==
  IF c.first \/ (kind = "Residual" /\ c.norm0 = 0) THEN norm ELSE c.norm0

CheckResidual(kind, c, norm) ==
  LET norm0 == ReferenceNorm(kind, c, norm) IN
  [c EXCEPT !.norm0 = norm0,
            !.satisfied = @ /\ \/ norm < AbsTol
                               \/ ~c.first /\ RelativePasses(norm, norm0)]

(* The criteria on the residual only report delta x.                       *)
CheckDeltaX(kind, c, passes) ==
  [c EXCEPT !.satisfied = @ /\ (passes \/ kind \in ResidualKinds)]

(* Both checks are made of nonlinear systems only.                         *)
ChecksResidual(p) == ~Linear(p) /\ Criterion(p) \in ResidualKinds

-----------------------------------------------------------------------------
(* The matrices and vectors.  matrix is _A_id or _J_id, rhs is _rhs_id or  *)
(* _res_id, and update is _minus_delta_x_id.                               *)

ObjectIds == [matrix: Nat, rhs: Nat, update: Nat, x_new: Nat]
NoIds == [matrix |-> 0, rhs |-> 0, update |-> 0, x_new |-> 0]

(* What a solve keeps from its beginning to its end: a matrix, a           *)
(* right-hand side, and x_new (Picard) or minus_delta_x (Newton).          *)
ThirdHeld(p) == IF Picard(p) THEN ids[Solver(p)].x_new ELSE ids[Solver(p)].update
Held(p) == <<ids[Solver(p)].matrix, ids[Solver(p)].rhs, ThirdHeld(p)>>

AcquirePicard(p) ==
  LET i == ids[Solver(p)]
      a == Get(pool, i.matrix)
      r == Get(a.pool, i.rhs)
      n == Get(r.pool, i.x_new)
  IN /\ pool' = n.pool
     /\ ids' = [ids EXCEPT ![Solver(p)] =
                  [i EXCEPT !.matrix = a.id, !.rhs = r.id, !.x_new = n.id]]

AcquireNewton(p) ==
  LET i == ids[Solver(p)]
      r == Get(pool, i.rhs)
      u == Get(r.pool, i.update)
      j == Get(u.pool, i.matrix)
  IN /\ pool' = j.pool
     /\ ids' = [ids EXCEPT ![Solver(p)] =
                  [i EXCEPT !.rhs = r.id, !.update = u.id, !.matrix = j.id]]

Acquire(p) == IF Picard(p) THEN AcquirePicard(p) ELSE AcquireNewton(p)

ReleaseHeld(p) ==
  Release(Release(Release(pool, Held(p)[1]), Held(p)[2]), Held(p)[3])

(* The vectors for the time derivative, one for each process, are taken    *)
(* without an id in each assembly; only the Newton variant returns them.   *)
AfterAssemble(p, q) ==
  IF Picard(p) THEN GetManyNew(q, NumProcs) ELSE GetAndReleaseManyNew(q, NumProcs)

(* A vector that is taken from q and given back within the same action.    *)
Borrow(q, id) ==
  LET g == Get(q, id) IN [pool |-> Release(g.pool, g.id), id |-> g.id]

(* assemble(), and for the Newton method getResidual(), which borrows the  *)
(* vector of _xdot_id, from what is left of the provider in q.             *)
AssembleFrom(p, q) ==
  IF Picard(p) THEN pool' = AfterAssemble(p, q) /\ UNCHANGED xdotId
  ELSE LET b == Borrow(AfterAssemble(p, q), xdotId[p])
       IN  pool' = b.pool /\ xdotId' = [xdotId EXCEPT ![p] = b.id]

-----------------------------------------------------------------------------
(* The time loop *)

Init ==
  /\ project \in Projects
  /\ phase = "residuum" /\ proc = 1
  /\ pool = EmptyPool
  /\ ids = [s \in Procs |-> NoIds] /\ xdotId = [p \in Procs |-> 0]
  /\ neq = [s \in Procs |-> [of |-> 0, id |-> 0]]
  /\ crit = [p \in Procs |-> [satisfied |-> TRUE, first |-> TRUE, norm0 |-> 0]]
  /\ iteration = 0 /\ met = FALSE /\ solves = 0
  /\ x = 0 /\ xNew = 0 /\ assembledAt = 0
  /\ kept = 0 /\ seen = <<>> /\ dxPassed = FALSE

(* calculateNonEquilibriumInitialResiduum, for one process after the       *)
(* other.  The Picard variant also takes a matrix and a right-hand side.   *)
ResiduumPicard(p) ==
  LET i == ids[Solver(p)]
      a == Get(pool, i.matrix)
      r == Get(a.pool, i.rhs)
      n == GetNew(AfterAssemble(p, r.pool))
  IN /\ pool' = n.pool
     /\ ids' = [ids EXCEPT ![Solver(p)] = [i EXCEPT !.matrix = a.id, !.rhs = r.id]]
     /\ neq' = [neq EXCEPT ![Solver(p)] = [of |-> p, id |-> n.id]]
     /\ UNCHANGED xdotId

ResiduumNewton(p) ==
  LET n == GetNew(AfterAssemble(p, pool))
      b == Borrow(n.pool, xdotId[p])
  IN /\ pool' = b.pool
     /\ xdotId' = [xdotId EXCEPT ![p] = b.id]
     /\ neq' = [neq EXCEPT ![Solver(p)] = [of |-> p, id |-> n.id]]
     /\ UNCHANGED ids

InitialResiduum ==
  /\ phase = "residuum"
  /\ \/ ~Compensates(proc) /\ UNCHANGED objects
     \/ Compensates(proc) /\ Picard(proc) /\ ResiduumPicard(proc)
     \/ Compensates(proc) /\ ~Picard(proc) /\ ResiduumNewton(proc)
  /\ IF proc = NumProcs THEN phase' = "idle" /\ UNCHANGED proc
                        ELSE proc' = proc + 1 /\ UNCHANGED phase
  /\ UNCHANGED <<project, checks, iteration, met, iterates, solves>>

OneMore(i) == i <= MaxIter + 1   \* a mutant of InLoop

InLoop(i) == i <= MaxIter

(* solveOneTimeStepOneProcess: setEquationSystem, and solve() up to its    *)
(* loop.                                                                   *)
StartSolve ==
  /\ phase = "idle" /\ solves < MaxSolves
  /\ \E p \in Procs :
       /\ proc' = p
       /\ Acquire(p)
       /\ crit' = [crit EXCEPT ![p] = PreFirstIteration(@)]
  /\ iteration' = 1 /\ solves' = solves + 1
  /\ phase' = IF InLoop(1) THEN "assemble" ELSE "finish"
  /\ UNCHANGED <<project, xdotId, neq, met, iterates, seen, dxPassed>>

-----------------------------------------------------------------------------
(* One iteration of solve() *)

(* Up to the check of the residual.                                        *)
Assemble ==
  /\ phase = "assemble"
  /\ AssembleFrom(proc, pool)
  /\ assembledAt' = IF Picard(proc) THEN xNew ELSE x
  /\ \/ /\ ChecksResidual(proc)
        /\ \E norm \in Norms :
             /\ seen' = Append(seen, norm)
             /\ crit' = [crit EXCEPT ![proc] = CheckResidual(Criterion(proc), @, norm)]
     \/ ~ChecksResidual(proc) /\ UNCHANGED <<seen, crit>>
  /\ phase' = "linear"
  /\ UNCHANGED <<project, proc, ids, neq, iteration, met, x, xNew, kept, solves, dxPassed>>

(* Only the Newton method catches the AssemblyException; otherwise it, and *)
(* one thrown for the initial residuum, ends the program.                  *)
AssemblyFails ==
  /\ \/ /\ phase = "assemble" /\ ~Picard(proc)
        /\ pool' = AfterAssemble(proc, pool)
        /\ met' = FALSE /\ iteration' = MaxIter
        /\ phase' = "finish"
     \/ /\ \/ phase = "assemble" /\ Picard(proc)
           \/ phase = "residuum" /\ Compensates(proc)
        /\ phase' = "aborted"
        /\ UNCHANGED <<pool, met, iteration>>
  /\ UNCHANGED <<project, proc, ids, xdotId, neq, checks, iterates, solves>>

LinearSolverFails ==
  /\ phase = "linear"
  /\ met' = FALSE
  /\ phase' = "finish"
  /\ UNCHANGED <<project, proc, objects, checks, iteration, iterates, solves>>

(* The Newton method borrows x_new for the result of the linear solver.    *)
BorrowXNew ==
  IF Picard(proc) THEN UNCHANGED <<pool, ids>>
  ELSE LET b == Borrow(pool, ids[Solver(proc)].x_new)
       IN  pool' = b.pool /\ ids' = [ids EXCEPT ![Solver(proc)].x_new = b.id]

NotCounted(i) == i   \* a mutant of Incremented

Incremented(i) == i + 1

(* The increment of the loop, after c is left of the criterion.            *)
NextIteration(c) ==
  /\ iteration' = Incremented(iteration)
  /\ crit' = [crit EXCEPT ![proc] = Reset(Criterion(proc), c)]
  /\ phase' = IF InLoop(iteration') THEN "assemble" ELSE "finish"

(* postIteration() returns SUCCESS.                                        *)
IterationSucceeds ==
  /\ phase = "linear"
  /\ BorrowXNew
  /\ x' = iteration /\ kept' = iteration
  /\ xNew' = IF Picard(proc) THEN iteration ELSE xNew
  /\ \E passes \in IF Linear(proc) THEN {TRUE} ELSE BOOLEAN :
       LET c == IF Linear(proc) THEN crit[proc]
                ELSE CheckDeltaX(Criterion(proc), crit[proc], passes)
       IN /\ dxPassed' = passes
          /\ met' = (Linear(proc) \/ c.satisfied)
          /\ IF met' \/ iteration >= MaxIter
             THEN /\ crit' = [crit EXCEPT ![proc] = c]
                  /\ phase' = "finish"
                  /\ UNCHANGED iteration
             ELSE NextIteration(c)
  /\ UNCHANGED <<project, proc, xdotId, neq, assembledAt, solves, seen>>

(* It returns FAILURE: the result is copied to x all the same.             *)
IterationFails ==
  /\ phase = "linear"
  /\ BorrowXNew
  /\ x' = iteration
  /\ xNew' = IF Picard(proc) THEN iteration ELSE xNew
  /\ met' = FALSE
  /\ phase' = "finish"
  /\ UNCHANGED <<project, proc, xdotId, neq, checks, iteration, assembledAt, kept, solves>>

KeepsResult == iteration   \* a mutant of ThrownAway

(* What is left in x_new when the result is thrown away.                   *)
ThrownAway == x

(* It returns REPEAT_ITERATION.                                            *)
IterationRepeats ==
  /\ phase = "linear"
  /\ BorrowXNew
  /\ xNew' = IF Picard(proc) THEN ThrownAway ELSE xNew
  /\ NextIteration(crit[proc])
  /\ UNCHANGED <<project, proc, xdotId, neq, met, x, assembledAt, kept, solves, seen, dxPassed>>

(* The objects are released, and {met, iteration} is returned.             *)
EndSolve ==
  /\ phase = "finish"
  /\ pool' = ReleaseHeld(proc)
  /\ phase' = "idle"
  /\ iteration' = 0 /\ met' = FALSE
  /\ x' = 0 /\ xNew' = 0 /\ assembledAt' = 0
  /\ kept' = 0 /\ seen' = <<>> /\ dxPassed' = FALSE
  /\ UNCHANGED <<project, proc, ids, xdotId, neq, crit, solves>>

Finished ==
  /\ phase = "aborted" \/ (phase = "idle" /\ solves = MaxSolves)
  /\ UNCHANGED vars

Next ==
  \/ InitialResiduum
  \/ StartSolve
  \/ Assemble
  \/ AssemblyFails
  \/ LinearSolverFails
  \/ IterationSucceeds
  \/ IterationFails
  \/ IterationRepeats
  \/ EndSolve
  \/ Finished

Spec == Init /\ [][Next]_vars

-----------------------------------------------------------------------------
(* Properties *)

(* Every variable has its type.                                            *)
TypeOK ==
  /\ project \in Projects
  /\ phase \in {"residuum", "idle", "assemble", "linear", "finish", "aborted"}
  /\ proc \in Procs
  /\ pool \in Provider
  /\ ids \in [Procs -> ObjectIds] /\ xdotId \in [Procs -> Nat]
  /\ neq \in [Procs -> [of: Nat, id: Nat]]
  /\ crit \in [Procs -> [satisfied: BOOLEAN, first: BOOLEAN, norm0: Nat]]
  /\ iteration \in 0 .. MaxIter + 1 /\ met \in BOOLEAN /\ solves \in Nat
  /\ x \in Nat /\ xNew \in Nat /\ assembledAt \in Nat /\ kept \in Nat
  /\ seen \in Seq(Nat) /\ dxPassed \in BOOLEAN

(* The norm the last one is compared with, from the norms of this solve:   *)
(* the first one, or for Residual the first one above the epsilon.         *)
OwnReference ==
  IF Criterion(proc) = "Residual" /\ \E i \in DOMAIN seen : seen[i] # 0
  THEN seen[Min({i \in DOMAIN seen : seen[i] # 0})]
  ELSE seen[1]

(* The checks of the last iteration, judged from this solve alone.  Linear *)
(* systems are not checked.                                                *)
LastChecksPass ==
  \/ Linear(proc)
  \/ Criterion(proc) \in DeltaXKinds /\ dxPassed
  \/ /\ Criterion(proc) \in ResidualKinds
     /\ \/ seen[Len(seen)] < AbsTol
        \/ Len(seen) > 1 /\ RelativePasses(seen[Len(seen)], OwnReference)

(* The number of the iteration that was completed last, without a failing  *)
(* step, when its outcome is known, and 0 otherwise.                       *)
CompletedIteration ==
  CASE phase = "finish" /\ kept = iteration -> kept
    [] phase = "assemble" /\ kept + 1 = iteration -> kept
    [] OTHER -> 0

(* solve() reports convergence only if the checks of its own last          *)
(* iteration pass, against the residual it has started from itself: no     *)
(* flag and no norm left by an earlier solve can make it converge.         *)
ConvergedIsChecked == phase = "finish" /\ met => LastChecksPass

(* reset() makes the criterion "forget the result of all checks already    *)
(* done": after the first iteration, one whose checks pass converges.      *)
LaterIterationsForgetChecks ==
  CompletedIteration > 1 /\ LastChecksPass => met

(* The same of every iteration, also of the first one of a solve.          *)
EveryIterationForgetsChecks == CompletedIteration > 0 /\ LastChecksPass => met

(* The equations of an iteration are assembled at the last iterate that    *)
(* was not thrown away, however often iterations have been repeated.       *)
AssembledAtKeptIterate == phase = "linear" => assembledAt = kept

(* The residuum that is subtracted is that of the process being solved,    *)
(* and it is subtracted if and only if that process asks for it.           *)
OwnResiduumSubtracted ==
  phase = "linear" =>
    neq[Solver(proc)].of = IF project.procs[proc].compensate THEN proc ELSE 0

(* The objects a solve works with, and those kept by all solvers as their  *)
(* residuum, are different objects, and all of them are in use.            *)
OneUserPerObject ==
  LET residua == [s \in {s \in Procs : neq[s].of # 0} |-> neq[s].id]
      working == phase \in {"assemble", "linear", "finish"}
  IN /\ IsInjective(residua) /\ Range(residua) \subseteq pool.used
     /\ working => /\ IsInjective(Held(proc))
                   /\ Range(Held(proc)) \subseteq pool.used \ Range(residua)

(* Between solves, solvers of the Newton type have given back everything   *)
(* but their residua, whichever way their solves have ended.  It holds     *)
(* where a solver has at most one process with a residuum: the residuum of *)
(* the next one replaces it without giving it back.                        *)
NewtonReturnsObjects ==
  phase = "idle" /\ (\A p \in Procs : ~Picard(p)) =>
    pool.used = {neq[s].id : s \in {s \in Procs : neq[s].of # 0}}

(* The same of solvers of both types, which is not so: the Picard method   *)
(* keeps the vectors it takes in each assembly.                            *)
ObjectsReturned ==
  phase = "idle" => pool.used = {neq[s].id : s \in {s \in Procs : neq[s].of # 0}}

(* A solve ends: an iteration that is repeated counts as one, so that the  *)
(* residual is assembled and checked at most _maxiter times.               *)
AssemblesAtMostMaxIter == Len(seen) <= MaxIter
=============================================================================
