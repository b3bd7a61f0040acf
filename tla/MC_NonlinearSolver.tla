------------------------- MODULE MC_NonlinearSolver -------------------------
(* Small projects for the nonlinear solver, of two processes.              *)
EXTENDS NonlinearSolver

Solved(solver, criterion) ==
  [solver |-> solver, criterion |-> criterion, linear |-> FALSE, compensate |-> FALSE]
Compensated(p) == [p EXCEPT !.compensate = TRUE]
LinearOf(p) == [p EXCEPT !.linear = TRUE]

Both(tag) == <<tag, tag>>

(* Separate solvers, or a shared one that compensates nothing.             *)
Sharing ==
  { [tag |-> Both("Newton"), procs |-> <<Solved(1, "Residual"), Solved(1, "DeltaX")>>],
    [tag |-> Both("Newton"),
     procs |-> <<Compensated(Solved(1, "PerComponentResidual")), Solved(2, "PerComponentDeltaX")>>],
    [tag |-> Both("Picard"),
     procs |-> <<Compensated(Solved(1, "Residual")), LinearOf(Solved(2, "DeltaX"))>>],
    [tag |-> Both("Picard"), procs |-> <<Solved(1, "DeltaX"), Solved(1, "Residual")>>] }

(* One solver, and only the first process asks for the compensation.       *)
SharedResiduum ==
  { [tag |-> Both(tag),
     procs |-> <<Compensated(Solved(1, "DeltaX")), Compensated(Solved(1, "DeltaX"))>>]
    : tag \in Tags }

SomeNorms == {0, 1, 3}
=============================================================================
