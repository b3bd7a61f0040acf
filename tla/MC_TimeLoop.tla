---------------------------- MODULE MC_TimeLoop -----------------------------
(* Small projects for the time loop.  Factors are in halves (Scale = 2).   *)
EXTENDS TimeLoopRefinement

Defaults ==
  [kind |-> "FixedTimeStepping", begin |-> 0, end |-> 8, dts |-> <<>>,
   minDt |-> 1, maxDt |-> 4, initialDt |-> 2,
   iters |-> <<1, 3>>, mults |-> <<4, 1>>, relMin |-> 1, relMax |-> 4,
   fixedTimes |-> {}]

FixedSteps(sizes)  == [Defaults EXCEPT !.dts = sizes]
IterationNumber    == [Defaults EXCEPT !.kind = "IterationNumberBased"]
PIDController      == [Defaults EXCEPT !.kind = "EvolutionaryPID"]

OnePID             == <<PIDController>>
TwoIterations      == <<IterationNumber, [IterationNumber EXCEPT !.maxDt = 3]>>

OneOfEachKind      == <<PIDController, IterationNumber,
                        FixedSteps(<<2, 2, 2, 2, 2, 2, 2, 2, 2, 2, 2, 2>>)>>

OneThenEveryThird  == <<[repeat |-> 2, each |-> 1], [repeat |-> 1, each |-> 3]>>

ThreeAndFive       == {3, 5}
NoTimes            == {}
One                == {1}
AtMax              == {5}
FirstOrMax         == {1, 5}
FewOrMany          == {1, 3}
=============================================================================
