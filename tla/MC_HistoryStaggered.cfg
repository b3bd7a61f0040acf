SPECIFICATION Spec
CONSTANTS
  Scale = 2
  Config <- TwoIterations
  Staggered = TRUE
  MaxCoupling = 2
  OutputPairs <- OneThenEveryThird
  OutputTimes <- NoTimes
  IterationCounts <- FewOrMany
  FailureIterations <- AtMax
  MaxRejected = 1
  MaxDouble = 1000
INVARIANTS
  HistoryMatchesSolution
