SPECIFICATION Spec
CONSTANTS
  Scale = 2
  Config <- OnePID
  Staggered = FALSE
  MaxCoupling = 2
  OutputPairs <- OneThenEveryThird
  OutputTimes <- ThreeAndFive
  IterationCounts <- One
  FailureIterations <- FirstOrMax
  MaxRejected = 2
  MaxDouble = 1000
INVARIANTS
  TypeOK
  ClockWithinRun
  SuccessMeansEndReached
  OnlyFailuresReject
  StepperFollowsClock
  FixedTimesWritten
  LastStateWritten
  NoStateWrittenTwice
PROPERTIES
  RejectedStepIsRepeated
  ImplementsMarch
