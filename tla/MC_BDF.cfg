SPECIFICATION Spec
CONSTANTS
  Scheme = "BackwardDifferentiationFormula"
  NumSteps = 3
  MaxTime = 6
  MaxDt = 2
  MaxCoupling = 2
  MaxRejected = 2
INVARIANTS
  TypeOK
  OldSolutionsWeightedByAge
  OrderGrowsWithHistory
