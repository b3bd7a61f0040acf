SPECIFICATION Spec
CONSTANTS
  Scheme = "BackwardDifferentiationFormula"
  NumSteps = 2
  MaxTime = 6
  MaxDt = 2
  MaxCoupling = 2
  MaxRejected = 2
PROPERTIES
  RejectionRestoresLastAccepted
