SPECIFICATION Spec
CONSTANTS
  Scheme = "CrankNicolson"
  NumSteps = 1
  MaxTime = 6
  MaxDt = 2
  MaxCoupling = 2
  MaxRejected = 2
INVARIANTS
  
  
  BarsBelongToLastAccepted
PROPERTIES
  RejectionRestoresLastAccepted
