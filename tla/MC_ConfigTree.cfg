CONSTANTS
  r = r  a1 = a1  a2 = a2  b = b  c = c
  v1 = v1  v2 = v2  v3 = v3
  Nodes = {r, a1, a2, b, c}
  Root = r
  Null = Null
  Tags = {"a", "b"}
  Attributes = {"k"}
  Children <- SmallDocument
  HasAttribute <- OneAttribute
  HasData = {a1, a2, c}
  Convertible = {a1, c}
  Variables = {v1, v2, v3}
SYMMETRY AnyVariable
SPECIFICATION Spec
CHECK_DEADLOCK FALSE
INVARIANTS TypeOK OneObjectPerElement ReportedIffMisread SuccessMeansReadOnce
PROPERTY SimulatesOnlyWellRead
