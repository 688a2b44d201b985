SPECIFICATION Spec
CONSTANTS
  Caller <- MCCaller
  Request <- MCRequest
  Name = {"n1", "n2", "n3"}
  Pending = Pending
  Failed = Failed
  MaxDeletes = 2
INVARIANTS
  TypeOK
  CreatedOnce
  GetsOwnRun
PROPERTY ImplementsRegistry
