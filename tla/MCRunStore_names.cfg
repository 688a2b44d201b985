SPECIFICATION Spec
CONSTANTS
  Caller <- FixedNameCaller
  Request <- FixedNameRequest
  Name = {"n1"}
  Pending = Pending
  Failed = Failed
  MaxDeletes = 0
INVARIANT NamesAreUnique
