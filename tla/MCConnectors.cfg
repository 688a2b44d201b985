SPECIFICATION Spec
CONSTANTS
  t1 = t1
  t2 = t2
  c1 = c1
  s1 = s1
  s2 = s2
  s3 = s3
  s4 = s4
  None = None
  Thread <- Threads
  Connector <- Connectors1
  Secret <- Secrets
SYMMETRY Symmetry
INVARIANTS
  TypeOK
  SecretPresent
  NoOrphan
  ScopeMatches
CHECK_DEADLOCK FALSE
