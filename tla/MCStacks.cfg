CONSTANTS
  Client = {p, q}
  User = {u, v}
  Name = {x, y}
  Stack = {s, r}
  Component = {c, d}
  None = None
  Changes <- OneChange
SPECIFICATION Spec
SYMMETRY Symmetry
INVARIANTS TypeOK OwnNamesDiffer SharedNamesDiffer StacksAreComplete
PROPERTY SharesOnlyShared
CONSTRAINT FewRaced
