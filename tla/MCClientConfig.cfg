SPECIFICATION Spec
CONSTANTS
  Client = {c1, c2}
  Stack = {"default", "local", "remote"}
  Workspace = {"home", "team"}
  WorkspaceOf <- MCWorkspaceOf
  DefaultWorkspace = "home"
  DefaultStack <- MCDefaultStack
  Empty = Empty
SYMMETRY Clients
INVARIANTS
  TypeOK
  Coherent
  StackOfWorkspace
