------------------------- MODULE ClientConfigProofs -------------------------
(***************************************************************************)
(* Proofs about ClientConfig for any number of clients, stacks and         *)
(* workspaces.                                                             *)
(***************************************************************************)
EXTENDS ClientConfig, TLAPS

\* The default configuration of a workspace is a configuration of it.
LEMMA DefaultMatches ==
  ASSUME NEW w \in Workspace
  PROVE  Default(w) \in Config /\ Matches(Default(w))
<1>1. DefaultStack[w] \in Stack /\ WorkspaceOf[DefaultStack[w]] = w
  BY DefaultAssumption
<1> QED
  BY <1>1 DEF Default, Config, Matches

\* What Dump assigns to astray is a truth value.
LEMMA MembershipIsBoolean == ASSUME NEW x, NEW S PROVE (x \in S) \in BOOLEAN
BY SMT

\* Every client starts with a configuration, or without one.
LEMMA TypeInit == Init => TypeOK
<1> SUFFICES ASSUME Init PROVE TypeOK
  OBVIOUS
<1>1. Default(DefaultWorkspace) \in Config /\ DefaultWorkspace \in Workspace
  BY DefaultMatches, DefaultAssumption
<1> QED
  BY <1>1 DEF Init, TypeOK, Return

\* validate_active_config returns a stack of the workspace.
LEMMA ValidStackType ==
  ASSUME NEW w \in Workspace, NEW s \in Stack
  PROVE  ValidStack(w, s) \in Stack /\ WorkspaceOf[ValidStack(w, s)] = w
BY DefaultAssumption DEF ValidStack

\* A client that an exception stops keeps the types.
LEMMA RaiseType ==
  ASSUME TypeOK, NEW c \in Client, Raise(c), astray' \in BOOLEAN
  PROVE  TypeOK'
<1> USE DEF TypeOK, Return
<1>1. UNCHANGED <<file, stacks, foreign>>
  BY DEF Raise
<1>2. arg' \in [Client -> Workspace]
  BY DefaultAssumption DEF Raise
<1>3. Default(DefaultWorkspace) \in Config
  BY DefaultMatches, DefaultAssumption
<1>4. /\ starting' = starting \ {c} /\ seen' = seen \ {c}
      /\ c \in starting => Calls(c, "off", "idle") /\ Forget(c)
      /\ c \notin starting =>
           Calls(c, "idle", "idle") /\ UNCHANGED <<mem, fresh, overtaken>>
  BY DEF Raise
<1>5. CASE c \in starting
  <2>1. pc' = [pc EXCEPT ![c] = "off"] /\ after' = [after EXCEPT ![c] = "idle"]
    BY <1>4, <1>5 DEF Calls, Goto
  <2>2. /\ mem' = [mem EXCEPT ![c] = Default(DefaultWorkspace)]
        /\ fresh' = fresh \ {c} /\ overtaken' = overtaken \ {c}
    BY <1>4, <1>5 DEF Forget
  <2> QED
    BY <1>1, <1>2, <1>3, <1>4, <2>1, <2>2
<1>6. CASE c \notin starting
  BY <1>1, <1>2, <1>4, <1>6 DEF Calls, Goto
<1> QED
  BY <1>5, <1>6

\* Every step keeps the types.
LEMMA TypeStep == TypeOK /\ [Next]_vars => TypeOK'
<1> SUFFICES ASSUME TypeOK, [Next]_vars PROVE TypeOK'
  OBVIOUS
<1> USE DEF TypeOK, Return
<1>1. ASSUME NEW c \in Client, Truncate(c) PROVE TypeOK'
  BY <1>1 DEF Truncate, Calls, Goto
<1>2. ASSUME NEW c \in Client, Dump(c) PROVE TypeOK'
  <2>1. astray' \in BOOLEAN
    <3>1. astray' = (c \in foreign)
      BY <1>2 DEF Dump
    <3>2. (c \in foreign) \in BOOLEAN
      BY MembershipIsBoolean
    <3> QED
      BY <3>1, <3>2, Zenon
  <2>2. mem[c] \in Config /\ foreign' = foreign \ {c}
    BY <1>2 DEF Dump
  <2> QED
    BY <1>2, <2>1, <2>2 DEF Dump, Goto
<1>3. ASSUME NEW c \in Client, RememberTime(c) PROVE TypeOK'
  BY <1>3 DEF RememberTime, Calls, Goto
<1>4. ASSUME NEW c \in Client, CompareTimes(c) PROVE TypeOK'
  BY <1>4 DEF CompareTimes, Calls, Goto
<1>5. ASSUME NEW c \in Client, Load(c) PROVE TypeOK'
  BY <1>5 DEF Load, Calls, Goto
<1>6. ASSUME NEW c \in Client, LoadRaises(c) PROVE TypeOK'
  <2>1. Raise(c) /\ astray' \in BOOLEAN
    BY <1>6 DEF LoadRaises
  <2> QED
    BY <2>1, RaiseType
<1>7. ASSUME NEW c \in Client, RememberTimeBefore(c) PROVE TypeOK'
  BY <1>7 DEF RememberTimeBefore, Calls, Goto
<1>8. ASSUME NEW c \in Client, Start(c) PROVE TypeOK'
  BY <1>8 DEF Start, Calls, Goto
<1>9. ASSUME NEW c \in Client, ReadActiveStack(c) PROVE TypeOK'
  BY <1>9 DEF ReadActiveStack, Calls, Goto
<1>10. ASSUME NEW c \in Client, LoadWorkspace(c) PROVE TypeOK'
  BY <1>10 DEF LoadWorkspace, Calls, Goto
<1>11. ASSUME NEW c \in Client, LoadStack(c) PROVE TypeOK'
  BY <1>11 DEF LoadStack, Calls, Goto, Config
<1>12. ASSUME NEW c \in Client, SetStack(c) PROVE TypeOK'
  <2>1. mem[c].stack \in Stack /\ mem[c].workspace \in Workspace
    BY DEF Config
  <2>2. ValidStack(arg[c], mem[c].stack) \in Stack
    BY <2>1, ValidStackType
  <2> QED
    BY <1>12, <2>1, <2>2 DEF SetStack, Calls, Goto, Config
<1>13. ASSUME NEW c \in Client, SetWorkspace(c) PROVE TypeOK'
  <2>1. mem' \in [Client -> Config]
    BY <1>13 DEF SetWorkspace, Config
  <2>2. arg' \in [Client -> Workspace]
    BY <1>13, DefaultAssumption DEF SetWorkspace
  <2> QED
    BY <1>13, <2>1, <2>2 DEF SetWorkspace, Calls, Goto
<1>14. ASSUME NEW c \in Client, Exit(c) PROVE TypeOK'
  BY <1>14, DefaultMatches, DefaultAssumption DEF Exit, Forget, Calls, Goto
<1>15. ASSUME NEW c \in Client, NEW s \in Stack, ActivateStack(c, s) PROVE TypeOK'
  BY <1>15 DEF ActivateStack, Calls, Goto, Config
<1>16. ASSUME NEW c \in Client, NEW w \in Workspace, SetActiveWorkspace(c, w)
      PROVE  TypeOK'
  BY <1>16 DEF SetActiveWorkspace, Calls, Goto, Config
<1>17. ASSUME NEW s \in Stack, DeleteStack(s) PROVE TypeOK'
  BY <1>17 DEF DeleteStack
<1>18. CASE UNCHANGED vars
  BY <1>18 DEF vars
<1>19. ASSUME NEW c \in Client, ValidateRaises(c) PROVE TypeOK'
  <2>1. Raise(c) /\ astray' \in BOOLEAN
    BY <1>19 DEF ValidateRaises
  <2> QED
    BY <2>1, RaiseType
<1> QED
  BY <1>1, <1>2, <1>3, <1>4, <1>5, <1>6, <1>7, <1>8, <1>9, <1>10, <1>11,
  <1>12, <1>13, <1>14, <1>15, <1>16, <1>17, <1>18, <1>19
  DEF Next, Decide, Step, Sync, Sanitize, StartRaises

\* The type invariant of the file and of the clients.
THEOREM TypeCorrect == Spec => []TypeOK
BY TypeInit, TypeStep, PTL DEF Spec

-----------------------------------------------------------------------------
\* No client has a copy at first.
LEMMA CopyInit == Init => CopyInv
BY DEF Init, CopyInv

\* A client that remembers the file's time has what the file has: any other
\* write takes the time away from all.
LEMMA CopyStep == TypeOK /\ CopyInv /\ [Next]_vars => CopyInv'
<1> SUFFICES ASSUME TypeOK, CopyInv, [Next]_vars PROVE CopyInv'
  OBVIOUS
<1> USE DEF TypeOK, CopyInv, Return
<1>1. ASSUME NEW c \in Client, Truncate(c) PROVE CopyInv'
  BY <1>1 DEF Truncate, Calls, Goto
<1>2. ASSUME NEW c \in Client, Dump(c) PROVE CopyInv'
  BY <1>2 DEF Dump, Calls, Goto
<1>3. ASSUME NEW c \in Client, RememberTime(c) PROVE CopyInv'
  BY <1>3 DEF RememberTime, Calls, Goto
<1>4. ASSUME NEW c \in Client, CompareTimes(c) PROVE CopyInv'
  <2>1. CASE c \in fresh
    <3>1. UNCHANGED <<file, mem, fresh, seen, overtaken>> /\ c \notin seen
      BY <1>4, <2>1 DEF CompareTimes
    <3>2. pc'[c] \in Return /\ \A d \in Client \ {c} : pc'[d] = pc[d]
      BY <1>4, <2>1 DEF CompareTimes, Goto
    <3>3. c \in fresh \ overtaken => mem[c] = file
      BY <1>4 DEF CompareTimes
    <3> QED
      BY <3>1, <3>2, <3>3
  <2>2. CASE c \notin fresh
    <3>1. UNCHANGED <<file, mem, fresh, overtaken>> /\ seen' = seen \cup {c}
      BY <1>4, <2>2 DEF CompareTimes
    <3>2. pc'[c] = "read_yaml" /\ \A d \in Client \ {c} : pc'[d] = pc[d]
      BY <1>4, <2>2 DEF CompareTimes, Goto
    <3> QED
      BY <2>2, <3>1, <3>2
  <2> QED
    BY <2>1, <2>2
<1>5. ASSUME NEW c \in Client, Load(c) PROVE CopyInv'
  BY <1>5 DEF Load, Calls, Goto
<1>6. ASSUME NEW c \in Client, LoadRaises(c) PROVE CopyInv'
  BY <1>6 DEF LoadRaises, Raise, Forget, Calls, Goto
<1>7. ASSUME NEW c \in Client, RememberTimeBefore(c) PROVE CopyInv'
  BY <1>7 DEF RememberTimeBefore, Calls, Goto
<1>8. ASSUME NEW c \in Client, Start(c) PROVE CopyInv'
  BY <1>8 DEF Start, Calls, Goto
<1>9. ASSUME NEW c \in Client, ReadActiveStack(c) PROVE CopyInv'
  BY <1>9 DEF ReadActiveStack, Calls, Goto
<1>10. ASSUME NEW c \in Client, LoadWorkspace(c) PROVE CopyInv'
  BY <1>10 DEF LoadWorkspace, Calls, Goto
<1>11. ASSUME NEW c \in Client, LoadStack(c) PROVE CopyInv'
  BY <1>11 DEF LoadStack, Calls, Goto
<1>12. ASSUME NEW c \in Client, SetStack(c) PROVE CopyInv'
  BY <1>12 DEF SetStack, Calls, Goto
<1>13. ASSUME NEW c \in Client, SetWorkspace(c) PROVE CopyInv'
  BY <1>13 DEF SetWorkspace, Calls, Goto
<1>14. ASSUME NEW c \in Client, Exit(c) PROVE CopyInv'
  BY <1>14 DEF Exit, Forget, Calls, Goto
<1>15. ASSUME NEW c \in Client, NEW s \in Stack, ActivateStack(c, s) PROVE CopyInv'
  BY <1>15 DEF ActivateStack, Calls, Goto
<1>16. ASSUME NEW c \in Client, NEW w \in Workspace, SetActiveWorkspace(c, w)
      PROVE  CopyInv'
  BY <1>16 DEF SetActiveWorkspace, Calls, Goto
<1>17. ASSUME NEW s \in Stack, DeleteStack(s) PROVE CopyInv'
  BY <1>17 DEF DeleteStack
<1>18. CASE UNCHANGED vars
  BY <1>18 DEF vars
<1>19. ASSUME NEW c \in Client, ValidateRaises(c) PROVE CopyInv'
  BY <1>19 DEF ValidateRaises, Raise, Forget, Calls, Goto
<1> QED
  BY <1>1, <1>2, <1>3, <1>4, <1>5, <1>6, <1>7, <1>8, <1>9, <1>10, <1>11,
  <1>12, <1>13, <1>14, <1>15, <1>16, <1>17, <1>18, <1>19
  DEF Next, Decide, Step, Sync, Sanitize, StartRaises

\* However loads and writes interleave, a client that takes its copy for up to
\* date is right, unless another one wrote between its write and the getmtime
\* that follows (FileSyncModel.load_config and write_config).
THEOREM Coherence == Spec => []Coherent
<1>1. TypeOK /\ CopyInv => Coherent
  BY DEF TypeOK, CopyInv, Coherent
<1> QED
  BY <1>1, CopyInit, CopyStep, TypeCorrect, PTL DEF Spec

-----------------------------------------------------------------------------
\* The file matches at first.
LEMMA RepairInit == Init => RepairInv
BY DefaultMatches, DefaultAssumption, EmptyAssumption
DEF Init, RepairInv, Writing, InMethod, Return

\* An exception takes no write with it that the file needs, unless it leaves the
\* file astray or another client is writing it.
LEMMA RaiseRepair ==
  ASSUME TypeOK, RepairInv, NEW c \in Client, Raise(c),
         astray' \/ (file = Empty /\ \E d \in Client \ {c} : pc[d] = "dump")
  PROVE  RepairInv'
<1>1. /\ UNCHANGED <<file, foreign>>
      /\ pc'[c] \in {"off", "idle"} /\ after'[c] = "idle"
      /\ \A d \in Client \ {c} : pc'[d] = pc[d] /\ after'[d] = after[d]
  BY DEF Raise, Calls, Goto, TypeOK
<1>2. \A d \in Client \ {c} : mem'[d] = mem[d] /\ arg'[d] = arg[d]
  BY DEF Raise, Forget, TypeOK
<1>3. astray' \/ (file' = Empty /\ \E d \in Client : pc'[d] = "dump")
  BY <1>1
<1>4. ASSUME NEW d \in Client
      PROVE  /\ pc'[d] \in {"load_config", "read_yaml", "file_timestamp"} =>
                  after'[d] \in {"load stack", "sanitize", "idle"}
             /\ \/ pc'[d] = "set workspace"
                \/ InMethod(d)' /\ after'[d] = "set workspace"
                => WorkspaceOf[mem'[d].stack] = arg'[d]
             /\ Writing(d)' /\ after'[d] = "idle" /\ d \notin foreign' => Matches(mem'[d])
  BY <1>1, <1>2 DEF RepairInv, Writing, InMethod, Matches
<1> QED
  BY <1>3, <1>4
  DEF RepairInv, Writing, InMethod, WillWrite, Matches, Return

\* A client that writes values that do not match, or empties the file, writes
\* once more.
LEMMA RepairStep == TypeOK /\ RepairInv /\ [Next]_vars => RepairInv'
<1> SUFFICES ASSUME TypeOK, RepairInv, [Next]_vars PROVE RepairInv'
  OBVIOUS
<1> USE DEF TypeOK, RepairInv, Writing, InMethod, WillWrite, Matches, Return
<1>1. ASSUME NEW c \in Client, Truncate(c) PROVE RepairInv'
  BY <1>1 DEF Truncate, Calls, Goto
<1>2. ASSUME NEW c \in Client, Dump(c) PROVE RepairInv'
  <2>1. file' = mem[c] /\ mem[c] # Empty
    <3>1. mem[c] \in Config
      OBVIOUS
    <3> QED
      BY <1>2, <3>1, EmptyAssumption DEF Dump
  <2>2. ~astray' /\ ~Matches(file') => WillWrite(c)'
    BY <1>2, <2>1 DEF Dump, Goto
  <2>3. UNCHANGED <<after, mem, arg>> /\ pc'[c] = "getmtime"
       /\ foreign' = foreign \ {c}
    BY <1>2 DEF Dump, Goto
  <2>4. \A d \in Client \ {c} : pc'[d] = pc[d]
    BY <1>2 DEF Dump, Goto
  <2>5. pc[c] = "dump"
    BY <1>2 DEF Dump
  <2>6. ASSUME NEW d \in Client
        PROVE  /\ pc'[d] \in {"load_config", "read_yaml", "file_timestamp"} =>
                    after'[d] \in {"load stack", "sanitize", "idle"}
               /\ \/ pc'[d] = "set workspace"
                  \/ InMethod(d)' /\ after'[d] = "set workspace"
                  => WorkspaceOf[mem'[d].stack] = arg'[d]
               /\ Writing(d)' /\ after'[d] = "idle" /\ d \notin foreign' => Matches(mem'[d])
    BY <2>3, <2>4, <2>5
  <2> QED
    BY <2>1, <2>2, <2>6
<1>3. ASSUME NEW c \in Client, RememberTime(c) PROVE RepairInv'
  BY <1>3 DEF RememberTime, Calls, Goto
<1>4. ASSUME NEW c \in Client, CompareTimes(c) PROVE RepairInv'
  <2>1. \A d \in Client : WillWrite(d) => WillWrite(d)'
    BY <1>4 DEF CompareTimes, Calls, Goto
  <2>2. ~astray' /\ file' # Empty /\ ~Matches(file') => \E d \in Client : WillWrite(d)
    BY <1>4 DEF CompareTimes, Calls, Goto
  <2>3. ~astray' /\ file' = Empty => \E d \in Client : pc'[d] = "dump"
    BY <1>4 DEF CompareTimes, Calls, Goto
  <2>4. ASSUME NEW d \in Client
        PROVE  /\ pc'[d] \in {"load_config", "read_yaml", "file_timestamp"} =>
                    after'[d] \in {"load stack", "sanitize", "idle"}
               /\ \/ pc'[d] = "set workspace"
                  \/ InMethod(d)' /\ after'[d] = "set workspace"
                  => WorkspaceOf[mem'[d].stack] = arg'[d]
               /\ Writing(d)' /\ after'[d] = "idle" /\ d \notin foreign' => Matches(mem'[d])
    BY <1>4 DEF CompareTimes, Calls, Goto
  <2> QED
    BY <2>1, <2>2, <2>3, <2>4
<1>5. ASSUME NEW c \in Client, Load(c) PROVE RepairInv'
  <2>1. \A d \in Client : WillWrite(d) => WillWrite(d)'
    BY <1>5 DEF Load, Calls, Goto
  <2>2. ~astray' /\ file' # Empty /\ ~Matches(file') => \E d \in Client : WillWrite(d)
    BY <1>5 DEF Load, Calls, Goto
  <2>3. ~astray' /\ file' = Empty => \E d \in Client : pc'[d] = "dump"
    BY <1>5 DEF Load, Calls, Goto
  <2>4. ASSUME NEW d \in Client
        PROVE  /\ pc'[d] \in {"load_config", "read_yaml", "file_timestamp"} =>
                    after'[d] \in {"load stack", "sanitize", "idle"}
               /\ \/ pc'[d] = "set workspace"
                  \/ InMethod(d)' /\ after'[d] = "set workspace"
                  => WorkspaceOf[mem'[d].stack] = arg'[d]
               /\ Writing(d)' /\ after'[d] = "idle" /\ d \notin foreign' => Matches(mem'[d])
    BY <1>5 DEF Load, Calls, Goto
  <2> QED
    BY <2>1, <2>2, <2>3, <2>4
<1>6. ASSUME NEW c \in Client, LoadRaises(c) PROVE RepairInv'
  <2>1. pc[c] = "read_yaml" /\ file = Empty /\ astray' = astray /\ Raise(c)
    BY <1>6 DEF LoadRaises
  <2>2. astray' \/ \E d \in Client \ {c} : pc[d] = "dump"
    BY <2>1
  <2> HIDE DEF TypeOK, RepairInv, Writing, InMethod, WillWrite, Matches, Return
  <2> QED
    BY <2>1, <2>2, RaiseRepair
<1>7. ASSUME NEW c \in Client, RememberTimeBefore(c) PROVE RepairInv'
  BY <1>7 DEF RememberTimeBefore, Calls, Goto
<1>8. ASSUME NEW c \in Client, Start(c) PROVE RepairInv'
  BY <1>8 DEF Start, Calls, Goto
<1>9. ASSUME NEW c \in Client, ReadActiveStack(c) PROVE RepairInv'
  BY <1>9 DEF ReadActiveStack, Calls, Goto
<1>10. ASSUME NEW c \in Client, LoadWorkspace(c) PROVE RepairInv'
  BY <1>10 DEF LoadWorkspace, Calls, Goto
<1>11. ASSUME NEW c \in Client, LoadStack(c) PROVE RepairInv'
  BY <1>11 DEF LoadStack, Calls, Goto
<1>12. ASSUME NEW c \in Client, SetStack(c) PROVE RepairInv'
  <2>1. \A d \in Client : WillWrite(d) => WillWrite(d)'
    BY <1>12 DEF SetStack, Calls, Goto
  <2>2. ~astray' /\ file' # Empty /\ ~Matches(file') => \E d \in Client : WillWrite(d)
    BY <1>12 DEF SetStack, Calls, Goto
  <2>3. ~astray' /\ file' = Empty => \E d \in Client : pc'[d] = "dump"
    BY <1>12 DEF SetStack, Calls, Goto
  <2>4. ASSUME NEW d \in Client
        PROVE  /\ pc'[d] \in {"load_config", "read_yaml", "file_timestamp"} =>
                    after'[d] \in {"load stack", "sanitize", "idle"}
               /\ \/ pc'[d] = "set workspace"
                  \/ InMethod(d)' /\ after'[d] = "set workspace"
                  => WorkspaceOf[mem'[d].stack] = arg'[d]
               /\ Writing(d)' /\ after'[d] = "idle" /\ d \notin foreign' => Matches(mem'[d])
    <3>1. mem[c].stack \in Stack /\ mem'[c].stack = ValidStack(arg[c], mem[c].stack)
      BY <1>12 DEF SetStack, Config
    <3>2. WorkspaceOf[mem'[c].stack] = arg'[c]
      <4>1. arg[c] \in Workspace /\ arg'[c] = arg[c]
        BY <1>12 DEF SetStack
      <4> HIDE DEF TypeOK, RepairInv
      <4> QED
        BY <3>1, <4>1, ValidStackType
    <3>3. pc'[c] = "write_config" /\ after'[c] = "set workspace"
      BY <1>12 DEF SetStack, Calls, Goto
    <3>4. CASE d = c
      BY <3>2, <3>3, <3>4
    <3>5. CASE d # c
      BY <1>12, <3>5 DEF SetStack, Calls, Goto
    <3> QED
      BY <3>4, <3>5
  <2> QED
    BY <2>1, <2>2, <2>3, <2>4
<1>13. ASSUME NEW c \in Client, SetWorkspace(c) PROVE RepairInv'
  <2>1. \A d \in Client : WillWrite(d) => WillWrite(d)'
    BY <1>13 DEF SetWorkspace, Calls, Goto
  <2>2. ~astray' /\ file' # Empty /\ ~Matches(file') => \E d \in Client : WillWrite(d)
    BY <1>13 DEF SetWorkspace, Calls, Goto
  <2>3. ~astray' /\ file' = Empty => \E d \in Client : pc'[d] = "dump"
    BY <1>13 DEF SetWorkspace, Calls, Goto
  <2>4. ASSUME NEW d \in Client
        PROVE  /\ pc'[d] \in {"load_config", "read_yaml", "file_timestamp"} =>
                    after'[d] \in {"load stack", "sanitize", "idle"}
               /\ \/ pc'[d] = "set workspace"
                  \/ InMethod(d)' /\ after'[d] = "set workspace"
                  => WorkspaceOf[mem'[d].stack] = arg'[d]
               /\ Writing(d)' /\ after'[d] = "idle" /\ d \notin foreign' => Matches(mem'[d])
    <3>1. mem'[c].stack = mem[c].stack /\ mem'[c].workspace = arg[c]
      BY <1>13 DEF SetWorkspace, Config
    <3>2. Matches(mem'[c])
      BY <1>13, <3>1 DEF SetWorkspace
    <3>3. pc'[c] = "write_config" /\ after'[c] = "idle"
      BY <1>13 DEF SetWorkspace, Calls, Goto
    <3>4. CASE d = c
      BY <3>2, <3>3, <3>4
    <3>5. CASE d # c
      BY <1>13, <3>5 DEF SetWorkspace, Calls, Goto
    <3> QED
      BY <3>4, <3>5
  <2> QED
    BY <2>1, <2>2, <2>3, <2>4
<1>14. ASSUME NEW c \in Client, Exit(c) PROVE RepairInv'
  BY <1>14 DEF Exit, Forget, Calls, Goto
<1>15. ASSUME NEW c \in Client, NEW s \in Stack, ActivateStack(c, s) PROVE RepairInv'
  <2>1. \A d \in Client : WillWrite(d) => WillWrite(d)'
    BY <1>15 DEF ActivateStack, Calls, Goto
  <2>2. ~astray' /\ file' # Empty /\ ~Matches(file') => \E d \in Client : WillWrite(d)
    BY <1>15 DEF ActivateStack, Calls, Goto
  <2>3. ~astray' /\ file' = Empty => \E d \in Client : pc'[d] = "dump"
    BY <1>15 DEF ActivateStack, Calls, Goto
  <2>4. ASSUME NEW d \in Client
        PROVE  /\ pc'[d] \in {"load_config", "read_yaml", "file_timestamp"} =>
                    after'[d] \in {"load stack", "sanitize", "idle"}
               /\ \/ pc'[d] = "set workspace"
                  \/ InMethod(d)' /\ after'[d] = "set workspace"
                  => WorkspaceOf[mem'[d].stack] = arg'[d]
               /\ Writing(d)' /\ after'[d] = "idle" /\ d \notin foreign' => Matches(mem'[d])
    <3>1. mem'[c].stack = s /\ mem'[c].workspace = mem[c].workspace
      BY <1>15 DEF ActivateStack, Config
    <3>2. c \notin foreign' => Matches(mem'[c])
      BY <1>15, <3>1 DEF ActivateStack
    <3>3. pc'[c] = "write_config" /\ after'[c] = "idle"
      BY <1>15 DEF ActivateStack, Calls, Goto
    <3>4. CASE d = c
      BY <3>2, <3>3, <3>4
    <3>5. CASE d # c
      BY <1>15, <3>5 DEF ActivateStack, Calls, Goto
    <3> QED
      BY <3>4, <3>5
  <2> QED
    BY <2>1, <2>2, <2>3, <2>4
<1>16. ASSUME NEW c \in Client, NEW w \in Workspace, SetActiveWorkspace(c, w)
      PROVE  RepairInv'
  BY <1>16 DEF SetActiveWorkspace, Calls, Goto
<1>17. ASSUME NEW s \in Stack, DeleteStack(s) PROVE RepairInv'
  BY <1>17 DEF DeleteStack
<1>18. CASE UNCHANGED vars
  BY <1>18 DEF vars
<1>19. ASSUME NEW c \in Client, ValidateRaises(c) PROVE RepairInv'
  <2>1. Raise(c) /\ astray'
    BY <1>19 DEF ValidateRaises
  <2> HIDE DEF TypeOK, RepairInv, Writing, InMethod, WillWrite, Matches, Return
  <2> QED
    BY <2>1, RaiseRepair
<1> QED
  BY <1>1, <1>2, <1>3, <1>4, <1>5, <1>6, <1>7, <1>8, <1>9, <1>10, <1>11,
  <1>12, <1>13, <1>14, <1>15, <1>16, <1>17, <1>18, <1>19
  DEF Next, Decide, Step, Sync, Sanitize, StartRaises

\* When no client is busy the file has a stack of its workspace, unless it is
\* astray: the last to write it activated a stack of another workspace, or one
\* that had not finished was killed or stopped by an exception since
\* (Client._sanitize_config).
THEOREM Repaired == Spec => []StackOfWorkspace
<1>1. RepairInv => StackOfWorkspace
  BY DEF RepairInv, StackOfWorkspace, Quiet, WillWrite, Writing, InMethod,
     Matches, Return
<1> QED
  BY <1>1, RepairInit, RepairStep, TypeCorrect, PTL DEF Spec
=============================================================================
