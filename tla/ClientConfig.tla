---------------------------- MODULE ClientConfig ----------------------------
(***************************************************************************)
(* The configuration file of a repository and the clients (processes: a    *)
(* notebook, the CLI, a dashboard) that keep a copy of it in memory        *)
(* (utils/filesync_model.py, ClientConfiguration and Client in client.py). *)
(* There is no lock: a client writes all of its copy, and tells from the   *)
(* file's modification time whether another one has written since.         *)
(*                                                                         *)
(* A write is assumed to give the file a time it never had.  What a client *)
(* remembers or holds in file_timestamp is then the time of the file as it *)
(* is, or of a file that is no more: a time is modelled by that bit.       *)
(***************************************************************************)
EXTENDS FiniteSets

CONSTANTS Client,           \* the processes
          Stack, Workspace,
          WorkspaceOf,      \* the workspace of a stack
          DefaultWorkspace,
          DefaultStack,     \* the default stack of a workspace, never deleted
          Empty             \* the file while it is being written

ASSUME WorkspaceOfAssumption == WorkspaceOf \in [Stack -> Workspace]
ASSUME DefaultAssumption ==
  /\ DefaultWorkspace \in Workspace
  /\ DefaultStack \in [Workspace -> Stack]
  /\ \A w \in Workspace : WorkspaceOf[DefaultStack[w]] = w

\* What the file and the copies hold: active_workspace_id, active_stack_id.
Config == [workspace : Workspace, stack : Stack]
ASSUME EmptyAssumption == Empty \notin Config

VARIABLES
  file,       \* the contents of config.yaml
  stacks,     \* the stacks that the store knows
  pc,         \* what each client does
  after,      \* where it goes on after write_config or load_config
  mem,        \* its copy
  starting,   \* the clients whose Client.__init__ has not returned
  arg,        \* the workspace that its _sanitize_config works on
  fresh,      \* the clients whose _config_file_timestamp is the file's time
  seen,       \* the clients whose variable file_timestamp is
  overtaken,  \* history: see Coherent
  foreign,    \* history: the clients about to write a stack of another workspace
  astray      \* history: see StackOfWorkspace

vars == <<file, stacks, pc, after, mem, starting, arg, fresh, seen, overtaken,
          foreign, astray>>

\* Where write_config and load_config return to.
Return == {"load workspace", "load stack", "set workspace", "sanitize", "idle"}

Default(w) == [workspace |-> w, stack |-> DefaultStack[w]]

Init ==
  /\ file = Default(DefaultWorkspace)
  /\ stacks = Stack
  /\ pc = [c \in Client |-> "off"]
  /\ after = [c \in Client |-> "idle"]
  /\ mem = [c \in Client |-> Default(DefaultWorkspace)]
  /\ starting = {}
  /\ arg = [c \in Client |-> DefaultWorkspace]
  /\ fresh = {} /\ seen = {} /\ overtaken = {}
  /\ foreign = {} /\ astray = FALSE

Goto(c, where) == pc' = [pc EXCEPT ![c] = where]
Calls(c, method, return) ==
  Goto(c, method) /\ after' = [after EXCEPT ![c] = return]

Writing(c) == pc[c] \in {"write_config", "dump"}
InMethod(c) == Writing(c) \/ pc[c] \in {"getmtime", "load_config", "read_yaml",
                                      "file_timestamp"}

\* The client will write once more, unless it finds the file empty.
WillWrite(c) == \/ Writing(c) \/ pc[c] \in Return \ {"idle"}
                \/ InMethod(c) /\ after[c] # "idle"

\* The client's copy goes with the object that had it.
Forget(c) ==
  /\ mem' = [mem EXCEPT ![c] = Default(DefaultWorkspace)]
  /\ fresh' = fresh \ {c} /\ overtaken' = overtaken \ {c}

\* An exception leaves what the client does; Client.__init__ gives no client then.
Raise(c) ==
  /\ IF c \in starting THEN Calls(c, "off", "idle") /\ Forget(c)
     ELSE Calls(c, "idle", "idle") /\ UNCHANGED <<mem, fresh, overtaken>>
  /\ starting' = starting \ {c} /\ seen' = seen \ {c}
  /\ arg' = [arg EXCEPT ![c] = DefaultWorkspace]
  /\ UNCHANGED <<file, stacks, foreign>>

-----------------------------------------------------------------------------
(* FileSyncModel.                                                          *)

\* open(file_path, "w"): the file is empty, and has a new time.
Truncate(c) ==
  /\ pc[c] = "write_config"
  /\ file' = Empty
  /\ fresh' = {} /\ seen' = {}
  /\ overtaken' = (overtaken \ {c}) \cup {d \in Client \ {c} : pc[d] = "getmtime"}
  /\ Goto(c, "dump")
  /\ UNCHANGED <<stacks, after, mem, starting, arg, foreign, astray>>

Dump(c) ==
  /\ pc[c] = "dump"
  /\ file' = mem[c]
  /\ fresh' = {} /\ seen' = {}
  /\ overtaken' = overtaken \cup {d \in Client \ {c} : pc[d] = "getmtime"}
  /\ astray' = (c \in foreign) /\ foreign' = foreign \ {c}
  /\ Goto(c, "getmtime")
  /\ UNCHANGED <<stacks, after, mem, starting, arg>>

\* The time that write_config remembers is the file's, whoever wrote last.
RememberTime(c) ==
  /\ pc[c] = "getmtime"
  /\ fresh' = fresh \cup {c}
  /\ Goto(c, after[c])
  /\ UNCHANGED <<file, stacks, after, mem, starting, arg, seen, overtaken,
                 foreign, astray>>

\* load_config: is the copy out of date?
CompareTimes(c) ==
  /\ pc[c] = "load_config"
  /\ IF c \in fresh THEN Goto(c, after[c]) /\ UNCHANGED seen
                    ELSE Goto(c, "read_yaml") /\ seen' = seen \cup {c}
  /\ UNCHANGED <<file, stacks, after, mem, starting, arg, fresh, overtaken,
                 foreign, astray>>

\* Mutant of Load: an empty file is taken for a configuration.
LoadWhatever(c) ==
  /\ pc[c] = "read_yaml"
  /\ mem' = [mem EXCEPT ![c] = file]
  /\ overtaken' = overtaken \ {c}
  /\ Goto(c, "file_timestamp")
  /\ UNCHANGED <<file, stacks, after, starting, arg, fresh, seen, foreign, astray>>

\* load_config: read the file into the copy.
Load(c) ==
  /\ pc[c] = "read_yaml" /\ file # Empty
  /\ mem' = [mem EXCEPT ![c] = file]
  /\ overtaken' = overtaken \ {c}
  /\ Goto(c, "file_timestamp")
  /\ UNCHANGED <<file, stacks, after, starting, arg, fresh, seen, foreign, astray>>

\* Mutant of RememberTimeBefore: the time is asked for once more.
RememberTimeAfter(c) ==
  /\ pc[c] = "file_timestamp"
  /\ fresh' = fresh \cup {c}
  /\ seen' = seen \ {c}
  /\ Goto(c, after[c])
  /\ UNCHANGED <<file, stacks, after, mem, starting, arg, overtaken, foreign,
                 astray>>

\* load_config: remember the time the file had before it was read.
RememberTimeBefore(c) ==
  /\ pc[c] = "file_timestamp"
  /\ fresh' = IF c \in seen THEN fresh \cup {c} ELSE fresh
  /\ seen' = seen \ {c}
  /\ Goto(c, after[c])
  /\ UNCHANGED <<file, stacks, after, mem, starting, arg, overtaken, foreign,
                 astray>>

\* load_config: an empty file is None to read_yaml, and None.items() raises.
LoadRaises(c) ==
  /\ pc[c] = "read_yaml" /\ file = Empty
  /\ Raise(c)
  /\ UNCHANGED astray

Sync(c) ==
  \/ Truncate(c) \/ Dump(c) \/ RememberTime(c)
  \/ CompareTimes(c) \/ Load(c) \/ LoadRaises(c) \/ RememberTimeBefore(c)

-----------------------------------------------------------------------------
(* Client.                                                                 *)

\* A process starts: FileSyncModel.__init__ reads the file.
Start(c) ==
  /\ pc[c] = "off" /\ file # Empty
  /\ mem' = [mem EXCEPT ![c] = file]
  /\ starting' = starting \cup {c}
  /\ Calls(c, "write_config", "load workspace")
  /\ UNCHANGED <<file, stacks, arg, fresh, seen, overtaken, foreign, astray>>

\* The file that a client killed in write_config has left is None to
\* read_yaml, and None.update() raises: no process starts any more.
StartRaises(c) == pc[c] = "off" /\ file = Empty /\ UNCHANGED vars

\* Client.active_stack_model: read active_stack_id.
ReadActiveStack(c) ==
  /\ pc[c] = "idle"
  /\ Calls(c, "load_config", "idle")
  /\ UNCHANGED <<file, stacks, mem, starting, arg, fresh, seen, overtaken,
                 foreign, astray>>

\* Client.activate_stack.  A name is looked up in _active_workspace, an id in
\* the whole store: of what workspace the stack is, nothing says.
ActivateStack(c, s) ==
  /\ pc[c] = "idle" /\ s \in stacks
  /\ mem' = [mem EXCEPT ![c].stack = s]
  /\ foreign' = IF WorkspaceOf[s] = mem[c].workspace THEN foreign
                 ELSE foreign \cup {c}
  /\ Calls(c, "write_config", "idle")
  /\ UNCHANGED <<file, stacks, starting, arg, fresh, seen, overtaken, astray>>

\* Client.set_active_workspace: write the workspace, then _sanitize_config.
SetActiveWorkspace(c, w) ==
  /\ pc[c] = "idle"
  /\ mem' = [mem EXCEPT ![c].workspace = w]
  /\ Calls(c, "write_config", "load workspace")
  /\ UNCHANGED <<file, stacks, starting, arg, fresh, seen, overtaken, foreign,
                 astray>>

\* _sanitize_config: self._config.active_workspace_id.
LoadWorkspace(c) ==
  /\ pc[c] = "load workspace"
  /\ Calls(c, "load_config", "load stack")
  /\ UNCHANGED <<file, stacks, mem, starting, arg, fresh, seen, overtaken,
                 foreign, astray>>

\* _sanitize_config: self._config.active_stack_id, a load of its own.
LoadStack(c) ==
  /\ pc[c] = "load stack"
  /\ arg' = [arg EXCEPT ![c] = mem[c].workspace]
  /\ Calls(c, "load_config", "sanitize")
  /\ UNCHANGED <<file, stacks, mem, starting, fresh, seen, overtaken, foreign,
                 astray>>

\* Mutant of ValidStack: the workspace of the stack is not looked at.
ExistingStack(w, s) == IF s \in stacks THEN s ELSE DefaultStack[w]

\* validate_active_config: a stack that is gone, or that belongs to another
\* workspace, gives way to the default stack of the workspace.
ValidStack(w, s) ==
  IF s \in stacks /\ WorkspaceOf[s] = w THEN s ELSE DefaultStack[w]

\* _sanitize_config: validate_active_config raises (the store is out of reach),
\* and the workspace that set_active_workspace has written stays.
ValidateRaises(c) ==
  /\ pc[c] = "sanitize"
  /\ astray' = TRUE
  /\ Raise(c)

\* _sanitize_config: validate, and set_active_stack.
SetStack(c) ==
  /\ pc[c] = "sanitize"
  /\ mem' = [mem EXCEPT ![c].stack = ValidStack(arg[c], mem[c].stack)]
  /\ Calls(c, "write_config", "set workspace")
  /\ UNCHANGED <<file, stacks, starting, arg, fresh, seen, overtaken, foreign,
                 astray>>

\* _sanitize_config: set_active_workspace; nothing but its write is left to do.
SetWorkspace(c) ==
  /\ pc[c] = "set workspace"
  /\ mem' = [mem EXCEPT ![c].workspace = arg[c]]
  /\ arg' = [arg EXCEPT ![c] = DefaultWorkspace]
  /\ starting' = starting \ {c}
  /\ Calls(c, "write_config", "idle")
  /\ UNCHANGED <<file, stacks, fresh, seen, overtaken, foreign, astray>>

Sanitize(c) ==
  LoadWorkspace(c) \/ LoadStack(c) \/ ValidateRaises(c) \/ SetStack(c) \/ SetWorkspace(c)

\* A process ends, or is killed in the middle of something.
Exit(c) ==
  /\ pc[c] # "off"
  /\ Calls(c, "off", "idle")
  /\ Forget(c)
  /\ arg' = [arg EXCEPT ![c] = DefaultWorkspace]
  /\ starting' = starting \ {c} /\ seen' = seen \ {c} /\ foreign' = foreign \ {c}
  /\ astray' = (astray \/ WillWrite(c))
  /\ UNCHANGED <<file, stacks>>

\* Somebody deletes a stack.
DeleteStack(s) ==
  /\ s \in stacks /\ \A w \in Workspace : s # DefaultStack[w]
  /\ stacks' = stacks \ {s}
  /\ UNCHANGED <<file, pc, after, mem, starting, arg, fresh, seen, overtaken,
                 foreign, astray>>

\* What somebody decides to do, as against the steps of what he has begun.
Decide ==
  \/ \E c \in Client : \/ Start(c) \/ StartRaises(c) \/ Exit(c)
                       \/ \E s \in Stack : ActivateStack(c, s)
                       \/ \E w \in Workspace : SetActiveWorkspace(c, w)
  \/ \E s \in Stack : DeleteStack(s)

Step(c) == Sync(c) \/ Sanitize(c) \/ ReadActiveStack(c)

Next == Decide \/ \E c \in Client : Step(c)

Spec == Init /\ [][Next]_vars

-----------------------------------------------------------------------------
\* The types of the file and of the clients.
TypeOK ==
  /\ file \in Config \cup {Empty}
  /\ stacks \subseteq Stack
  /\ pc \in [Client -> Return \cup {"off", "write_config", "dump", "getmtime",
                  "load_config", "read_yaml", "file_timestamp"}]
  /\ after \in [Client -> Return]
  /\ mem \in [Client -> Config]
  /\ arg \in [Client -> Workspace]
  /\ fresh \subseteq Client /\ seen \subseteq Client
  /\ overtaken \subseteq Client /\ starting \subseteq Client
  /\ foreign \subseteq Client /\ astray \in BOOLEAN

\* A client that takes its copy for up to date has what the file has, unless
\* another client wrote between its write and the getmtime that follows
\* (write_config), or it is about to write what it has changed: however loads
\* and writes of the clients interleave, load_config misses no other write.
Coherent ==
  \A c \in fresh \ overtaken : mem[c] = file \/ pc[c] = "write_config"

Quiet == \A c \in Client : pc[c] \in {"off", "idle"}

\* Although a client writes its whole copy, however old, and _sanitize_config
\* reads and writes the two values one at a time: when no client is busy, the
\* file has a stack of its workspace.  It has not (astray) as long as the last
\* to write it activated a stack of another workspace, which nothing prevents,
\* or if a client that was not done with it has been killed, or stopped by
\* validate_active_config, since: the next one to write repairs it.
StackOfWorkspace ==
  Quiet /\ ~astray => file # Empty /\ WorkspaceOf[file.stack] = file.workspace

\* The inductive form of Coherent: what holds between the steps of a load and
\* of a write.
CopyInv ==
  \A c \in Client :
    /\ c \in fresh => pc[c] # "dump"
    /\ c \in fresh \ overtaken => mem[c] = file \/ pc[c] = "write_config"
    /\ c \in seen => pc[c] \in {"read_yaml", "file_timestamp"}
    /\ c \in seen /\ pc[c] = "file_timestamp" => mem[c] = file
    /\ pc[c] = "getmtime" /\ c \notin overtaken => mem[c] = file

Matches(conf) == WorkspaceOf[conf.stack] = conf.workspace

\* The inductive form of StackOfWorkspace: a file that is empty or whose values
\* do not match is one that some client is still at work on.
RepairInv ==
  /\ \A c \in Client :
       /\ pc[c] \in {"load_config", "read_yaml", "file_timestamp"} =>
            after[c] \in {"load stack", "sanitize", "idle"}
       /\ \/ pc[c] = "set workspace"
          \/ InMethod(c) /\ after[c] = "set workspace"
          => WorkspaceOf[mem[c].stack] = arg[c]
       /\ Writing(c) /\ after[c] = "idle" /\ c \notin foreign => Matches(mem[c])
  /\ ~astray /\ file = Empty => \E c \in Client : pc[c] = "dump"
  /\ ~astray /\ file # Empty /\ ~Matches(file) => \E c \in Client : WillWrite(c)
=============================================================================
