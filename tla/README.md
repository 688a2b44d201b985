# ZenML: models, checks and proofs

This directory holds TLA+ models of the parts of ZenML that decide in which
order the steps of a pipeline run, what the store says about them and what
happens when something fails on the way, and of the tables and files that
clients share: stacks, connectors and their secrets, the configuration of a
repository. TLC checks the models on small instances; TLAPS proves the safety
properties for every value of the constants. `PROJECT.json` lists components, runs, theorems, hazards
and findings, and the source lines each definition stands for.

Paths below are relative to `src/zenml/` of the repository.

    tlc -workers 2 -config MCDagRunner_all.cfg MCDagRunner.tla     # a run
    tlapm StepLauncherProofs.tla                                   # the proofs

## 1. Inventory

A pipeline is compiled to a deployment (`config/compiler.py`), which an
orchestrator runs on a stack. For each step some process - a thread of the
client, a pod, a container, a task of an external scheduler - runs a
`StepLauncher`. The launchers share nothing in memory: they meet in the store
(`SqlZenStore`, directly or behind the REST server), where the run has one row
and each step one row, and in the artifact store.

| Component | State | Operations | Interacts with | Hard because | Correct when |
|---|---|---|---|---|---|
| `ThreadedDagRunner` (`orchestrators/dag_runner.py`) | `node_states`, a thread per running node | `run`, `_can_run`, `_run_node_in_thread`, `_run_node`, `_finish_node` | the Kubernetes entrypoint passes `run_fn` | states are read without the lock; threads join threads; exceptions end threads silently | a node runs after its upstream nodes; no ready node is forgotten; `run` returns last and reports what did not run |
| Step launching (`step_launcher.py`, `publish_utils.py`, `step_runner.py`, `input_utils.py`, `output_utils.py`, the step operator entrypoint) | rows of run and steps, artifact files, the launcher's snapshot of the run | `launch`, `_prepare`, `_run_step`, `StepRunner.run`, `update_pipeline_run_status` | store, artifact store, step operators, the other launchers | failures between any two writes, lost replies, stale snapshots, jobs that outlive their launcher | inputs exist when a step runs; COMPLETED and FAILED mean what they say |
| Runs in `SqlZenStore` (`zen_stores/sql_zen_store.py`) | table `pipeline_run` | `create_run`, `get_or_create_run`, `get_run`, `delete_run` | launchers | check-then-insert, in several statements | launchers of one run share one row, one created it |
| Topological sort (`orchestrators/topsort.py`) | layers, visited nodes | `topsorted_layers` | compiler, Airflow and other orchestrators | cycles; counts | the earliest layers; the error exactly for cycles |
| Kubernetes orchestrator (`integrations/kubernetes/orchestrators/`) | pods, the threads' last poll | `run_step_on_kubernetes`, `get_pod`, `wait_pod` | DAG runner, the cluster | a node that is started twice; pods that vanish, fail or never start; calls without a reply | each step has one pod, after those of its upstream steps; no pod outlives the master pod |
| Local daemon services (`utils/daemon.py`, `services/`) | PID file, process | start, stop, poll | model deployers, local server | PID file races, signals, timeouts | one daemon per service |
| Service connectors and secrets (`sql_zen_store.py`, `secrets_stores/`) | connector row, secret in another store | create, update, delete | REST server | two stores, no transaction; concurrent requests | a row's `secret_id` names a secret; no secret is left over; the secret's scope is the connector's |
| Stacks and components (`client.py`, `sql_zen_store.py`) | tables `stack`, `stack_component`, `stack_composition` | create, update, delete | client, server | checks in the client and in the server, nothing in the database | names differ; stacks are complete; shared stacks have shared components |
| Configuration of a repository (`client.py`, `utils/filesync_model.py`) | `config.yaml`, each process's copy and its time stamp | read, activate a stack, set the workspace, sanitize | client processes, store | no lock; whole copies are written; killed while writing | a copy that is taken for up to date is; the stack belongs to the workspace |
| Workspaces, users, roles | tables | CRUD | client, server | names are unique by check-then-insert only | unique names |
| Pipelines, builds, deployments, schedules (`new/pipelines/`) | tables | register, build, run | client | the version is computed from the latest one | versions are not given twice |
| Pagination (`utils/pagination_utils.py`) | - | `depaginate` | all lists | rows change between the pages | every row that was there all the time is listed |
| REST store and server | token | forwarding | client | lost replies, token expiry | a call has the store's effect |
| Server deployment, materializers, orchestrators that hand over, model deployers, CLI, analytics | files, external services | | | mostly I/O or external | |

The hazards - where the code is hard to test, and which properties cover it -
are in `PROJECT.json` with their lines; those that no property covers say why.

## 2. What is modelled

### DagRunner: threads and `node_states`

One step of `DagRunner.tla` is what a thread does between two accesses to
`node_states`, so that every interleaving the interpreter can produce is there:
`_can_run` reads the node (`Inspect`) and its upstream nodes one by one
(`ReadUpstream`); `AssertWaiting` is the assertion before the lock of
`_run_node_in_thread`, `StartThread` its critical section together with
`thread.start()`; `RunFnReturns`/`RunFnRaises` is `run_fn`; `AssertRunning` and
`Complete` are `_finish_node`; `Join`, `Warn` and `RunReturns` end the loops and
`run`. `pc`, `todo`, `cur`, `unread` and `joined` are the threads' local state;
`ran` is a history variable. The loops follow the order of a dictionary in the
code and any order in the model.

`Thread` must be large enough for all the threads that a behaviour starts, since
a node may be started twice: with three nodes seven besides `Main` are enough.
The runs check deadlock, and a thread that finds no free identity would be one.

`StepOrder.tla` is the abstract specification: a step is started when its upstream
steps have succeeded, and succeeds after it was started; nothing is said of second
starts. `Order == INSTANCE StepOrder` maps the nodes for which a thread was started
(`Started`) and the calls of `run_fn` that returned (`ran`) to it.

### KubernetesRunner: the runner with pods

`KubernetesRunner.tla` EXTENDS `DagRunner` and replaces its `run_fn` by what the
master pod runs. In `DagRunner` a call of `run_fn` is one step, `RunFnReturns` or
`RunFnRaises`; here it is a series of steps, `CreatePod`, then `GetPod` and one of
`PollAgain`, `PodFailed`, `PodIsGone`, `PodIsDone`, of which the last ones contain
the runner's step. `at[t]` is the place of a thread in `run_step_on_kubernetes`,
`resp[t]` what its last poll returned. The cluster starts, ends, fails and
deletes pods between any two of these steps (`PodStarts` ... `DeletePod`:
external); a call of the API may fail, and a failed `create_namespaced_pod` may have
created the pod (`ApiError`). `Sanitized` is `sanitize_pod_name`: any function, so
that two steps may have one pod name.

History variables: `creators`, the threads that created a pod; `succeeded`, the
steps a pod has executed; `deleted`, the names of deleted pods; `faults`.
`PodOrder == INSTANCE StepOrder` maps the steps with a pod (`Created`) and the steps
a pod has executed to the abstract order, one level below the threads.

### StepLauncher: launchers, store, artifact store, step operators

`StepLauncher.tla` has one launcher per step and one action per call that can
fail or that others can observe. `pc[s]` says where launcher `s` is in `launch`:

    idle -get_or_create_run-> metadata -> docstring -> prepare -> create
      -> execute -> entry -> publish -> list -> write -> ok          (in process)
                    entry -> wait -> list ...                    (step operator)
    cleanup -> fail_step -> fail_run -> error                        (handlers)

`run` and `row` are the statuses in the store, `linked` the steps whose row has
its output artifacts, `files` those whose artifacts exist, `firstPage` the rows
that the one `list_run_steps` call of `resolve_step_inputs` returns, `snapshot`
the run's status in the response that the launcher keeps and compares with,
`request` the status in the row it is about to create, `remote` the job of a
step operator, which stores the outputs and publishes the success itself.

Everything that may raise does (`Raises`), with the handler it goes to; a store
call that raises may have taken effect (a lost reply). A launcher may be killed
anywhere (`Crash`). What went wrong is kept in `mishaps`, so that a property can
name the failures it survives: `Only({...})`. What the data is, how it is
materialized, hooks and metadata of steps are left out: loading, running and
storing is one step that succeeds or raises.

The orchestrator's contract, a launcher starts when those of the upstream steps
have succeeded, is the guard of `GetOrCreateRun`; `DagRunner` proves it for the
threaded runner (`UpstreamRanFirst`), topological order gives it for the local
orchestrators (`LayersFollowParents`).

Assumptions of this module: the cached outputs of an earlier run exist; the
scheduler starts a launcher once; listing the rows of a run (`depaginate`) is one
step; `prepare_output_artifact_uris` creates nothing that the job of a step
operator would find - so it is in object stores, which have no empty directories.

### RunRegistry and RunStore: get_or_create_run

`RunRegistry.tla` is what the launchers need: in one step, a caller creates its
run or gets the one that has its ID. `RunStore.tla` is what the code does: check
the name, check the ID (each query may see the session's first snapshot or the
current rows), insert (only the ID is a key), and after an exception get by ID,
then by name; `delete_run` may come between any two statements. `Registry ==
INSTANCE RunRegistry WITH runs <- rows` is the refinement mapping, `answer` being
the same in both.

### Topsort

`Topsort.tla` visits the nodes of a layer in any order; a layer is a bag, as a
sorted list keeps repeated nodes. `Visit` is the body of the loop, `NextLayer`
its head, `Finish` the comparison of the numbers of nodes. `level` is a history
variable: the layer in which a node was visited.

### ClientConfig: `config.yaml` and the copies of the clients

A client process keeps a copy `mem[c]` of the repository's configuration. Each
attribute it sets writes the whole copy (`Truncate`, `Dump`, `RememberTime`: opening
the file empties it, and the modification time is asked for afterwards); each
attribute it reads compares times first (`CompareTimes`, `Load`,
`RememberTimeBefore`). What the client does with it is made of these calls:
`ReadActiveStack`, `ActivateStack`, `SetActiveWorkspace` and `_sanitize_config`, which
reads the workspace, reads the stack, asks the store what is valid, which may raise
(`ValidateRaises`), and writes both back one after the other (`LoadWorkspace`,
`LoadStack`, `SetStack`, `SetWorkspace`). `ActivateStack` takes any stack of the store:
a name is looked up in the active workspace, an id is not. `after[c]` is the return
address. An exception ends what the client does (`Raise`), and in `Client.__init__`
the client (`starting`, `Forget`). A process may end anywhere (`Exit`), others delete
stacks from the store (`DeleteStack`).

Two writes never have one modification time: that is assumed. A remembered time
is then the one the file has now, or one that it will never have again, and a bit
per client is enough (`fresh` for `_config_file_timestamp`, `seen` for the local
`file_timestamp`). History variables: `overtaken`, clients in whose place another
one has written between their own write and `getmtime`; `foreign`, clients about to write
a stack of another workspace, which they activated; `astray`, the last write was such
a one, or since then a client was killed, or left `_sanitize_config` with an exception,
that would have written again. The next complete write ends it.

### Connectors: rows and secrets

`Connectors.tla` has the threads of the server, each at one request: create,
update or delete a connector. A request reads the row (`read`), decides what to do
with the secret (`SecretUpdate`), calls the secrets store once or twice
(`CreateSecret`, `UpdateScope`, `DeleteSecret`: each commits by itself) and commits
the row (`Insert`, `Update`, `Delete`). A creation reads the row back (`Refresh`): its
handler (`InsertRaises`, `CleanUp`) is around both, and cannot tell a commit that failed
from one whose reply was lost or whose row could not be read again. `Merge` is what the ORM does: it writes the
columns whose value differs from the one that was read. Any call may raise and the
process may die (`Fail`); only `create_service_connector` has a handler. History
variables: `owner`, the connector a secret was created for; `touched`, the requests
that have changed a secret and not committed; `torn`, connectors of which such a request
did not finish, or whose secret the handler has taken from a row that is in the
table (`InUse`); `stale`, requests whose row another one has
changed since; `lost`, connectors with a write by one of these.

### Stacks: two checks and a commit

A request goes through three steps, between which others are at work: the client
reads the store, decides and sends (`CreateStack`, `UpdateStack`, ..., with
`RegistersStack`, `UpdatesStack`); the server loads the row and checks on its own
(`Accept`, with `AcceptsStack`, `AcceptsChange`, `AcceptsDeletion`); it commits
(`InsertStack`, `UpdateStackRow`, ...). `Found` drops the components that are not
there, as the code does; an update without a list of components leaves them alone,
one with an empty list (`strips`) is accepted by client and server and removes them.
`Merge` is again the ORM's, here with the links between
stacks and components, of which it deletes and inserts the differing ones.
Components are of one type, so a stack that keeps the artifact store it has is
complete when it has one component. History variables: `stale`, requests during
which another one was committed; `raced`, the stacks these have written or robbed
of a component; `stripped`, the stacks that an update has left without components.

### Definitions named as mutants

Next to a definition some modules have altered versions of it, introduced by
"Mutant of": a dropped guard, a missing reset. They are not part of any
specification. Substituted for the original they make TLC report the property
that `PROJECT.json` pairs them with, which shows that the property depends on
the code being as it is.

## 3. The runs

| Run | Instance | Checks |
|---|---|---|
| `dag_all_graphs` | 3 nodes, all 512 graphs up to the names of nodes 2 and 3 (288 of them), cyclic ones too; node 1 may raise; 8 threads | `TypeOK`, `UpstreamRanFirst`, `NoLostWakeup`, `RunReturnsLast`, `JoinsDoNotDeadlock`, deadlock |
| `dag_each_node` | 4 nodes: 3 has the parents 1 and 2, 4 has 2; fair | refutes `EveryNodeIsRun` |
| `launchers` | 3 steps: parallel, chain, fork, join; `a` with a step operator, `b` may be cached; any 2 mishaps; fair | `TypeOK`, `InputsExist`, `CompletedMeansDone`, `OutcomeAtRest`, `EndIsFinal`, `OutcomeDecided`, deadlock |
| `launchers_failed_run` | 3 parallel steps, 1 mishap | refutes `FailedRunIsReported` |
| `launchers_page` | a chain of 3 steps, pages of one row, nothing fails | refutes `ResolutionFailsOnMissing` |
| `run_store` | 4 calls: three for one run, two of these with one name; 2 deletions | `TypeOK`, `CreatedOnce`, `GetsOwnRun`, `ImplementsRegistry`, deadlock |
| `kubernetes` | 2 steps, one after the other or not; 6 threads; step 1's pod may fail; 2 faults (failed calls, deleted pods); fair; 35,000 states | `KTypeOK`, `PodsInOrder`, `StepRunsOnce`, `PodsEndFirst`, `MissingStepsFailed`, `RunEnds`, `AllStepsComplete`, deadlock |
| `client_config` | 2 processes, 2 workspaces, 3 stacks, any number of writes, kills, exceptions and deletions; symmetric processes; 297,000 states | `TypeOK`, `Coherent`, `StackOfWorkspace` |
| `connectors` | 2 threads, 1 connector, 4 secrets; any failures; symmetric; 261,000 states | `TypeOK`, `SecretPresent`, `NoOrphan`, `ScopeMatches` |
| `stacks` | 2 requests at a time, 2 users, 2 names, 2 stacks, 2 components; symmetric; 953,000 states | `TypeOK`, `OwnNamesDiffer`, `SharedNamesDiffer`, `StacksAreComplete`, `SharesOnlyShared`, deadlock |
| `run_store_names` | 2 calls for two runs of one name | refutes `NamesAreUnique` |
| `topsort` | 4 nodes, all graphs, one node with or without an unknown parent; fair | `TypeOK`, `NoUnknownError`, `LayersFollowParents`, `ErrorMeansCycle`, `WorkIsBounded`, `SortEnds`, deadlock |

Why the bounds are enough. Three nodes give two upstream nodes that complete
together and a node that waits for both, which is what the unlocked reads race
for; the fourth node of `dag_each_node` is the one that is forgotten. Three steps
give a launcher that fails, one that was started before it and one that starts
after it; two mishaps give a failure of a handler, or failures of two launchers.
Three callers of one run give one that creates, one that meets its row at each
of the three statements, and one that comes late; two deletions remove the row
between the failure and each of the two lookups. Four nodes give every kind of
cycle, with nodes before and behind it. Two steps with pods are enough for a node
that is started twice (by `run` and by the thread of its upstream node), for a
master pod that could end early, and for faults of two calls or of a call and a
pod. Two processes give every overlap of a read and a write of the configuration;
nothing in that model counts, so behaviours are not cut off. One connector is
enough because a request touches one; four secrets give two threads each a
replacement of a replacement; when the secrets are used up requests end without
one, hence `CHECK_DEADLOCK FALSE`. Two stacks, users and names are what the
properties of `stacks` compare; `FewRaced`, the state constraint of that run, lets
requests go one by one as soon as an overtaken one has written a stack, about
which the properties say nothing, and stops when there are two such stacks.
The safety properties are also proved without bounds (section 5).

### Fairness

- `DagRunner`: weak fairness of each thread and of `run`'s report: threads are
  preempted and rescheduled by the operating system, and no guard is contended
  for except the join, which stays enabled. It assumes that `run_fn` ends.
- `KubernetesRunner`: the same for each thread with its calls of the API, and weak
  fairness of each pod: pods are assumed to be scheduled and to end, since
  `wait_pod` is called without a timeout and would wait for ever. No fairness for
  `ApiError` and `DeletePod`.
- `StepLauncher`: weak fairness of each launcher and of each job: the store's
  calls, the step's function and the operator end, with a result or an exception.
  There is none for `Crash`, and a raising call is never required.
- `Topsort`: a loop of one thread goes on.
- The other modules have no liveness property and no fairness: their processes
  wait for nothing.

### What the properties say

- `UpstreamRanFirst`: although a node that is started twice goes from COMPLETED
  back to RUNNING, and `_can_run` reads without the lock, no `run_fn` call
  precedes the end of `run_fn` of an upstream node.
- `NoLostWakeup`: setting COMPLETED before looking at the downstream nodes is what
  makes one of two concurrent finishers start the common node.
- `JoinsDoNotDeadlock`: threads join the threads they have started, also those of
  nodes started twice and of cyclic graphs; whoever is alive, one of them waits for
  nobody. It is the safety half of `RunEnds`.
- `PodsInOrder`, `StepRunsOnce`: although `_can_run` lets a node be started twice,
  the name of its pod is a lock, and a step's pod is created only when pods have
  executed its upstream steps - whatever fails. A second pod for a step needs a
  deleted first one. Two steps with one pod name are covered too, unless a pod of
  that name was deleted (`Confused`): then a thread may wait for the wrong pod.
- `PodsEndFirst`: when the master pod ends no pod is left pending or running. It
  excludes what the code does not survive, an assertion that kills a thread and
  a call whose failure leaves its pod alone.
- `MissingStepsFailed`: the master pod reports success whatever happened to the
  steps. What may be concluded from its end: a node that is COMPLETED was executed,
  and a step that was left out is one whose pod failed, or below such a step. Since
  a step "below" another is one at any distance, the property speaks of sets: every
  set of missing nodes that contains the missing upstream nodes of its members
  (`Missing`) has a member whose pod failed. A failed call, a deleted pod, a second
  start, an assertion and a shared name (`Upset`) are other reasons.
- `RunEnds`, `AllStepsComplete`: the master pod ends, and unless something fails it
  has executed every step.
- `Coherent`: however reads and writes overlap, a client that takes its copy for up
  to date is right, because `load_config` remembers the time from before the read.
  `write_config` asks for the time after the write, so the clients it deceives
  (`overtaken`) are excluded.
- `StackOfWorkspace`: when all clients are idle the file is consistent, although
  `_sanitize_config` reads and writes in pieces: whoever leaves an inconsistent pair
  is followed by one that is still to write. It cannot be claimed after a stack of
  another workspace was activated by its id, which the code allows, nor when a client
  that was to write again is gone; `astray` excludes these until the next write.
- `SecretPresent`, `NoOrphan`, `ScopeMatches`: what a request does to two stores is
  consistent as soon as it is over, for any overlap of requests, except for
  connectors that a failure has torn. Among these is a new connector whose creation
  raised behind its commit: the row is in the table, and the handler deletes its
  secret. `SecretPresent` says that a row loses its secret in no other way than these,
  and survives lost updates too.
- `OwnNamesDiffer`, `SharedNamesDiffer`, `StacksAreComplete`: the checks of client and
  server complement each other. The server's own check for shared names compares
  with `None` when an update shares a stack without renaming it, and is not made
  when a shared stack is renamed: the client's check counts. Requests that another
  one overtook are excluded: nothing in the database keeps two of them apart. Neither
  check refuses an update with an empty list for a type; so `StacksAreComplete` says
  that a stack is without an orchestrator only while it is `stripped`.
- `SharesOnlyShared`: at the moment a stack becomes shared its components are. It says
  no more, since a later `component_updates` may bring in a private component, and
  `update_stack_component` may unshare one.
- `RunReturnsLast`: after `run` no thread is alive and the warning lists exactly
  the nodes that did not run - unless an assertion killed a thread.
- `InputsExist`: whatever fails, however often, a step that is running has all
  its inputs, in the store and in the artifact store.
- `CompletedMeansDone`: a COMPLETED run has all outputs of all steps. It excludes
  two mishaps, because the code does not survive them: when the reply of
  `publish_successful_step_run` is lost the launcher deletes the outputs of a
  COMPLETED row; and a step operator that gives up on a running job lets the job
  publish outputs that were deleted.
- `EndIsFinal`: a run that is FAILED or COMPLETED stays so, although launchers write
  statuses computed from old lists and compared with older ones. It holds while
  each failure leaves a FAILED row (or no trace). The finding below is what happens
  otherwise.
- `OutcomeAtRest`: the launcher that finishes last decides. When all launchers have
  ended or will never start, the run is COMPLETED or FAILED as they were; it is not
  left RUNNING by two launchers that each saw the other at work. `OutcomeDecided`
  adds that they come to rest.
- `ImplementsRegistry`, `CreatedOnce`, `GetsOwnRun`: the handler of
  `get_or_create_run` makes up for the races of `create_run`.
- `WorkIsBounded`: a round of the loop that visits nothing is the last one, and no
  node is visited twice, so the number of steps is bounded, for cyclic graphs too.
- `LayersFollowParents`, `ErrorMeansCycle`: `level` relates the layers to the
  graph; a cycle is a nonempty set of nodes each with a parent in the set.

## 4. Findings

Four runs refute a statement of the source or of the documentation.

1. `dag_each_node`. Nodes 1 and 2 complete together; both threads find node 3
   ready; the second one's assertion `node_states[node] == WAITING`
   (`dag_runner.py:133`) fails inside its loop over the downstream nodes of 2.
   The thread dies, node 4 is never started, and `run` returns with a warning
   although no step failed. The class says that it "calls `run_fn(node)` for each
   string node in the DAG".
2. `launchers_failed_run`. `update_pipeline_run_status` compares what it computed
   with the status the run had when this launcher started. When another launcher
   has published the run as FAILED without a FAILED step row (its metadata, its
   source or `create_run_step` failed), a launcher that got the run after that
   computes RUNNING, which differs from FAILED, and writes it. The run, of which
   the log says that it failed, is RUNNING for ever.
3. `launchers_page`. `resolve_step_inputs` reads one page of the run's step rows
   (50 unless configured) and raises `InputResolutionError`, "due to a missing step
   or output", for a step that is on the next page. `update_pipeline_run_status`
   uses `depaginate`.
4. `run_store_names`. Two runs with one name: both calls pass the check before
   either inserts. The documentation says that run names must be unique.

One remark that no run is about: `docs/book/user-guide/starter-guide/
fetch-runs-after-execution.md:168` lists `cached` as a status of a run; no code
path sets it (`get_pipeline_run_status` does not return it), which is what
`TypeOK` of `StepLauncher` says.

## 5. What is proved

All theorems are proved by TLAPS for every value of the constants that the named
assumptions allow: every set of nodes, steps, callers, every graph, any number
of threads, mishaps and deletions, every page size.

- `DagRunnerProofs`: `TypeCorrect`, `UpstreamFirst`, `Wakeup`, `ReturnsLast`,
  `NoJoinDeadlock`, `FailuresExplain`, `RunnerImplementsOrder`, `RootsOnce`. `TypeInv` adds to
  the types that a thread at work has a node. `UpstreamRanFirst` is not inductive:
  a state that was COMPLETED when it was read may be RUNNING again. `PassedTests`
  says instead what each passed test says of `ran`, which only grows.
  `NoLostWakeup` is inductive with `TypeInv`. For `ReturnsLast` the threads must form
  a tree: `Rooted` says it of sets, every nonempty set of started threads without
  `Main` has a member that a thread outside of it is to join. With `Places`,
  `HasThread` (a RUNNING node has a thread that is to complete it or has raised)
  and `Logged` (what has been warned of so far) the end of `Main` is the end of all.
  `NoJoinDeadlock` needs the other end of the tree: `Grounded`, every nonempty set
  of started threads has a member that joins none of the set; a new thread joins
  nobody, which keeps it. `FailuresExplain` (`MissingIsExplained`) follows from
  `RunReturnsLast` for a first node, in the order of the graph, of a set of missing
  ones: it was ready, so it was started, and its thread has raised.
  `RunnerImplementsOrder` is the refinement of `StepOrder`: `StartThread` is a `Start`,
  by `PassedTests`, `RunFnReturns` a `Succeed`, every other step a stutter.
  `RootsOnce` marks the extent of finding 1: a node without upstream nodes is on
  `run`'s list only (`RootsAreMains`), so that it is started once, and assertions fail
  only in graphs with an edge.
- `KubernetesRunnerProofs`: `KTypeCorrect`, `PodsAreInOrder`, `StepsRunOnce`,
  `PodsHaveEnded`, `MissingFailed`, `KNoJoinDeadlock`, `PodsFollowOrder`,
  `ImplementsDagRunner`. The last one, that the runner with pods implements
  `DagRunner`, carries the theorems of `DagRunnerProofs` over. `Ledger` says what pods and the threads that watch them know of each other;
  `Watched`, that a live pod has a thread at work unless something failed; `Causes`,
  that while nothing else has gone wrong (`Upset`) a thread that has raised is one
  whose pod has failed, which with `FailuresExplain` gives `MissingFailed`.
  `PodsFollowOrder` is a second refinement of `StepOrder`, by pods instead of threads;
  it assumes that no two steps share a pod name (`DistinctNames`) and uses `Ledger`:
  what `run_fn` returned for, a pod has executed.
- `ClientConfigProofs`: `TypeCorrect`, `Coherence`, `Repaired`. `CopyInv` is what
  holds between the steps of a load and of a write; `RepairInv` says that a file
  that is empty or inconsistent, and not `astray`, has a client that will write.
- `ConnectorsProofs`: `TypeCorrect`, `RowsNameSecrets`, `NoSecretIsLeft`,
  `ScopesMatch`. `RowInv` says what a request holds at each point (`Local`), whose
  the secrets are that it has read and created (`Holds`), and that a row's secret is
  its own; `OrphanInv` and `ScopeInv` build on it.
- `StacksProofs`: `TypeCorrect`, `OwnNames`, `SharedNames`, `Completeness`, `Sharing`,
  from `Invariance`. The central part, `AllFresh`: a request that no commit has
  overtaken would still pass both checks, so its commit breaks nothing. For
  `Completeness` it includes that an accepted update names an orchestrator, unless it
  strips the stack or keeps it stripped.
- `StepLauncherProofs`: `TypeCorrect`, `InputsAreThere`, `CompletedIsDone`,
  `EndStaysEnd`, `OutcomeIsDecided`, `OnePageResolves`. The strengthening has three parts, each for the failures it
  survives. `Places`, which survives all, says what a launcher's place implies of
  its row and files, in particular that the success of a launcher is final.
  `DoneIsStable`, without lost replies and abandoned jobs, says that a done row
  stays done with its outputs. `FailureIsRecorded`, for orderly failures, says that
  a FAILED run has a FAILED row, whose step's launcher and job are at an end; it
  carries the action property: the launcher that would write another status has
  seen the run's FAILED status, or has computed the status from rows that say the
  same. `OutcomeIsDecided` adds `Decided`: while all failures are handled ones, an
  error or a COMPLETED computed by a launcher that is done is in the run's row, and
  when all launchers have listed the rows one of them has computed COMPLETED - the
  last one to list sees all rows done. The proof that only a launcher that failed
  keeps others from starting (`AllOrError`) takes a first step, in the order of the
  graph, of those that did not succeed.
  `OnePageResolves` states when finding 3 does not arise: with all rows on one page
  (`AllOnPage`) `InputResolutionError` is never raised.
- `RunStoreProofs`: `TypeCorrect`, `OneCreator`, `OwnRun`, `Implements`,
  `UniqueNames`. `Inv`: the rows are requested ones with different IDs, and a call that is not done has no
  answer; `CreatedExists`: what a call created is there while nothing is deleted.
  `OwnRun`, `Implements` and `UniqueNames` assume `NamesDetermineIds`, two requests for
  one name are for one run: what a run name template with `{time}` gives. Without it the
  fallback by name may give another run, as the docstring of `get_or_create_run`
  says, and finding 4 shows two runs of one name.
- `TopsortProofs`: `TypeCorrect`, `NeverUnknown`, `LayersAreOrdered`,
  `CyclesAreFound`, `LoopIsBounded`. `Once`: a node is in one layer, once, from the
  visit of its last parent until its own; `Counted`: `count` is the number of visited nodes;
  `Levels`: the layers' parents are in earlier layers, one in the layer just
  before; `NoCycleVisited`. That a sort which stops early has found a cycle
  follows by taking the unvisited nodes for the cycle. `LoopIsBounded`: a next layer
  that has a node means that the current one has had one (`Progress`).

Only model-checked: the liveness properties `RunEnds`, `AllStepsComplete`,
`OutcomeDecided` and `SortEnds` (TLAPS proves nothing about fairness and ENABLED
here), and the refutations of section 4. Of each of the four the safety half is
proved: that the threads cannot wait in a circle (`NoJoinDeadlock`), that nothing but
a failure leaves a step out (`FailuresExplain`, `MissingFailed`), that the outcome is
right once the launchers are at rest (`OutcomeIsDecided`), and that the loop's work
is bounded (`LoopIsBounded`). `MissingIsExplained`, `RootsRunOnce`, `ImplementsOrder` and
`PodsImplementOrder` are theorems without a run of their own. What a
recursive definition computes on all inputs is out of reach too, so no module
declares a recursive operator: the algorithms are state machines.

## 6. Not modelled, and why

Most of the repository's lines are configuration, validation, conversion,
presentation and adapters of external services, which have no protocol state:
data and materializers, image building, logging, the CLI and the dashboard, the
integrations, the REST forwarding. Cloud services (secrets managers, schedulers,
model servers) are external. What has state and is still left out:

- Daemon services (`utils/daemon.py`, `services/local/`). The code reads a PID file
  and asks the operating system: what is true of it depends on signals, on process
  ids that are used again and on when `atexit` runs. Reading it shows that the
  clean-up of a daemon removes whatever PID file is there (`daemon.py:269`), also a
  newer one, and that an empty PID file makes `int("")` raise (`daemon.py:301`);
  between two daemons nothing is promised that a property could state.
- `GlobalConfiguration` writes like `FileSyncModel` (`config/global_config.py:245`) but
  never reads again: the last writer wins, by design.
- Of connectors: names, types and configuration, the components that use them (each
  of which only refuses a request), the deletion of a user with its secrets.
- Of stacks: names of components, which are checked like those of stacks; the
  default stack; the recursive deletion; the artifact store that every stack has;
  the deletion of a workspace.
- Pipelines' versions, workspaces, users and roles: check-then-insert as in
  `RunStore`, with nothing after the insert that would make up for the race.
- `depaginate` is one step. The caller that matters here, `update_pipeline_run_status`,
  lists the rows of one run, which only become more.
- Launchers that a scheduler restarts: the orchestrators of this repository start
  a launcher once; how an external scheduler retries is its own.

## 7. How the modules fit together

    Topsort          the order the local orchestrators follow
    StepOrder  <---- DagRunner              (INSTANCE; implements it, proved)
    DagRunner  <---- KubernetesRunner       (EXTENDS; implements it, proved)
    StepOrder  <---- KubernetesRunner       (INSTANCE, by its pods; proved)
    StepLauncher     assumes what Topsort or DagRunner give, in GetOrCreateRun
    RunRegistry <--- RunStore               (INSTANCE; implements it, proved)
    ClientConfig     deletions of stacks as in Stacks
    Stacks
    Connectors

Each `X` has an `MCX` with the instances for TLC and an `XProofs` with the theorems.
A next step would be to replace the guard of `GetOrCreateRun` by the runner of
`DagRunner` itself, and to let `Connectors` refuse what components in `Stacks` use.
