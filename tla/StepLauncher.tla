---------------------------- MODULE StepLauncher ----------------------------
(***************************************************************************)
(* The launchers of the steps of one pipeline run (orchestrators/          *)
(* step_launcher.py, publish_utils.py, step_runner.py) and what they write *)
(* to the ZenML store: the row of the run, one row per step, and the files *)
(* of the steps' outputs.  Each launcher is a process of its own (a pod, a *)
(* task); the orchestrator starts one per step, when the launchers of the  *)
(* upstream steps have succeeded.                                          *)
(*                                                                         *)
(* A store call is one step.  "mishaps" records what has gone wrong so     *)
(* far, so that a property can say which failures it survives; at most     *)
(* MaxMishaps of them happen in a behaviour.                               *)
(***************************************************************************)
EXTENDS Naturals, FiniteSets

CONSTANTS Step,        \* the steps of the pipeline (names)
          Graphs,      \* the graphs of upstream steps considered
          Operated,    \* the steps that run with a step operator
          Cacheable,   \* the steps an earlier run has completed with this key
          PageSize,    \* PAGE_SIZE_DEFAULT
          MaxMishaps

ASSUME GraphsAssumption  == Graphs \subseteq [Step -> SUBSET Step]
ASSUME StepsAssumption   == Operated \subseteq Step /\ Cacheable \subseteq Step
ASSUME NumbersAssumption == PageSize \in Nat \ {0} /\ MaxMishaps \in Nat

VARIABLES
  upstream,    \* upstream[s]: the steps whose outputs s consumes
  run,         \* status of the run's row
  row,         \* status of each step's row
  firstPage,   \* the steps of the first PageSize rows, by creation time
  linked,      \* the steps whose row has its output artifacts
  files,       \* the steps whose output artifacts exist in the artifact store
  pc,          \* where each launcher is
  snapshot,    \* the run's status when the launcher got it
  request,     \* the status in the launcher's StepRunRequestModel
  computed,    \* the launcher's new_status
  remote,      \* the job a step operator has launched for the step
  unresolved,  \* history: the steps for which InputResolutionError was raised
  mishaps      \* history: what went wrong, as pairs of a kind and a step

store  == <<run, row, firstPage, linked, files>>
locals == <<snapshot, request, computed>>
vars   == <<upstream, store, pc, locals, remote, unresolved, mishaps>>

ExecutionStatus == {"FAILED", "COMPLETED", "RUNNING", "CACHED"}
Absent == "absent"
Done == {"COMPLETED", "CACHED"}

\* The places of a launcher, and the three ways it ends.
Kind == {"get_run", "metadata", "docstring", "prepare", "create", "execute",
         "entry", "publish", "publish_lost", "wait", "cleanup", "update",
         "fail_step", "fail_run", "crash"}
Ended == {"ok", "error", "crashed"}
Place == {"idle", "metadata", "docstring", "prepare", "create", "execute",
          "entry", "publish", "wait", "cleanup", "fail_step", "list", "write",
          "fail_run"} \cup Ended

Init ==
  /\ upstream \in Graphs
  /\ run = Absent
  /\ row = [s \in Step |-> Absent]
  /\ firstPage = {} /\ linked = {} /\ files = {}
  /\ pc = [s \in Step |-> "idle"]
  /\ snapshot = [s \in Step |-> Absent]
  /\ request = [s \in Step |-> Absent]
  /\ computed = [s \in Step |-> Absent]
  /\ remote = [s \in Step |-> Absent]
  /\ unresolved = {} /\ mishaps = {}

-----------------------------------------------------------------------------
Goes(s, place) == pc' = [pc EXCEPT ![s] = place] /\ UNCHANGED mishaps

\* An exception of the given kind; the handler is where it is caught.  A call
\* of the store that raises may have taken effect, and only its reply be lost.
Raises(s, kind, handler) ==
  /\ Cardinality(mishaps) < MaxMishaps
  /\ mishaps' = mishaps \cup {<<kind, s>>}
  /\ pc' = [pc EXCEPT ![s] = handler]

\* The orchestrator starts the launcher (its contract, not code of src/zenml/
\* orchestrators), whose first call is get_or_create_run.  That call is outside
\* of launch's try block.
GetOrCreateRun(s) ==
  /\ pc[s] = "idle"
  /\ \A u \in upstream[s] : pc[u] = "ok"
  /\ \/ /\ run = Absent
        /\ run' = "RUNNING"
        /\ snapshot' = [snapshot EXCEPT ![s] = "RUNNING"]
        /\ Goes(s, "metadata")
     \/ /\ run # Absent
        /\ snapshot' = [snapshot EXCEPT ![s] = run]
        /\ Goes(s, "docstring")
        /\ UNCHANGED run
     \/ /\ Raises(s, "get_run", "error")
        /\ run' \in {run, IF run = Absent THEN "RUNNING" ELSE run}
        /\ UNCHANGED snapshot
  /\ UNCHANGED <<upstream, row, firstPage, linked, files, request, computed,
                 remote, unresolved>>

\* publish_pipeline_run_metadata, by the launcher that created the run.
PublishRunMetadata(s) ==
  /\ pc[s] = "metadata"
  /\ Goes(s, "docstring") \/ Raises(s, "metadata", "fail_run")
  /\ UNCHANGED <<upstream, store, locals, remote, unresolved>>

\* _get_step_docstring_and_source_code: imports the step's source.
GetDocstring(s) ==
  /\ pc[s] = "docstring"
  /\ \/ Goes(s, "prepare") /\ request' = [request EXCEPT ![s] = "RUNNING"]
     \/ Raises(s, "docstring", "fail_run") /\ UNCHANGED request
  /\ UNCHANGED <<upstream, store, snapshot, computed, remote, unresolved>>

\* resolve_step_inputs reads the rows of the run with one list_run_steps call,
\* which returns a page.
CanResolve(s) == upstream[s] \subseteq firstPage \cap linked

\* _prepare: the inputs, the cache key and the cached step run.  Whatever it
\* raises sets the request's status to FAILED; the row is created all the same.
Prepare(s) ==
  /\ pc[s] = "prepare"
  /\ \/ /\ CanResolve(s)
        /\ Goes(s, "create")
        /\ \/ UNCHANGED request
           \/ s \in Cacheable /\ request' = [request EXCEPT ![s] = "CACHED"]
        /\ UNCHANGED unresolved
     \/ /\ ~CanResolve(s)
        /\ Goes(s, "create")
        /\ request' = [request EXCEPT ![s] = "FAILED"]
        /\ unresolved' = unresolved \cup {s}
     \/ /\ Raises(s, "prepare", "create")
        /\ request' = [request EXCEPT ![s] = "FAILED"]
        /\ UNCHANGED unresolved
  /\ UNCHANGED <<upstream, store, snapshot, computed, remote>>

\* create_run_step, in the finally clause of launch: the row, which for a cached
\* step has the outputs of the earlier run.
InsertRow(s) ==
  /\ row' = [row EXCEPT ![s] = request[s]]
  /\ firstPage' = IF Cardinality(firstPage) < PageSize
                  THEN firstPage \cup {s} ELSE firstPage
  /\ linked' = IF request[s] = "CACHED" THEN linked \cup {s} ELSE linked
  /\ files' = IF request[s] = "CACHED" THEN files \cup {s} ELSE files

CreateRunStep(s) ==
  /\ pc[s] = "create"
  /\ \/ /\ InsertRow(s)
        /\ \/ request[s] = "CACHED" /\ Goes(s, "list")
           \/ request[s] = "RUNNING" /\ Goes(s, "execute")
           \/ request[s] = "FAILED" /\ Goes(s, "fail_run")
     \/ /\ Raises(s, "create", "fail_run")
        /\ InsertRow(s) \/ UNCHANGED <<row, firstPage, linked, files>>
  /\ UNCHANGED <<upstream, run, locals, remote, unresolved>>

\* prepare_output_artifact_uris, before the try block of _run_step.
PrepareOutputUris(s) ==
  /\ pc[s] = "execute"
  /\ Goes(s, "entry") \/ Raises(s, "execute", "fail_step")
  /\ UNCHANGED <<upstream, store, locals, remote, unresolved>>

\* Mutant of RunEntrypoint: outputs that were not stored are registered.
RunEntrypointWithoutStoring(s) ==
  /\ pc[s] = "entry" /\ s \notin Operated
  /\ Goes(s, "publish") \/ Raises(s, "entry", "cleanup")
  /\ UNCHANGED <<upstream, store, locals, remote, unresolved>>

\* StepRunner.run up to publish_successful_step_run: load the inputs, call the
\* step function, store the outputs and register them as artifacts.
RunEntrypoint(s) ==
  /\ pc[s] = "entry" /\ s \notin Operated
  /\ \/ Goes(s, "publish") /\ files' = files \cup {s}
     \/ Raises(s, "entry", "cleanup") /\ UNCHANGED files
  /\ UNCHANGED <<upstream, run, row, firstPage, linked, locals, remote,
                 unresolved>>

\* publish_successful_step_run; "publish_lost" is the loss of its reply.
PublishSuccessfulStepRun(s) ==
  /\ pc[s] = "publish"
  /\ \/ /\ row' = [row EXCEPT ![s] = "COMPLETED"]
        /\ linked' = linked \cup {s}
        /\ Goes(s, "list") \/ Raises(s, "publish_lost", "cleanup")
     \/ Raises(s, "publish", "cleanup") /\ UNCHANGED <<row, linked>>
  /\ UNCHANGED <<upstream, run, firstPage, files, locals, remote, unresolved>>

\* _run_step_with_step_operator: StepOperator.launch submits a job and waits.
LaunchRemote(s) ==
  /\ pc[s] = "entry" /\ s \in Operated
  /\ \/ Goes(s, "wait") /\ remote' = [remote EXCEPT ![s] = "RUNNING"]
     \/ Raises(s, "entry", "cleanup") /\ UNCHANGED remote
  /\ UNCHANGED <<upstream, store, locals, unresolved>>

\* The job: StepOperatorEntrypointConfiguration._run_step.  It stores the
\* outputs, publishes its success itself, and exits with an error otherwise.
RemoteStores(s) ==
  /\ remote[s] = "RUNNING"
  /\ \/ /\ remote' = [remote EXCEPT ![s] = "stored"]
        /\ files' = files \cup {s}
        /\ Goes(s, pc[s])
     \/ /\ Raises(s, "entry", pc[s])
        /\ remote' = [remote EXCEPT ![s] = "FAILED"]
        /\ UNCHANGED files
  /\ UNCHANGED <<upstream, run, row, firstPage, linked, locals, unresolved>>

\* The failure of the job's publication is that of the job.
RemotePublishes(s) ==
  /\ remote[s] = "stored"
  /\ \/ /\ row' = [row EXCEPT ![s] = "COMPLETED"]
        /\ linked' = linked \cup {s}
        /\ \/ /\ remote' = [remote EXCEPT ![s] = "COMPLETED"]
              /\ Goes(s, pc[s])
           \/ /\ remote' = [remote EXCEPT ![s] = "FAILED"]
              /\ Raises(s, "publish_lost", pc[s])
     \/ /\ Raises(s, "publish", pc[s])
        /\ remote' = [remote EXCEPT ![s] = "FAILED"]
        /\ UNCHANGED <<row, linked>>
  /\ UNCHANGED <<upstream, run, firstPage, files, locals, unresolved>>

\* StepOperator.launch returns, raises because the job failed, or loses contact
\* with a job that goes on.
OperatorReturns(s) ==
  /\ pc[s] = "wait"
  /\ \/ remote[s] = "COMPLETED" /\ Goes(s, "list")
     \/ remote[s] = "FAILED" /\ Goes(s, "cleanup")
     \/ Raises(s, "wait", "cleanup")
  /\ UNCHANGED <<upstream, store, locals, remote, unresolved>>

\* remove_artifact_dirs, then an exception goes on.
RemoveArtifactDirs(s) ==
  /\ pc[s] = "cleanup"
  /\ \/ files' = files \ {s} /\ Goes(s, "fail_step")
     \/ UNCHANGED files /\ Raises(s, "cleanup", "fail_step")
  /\ UNCHANGED <<upstream, run, row, firstPage, linked, locals, remote,
                 unresolved>>

PublishFailedStepRun(s) ==
  /\ pc[s] = "fail_step"
  /\ \/ Goes(s, "fail_run") /\ row' = [row EXCEPT ![s] = "FAILED"]
     \/ /\ Raises(s, "fail_step", "fail_run")
        /\ row' \in {row, [row EXCEPT ![s] = "FAILED"]}
  /\ UNCHANGED <<upstream, run, firstPage, linked, files, locals, remote,
                 unresolved>>

\* Mutants of RunStatus: the number of steps is not looked at; a running step
\* comes before a failed one; a cached step is not done; a run may be CACHED.
RunStatusOfRows ==
  IF \E s \in Step : row[s] = "FAILED" THEN "FAILED"
  ELSE IF \E s \in Step : row[s] = "RUNNING" THEN "RUNNING"
  ELSE "COMPLETED"

RunStatusRunningFirst ==
  IF \E s \in Step : row[s] \in {"RUNNING", Absent} THEN "RUNNING"
  ELSE IF \E s \in Step : row[s] = "FAILED" THEN "FAILED"
  ELSE "COMPLETED"

RunStatusWithoutCached ==
  IF \E s \in Step : row[s] = "FAILED" THEN "FAILED"
  ELSE IF \E s \in Step : row[s] # "COMPLETED" THEN "RUNNING"
  ELSE "COMPLETED"

RunStatusCached ==
  IF \E s \in Step : row[s] = "FAILED" THEN "FAILED"
  ELSE IF \E s \in Step : row[s] \in {"RUNNING", Absent} THEN "RUNNING"
  ELSE IF \E s \in Step : row[s] = "CACHED" THEN "CACHED"
  ELSE "COMPLETED"

\* get_pipeline_run_status on the rows of the run.
RunStatus ==
  IF \E s \in Step : row[s] = "FAILED" THEN "FAILED"
  ELSE IF \E s \in Step : row[s] \in {"RUNNING", Absent} THEN "RUNNING"
  ELSE "COMPLETED"

\* update_pipeline_run_status: list the rows, compute the new status ...
ListRunSteps(s) ==
  /\ pc[s] = "list"
  /\ \/ Goes(s, "write") /\ computed' = [computed EXCEPT ![s] = RunStatus]
     \/ Raises(s, "update", "fail_run") /\ UNCHANGED computed
  /\ UNCHANGED <<upstream, store, snapshot, request, remote, unresolved>>

\* ... and write it if it differs from the one the launcher once got.
UpdateRun(s) ==
  /\ pc[s] = "write"
  /\ \/ Goes(s, "ok") /\ run' = IF computed[s] # snapshot[s]
                                THEN computed[s] ELSE run
     \/ /\ computed[s] # snapshot[s]
        /\ Raises(s, "update", "fail_run") /\ run' \in {run, computed[s]}
  /\ UNCHANGED <<upstream, row, firstPage, linked, files, locals, remote,
                 unresolved>>

PublishFailedPipelineRun(s) ==
  /\ pc[s] = "fail_run"
  /\ \/ Goes(s, "error") /\ run' = "FAILED"
     \/ Raises(s, "fail_run", "error") /\ run' \in {run, "FAILED"}
  /\ UNCHANGED <<upstream, row, firstPage, linked, files, locals, remote,
                 unresolved>>

\* The launcher's process is killed; no handler runs.
Crash(s) ==
  /\ pc[s] \notin Ended \cup {"idle"}
  /\ Raises(s, "crash", "crashed")
  /\ UNCHANGED <<upstream, store, locals, remote, unresolved>>

-----------------------------------------------------------------------------
Launcher(s) ==
  \/ GetOrCreateRun(s) \/ PublishRunMetadata(s) \/ GetDocstring(s)
  \/ Prepare(s) \/ CreateRunStep(s) \/ PrepareOutputUris(s)
  \/ RunEntrypoint(s) \/ PublishSuccessfulStepRun(s) \/ LaunchRemote(s)
  \/ OperatorReturns(s) \/ RemoveArtifactDirs(s) \/ PublishFailedStepRun(s)
  \/ ListRunSteps(s) \/ UpdateRun(s) \/ PublishFailedPipelineRun(s)

\* Nothing is left to do: the steps that are idle wait for ever for a step
\* whose launcher did not succeed.
Terminated ==
  /\ \A s \in Step :
       /\ remote[s] \notin {"RUNNING", "stored"}
       /\ \/ pc[s] \in Ended
          \/ pc[s] = "idle" /\ \E u \in upstream[s] : pc[u] # "ok"
  /\ UNCHANGED vars

Job(s) == RemoteStores(s) \/ RemotePublishes(s)

Next == \/ \E s \in Step : Launcher(s) \/ Job(s) \/ Crash(s)
        \/ Terminated

Spec == Init /\ [][Next]_vars

(***************************************************************************)
(* Launchers and jobs are processes that make progress: the step function, *)
(* the store's calls and the operator's job are assumed to end.            *)
(***************************************************************************)
FairSpec == Spec /\ \A s \in Step : WF_vars(Launcher(s)) /\ WF_vars(Job(s))

-----------------------------------------------------------------------------
\* The types of the rows and of the launchers; the status of a run is never
\* CACHED.
TypeOK ==
  /\ upstream \in Graphs
  /\ run \in (ExecutionStatus \ {"CACHED"}) \cup {Absent}
  /\ row \in [Step -> ExecutionStatus \cup {Absent}]
  /\ firstPage \subseteq Step /\ linked \subseteq Step /\ files \subseteq Step
  /\ pc \in [Step -> Place]
  /\ snapshot \in [Step -> (ExecutionStatus \ {"CACHED"}) \cup {Absent}]
  /\ request \in [Step -> {"RUNNING", "FAILED", "CACHED", Absent}]
  /\ computed \in [Step -> {"RUNNING", "FAILED", "COMPLETED", Absent}]
  /\ remote \in [Step -> {"RUNNING", "stored", "COMPLETED", "FAILED", Absent}]
  /\ unresolved \subseteq Step
  /\ mishaps \subseteq Kind \X Step

Only(kinds) == mishaps \subseteq kinds \X Step

\* The failures that either leave no trace in the store or leave the row of the
\* step FAILED before the run is set to FAILED.
Orderly == Only({"get_run", "prepare", "execute", "entry", "publish",
                 "cleanup", "crash"})

\* A launcher's success is final, whatever goes wrong elsewhere: the row of its
\* step is done, with its outputs, and the outputs' files are there.  A step's
\* function therefore never runs on an input that is not there
\* (resolve_step_inputs looks at no status and at no file).
InputsExist ==
  \A s \in Step : pc[s] \in {"execute", "entry", "publish", "wait"} =>
    \A u \in upstream[s] : row[u] \in Done /\ u \in linked \cap files

\* A run is COMPLETED only when all of its num_steps steps are done and the
\* files of their outputs exist, although the status is computed from a list of
\* rows that other launchers go on changing.  It takes a lost reply, or an
\* operator that gives up on a running job, to break it.
CompletedMeansDone ==
  Only(Kind \ {"publish_lost", "wait"}) /\ run = "COMPLETED" =>
    \A s \in Step : row[s] \in Done /\ s \in linked \cap files

\* FAILED and COMPLETED are final: a launcher that still holds the status the
\* run had when it started, or a list of rows that others have changed since,
\* never sets a run that has ended back to RUNNING nor to the other status, as
\* long as every failure leaves a FAILED row for update_pipeline_run_status.
EndIsFinal ==
  [][Orderly' /\ run \in {"FAILED", "COMPLETED"} => run' = run]_vars

\* All launchers have ended, or will never be started.
AtRest ==
  \A s \in Step : \/ pc[s] \in Ended
                  \/ pc[s] = "idle" /\ \E u \in upstream[s] : pc[u] # "ok"

\* No set of steps has an upstream step of each of its members among them.
Acyclic ==
  \A S \in SUBSET Step : S # {} => \E s \in S : upstream[s] \cap S = {}

\* Failures of the step and of its preparation, as opposed to lost calls and
\* dead launchers.
Handled == Only({"prepare", "execute", "entry", "publish", "cleanup"})

\* The launcher that finishes last decides, although each computes the run's
\* status from an older list of rows and compares it with an older status: when
\* no launcher is at work any more the run is COMPLETED if all of them
\* succeeded, and FAILED otherwise; it is never left RUNNING.
OutcomeAtRest ==
  AtRest /\ Acyclic /\ Step # {} /\ Handled =>
    run = IF \A s \in Step : pc[s] = "ok" THEN "COMPLETED" ELSE "FAILED"

\* The run's outcome is decided in the end: the launchers come to rest.
OutcomeDecided ==
  <>[](Handled =>
         run = IF \A s \in Step : pc[s] = "ok" THEN "COMPLETED" ELSE "FAILED")

-----------------------------------------------------------------------------
(* The inductive invariants behind the three safety properties.            *)

HasOutputs(s) == row[s] \in Done /\ s \in linked \cap files

\* What a launcher's place says of the store, whatever goes wrong.
Places ==
  \A s \in Step :
    /\ pc[s] # "idle" => \A u \in upstream[s] : pc[u] = "ok"
    /\ pc[s] \in {"prepare", "create"} => request[s] # Absent
    /\ pc[s] = "publish" => s \in files
    /\ pc[s] = "wait" /\ remote[s] = "stored" => s \in files
    /\ pc[s] = "wait" /\ remote[s] = "COMPLETED" => HasOutputs(s)
    /\ pc[s] \in {"list", "write", "ok"} => HasOutputs(s)

Reliable == Only(Kind \ {"publish_lost", "wait"})

\* When no reply is lost and no running job is given up, a job runs only while
\* its launcher waits or is dead, and a row that is done stays done.
DoneIsStable ==
  Reliable =>
    /\ \A s \in Step :
         /\ remote[s] \in {"RUNNING", "stored"} => pc[s] \in {"wait", "crashed"}
         /\ remote[s] = "stored" => s \in files
         /\ row[s] \in Done =>
              /\ HasOutputs(s)
              /\ pc[s] \in {"wait", "list", "write", "fail_run"} \cup Ended
              /\ pc[s] = "wait" => remote[s] = "COMPLETED"
         /\ pc[s] = "write" /\ computed[s] = "COMPLETED" =>
              \A t \in Step : row[t] \in Done
    /\ run = "COMPLETED" => \A t \in Step : row[t] \in Done

FailedRow == \E s \in Step : row[s] = "FAILED"

\* When every failure is an orderly one, whoever knows that the run has failed
\* finds a FAILED row.
FailureIsRecorded ==
  Orderly =>
    /\ run = "FAILED" => FailedRow
    /\ \A s \in Step :
         /\ row[s] = "FAILED" => /\ pc[s] \in {"fail_run"} \cup Ended
                                 /\ remote[s] \notin {"RUNNING", "stored"}
         /\ row[s] = "FAILED" => pc[s] # "ok"
         /\ pc[s] = "fail_run" => row[s] = "FAILED"
         /\ pc[s] \in {"idle", "metadata", "docstring", "prepare", "create",
                       "execute", "entry"} => remote[s] = Absent
         /\ pc[s] \notin {"idle", "error"} => snapshot[s] \in {"RUNNING", "FAILED"}
         /\ snapshot[s] = "FAILED" => FailedRow
         /\ pc[s] = "write" /\ snapshot[s] = "FAILED" => computed[s] = "FAILED"
         /\ pc[s] = "write" => computed[s] # Absent
         /\ pc[s] = "write" /\ computed[s] = "FAILED" => FailedRow

-----------------------------------------------------------------------------
(* Statements of the source that behaviours refute (see README).           *)

\* "Pipeline run `...` failed." (step_launcher.py, line 187): a run of which a
\* launcher has said so, and has published it, is not RUNNING once no launcher
\* is at work any more.
FailedRunIsReported ==
  AtRest /\ Only(Kind \ {"crash", "fail_run", "get_run"})
         /\ (\E s \in Step : pc[s] = "error")
    => run # "RUNNING"

\* "InputResolutionError: If input resolving failed due to a missing step or
\* output." (input_utils.py, line 38).
ResolutionFailsOnMissing ==
  \A s \in unresolved : \E u \in upstream[s] : row[u] = Absent \/ u \notin linked
=============================================================================
