-------------------------- MODULE KubernetesRunner --------------------------
(***************************************************************************)
(* The master pod of the Kubernetes orchestrator                           *)
(* (kubernetes_orchestrator_entrypoint.py): a ThreadedDagRunner whose      *)
(* run_fn, run_step_on_kubernetes, creates the pod of a step and polls it  *)
(* with wait_pod (kube_utils.py).  The pods, and what the cluster does to  *)
(* them, are external.                                                     *)
(*                                                                         *)
(* run_fn is no longer one step: between two of its calls to the API the   *)
(* other threads, the cluster and whoever deletes pods are at work.        *)
(***************************************************************************)
EXTENDS DagRunner, Integers

CONSTANTS PodName,     \* names of pods
          Sanitized,   \* sanitize_pod_name(f"{orchestrator_run_id}-{step}")
          FailingStep, \* the steps whose pod may fail
          MaxFaults    \* bounds the calls that fail and the pods deleted

\* sanitize_pod_name lowers the case and merges dashes: two steps may have
\* one name.
ASSUME SanitizedAssumption == Sanitized \in [Node -> PodName]
\* run_step_on_kubernetes may raise for any step.
ASSUME AllFaulty == Faulty = Node
ASSUME MaxFaultsAssumption == MaxFaults \in Nat

VARIABLES
  pods,       \* [PodName -> Phase]: what the API knows of a name
  owner,      \* the step that the pod with this name executes
  at,         \* where in run_step_on_kubernetes a thread is
  resp,       \* what get_pod returned to it
  creators,   \* history: the threads that have created a pod
  succeeded,  \* history: the steps that a pod has executed successfully
  deleted,    \* history: the pods that somebody has deleted
  faults      \* how many calls have failed and pods have been deleted

podVars == <<pods, owner, creators, succeeded, deleted, faults>>
kvars == <<vars, pods, owner, at, resp, creators, succeeded, deleted, faults>>

\* PodPhase, without Unknown, which wait_pod treats like Running.  "Absent":
\* the API answers 404, and get_pod returns None.
Phase == {"Absent", "Pending", "Running", "Succeeded", "Failed"}

Live(p) == pods[p] \in {"Pending", "Running"}

\* The name of the pod of a thread's step.
Name(t) == Sanitized[node[t]]

KInit ==
  /\ Init
  /\ pods = [p \in PodName |-> "Absent"]
  /\ owner = [p \in PodName |-> None]
  /\ at = [t \in Thread |-> "create"]
  /\ resp = [t \in Thread |-> "Absent"]
  /\ creators = {}
  /\ succeeded = {}
  /\ deleted = {}
  /\ faults = 0

-----------------------------------------------------------------------------
(* run_step_on_kubernetes.                                                 *)

Calls(t, where) == pc[t] = "run" /\ at[t] = where

\* The cluster accepts a pod.
Accept(t) ==
  /\ pods[Name(t)] = "Absent"
  /\ pods' = [pods EXCEPT ![Name(t)] = "Pending"]
  /\ owner' = [owner EXCEPT ![Name(t)] = node[t]]
  /\ creators' = creators \cup {t}

CreatePod(t) ==
  /\ Calls(t, "create") /\ Accept(t)
  /\ at' = [at EXCEPT ![t] = "poll"]
  /\ UNCHANGED <<vars, resp, succeeded, deleted, faults>>

\* Mutant of CreateConflicts: the pod that has the name is replaced.
ReplacePod(t) ==
  /\ Calls(t, "create") /\ pods[Name(t)] # "Absent"
  /\ pods' = [pods EXCEPT ![Name(t)] = "Pending"]
  /\ owner' = [owner EXCEPT ![Name(t)] = node[t]]
  /\ creators' = creators \cup {t}
  /\ at' = [at EXCEPT ![t] = "poll"]
  /\ UNCHANGED <<vars, resp, succeeded, deleted, faults>>

\* A pod with this name exists: the API answers 409, which nobody catches.
CreateConflicts(t) ==
  /\ Calls(t, "create") /\ pods[Name(t)] # "Absent"
  /\ RunFnRaises(t)
  /\ UNCHANGED <<at, resp, podVars>>

\* Mutant of GetPod: get_pod hands out the error it got instead of a pod.
GetPodOrError(t) ==
  /\ Calls(t, "poll")
  /\ at' = [at EXCEPT ![t] = "decide"]
  /\ resp' = [resp EXCEPT ![t] = IF pods[Name(t)] = "Absent"
                                THEN "404" ELSE pods[Name(t)]]
  /\ UNCHANGED <<vars, podVars>>

\* wait_pod: get_pod.
GetPod(t) ==
  /\ Calls(t, "poll")
  /\ at' = [at EXCEPT ![t] = "decide"]
  /\ resp' = [resp EXCEPT ![t] = pods[Name(t)]]
  /\ UNCHANGED <<vars, podVars>>

\* wait_pod: get_pod returned None, which pod_is_not_pending dereferences, or
\* the pod was deleted before its logs were read.
PodIsGone(t) ==
  /\ Calls(t, "decide")
  /\ \/ resp[t] = "Absent"
     \/ resp[t] # "Pending" /\ pods[Name(t)] = "Absent"
  /\ RunFnRaises(t)
  /\ UNCHANGED <<at, resp, podVars>>

\* wait_pod: the logs of a pod that is not pending can be read.
LogsAreRead(t) ==
  Calls(t, "decide") /\ (resp[t] = "Pending" \/ pods[Name(t)] # "Absent")

\* Mutant of PodFailed: wait_pod has no test for a failed pod.
PodFailedIsIgnored(t) ==
  /\ LogsAreRead(t) /\ resp[t] = "Failed"
  /\ at' = [at EXCEPT ![t] = "poll"]
  /\ UNCHANGED <<vars, resp, podVars>>

\* wait_pod: pod_failed.
PodFailed(t) ==
  /\ LogsAreRead(t) /\ resp[t] = "Failed"
  /\ RunFnRaises(t)
  /\ UNCHANGED <<at, resp, podVars>>

\* Mutant of PodIsDone: the exit condition is pod_is_not_pending.
PodIsNotPending(t) ==
  /\ LogsAreRead(t) /\ resp[t] \in {"Running", "Succeeded"}
  /\ RunFnReturns(t)
  /\ UNCHANGED <<at, resp, podVars>>

\* wait_pod: the exit condition, pod_is_done.
PodIsDone(t) ==
  /\ LogsAreRead(t) /\ resp[t] = "Succeeded"
  /\ RunFnReturns(t)
  /\ UNCHANGED <<at, resp, podVars>>

\* wait_pod: sleep, and once more; timeout_sec is 0.
PollAgain(t) ==
  /\ LogsAreRead(t) /\ resp[t] \in {"Pending", "Running"}
  /\ at' = [at EXCEPT ![t] = "poll"]
  /\ UNCHANGED <<vars, resp, podVars>>

\* A call to the API fails, or its reply is lost: get_pod raises
\* RuntimeError, the other calls let the exception through.
ApiError(t) ==
  /\ pc[t] = "run" /\ faults < MaxFaults
  /\ faults' = faults + 1
  /\ \/ UNCHANGED <<pods, owner, creators>>
     \/ at[t] = "create" /\ Accept(t)
  /\ RunFnRaises(t)
  /\ UNCHANGED <<at, resp, succeeded, deleted>>

RunStepOnKubernetes(t) ==
  \/ CreatePod(t) \/ CreateConflicts(t) \/ GetPod(t) \/ PodIsGone(t)
  \/ PodFailed(t) \/ PodIsDone(t) \/ PollAgain(t)

-----------------------------------------------------------------------------
(* The cluster.                                                            *)

PodStarts(p) ==
  /\ pods[p] = "Pending"
  /\ pods' = [pods EXCEPT ![p] = "Running"]
  /\ UNCHANGED <<vars, owner, at, resp, creators, succeeded, deleted, faults>>

PodSucceeds(p) ==
  /\ pods[p] = "Running"
  /\ pods' = [pods EXCEPT ![p] = "Succeeded"]
  /\ succeeded' = succeeded \cup {owner[p]}
  /\ UNCHANGED <<vars, owner, at, resp, creators, deleted, faults>>

PodFails(p) ==
  /\ pods[p] = "Running" /\ owner[p] \in FailingStep
  /\ pods' = [pods EXCEPT ![p] = "Failed"]
  /\ UNCHANGED <<vars, owner, at, resp, creators, succeeded, deleted, faults>>

\* A node of the cluster is drained, or somebody deletes the pod.
DeletePod(p) ==
  /\ pods[p] # "Absent" /\ faults < MaxFaults
  /\ pods' = [pods EXCEPT ![p] = "Absent"]
  /\ deleted' = deleted \cup {p}
  /\ faults' = faults + 1
  /\ UNCHANGED <<vars, owner, at, resp, creators, succeeded>>

PodProgress(p) == PodStarts(p) \/ PodSucceeds(p) \/ PodFails(p)

-----------------------------------------------------------------------------
KStep(t) == \/ Schedule(t) /\ UNCHANGED <<at, resp, podVars>>
            \/ RunStepOnKubernetes(t)

KReport == Report /\ UNCHANGED <<at, resp, podVars>>

KTerminated == Terminated /\ UNCHANGED <<at, resp, podVars>>

KNext ==
  \/ KReport \/ KTerminated
  \/ \E t \in Thread : KStep(t) \/ ApiError(t)
  \/ \E p \in PodName : PodProgress(p) \/ DeletePod(p)

KSpec == KInit /\ [][KNext]_kvars

\* Threads are scheduled preemptively; a pod is assumed to be scheduled and to
\* end, because wait_pod would wait for ever for one that does not.
KFairness == /\ WF_kvars(KReport)
             /\ \A t \in Thread : WF_kvars(KStep(t))
             /\ \A p \in PodName : WF_kvars(PodProgress(p))

KFairSpec == KSpec /\ KFairness

-----------------------------------------------------------------------------
PodTypeOK ==
  /\ pods \in [PodName -> Phase]
  /\ owner \in [PodName -> Node \cup {None}]
  /\ \A p \in PodName : pods[p] # "Absent" => owner[p] \in Node
  /\ at \in [Thread -> {"create", "poll", "decide"}]
  /\ resp \in [Thread -> Phase]
  /\ creators \subseteq Thread
  /\ succeeded \subseteq Node
  /\ deleted \subseteq PodName
  /\ faults \in 0..MaxFaults

\* The types of the runner and of its pods.
KTypeOK == TypeOK /\ PodTypeOK

\* A step that shares its pod's name with another one, while a pod of that name
\* has been deleted: its thread may be looking at the other step's pod.
Confused(n) == /\ Sanitized[n] \in deleted
               /\ \E m \in Node \ {n} : Sanitized[m] = Sanitized[n]

\* Whatever the threads, the cluster and the API do, a step's pod is created
\* only when a pod has executed each of its upstream steps successfully
\* (run_step_on_kubernetes returns for a pod that is done, and for no other).
PodsInOrder ==
  \A t \in creators : \A u \in dag[node[t]] : u \in succeeded \/ Confused(u)

\* A step that the DAG runner starts twice gets one pod, because the name of
\* the pod is its lock (create_namespaced_pod answers 409): two threads create
\* pods for one step only when the first pod has been deleted.
StepRunsOnce ==
  \A t, k \in creators :
    node[t] = node[k] => t = k \/ Sanitized[node[t]] \in deleted

\* When run() has returned, and the master pod ends, no step is being executed,
\* unless an assertion killed a thread, or a call failed and left its pod alone
\* ("Orchestration pod completed.", line 142).
PodsEndFirst ==
  pc[Main] = "returned" /\ ~Asserted /\ faults = 0 =>
    \A p \in PodName : ~Live(p)

\* The inductive form of PodsInOrder and of StepRunsOnce: what the pods and the
\* threads that watch them know of each other.
Ledger ==
  /\ \A p \in PodName : pods[p] # "Absent" =>
       /\ Sanitized[owner[p]] = p
       /\ pods[p] = "Succeeded" => owner[p] \in succeeded
  /\ \A t \in Thread :
       /\ pc[t] = "unborn" => at[t] = "create"
       /\ pc[t] = "run" /\ at[t] # "create" =>
            /\ t \in creators
            /\ pods[Name(t)] = "Absent" \/ owner[Name(t)] = node[t]
                                        \/ Confused(node[t])
            /\ at[t] = "decide" /\ resp[t] = "Succeeded" =>
                 node[t] \in succeeded \/ Confused(node[t])
  /\ \A t \in creators :
       /\ node[t] \in Node /\ pc[t] # "unborn" /\ dag[node[t]] \subseteq ran
       /\ pods[Name(t)] # "Absent" \/ Name(t) \in deleted
  /\ \A n \in ran : n \in succeeded \/ Confused(n)
  /\ StepRunsOnce

Twice == \E t, k \in Thread : t # k /\ node[t] = node[k] /\ node[t] # None

\* What may keep a step from being executed, other than the failure of a pod.
Upset ==
  \/ Asserted \/ Twice \/ faults > 0
  \/ \E m, n \in Node : m # n /\ Sanitized[m] = Sanitized[n]

Disturbed == Upset \/ \E p \in PodName : pods[p] = "Failed"

\* When run() has returned for a DAG, and the master pod reports that the
\* orchestration is completed, a node that has completed is one whose pod has
\* succeeded, and a step was left out only because its pod or the pod of a step
\* above it has failed (run_step_on_kubernetes raises for no other reason).
MissingStepsFailed ==
  pc[Main] = "returned" /\ Acyclic /\ ~Upset =>
    /\ \A n \in Node : node_states[n] = "COMPLETED" => n \in succeeded
    /\ \A S \in SUBSET Node : Missing(S) =>
         \E n \in S : pods[Sanitized[n]] = "Failed"

\* No two steps of the pipeline have one pod name.
DistinctNames == \A m, n \in Node : Sanitized[m] = Sanitized[n] => m = n

\* The steps for which a pod has been created.
Created == {node[t] : t \in creators}

PodOrder == INSTANCE StepOrder WITH upstream <- dag, started <- Created

\* The pods the cluster executes implement the order of the steps too: the first
\* pod of a step is created when a pod has succeeded for each of its upstream
\* steps, and a step succeeds when one of its own pods does
\* (run_step_on_kubernetes, wait_pod).
PodsImplementOrder == PodOrder!Spec

\* Every step is executed and its node completes, unless an assertion kills a
\* thread, a node is started twice, a call or a pod fails, a pod is deleted or
\* two steps share a name.
AllStepsComplete ==
  <>(Disturbed \/ \A n \in Node : node_states[n] = "COMPLETED" /\ n \in succeeded)
=============================================================================
