----------------------- MODULE KubernetesRunnerProofs -----------------------
(***************************************************************************)
(* Proofs about KubernetesRunner for every DAG, any number of threads and  *)
(* of faults, and every way to name the pods, shared names included.       *)
(***************************************************************************)
EXTENDS KubernetesRunner, DagRunnerProofs

\* A step of the master pod is a step of the DAG runner, or does not touch it.
LEMMA KStepIsStep == [KNext]_kvars => [Next]_vars
<1> SUFFICES ASSUME [KNext]_kvars PROVE [Next]_vars
  OBVIOUS
<1>1. CASE KReport
  BY <1>1 DEF KReport, Next
<1>2. CASE KTerminated
  BY <1>2 DEF KTerminated, Next
<1>3. ASSUME NEW t \in Thread, KStep(t) PROVE [Next]_vars
  <2>1. CASE Schedule(t)
    BY <2>1 DEF Next, Step
  <2>2. CASE RunStepOnKubernetes(t)
    BY <2>2 DEF RunStepOnKubernetes, CreatePod, CreateConflicts, GetPod,
       PodIsGone, PodFailed, PodIsDone, PollAgain, Next, Step
  <2> QED
    BY <1>3, <2>1, <2>2 DEF KStep
<1>4. ASSUME NEW t \in Thread, ApiError(t) PROVE [Next]_vars
  BY <1>4 DEF ApiError, Next, Step
<1>5. ASSUME NEW p \in PodName, PodProgress(p) \/ DeletePod(p)
      PROVE [Next]_vars
  BY <1>5 DEF PodProgress, PodStarts, PodSucceeds, PodFails, DeletePod
<1>6. CASE UNCHANGED kvars
  BY <1>6 DEF kvars
<1> QED
  BY <1>1, <1>2, <1>3, <1>4, <1>5, <1>6 DEF KNext

\* The master pod implements the DAG runner: run_step_on_kubernetes is a run_fn
\* that may raise, so what is proved of the runner holds for it.
THEOREM ImplementsDagRunner == KSpec => Spec
<1>1. KInit => Init
  BY DEF KInit
<1> QED
  BY <1>1, KStepIsStep, PTL DEF KSpec, Spec

-----------------------------------------------------------------------------
\* The initial states have the types of the pods.
LEMMA PodTypeInit == KInit => PodTypeOK
BY MaxFaultsAssumption DEF KInit, PodTypeOK, Phase

\* Every step keeps the types of the pods.
LEMMA PodTypeStep == TypeInv /\ PodTypeOK /\ [KNext]_kvars => PodTypeOK'
<1> SUFFICES ASSUME TypeInv, PodTypeOK, [KNext]_kvars PROVE PodTypeOK'
  OBVIOUS
<1> USE MaxFaultsAssumption DEF PodTypeOK, Phase, podVars
<1>1. \A t \in Thread : pc[t] = "run" => node[t] \in Node /\ Name(t) \in PodName
  BY SanitizedAssumption DEF TypeInv, Assigned, Name
<1>2. CASE KReport \/ KTerminated
  BY <1>2 DEF KReport, KTerminated
<1>3. ASSUME NEW t \in Thread, KStep(t) PROVE PodTypeOK'
  <2>1. CASE Schedule(t) /\ UNCHANGED <<at, resp, podVars>>
    BY <2>1
  <2>2. CASE CreatePod(t)
    BY <1>1, <2>2 DEF CreatePod, Calls, Accept
  <2>3. CASE GetPod(t)
    BY <1>1, <2>3 DEF GetPod, Calls
  <2>4. CASE PollAgain(t)
    BY <2>4 DEF PollAgain
  <2>5. CASE CreateConflicts(t) \/ PodIsGone(t) \/ PodFailed(t) \/ PodIsDone(t)
    BY <2>5 DEF CreateConflicts, PodIsGone, PodFailed, PodIsDone
  <2> QED
    BY <1>3, <2>1, <2>2, <2>3, <2>4, <2>5 DEF KStep, RunStepOnKubernetes
<1>4. ASSUME NEW t \in Thread, ApiError(t) PROVE PodTypeOK'
  <2>1. pc[t] = "run" /\ faults' \in 0..MaxFaults
    BY <1>4 DEF ApiError
  <2> QED
    BY <1>1, <1>4, <2>1 DEF ApiError, Accept
<1>5. ASSUME NEW p \in PodName, PodProgress(p) PROVE PodTypeOK'
  BY <1>5 DEF PodProgress, PodStarts, PodSucceeds, PodFails
<1>6. ASSUME NEW p \in PodName, DeletePod(p) PROVE PodTypeOK'
  <2>1. faults' \in 0..MaxFaults
    BY <1>6 DEF DeletePod
  <2> QED
    BY <1>6, <2>1 DEF DeletePod
<1>7. CASE UNCHANGED kvars
  BY <1>7 DEF kvars
<1> QED
  BY <1>2, <1>3, <1>4, <1>5, <1>6, <1>7 DEF KNext
\* The types of runner and pods, with the runner's inductive invariant.
LEMMA PodTypeInvariant == KSpec => [](TypeInv /\ PodTypeOK)
<1>1. KInit => TypeInv /\ PodTypeOK
  BY TypeInit, PodTypeInit DEF KInit
<1>2. TypeInv /\ PodTypeOK /\ [KNext]_kvars => (TypeInv /\ PodTypeOK)'
  BY KStepIsStep, TypeStep, PodTypeStep
<1> QED
  BY <1>1, <1>2, PTL DEF KSpec

\* The type invariant of the master pod and the pods of the steps.
THEOREM KTypeCorrect == KSpec => []KTypeOK
<1>1. TypeInv /\ PodTypeOK => KTypeOK
  BY DEF KTypeOK, TypeInv
<1> QED
  BY <1>1, PodTypeInvariant, PTL

-----------------------------------------------------------------------------
\* There is no pod at first.
LEMMA LedgerInit == KInit => Ledger
BY DEF KInit, Init, Ledger, StepRunsOnce

\* A step that leaves the pods alone, keeps the threads' steps and starts no
\* thread in the middle of run_step_on_kubernetes keeps the ledger.
LEMMA LedgerKept ==
  ASSUME TypeInv, PodTypeOK, Ledger,
         UNCHANGED <<at, resp, pods, owner, creators, succeeded, deleted, dag>>,
         ran' \in SUBSET Node, ran \subseteq ran',
         \A n \in ran' \ ran : n \in succeeded \/ Confused(n),
         \A t \in Thread : pc[t] # "unborn" => node'[t] = node[t],
         \A t \in Thread : pc[t] # "unborn" => pc'[t] # "unborn",
         \A t \in Thread : pc'[t] = "run" => pc[t] \in {"unborn", "run"}
  PROVE  Ledger'
<1> USE DEF podVars
<1>1. \A n \in Node : Confused(n)' <=> Confused(n)
  BY DEF Confused
<1>2. creators \subseteq Thread /\ \A t \in creators : pc[t] # "unborn"
  BY DEF Ledger, PodTypeOK
<1>3. \A t \in creators : node'[t] = node[t]
  BY <1>2
<1>4. StepRunsOnce'
  BY <1>3 DEF Ledger, StepRunsOnce
<1>5. ASSUME NEW p \in PodName, pods'[p] # "Absent"
      PROVE  /\ Sanitized[owner'[p]] = p
             /\ pods'[p] = "Succeeded" => owner'[p] \in succeeded'
  BY <1>5 DEF Ledger
<1>6. ASSUME NEW t \in Thread, pc'[t] = "unborn" PROVE at'[t] = "create"
  BY <1>6 DEF Ledger
<1>7. ASSUME NEW t \in Thread, pc'[t] = "run", at'[t] # "create"
      PROVE  /\ t \in creators'
             /\ \/ pods'[Name(t)'] = "Absent" \/ owner'[Name(t)'] = node'[t]
                \/ Confused(node[t])'
             /\ at'[t] = "decide" /\ resp'[t] = "Succeeded" =>
                  node'[t] \in succeeded' \/ Confused(node[t])'
  <2>1. pc[t] = "run" /\ node'[t] = node[t] /\ node[t] \in Node
    BY <1>7 DEF Ledger, TypeInv, Assigned
  <2> QED
    BY <1>1, <1>7, <2>1 DEF Ledger, Name
<1>8. ASSUME NEW t \in creators'
      PROVE  /\ node'[t] \in Node /\ pc'[t] # "unborn"
             /\ dag'[node'[t]] \subseteq ran'
             /\ pods'[Name(t)'] # "Absent" \/ Name(t)' \in deleted'
  BY <1>2, <1>3, <1>8 DEF Ledger, Name
<1>9. ASSUME NEW n \in ran' PROVE n \in succeeded' \/ Confused(n)'
  BY <1>1, <1>9 DEF Ledger
<1> QED
  BY <1>4, <1>5, <1>6, <1>7, <1>8, <1>9 DEF Ledger

\* What a thread does outside of run_step_on_kubernetes keeps the ledger.
LEMMA ScheduleKeepsLedger ==
  ASSUME TypeInv, PodTypeOK, Ledger, UNCHANGED <<at, resp, podVars>>,
         Report \/ Terminated \/ \E t \in Thread : Schedule(t)
  PROVE  Ledger'
<1> USE DEF TypeInv, TypeOK, podVars
<1>1. ran' = ran /\ dag' = dag
  BY DEF Report, RunReturns, Warn, Terminated, Schedule, Inspect, ReadUpstream,
     AssertWaiting, StartThread, Join, AssertRunning, Complete, vars
<1>2. \A k \in Thread :
        /\ pc[k] # "unborn" => node'[k] = node[k] /\ pc'[k] # "unborn"
        /\ pc'[k] = "run" => pc[k] \in {"unborn", "run"}
  <2>1. CASE Report \/ Terminated
    BY <2>1 DEF Report, RunReturns, Warn, Terminated, vars
  <2>2. ASSUME NEW t \in Thread,
               (\E n \in Node : Inspect(t, n) \/ ReadUpstream(t, n)) \/ Join(t)
        PROVE  node' = node /\ \A k \in Thread : pc'[k] = pc[k] \/
                 pc'[k] \notin {"unborn", "run"}
    BY <2>2 DEF Inspect, ReadUpstream, Join
  <2>3. ASSUME NEW t \in Thread, AssertWaiting(t) \/ AssertRunning(t) \/ Complete(t)
        PROVE  node' = node /\ \A k \in Thread : pc'[k] = pc[k] \/
                 pc'[k] \notin {"unborn", "run"}
    BY <2>3 DEF AssertWaiting, AssertRunning, Complete
  <2>4. ASSUME NEW t \in Thread, StartThread(t)
        PROVE  \E j \in Thread :
                 /\ pc[j] = "unborn" /\ pc'[t] = "loop"
                 /\ \A k \in Thread \ {j, t} : pc'[k] = pc[k]
                 /\ \A k \in Thread \ {j} : node'[k] = node[k]
    BY <2>4 DEF StartThread
  <2> QED
    BY <2>1, <2>2, <2>3, <2>4 DEF Schedule
<1> QED
  BY <1>1, <1>2, LedgerKept

\* An exception of run_step_on_kubernetes keeps the ledger.
LEMMA RaisingKeepsLedger ==
  ASSUME TypeInv, PodTypeOK, Ledger, NEW t \in Thread, RunFnRaises(t),
         UNCHANGED <<at, resp, pods, owner, creators, succeeded, deleted>>
  PROVE  Ledger'
<1> USE DEF TypeInv, TypeOK, Assigned
<1>1. /\ ran' \in SUBSET Node /\ ran \subseteq ran' /\ dag' = dag
      /\ \A n \in ran' \ ran : n \in succeeded \/ Confused(n)
      /\ node' = node
  BY DEF RunFnRaises
<1>2. \A k \in Thread : /\ pc[k] # "unborn" => pc'[k] # "unborn"
                        /\ pc'[k] = "run" => pc[k] = "run"
  BY DEF RunFnRaises
<1> QED
  BY <1>1, <1>2, LedgerKept

\* run_step_on_kubernetes keeps the ledger when it returns for a step whose pod
\* has succeeded.
LEMMA ReturningKeepsLedger ==
  ASSUME TypeInv, PodTypeOK, Ledger, NEW t \in Thread, RunFnReturns(t),
         UNCHANGED <<at, resp, pods, owner, creators, succeeded, deleted>>,
         node[t] \in succeeded \/ Confused(node[t])
  PROVE  Ledger'
<1> USE DEF TypeInv, TypeOK, Assigned
<1>1. /\ ran' \in SUBSET Node /\ ran \subseteq ran' /\ dag' = dag
      /\ \A n \in ran' \ ran : n \in succeeded \/ Confused(n)
      /\ node' = node
  BY DEF RunFnReturns
<1>2. \A k \in Thread : /\ pc[k] # "unborn" => pc'[k] # "unborn"
                        /\ pc'[k] = "run" => pc[k] = "run"
  BY DEF RunFnReturns
<1> QED
  BY <1>1, <1>2, LedgerKept

\* A pod that the cluster accepts: its creator was started after the upstream
\* steps, and a thread that had created a pod of that name saw it deleted.
LEMMA AcceptKeepsLedger ==
  ASSUME TypeInv, PodTypeOK, Ledger, UpstreamRanFirst,
         NEW t \in Thread, Calls(t, "create"), Accept(t),
         UNCHANGED <<dag, node, ran, resp, succeeded, deleted>>,
         \/ UNCHANGED pc /\ at' = [at EXCEPT ![t] = "poll"]
         \/ UNCHANGED at /\ pc' = [pc EXCEPT ![t] = "raised"]
  PROVE  Ledger'
<1> USE DEF TypeInv, TypeOK, Assigned, PodTypeOK, Calls, Accept
<1>1. node[t] \in Node /\ Name(t) \in PodName /\ dag[node[t]] \subseteq ran
  BY SanitizedAssumption DEF UpstreamRanFirst, Name
<1>2. \A k \in creators : Name(k) = Name(t) => Name(t) \in deleted
  BY DEF Ledger
<1>3. \A n \in Node : Confused(n)' <=> Confused(n)
  BY DEF Confused
<1>4. StepRunsOnce'
  BY <1>1, <1>2 DEF Ledger, StepRunsOnce, Name
<1>5. ASSUME NEW p \in PodName, pods'[p] # "Absent"
      PROVE  /\ Sanitized[owner'[p]] = p
             /\ pods'[p] = "Succeeded" => owner'[p] \in succeeded'
  BY <1>1, <1>5 DEF Ledger, Name
<1>6. ASSUME NEW k \in Thread, pc'[k] = "unborn" PROVE at'[k] = "create"
  BY <1>6 DEF Ledger
<1>7. ASSUME NEW k \in Thread, pc'[k] = "run", at'[k] # "create"
      PROVE  /\ k \in creators'
             /\ \/ pods'[Name(k)'] = "Absent" \/ owner'[Name(k)'] = node'[k]
                \/ Confused(node[k])'
             /\ at'[k] = "decide" /\ resp'[k] = "Succeeded" =>
                  node'[k] \in succeeded' \/ Confused(node[k])'
  <2>1. CASE k = t
    BY <1>1, <1>7, <2>1 DEF Name
  <2>2. CASE k # t
    <3>1. pc[k] = "run" /\ at[k] # "create" /\ k \in creators /\ node[k] \in Node
      BY <1>7, <2>2 DEF Ledger
    <3>2. Name(k) = Name(t) => node[k] = node[t] \/ Confused(node[k])
      BY <1>1, <1>2, <3>1 DEF Confused, Name
    <3>3. Name(k)' = Name(k)
      BY DEF Name
    <3>4. CASE Name(k) = Name(t)
      BY <1>1, <1>3, <1>7, <2>2, <3>1, <3>2, <3>3, <3>4 DEF Ledger
    <3>5. CASE Name(k) # Name(t)
      BY <1>1, <1>3, <1>7, <2>2, <3>1, <3>3, <3>5 DEF Ledger
    <3> QED
      BY <3>4, <3>5
  <2> QED
    BY <2>1, <2>2
<1>8. ASSUME NEW k \in creators'
      PROVE  /\ node'[k] \in Node /\ pc'[k] # "unborn"
             /\ dag'[node'[k]] \subseteq ran'
             /\ pods'[Name(k)'] # "Absent" \/ Name(k)' \in deleted'
  BY <1>1, <1>8 DEF Ledger, Name
<1>9. ASSUME NEW n \in ran' PROVE n \in succeeded' \/ Confused(n)'
  BY <1>3, <1>9 DEF Ledger
<1> QED
  BY <1>4, <1>5, <1>6, <1>7, <1>8, <1>9 DEF Ledger

\* What the cluster does to a pod keeps the ledger.
LEMMA ClusterKeepsLedger ==
  ASSUME TypeInv, PodTypeOK, Ledger, NEW p \in PodName,
         PodProgress(p) \/ DeletePod(p)
  PROVE  Ledger'
<1> USE DEF TypeInv, TypeOK, Assigned, PodTypeOK, vars
<1>1. UNCHANGED <<dag, pc, node, ran, owner, at, resp, creators>>
  BY DEF PodProgress, PodStarts, PodSucceeds, PodFails, DeletePod
<1>2. succeeded \subseteq succeeded' /\ deleted \subseteq deleted'
  BY DEF PodProgress, PodStarts, PodSucceeds, PodFails, DeletePod
<1>3. \A n \in Node : Confused(n) => Confused(n)'
  BY <1>2 DEF Confused
<1>4. \A q \in PodName :
        /\ pods'[q] # "Absent" => pods[q] # "Absent"
        /\ pods[q] # "Absent" => pods'[q] # "Absent" \/ q \in deleted'
        /\ pods'[q] = "Succeeded" => pods[q] = "Succeeded" \/ owner[q] \in succeeded'
  BY DEF PodProgress, PodStarts, PodSucceeds, PodFails, DeletePod
<1>5. StepRunsOnce'
  BY <1>1, <1>2 DEF Ledger, StepRunsOnce
<1>6. ASSUME NEW q \in PodName, pods'[q] # "Absent"
      PROVE  /\ Sanitized[owner'[q]] = q
             /\ pods'[q] = "Succeeded" => owner'[q] \in succeeded'
  BY <1>1, <1>2, <1>4, <1>6 DEF Ledger
<1>7. ASSUME NEW t \in Thread, pc'[t] = "unborn" PROVE at'[t] = "create"
  BY <1>1, <1>7 DEF Ledger
<1>8. ASSUME NEW t \in Thread, pc'[t] = "run", at'[t] # "create"
      PROVE  /\ t \in creators'
             /\ \/ pods'[Name(t)'] = "Absent" \/ owner'[Name(t)'] = node'[t]
                \/ Confused(node[t])'
             /\ at'[t] = "decide" /\ resp'[t] = "Succeeded" =>
                  node'[t] \in succeeded' \/ Confused(node[t])'
  <2>1. node[t] \in Node /\ Name(t) \in PodName /\ Name(t)' = Name(t)
    BY <1>1, <1>8, SanitizedAssumption DEF Name
  <2> QED
    BY <1>1, <1>2, <1>3, <1>4, <1>8, <2>1 DEF Ledger
<1>9. ASSUME NEW t \in creators'
      PROVE  /\ node'[t] \in Node /\ pc'[t] # "unborn"
             /\ dag'[node'[t]] \subseteq ran'
             /\ pods'[Name(t)'] # "Absent" \/ Name(t)' \in deleted'
  <2>1. Name(t) \in PodName /\ Name(t)' = Name(t)
    BY <1>1, <1>9, SanitizedAssumption DEF Name, Ledger
  <2> QED
    BY <1>1, <1>2, <1>4, <1>9, <2>1 DEF Ledger
<1>10. ASSUME NEW n \in ran' PROVE n \in succeeded' \/ Confused(n)'
  BY <1>1, <1>2, <1>3, <1>10 DEF Ledger
<1> QED
  BY <1>5, <1>6, <1>7, <1>8, <1>9, <1>10 DEF Ledger

\* A poll of wait_pod keeps the ledger: what it reads of a pod that is its
\* step's, or of one it cannot tell from it.
LEMMA PollKeepsLedger ==
  ASSUME TypeInv, PodTypeOK, Ledger, NEW t \in Thread,
         GetPod(t) \/ PollAgain(t)
  PROVE  Ledger'
<1> USE DEF TypeInv, TypeOK, Assigned, PodTypeOK, vars, podVars
<1>1. /\ UNCHANGED <<vars, podVars>> /\ Calls(t, at[t]) /\ at[t] # "create"
      /\ \E where \in {"poll", "decide"} : at' = [at EXCEPT ![t] = where]
  BY DEF GetPod, PollAgain, LogsAreRead, Calls
<1>2. \A n \in Node : Confused(n)' <=> Confused(n)
  BY <1>1 DEF Confused
<1>3. StepRunsOnce'
  BY <1>1 DEF Ledger, StepRunsOnce
<1>4. node[t] \in Node /\ Name(t) \in PodName
  BY <1>1, SanitizedAssumption DEF Calls, Name
<1>5. at'[t] = "decide" => resp'[t] = pods[Name(t)]
  BY DEF GetPod, PollAgain
<1>6. \A k \in Thread \ {t} : at'[k] = at[k] /\ resp'[k] = resp[k]
  BY DEF GetPod, PollAgain
<1>7. ASSUME NEW k \in Thread, pc'[k] = "run", at'[k] # "create"
      PROVE  /\ k \in creators'
             /\ \/ pods'[Name(k)'] = "Absent" \/ owner'[Name(k)'] = node'[k]
                \/ Confused(node[k])'
             /\ at'[k] = "decide" /\ resp'[k] = "Succeeded" =>
                  node'[k] \in succeeded' \/ Confused(node[k])'
  <2>1. Name(k)' = Name(k) /\ node[k] \in Node
    BY <1>1, <1>7 DEF Name
  <2>2. CASE k = t
    BY <1>1, <1>2, <1>4, <1>5, <1>7, <2>1, <2>2 DEF Ledger, Calls
  <2>3. CASE k # t
    BY <1>1, <1>2, <1>6, <1>7, <2>1, <2>3 DEF Ledger
  <2> QED
    BY <2>2, <2>3
<1>8. ASSUME NEW k \in Thread, pc'[k] = "unborn" PROVE at'[k] = "create"
  BY <1>1, <1>6, <1>8 DEF Ledger, Calls
<1>9. ASSUME NEW n \in ran' PROVE n \in succeeded' \/ Confused(n)'
  BY <1>1, <1>2, <1>9 DEF Ledger
<1> QED
  BY <1>1, <1>3, <1>7, <1>8, <1>9 DEF Ledger, Name

\* Every step of the master pod and of the cluster keeps the ledger.
LEMMA LedgerStep ==
  TypeInv /\ PodTypeOK /\ UpstreamRanFirst /\ Ledger /\ [KNext]_kvars => Ledger'
<1> SUFFICES ASSUME TypeInv, PodTypeOK, UpstreamRanFirst, Ledger, [KNext]_kvars
             PROVE  Ledger'
  OBVIOUS
<1>1. CASE KReport \/ KTerminated
  BY <1>1, ScheduleKeepsLedger DEF KReport, KTerminated
<1>2. ASSUME NEW t \in Thread, Schedule(t), UNCHANGED <<at, resp, podVars>>
      PROVE  Ledger'
  BY <1>2, ScheduleKeepsLedger
<1>3. ASSUME NEW t \in Thread, CreatePod(t) PROVE Ledger'
  BY <1>3, AcceptKeepsLedger DEF CreatePod, vars
<1>4. ASSUME NEW t \in Thread, CreateConflicts(t) \/ PodIsGone(t) \/ PodFailed(t)
      PROVE  Ledger'
  <2>1. RunFnRaises(t)
    BY <1>4 DEF CreateConflicts, PodIsGone, PodFailed
  <2>2. UNCHANGED <<at, resp, pods, owner, creators, succeeded, deleted>>
    BY <1>4 DEF CreateConflicts, PodIsGone, PodFailed, podVars
  <2> QED
    BY <2>1, <2>2, RaisingKeepsLedger
<1>5. ASSUME NEW t \in Thread, PodIsDone(t) PROVE Ledger'
  <2>1. node[t] \in succeeded \/ Confused(node[t])
    BY <1>5 DEF PodIsDone, LogsAreRead, Calls, Ledger
  <2> QED
    BY <1>5, <2>1, ReturningKeepsLedger DEF PodIsDone, podVars
<1>6. ASSUME NEW t \in Thread, GetPod(t) \/ PollAgain(t) PROVE Ledger'
  BY <1>6, PollKeepsLedger
<1>7. ASSUME NEW t \in Thread, ApiError(t) PROVE Ledger'
  <2>1. CASE UNCHANGED <<pods, owner, creators>>
    <3>1. RunFnRaises(t)
      BY <1>7 DEF ApiError
    <3>2. UNCHANGED <<at, resp, succeeded, deleted>>
      BY <1>7 DEF ApiError
    <3> QED
      BY <2>1, <3>1, <3>2, RaisingKeepsLedger
  <2>2. CASE at[t] = "create" /\ Accept(t)
    BY <1>7, <2>2, AcceptKeepsLedger DEF ApiError, RunFnRaises, Calls
  <2> QED
    BY <1>7, <2>1, <2>2 DEF ApiError
<1>8. ASSUME NEW p \in PodName, PodProgress(p) \/ DeletePod(p) PROVE Ledger'
  BY <1>8, ClusterKeepsLedger
<1>9. CASE UNCHANGED kvars
  BY <1>9, LedgerKept DEF kvars, vars, TypeInv, TypeOK
<1> QED
  BY <1>1, <1>2, <1>3, <1>4, <1>5, <1>6, <1>7, <1>8, <1>9
  DEF KNext, KStep, RunStepOnKubernetes

\* The ledger is an invariant.
LEMMA LedgerInvariant == KSpec => []Ledger
<1>1. KSpec => []UpstreamRanFirst
  BY ImplementsDagRunner, UpstreamFirst, PTL
<1> QED
  BY <1>1, LedgerInit, LedgerStep, PodTypeInvariant, PTL DEF KSpec

\* For every DAG and whatever the cluster and the API do: a step's pod is
\* created only when a pod has executed its upstream steps successfully
\* (run_step_on_kubernetes, wait_pod).
THEOREM PodsAreInOrder == KSpec => []PodsInOrder
<1>1. TypeInv /\ Ledger => PodsInOrder
  BY DEF Ledger, PodsInOrder, TypeInv, TypeOK
<1> QED
  BY <1>1, LedgerInvariant, PodTypeInvariant, PTL

\* Two threads create pods for one step only after a pod has been deleted: the
\* name of the pod is the lock of a step that is started twice.
THEOREM StepsRunOnce == KSpec => []StepRunsOnce
<1>1. Ledger => StepRunsOnce
  BY DEF Ledger
<1> QED
  BY <1>1, LedgerInvariant, PTL

-----------------------------------------------------------------------------
\* A thread that watches a pod leaves it when it has ended, so a pod that is
\* alive is watched by a thread of the runner.
Watches(t, p) == pc[t] = "run" /\ at[t] # "create" /\ Name(t) = p

Watched ==
  faults = 0 =>
    /\ \A p \in PodName : Live(p) => \E t \in Thread : Watches(t, p)
    /\ \A t \in Thread : pc[t] = "run" /\ at[t] # "create" =>
         /\ pods[Name(t)] # "Absent"
         /\ at[t] = "decide" => resp[t] # "Absent"
         /\ at[t] = "decide" /\ resp[t] \in {"Succeeded", "Failed"} => ~Live(Name(t))

\* A step that leaves the pods alone, and the threads that watch them.
LEMMA WatchedKept ==
  ASSUME Watched, UNCHANGED <<pods, faults>>,
         \A k \in Thread : Watches(k, Name(k)) /\ Live(Name(k)) =>
           Watches(k, Name(k))' /\ Name(k)' = Name(k),
         \A k \in Thread : pc'[k] = "run" /\ at'[k] # "create" =>
           /\ pc[k] = "run" /\ at[k] # "create" /\ node'[k] = node[k]
           /\ at'[k] = "decide" => at[k] = "decide" /\ resp'[k] = resp[k]
  PROVE  Watched'
<1> SUFFICES ASSUME faults' = 0
             PROVE /\ \A p \in PodName : Live(p)' => \E t \in Thread : Watches(t, p)'
                   /\ \A t \in Thread : pc'[t] = "run" /\ at'[t] # "create" =>
                        /\ pods'[Name(t)'] # "Absent"
                        /\ at'[t] = "decide" => resp'[t] # "Absent"
                        /\ at'[t] = "decide" /\ resp'[t] \in {"Succeeded", "Failed"} =>
                             ~Live(Name(t))'
  BY DEF Watched
<1>1. ASSUME NEW p \in PodName, Live(p)' PROVE \E t \in Thread : Watches(t, p)'
  <2>1. Live(p) BY <1>1 DEF Live
  <2>2. PICK t \in Thread : Watches(t, p) BY <2>1 DEF Watched
  <2>3. Name(t) = p BY <2>2 DEF Watches
  <2>4. Watches(t, Name(t))' /\ Name(t)' = p BY <2>1, <2>2, <2>3
  <2> QED BY <2>4 DEF Watches
<1>2. ASSUME NEW t \in Thread, pc'[t] = "run", at'[t] # "create"
      PROVE  /\ pods'[Name(t)'] # "Absent"
             /\ at'[t] = "decide" => resp'[t] # "Absent"
             /\ at'[t] = "decide" /\ resp'[t] \in {"Succeeded", "Failed"} => ~Live(Name(t))'
  BY <1>2 DEF Watched, Name, Live
<1> QED BY <1>1, <1>2

\* Every step keeps the pods that are alive watched.
LEMMA WatchedStep ==
  TypeInv /\ PodTypeOK /\ Ledger /\ Watched /\ [KNext]_kvars => Watched'
<1> SUFFICES ASSUME TypeInv, PodTypeOK, Ledger, Watched, [KNext]_kvars PROVE Watched'
  OBVIOUS
<1>1. ASSUME UNCHANGED <<at, resp, podVars>>,
             \A k \in Thread :
               /\ pc[k] = "run" => pc'[k] = "run" /\ node'[k] = node[k]
               /\ pc'[k] = "run" => pc[k] \in {"unborn", "run"}
      PROVE  Watched'
  <2>1. UNCHANGED <<pods, faults>> BY <1>1 DEF podVars
  <2>2. \A k \in Thread : pc[k] = "unborn" => at[k] = "create" BY DEF Ledger
  <2>3. at' = at /\ resp' = resp BY <1>1
  <2> QED BY <1>1, <2>1, <2>2, <2>3, WatchedKept DEF Watches, Name
<1>2. CASE KReport \/ KTerminated
  <2>1. UNCHANGED <<at, resp, podVars>> BY <1>2 DEF KReport, KTerminated
  <2>2. \A k \in Thread :
               /\ pc[k] = "run" => pc'[k] = "run" /\ node'[k] = node[k]
               /\ pc'[k] = "run" => pc[k] \in {"unborn", "run"}
    BY <1>2 DEF KReport, KTerminated, Report, RunReturns, Warn, Terminated, vars, TypeInv, TypeOK
  <2> QED BY <1>1, <2>1, <2>2
<1>3. ASSUME NEW t \in Thread, Schedule(t), UNCHANGED <<at, resp, podVars>> PROVE Watched'
  <2>1. \A k \in Thread :
               /\ pc[k] = "run" => pc'[k] = "run" /\ node'[k] = node[k]
               /\ pc'[k] = "run" => pc[k] \in {"unborn", "run"}
    <3> USE DEF TypeInv, TypeOK
    <3>1. CASE (\E n \in Node : Inspect(t, n) \/ ReadUpstream(t, n)) \/ Join(t)
      BY <3>1 DEF Inspect, ReadUpstream, Join
    <3>2. CASE AssertWaiting(t) \/ AssertRunning(t) \/ Complete(t)
      BY <3>2 DEF AssertWaiting, AssertRunning, Complete
    <3>3. CASE StartThread(t) BY <3>3 DEF StartThread
    <3> QED BY <1>3, <3>1, <3>2, <3>3 DEF Schedule
  <2> QED BY <1>1, <1>3, <2>1
<1>4. ASSUME NEW t \in Thread, CreatePod(t) PROVE Watched'
  <2>1. /\ pc[t] = "run" /\ UNCHANGED vars /\ faults' = faults /\ resp' = resp
        /\ pods[Name(t)] = "Absent" /\ pods' = [pods EXCEPT ![Name(t)] = "Pending"]
        /\ at' = [at EXCEPT ![t] = "poll"]
    BY <1>4 DEF CreatePod, Calls, Accept
  <2>2. node[t] \in Node /\ Name(t) \in PodName
    BY <2>1, SanitizedAssumption DEF Name, TypeInv, Assigned
  <2>3. \A k \in Thread : Name(k)' = Name(k) /\ pc'[k] = pc[k] BY <2>1 DEF Name, vars
  <2>4. at'[t] = "poll" /\ \A k \in Thread \ {t} : at'[k] = at[k]
    BY <2>1 DEF PodTypeOK
  <2>5. pods'[Name(t)] = "Pending" /\ \A p \in PodName \ {Name(t)} : pods'[p] = pods[p]
    BY <2>1, <2>2 DEF PodTypeOK
  <2>6. Watches(t, Name(t))' BY <2>1, <2>3, <2>4 DEF Watches
  <2>7. \A k \in Thread, p \in PodName : Watches(k, p) => Watches(k, p)'
    BY <2>3, <2>4 DEF Watches
  <2>8. \A p \in PodName : faults' = 0 /\ Live(p)' => \E k \in Thread : Watches(k, p)'
    BY <2>1, <2>3, <2>5, <2>6, <2>7 DEF Watched, Live
  <2>9. ASSUME faults' = 0, NEW k \in Thread, pc'[k] = "run", at'[k] # "create"
        PROVE  /\ pods'[Name(k)'] # "Absent"
               /\ at'[k] = "decide" => resp'[k] # "Absent"
               /\ at'[k] = "decide" /\ resp'[k] \in {"Succeeded", "Failed"} =>
                    ~Live(Name(k))'
    <3>1. node[k] \in Node /\ Name(k) \in PodName
      BY <2>3, <2>9, SanitizedAssumption DEF Name, TypeInv, Assigned
    <3>2. CASE k = t BY <2>3, <2>4, <2>5, <3>2
    <3>3. CASE k # t
      <4>1. pods[Name(k)] # "Absent" /\ pc[k] = "run" /\ at[k] = at'[k] /\ faults = 0
        BY <2>1, <2>3, <2>4, <2>9, <3>3 DEF Watched
      <4>2. pods'[Name(k)] = pods[Name(k)] BY <2>1, <2>5, <3>1, <4>1
      <4> QED BY <2>1, <2>3, <2>9, <4>1, <4>2 DEF Watched, Live
    <3> QED BY <3>2, <3>3
  <2> QED BY <2>8, <2>9 DEF Watched
<1>5. ASSUME NEW t \in Thread, pc' = [pc EXCEPT ![t] = "finish"] \/ pc' = [pc EXCEPT ![t] = "raised"],
             UNCHANGED <<node, at, resp, podVars>>,
             Watches(t, Name(t)) => ~Live(Name(t))
      PROVE  Watched'
  <2>1. UNCHANGED <<pods, faults>> /\ at' = at /\ resp' = resp BY <1>5 DEF podVars
  <2>2. \A k \in Thread \ {t} : pc'[k] = pc[k] BY <1>5 DEF TypeInv, TypeOK
  <2>3. pc'[t] # "run" BY <1>5 DEF TypeInv, TypeOK
  <2> QED BY <1>5, <2>1, <2>2, <2>3, WatchedKept DEF Watches, Name
<1>6. ASSUME NEW t \in Thread, CreateConflicts(t) PROVE Watched'
  BY <1>5, <1>6 DEF CreateConflicts, Calls, RunFnRaises, Watches
<1>7. ASSUME NEW t \in Thread, PodIsGone(t) \/ PodFailed(t) \/ PodIsDone(t) PROVE Watched'
  <2>1. /\ pc' = [pc EXCEPT ![t] = "finish"] \/ pc' = [pc EXCEPT ![t] = "raised"]
        /\ UNCHANGED <<node, at, resp, podVars>> /\ pc[t] = "run" /\ at[t] = "decide"
    BY <1>7 DEF PodIsGone, PodFailed, PodIsDone, LogsAreRead, Calls, RunFnRaises, RunFnReturns
  <2>2. \/ resp[t] \in {"Absent", "Succeeded", "Failed"}
        \/ pods[Name(t)] = "Absent"
    BY <1>7 DEF PodIsGone, PodFailed, PodIsDone, LogsAreRead
  <2>3. CASE faults = 0 BY <1>5, <2>1, <2>2, <2>3 DEF Watched
  <2>4. CASE faults # 0 BY <2>1, <2>4 DEF Watched, podVars
  <2> QED BY <2>3, <2>4
<1>8. ASSUME NEW t \in Thread, GetPod(t) PROVE Watched'
  <2>1. /\ pc[t] = "run" /\ at[t] = "poll" /\ UNCHANGED vars /\ UNCHANGED podVars
        /\ at' = [at EXCEPT ![t] = "decide"] /\ resp' = [resp EXCEPT ![t] = pods[Name(t)]]
    BY <1>8 DEF GetPod, Calls
  <2>2. \A k \in Thread : Name(k)' = Name(k) /\ pc'[k] = pc[k] BY <2>1 DEF Name, vars
  <2>3. /\ at'[t] = "decide" /\ resp'[t] = pods[Name(t)]
        /\ \A k \in Thread \ {t} : at'[k] = at[k] /\ resp'[k] = resp[k]
    BY <2>1 DEF PodTypeOK
  <2>4. UNCHANGED <<pods, faults>> BY <2>1 DEF podVars
  <2>5. \A k \in Thread, p \in PodName : Watches(k, p) => Watches(k, p)'
    BY <2>1, <2>2, <2>3 DEF Watches
  <2>6. \A p \in PodName : faults' = 0 /\ Live(p)' => \E k \in Thread : Watches(k, p)'
    BY <2>4, <2>5 DEF Watched, Live
  <2>7. ASSUME faults' = 0, NEW k \in Thread, pc'[k] = "run", at'[k] # "create"
        PROVE  /\ pods'[Name(k)'] # "Absent"
               /\ at'[k] = "decide" => resp'[k] # "Absent"
               /\ at'[k] = "decide" /\ resp'[k] \in {"Succeeded", "Failed"} =>
                    ~Live(Name(k))'
    <3>1. CASE k = t BY <2>1, <2>2, <2>3, <2>4, <2>7, <3>1 DEF Watched, Live
    <3>2. CASE k # t BY <2>2, <2>3, <2>4, <2>7, <3>2 DEF Watched, Live
    <3> QED BY <3>1, <3>2
  <2> QED BY <2>6, <2>7 DEF Watched
<1>9. ASSUME NEW t \in Thread, PollAgain(t) PROVE Watched'
  <2>1. /\ pc[t] = "run" /\ at[t] = "decide" /\ UNCHANGED vars /\ UNCHANGED podVars
        /\ at' = [at EXCEPT ![t] = "poll"] /\ resp' = resp
    BY <1>9 DEF PollAgain, LogsAreRead, Calls
  <2>2. \A k \in Thread : Name(k)' = Name(k) /\ pc'[k] = pc[k] /\ node'[k] = node[k]
    BY <2>1 DEF Name, vars
  <2>3. at'[t] = "poll" /\ \A k \in Thread \ {t} : at'[k] = at[k] BY <2>1 DEF PodTypeOK
  <2>4. UNCHANGED <<pods, faults>> BY <2>1 DEF podVars
  <2> QED BY <2>1, <2>2, <2>3, <2>4, WatchedKept DEF Watches
<1>10. ASSUME NEW t \in Thread, ApiError(t) PROVE Watched'
  <2>1. faults' = faults + 1 /\ faults \in Nat
    BY <1>10, MaxFaultsAssumption DEF ApiError, PodTypeOK
  <2>2. faults' # 0 BY <2>1
  <2> QED BY <2>2 DEF Watched
<1>11. ASSUME NEW p \in PodName, DeletePod(p) PROVE Watched'
  <2>1. faults' = faults + 1 /\ faults \in Nat
    BY <1>11, MaxFaultsAssumption DEF DeletePod, PodTypeOK
  <2>2. faults' # 0 BY <2>1
  <2> QED BY <2>2 DEF Watched
<1>12. ASSUME NEW p \in PodName, PodProgress(p) PROVE Watched'
  <2>1. /\ pc' = pc /\ node' = node /\ at' = at /\ resp' = resp /\ faults' = faults
        /\ Live(p) /\ pods'[p] # "Absent"
        /\ \A q \in PodName \ {p} : pods'[q] = pods[q]
    BY <1>12 DEF PodProgress, PodStarts, PodSucceeds, PodFails, Live, PodTypeOK, vars
  <2>2. \A k \in Thread : Name(k)' = Name(k) BY <2>1 DEF Name
  <2>3. \A k \in Thread, q \in PodName : Watches(k, q) => Watches(k, q)'
    BY <2>1, <2>2 DEF Watches
  <2>4. \A q \in PodName : Live(q)' => Live(q) BY <2>1 DEF Live
  <2>5. \A q \in PodName : faults' = 0 /\ Live(q)' => \E k \in Thread : Watches(k, q)'
    BY <2>1, <2>3, <2>4 DEF Watched
  <2>6. ASSUME faults' = 0, NEW k \in Thread, pc'[k] = "run", at'[k] # "create"
        PROVE  /\ pods'[Name(k)'] # "Absent"
               /\ at'[k] = "decide" => resp'[k] # "Absent"
               /\ at'[k] = "decide" /\ resp'[k] \in {"Succeeded", "Failed"} =>
                    ~Live(Name(k))'
    <3>1. Name(k) \in PodName
      BY <2>1, <2>6, SanitizedAssumption DEF Name, TypeInv, Assigned
    <3>2. Live(Name(k))' => Live(Name(k)) BY <2>2, <2>4, <3>1 DEF Live
    <3>3. pods[Name(k)] # "Absent" => pods'[Name(k)] # "Absent" BY <2>1, <3>1
    <3> QED BY <2>1, <2>2, <2>6, <3>2, <3>3 DEF Watched
  <2> QED BY <2>5, <2>6 DEF Watched
<1>13. CASE UNCHANGED kvars
  BY <1>1, <1>13 DEF kvars, vars, podVars
<1> QED
  BY <1>2, <1>3, <1>4, <1>6, <1>7, <1>8, <1>9, <1>10, <1>11, <1>12, <1>13
  DEF KNext, KStep, RunStepOnKubernetes

\* When run() has returned and no call has failed, no pod is left (wait_pod,
\* and the joins of the threads that call it).
THEOREM PodsHaveEnded == KSpec => []PodsEndFirst
<1>1. KInit => Watched
  BY DEF KInit, Watched, Live, Init
<1>2. TypeInv /\ PodTypeOK /\ Watched /\ RunReturnsLast => PodsEndFirst
  BY DEF Watched, Watches, RunReturnsLast, PodsEndFirst, Alive, Active
<1>3. KSpec => []RunReturnsLast
  BY ImplementsDagRunner, ReturnsLast, PTL
<1> QED
  BY <1>1, <1>2, <1>3, WatchedStep, LedgerInvariant, PodTypeInvariant, PTL DEF KSpec

-----------------------------------------------------------------------------
(* run_step_on_kubernetes raises for a reason: while nothing else goes     *)
(* wrong, the pod of a step whose thread has raised has failed.            *)

Causes ==
  ~Upset =>
    /\ \A p \in PodName : pods[p] # "Absent" => \E k \in creators : node[k] = owner[p]
    /\ \A t \in creators : pc[t] = "run" => at[t] # "create"
    /\ \A t \in Thread :
         /\ pc[t] = "run" /\ at[t] = "decide" /\ resp[t] = "Failed" =>
              pods[Name(t)] = "Failed"
         /\ pc[t] = "raised" => node[t] \in Node /\ pods[Name(t)] = "Failed"

\* What has gone wrong does not go right again.
LEMMA UpsetStays ==
  TypeInv /\ PodTypeOK /\ Unassigned /\ [KNext]_kvars => (Upset => Upset')
<1> SUFFICES ASSUME TypeInv, PodTypeOK, Unassigned, [KNext]_kvars, Upset PROVE Upset'
  OBVIOUS
<1>1. [Next]_vars BY KStepIsStep
<1>2. CASE Asserted
  BY <1>1, <1>2, ThreadsStay DEF Asserted, Ended, Upset
<1>3. CASE Twice
  <2>1. PICK t \in Thread, k \in Thread : t # k /\ node[t] = node[k] /\ node[t] # None
    BY <1>3 DEF Twice
  <2>2. pc[t] # "unborn" /\ pc[k] # "unborn"
    BY <2>1 DEF Unassigned
  <2>3. node'[t] = node[t] /\ node'[k] = node[k]
    BY <1>1, <2>2, ThreadsStay
  <2>4. Twice' BY <2>1, <2>3 DEF Twice
  <2> QED BY <2>4 DEF Upset
<1>4. CASE faults > 0
  <2>1. faults \in Nat /\ (faults' = faults \/ faults' = faults + 1)
    BY MaxFaultsAssumption
    DEF PodTypeOK, KNext, KReport, KTerminated, KStep, ApiError, PodProgress, DeletePod,
        RunStepOnKubernetes, CreatePod, CreateConflicts, GetPod, PodIsGone, PodFailed,
        PodIsDone, PollAgain, PodStarts, PodSucceeds, PodFails, podVars, kvars
  <2>2. faults' > 0 BY <1>4, <2>1
  <2> QED BY <2>2 DEF Upset
<1>5. CASE \E m, n \in Node : m # n /\ Sanitized[m] = Sanitized[n]
  BY <1>5 DEF Upset
<1> QED BY <1>2, <1>3, <1>4, <1>5 DEF Upset

\* A step that leaves the pods alone, and in which a thread raises for a cause.
LEMMA CausesKept ==
  ASSUME TypeInv, PodTypeOK, Unassigned, Ledger, Causes, [KNext]_kvars,
         UNCHANGED <<pods, owner, creators, at, resp>>,
         \A t \in Thread : pc'[t] = "raised" =>
           pc[t] = "raised" \/ Upset \/ (node[t] \in Node /\ pods[Name(t)] = "Failed")
  PROVE  Causes'
<1> SUFFICES ASSUME ~Upset' PROVE Causes'
  BY DEF Causes
<1>1. ~Upset BY UpsetStays
<1>2. [Next]_vars BY KStepIsStep
<1>3. creators \subseteq Thread /\ \A t \in creators : pc[t] # "unborn"
  BY DEF Ledger, PodTypeOK
<1>4. \A t \in creators : node'[t] = node[t]
  BY <1>2, <1>3, ThreadsStay
<1>5. \A p \in PodName : pods'[p] # "Absent" => \E k \in creators' : node'[k] = owner'[p]
  BY <1>1, <1>4 DEF Causes
<1>6. \A t \in creators' : pc'[t] = "run" => at'[t] # "create"
  BY <1>1, <1>2, <1>3, ThreadsStay DEF Causes
<1>7. ASSUME NEW t \in Thread, pc'[t] = "run", at'[t] = "decide", resp'[t] = "Failed"
      PROVE  pods'[Name(t)'] = "Failed"
  <2>1. pc[t] = "run" /\ node'[t] = node[t]
    BY <1>2, <1>7, ThreadsStay DEF Ledger
  <2> QED BY <1>1, <1>7, <2>1 DEF Causes, Name
<1>8. ASSUME NEW t \in Thread, pc'[t] = "raised"
      PROVE  node'[t] \in Node /\ pods'[Name(t)'] = "Failed"
  <2>1. (node[t] \in Node /\ pods[Name(t)] = "Failed")
    BY <1>1, <1>8 DEF Causes
  <2>2. pc[t] # "unborn"
    BY <2>1, NoneAssumption DEF Unassigned
  <2>3. node'[t] = node[t]
    BY <1>2, <2>2, ThreadsStay
  <2> QED BY <2>1, <2>3 DEF Name
<1> QED BY <1>5, <1>6, <1>7, <1>8 DEF Causes

\* Every step of the master pod and of the cluster keeps the causes.
LEMMA CausesStep ==
  TypeInv /\ PodTypeOK /\ Unassigned /\ Ledger /\ Watched /\ Causes /\ [KNext]_kvars
    => Causes'
<1> SUFFICES ASSUME TypeInv, PodTypeOK, Unassigned, Ledger, Watched, Causes, [KNext]_kvars
             PROVE  Causes'
  OBVIOUS
<1>a. ASSUME ~Upset'
      PROVE  /\ ~Upset /\ faults = 0
             /\ \A m, n \in Node : Sanitized[m] = Sanitized[n] => m = n
  <2>1. ~Upset BY <1>a, UpsetStays
  <2>2. faults \in Nat BY MaxFaultsAssumption DEF PodTypeOK
  <2> QED BY <2>1, <2>2 DEF Upset
<1>b. \A t \in Thread : pc[t] = "run" => node[t] \in Node /\ Name(t) \in PodName
  BY SanitizedAssumption DEF TypeInv, Assigned, Name
<1>1. CASE KReport \/ KTerminated \/ UNCHANGED kvars
  <2>1. UNCHANGED <<pods, owner, creators, at, resp>>
    BY <1>1 DEF KReport, KTerminated, kvars, podVars
  <2>2. \A k \in Thread : pc'[k] = "raised" => pc[k] = "raised"
    BY <1>1, MainAssumption
    DEF KReport, KTerminated, Report, RunReturns, Warn, Terminated, vars, kvars,
        TypeInv, TypeOK
  <2> QED BY <2>1, <2>2, CausesKept
<1>2. ASSUME NEW t \in Thread, Schedule(t), UNCHANGED <<at, resp, podVars>> PROVE Causes'
  <2>1. \A k \in Thread : pc'[k] = "raised" => pc[k] = "raised"
    <3> USE DEF TypeInv, TypeOK
    <3>1. CASE (\E n \in Node : Inspect(t, n) \/ ReadUpstream(t, n)) \/ Join(t)
      BY <3>1 DEF Inspect, ReadUpstream, Join
    <3>2. CASE AssertWaiting(t) \/ AssertRunning(t) \/ Complete(t)
      BY <3>2 DEF AssertWaiting, AssertRunning, Complete
    <3>3. CASE StartThread(t) BY <3>3 DEF StartThread
    <3> QED BY <1>2, <3>1, <3>2, <3>3 DEF Schedule
  <2>2. UNCHANGED <<pods, owner, creators, at, resp>>
    BY <1>2 DEF podVars
  <2> QED BY <2>1, <2>2, CausesKept
<1>3. ASSUME NEW t \in Thread,
             CreateConflicts(t) \/ PodIsGone(t) \/ PodFailed(t) \/ PodIsDone(t)
      PROVE  Causes'
  <2>1. pc[t] = "run" /\ UNCHANGED <<pods, owner, creators, at, resp>>
    BY <1>3 DEF CreateConflicts, PodIsGone, PodFailed, PodIsDone, LogsAreRead, Calls,
                RunFnRaises, RunFnReturns, podVars
  <2>a. \A k \in Thread \ {t} : pc'[k] = pc[k]
    BY <1>3 DEF CreateConflicts, PodIsGone, PodFailed, PodIsDone,
                RunFnRaises, RunFnReturns, TypeInv, TypeOK
  <2>b. ASSUME Upset \/ pc'[t] # "raised" \/ (node[t] \in Node /\ pods[Name(t)] = "Failed")
        PROVE  Causes'
    <3>1. \A k \in Thread : pc'[k] = "raised" =>
            pc[k] = "raised" \/ Upset \/ (node[k] \in Node /\ pods[Name(k)] = "Failed")
      BY <2>a, <2>b
    <3> QED BY <2>1, <3>1, CausesKept
  <2>2. CASE CreateConflicts(t)
    <3>1. pods[Name(t)] # "Absent" /\ at[t] = "create"
      BY <2>2 DEF CreateConflicts, Calls
    <3>2. ASSUME ~Upset PROVE FALSE
      <4>1. PICK k \in creators : node[k] = owner[Name(t)]
        BY <1>b, <2>1, <3>1, <3>2 DEF Causes
      <4>2. owner[Name(t)] \in Node /\ Sanitized[owner[Name(t)]] = Sanitized[node[t]]
        BY <1>b, <2>1, <3>1 DEF Ledger, PodTypeOK, Name
      <4>3. node[k] = node[t]
        BY <1>b, <2>1, <3>2, <4>1, <4>2 DEF Upset
      <4>4. t \notin creators
        BY <2>1, <3>1, <3>2 DEF Causes
      <4>5. Twice
        BY <1>b, <2>1, <4>1, <4>3, <4>4, NoneAssumption DEF Twice, PodTypeOK
      <4> QED BY <3>2, <4>5 DEF Upset
    <3> QED BY <2>b, <3>2
  <2>3. CASE PodIsGone(t)
    <3>1. at[t] = "decide" /\ (resp[t] = "Absent" \/ pods[Name(t)] = "Absent")
      BY <2>3 DEF PodIsGone, Calls
    <3>2. faults # 0
      BY <2>1, <3>1 DEF Watched
    <3>3. Upset
      BY <3>2, MaxFaultsAssumption DEF Upset, PodTypeOK
    <3> QED BY <2>b, <3>3
  <2>4. CASE PodFailed(t)
    <3>1. at[t] = "decide" /\ resp[t] = "Failed"
      BY <2>4 DEF PodFailed, LogsAreRead, Calls
    <3>2. Upset \/ (node[t] \in Node /\ pods[Name(t)] = "Failed")
      BY <1>b, <2>1, <3>1 DEF Causes
    <3> QED BY <2>b, <3>2
  <2>5. CASE PodIsDone(t)
    <3>1. pc'[t] # "raised"
      BY <2>5 DEF PodIsDone, RunFnReturns, TypeInv, TypeOK
    <3> QED BY <2>b, <3>1
  <2> QED BY <1>3, <2>2, <2>3, <2>4, <2>5
<1>4. ASSUME NEW t \in Thread, CreatePod(t), ~Upset' PROVE Causes'
  <2>1. /\ pc[t] = "run" /\ UNCHANGED <<pc, node, resp>>
        /\ pods[Name(t)] = "Absent" /\ creators' = creators \cup {t}
        /\ pods' = [pods EXCEPT ![Name(t)] = "Pending"]
        /\ owner' = [owner EXCEPT ![Name(t)] = node[t]]
        /\ at' = [at EXCEPT ![t] = "poll"]
    BY <1>4 DEF CreatePod, Calls, Accept, vars
  <2>2. \A p \in PodName : pods'[p] # "Absent" => \E k \in creators' : node'[k] = owner'[p]
    BY <1>a, <1>b, <1>4, <2>1 DEF Causes, PodTypeOK
  <2>3. \A k \in creators' : pc'[k] = "run" => at'[k] # "create"
    BY <1>a, <1>4, <2>1 DEF Causes, PodTypeOK
  <2>4. ASSUME NEW k \in Thread, pods[Name(k)] = "Failed", node[k] \in Node
        PROVE  pods'[Name(k)'] = "Failed"
    <3>1. Name(k) \in PodName /\ Name(k)' = Name(k) /\ Name(k) # Name(t)
      BY <2>1, <2>4, SanitizedAssumption DEF Name
    <3> QED BY <2>1, <2>4, <3>1 DEF PodTypeOK
  <2>5. ASSUME NEW k \in Thread, pc'[k] = "run", at'[k] = "decide", resp'[k] = "Failed"
        PROVE  pods'[Name(k)'] = "Failed"
    <3>1. pc[k] = "run" /\ at[k] = "decide" /\ resp[k] = "Failed"
      BY <2>1, <2>5 DEF PodTypeOK
    <3> QED BY <1>a, <1>b, <1>4, <2>4, <3>1 DEF Causes
  <2>6. ASSUME NEW k \in Thread, pc'[k] = "raised"
        PROVE  node'[k] \in Node /\ pods'[Name(k)'] = "Failed"
    BY <1>a, <1>4, <2>1, <2>4, <2>6 DEF Causes
  <2> QED BY <2>2, <2>3, <2>5, <2>6 DEF Causes
<1>5. ASSUME NEW t \in Thread, GetPod(t) \/ PollAgain(t), ~Upset' PROVE Causes'
  <2>1. /\ pc[t] = "run" /\ UNCHANGED <<pc, node, pods, owner, creators>>
        /\ \A k \in Thread \ {t} : at'[k] = at[k] /\ resp'[k] = resp[k]
        /\ at[t] # "create" /\ at'[t] # "create"
        /\ at'[t] = "decide" => resp'[t] = pods[Name(t)]
    BY <1>5 DEF GetPod, PollAgain, LogsAreRead, Calls, vars, podVars, PodTypeOK
  <2>2. \A k \in Thread : Name(k)' = Name(k)
    BY <2>1 DEF Name
  <2>3. \A k \in creators' : pc'[k] = "run" => at'[k] # "create"
    BY <1>a, <1>5, <2>1 DEF Causes, PodTypeOK
  <2>4. ASSUME NEW k \in Thread, pc'[k] = "run", at'[k] = "decide", resp'[k] = "Failed"
        PROVE  pods'[Name(k)'] = "Failed"
    BY <1>a, <1>5, <2>1, <2>2, <2>4 DEF Causes
  <2> QED BY <1>a, <1>5, <2>1, <2>2, <2>3, <2>4 DEF Causes
<1>6. ASSUME NEW t \in Thread, ApiError(t) PROVE Upset'
  <2>1. faults \in Nat /\ faults' = faults + 1
    BY <1>6, MaxFaultsAssumption DEF ApiError, PodTypeOK
  <2>2. faults' > 0 BY <2>1
  <2> QED BY <2>2 DEF Upset
<1>7. ASSUME NEW p \in PodName, DeletePod(p) PROVE Upset'
  <2>1. faults \in Nat /\ faults' = faults + 1
    BY <1>7, MaxFaultsAssumption DEF DeletePod, PodTypeOK
  <2>2. faults' > 0 BY <2>1
  <2> QED BY <2>2 DEF Upset
<1>8. ASSUME NEW p \in PodName, PodProgress(p), ~Upset' PROVE Causes'
  <2>1. /\ UNCHANGED <<pc, node, at, resp, owner, creators>>
        /\ pods[p] \in {"Pending", "Running"}
        /\ \A q \in PodName \ {p} : pods'[q] = pods[q]
    BY <1>8 DEF PodProgress, PodStarts, PodSucceeds, PodFails, PodTypeOK, vars
  <2>2. \A k \in Thread : Name(k)' = Name(k)
    BY <2>1 DEF Name
  <2>3. \A q \in PodName : pods'[q] # "Absent" => pods[q] # "Absent"
    BY <2>1
  <2>4. ASSUME NEW k \in Thread, node[k] \in Node, pods[Name(k)] = "Failed"
        PROVE  pods'[Name(k)'] = "Failed"
    <3>1. Name(k) \in PodName
      BY <2>4, SanitizedAssumption DEF Name
    <3> QED BY <2>1, <2>2, <2>4, <3>1
  <2>5. \A q \in PodName : pods'[q] # "Absent" => \E k \in creators' : node'[k] = owner'[q]
    BY <1>a, <1>8, <2>1, <2>3 DEF Causes
  <2>6. \A k \in creators' : pc'[k] = "run" => at'[k] # "create"
    BY <1>a, <1>8, <2>1 DEF Causes
  <2>7. ASSUME NEW k \in Thread, pc'[k] = "run", at'[k] = "decide", resp'[k] = "Failed"
        PROVE  pods'[Name(k)'] = "Failed"
    BY <1>a, <1>b, <1>8, <2>1, <2>4, <2>7 DEF Causes
  <2>8. ASSUME NEW k \in Thread, pc'[k] = "raised"
        PROVE  node'[k] \in Node /\ pods'[Name(k)'] = "Failed"
    BY <1>a, <1>8, <2>1, <2>4, <2>8 DEF Causes
  <2> QED BY <2>5, <2>6, <2>7, <2>8 DEF Causes
<1>9. CASE ~Upset'
  BY <1>1, <1>2, <1>3, <1>4, <1>5, <1>6, <1>7, <1>8, <1>9
  DEF KNext, KStep, RunStepOnKubernetes
<1> QED BY <1>9 DEF Causes

\* The places of pods and threads, with what they know of each other.
LEMMA CausesInvariant == KSpec => [](TypeInv /\ Ledger /\ Watched /\ Causes)
<1>1. KInit => Watched
  BY DEF KInit, Watched, Live, Init
<1>2. KInit => Causes
  BY DEF KInit, Init, Causes
<1>3. KSpec => []Unassigned
  BY ImplementsDagRunner, UnassignedInvariant, PTL
<1> QED
  BY <1>1, <1>2, <1>3, WatchedStep, CausesStep, LedgerInvariant, PodTypeInvariant, PTL
  DEF KSpec

\* When the master pod ends, what was executed has succeeded, and what was left
\* out was left out because of a pod that failed.
THEOREM MissingFailed == KSpec => []MissingStepsFailed
<1>1. TypeInv /\ PassedTests /\ Ledger /\ Causes /\ MissingIsExplained => MissingStepsFailed
  <2> SUFFICES ASSUME TypeInv, PassedTests, Ledger, Causes, MissingIsExplained,
                      pc[Main] = "returned", Acyclic, ~Upset
               PROVE  /\ \A n \in Node : node_states[n] = "COMPLETED" => n \in succeeded
                      /\ \A S \in SUBSET Node : Missing(S) =>
                           \E n \in S : pods[Sanitized[n]] = "Failed"
    BY DEF MissingStepsFailed
  <2>1. ASSUME NEW n \in Node, node_states[n] = "COMPLETED" PROVE n \in succeeded
    <3>1. n \in succeeded \/ Confused(n)
      BY <2>1 DEF PassedTests, Ledger
    <3> QED BY <3>1 DEF Confused, Upset
  <2>2. ASSUME NEW S \in SUBSET Node, Missing(S)
        PROVE  \E n \in S : pods[Sanitized[n]] = "Failed"
    <3>1. ~Asserted BY DEF Upset
    <3>2. PICK t \in Thread : node[t] \in S /\ pc[t] = "raised"
      BY <2>2, <3>1 DEF MissingIsExplained
    <3>3. pods[Name(t)] = "Failed"
      BY <3>2 DEF Causes
    <3> QED BY <3>2, <3>3 DEF Name
  <2> QED BY <2>1, <2>2
<1>2. KSpec => [](PassedTests /\ MissingIsExplained)
  BY ImplementsDagRunner, PassedTestsInvariant, FailuresExplain, PTL
<1> QED
  BY <1>1, <1>2, CausesInvariant, PTL

\* The threads of the master pod do not deadlock in their joins either.
THEOREM KNoJoinDeadlock == KSpec => []JoinsDoNotDeadlock
BY ImplementsDagRunner, NoJoinDeadlock, PTL

-----------------------------------------------------------------------------
(* The pods implement the order of the steps too.                          *)

\* A pod belongs to a step for which one has been created.
Owned == \A p \in PodName : pods[p] # "Absent" => owner[p] \in Created

\* The graph stays, and so do the steps of the threads that have created a pod.
LEMMA CreatorsStay ==
  ASSUME TypeInv, PodTypeOK, Ledger, [KNext]_kvars
  PROVE  dag' = dag /\ \A t \in creators : node'[t] = node[t]
<1>1. [Next]_vars BY KStepIsStep
<1>2. dag' = dag
  BY <1>1 DEF Next, Step, Schedule, Report, Inspect, ReadUpstream, AssertWaiting,
      StartThread, Join, RunFnReturns, RunFnRaises, AssertRunning, Complete, Warn,
      RunReturns, Terminated, vars
<1>3. \A t \in creators : t \in Thread /\ pc[t] # "unborn"
  BY DEF Ledger, PodTypeOK
<1> QED BY <1>1, <1>2, <1>3, ThreadsStay

\* The creation of a pod starts its step.
LEMMA AcceptStarts ==
  ASSUME DistinctNames, TypeInv, PodTypeOK, Ledger, Owned, UpstreamRanFirst,
         dag' = dag, \A t \in creators : node'[t] = node[t],
         NEW t \in Thread, pc[t] = "run", Accept(t), node'[t] = node[t],
         succeeded' = succeeded
  PROVE  node[t] \in Node /\ PodOrder!Start(node[t]) /\ Owned'
<1>1. node[t] \in Node /\ dag[node[t]] \subseteq ran
  BY DEF TypeInv, Assigned, UpstreamRanFirst
<1>2. ran \subseteq succeeded
  BY DEF DistinctNames, Ledger, Confused, TypeInv, TypeOK
<1>3. Created' = Created \cup {node[t]}
  BY DEF Accept, Created
<1>4. Owned'
  BY <1>3 DEF Accept, Owned, PodTypeOK
<1> QED BY <1>1, <1>2, <1>3, <1>4 DEF PodOrder!Start

\* Every step of the master pod and of the cluster is a step of the order.
LEMMA PodOrderStep ==
  ASSUME DistinctNames, TypeInv, PodTypeOK, Ledger, Owned, UpstreamRanFirst,
         [KNext]_kvars
  PROVE  [PodOrder!Next]_<<dag, Created, succeeded>> /\ Owned'
<1> DEFINE Goal == [PodOrder!Next]_<<dag, Created, succeeded>> /\ Owned'
<1>1. dag' = dag /\ \A t \in creators : node'[t] = node[t]
  BY CreatorsStay
<1>2. ASSUME UNCHANGED <<pods, owner, creators, succeeded>> PROVE Goal
  <2>1. Created' = Created
    BY <1>1, <1>2 DEF Created
  <2> QED BY <1>1, <1>2, <2>1 DEF Owned
<1>3. ASSUME NEW t \in Thread, CreatePod(t) \/ ApiError(t) PROVE Goal
  <2>1. CASE UNCHANGED <<pods, owner, creators>>
    BY <1>2, <1>3, <2>1 DEF CreatePod, ApiError, podVars
  <2>2. CASE Accept(t)
    <3>1. pc[t] = "run" /\ node'[t] = node[t] /\ succeeded' = succeeded
      BY <1>3 DEF CreatePod, ApiError, Calls, RunFnRaises, vars
    <3>2. node[t] \in Node /\ PodOrder!Start(node[t]) /\ Owned'
      BY <1>1, <2>2, <3>1, AcceptStarts
    <3> QED BY <3>2 DEF PodOrder!Next
  <2> QED BY <1>3, <2>1, <2>2 DEF CreatePod, ApiError
<1>4. ASSUME NEW p \in PodName, PodSucceeds(p) PROVE Goal
  <2>1. Created' = Created
    BY <1>1, <1>4 DEF PodSucceeds, Created
  <2>2. owner[p] \in Created /\ owner[p] \in Node
    BY <1>4 DEF PodSucceeds, Owned, PodTypeOK
  <2>3. PodOrder!Succeed(owner[p])
    BY <1>1, <1>4, <2>1, <2>2 DEF PodSucceeds, PodOrder!Succeed
  <2>4. Owned'
    BY <1>4, <2>1 DEF PodSucceeds, Owned, PodTypeOK
  <2> QED BY <2>2, <2>3, <2>4 DEF PodOrder!Next
<1>5. ASSUME NEW p \in PodName, PodStarts(p) \/ PodFails(p) \/ DeletePod(p) PROVE Goal
  <2>1. Created' = Created /\ succeeded' = succeeded
    BY <1>1, <1>5 DEF PodStarts, PodFails, DeletePod, Created
  <2>2. Owned'
    BY <1>5, <2>1 DEF PodStarts, PodFails, DeletePod, Owned, PodTypeOK
  <2> QED BY <1>1, <2>1, <2>2
<1>6. ASSUME NEW t \in Thread,
             \/ Schedule(t) /\ UNCHANGED <<at, resp, podVars>>
             \/ CreateConflicts(t) \/ GetPod(t) \/ PodIsGone(t) \/ PodFailed(t)
             \/ PodIsDone(t) \/ PollAgain(t)
      PROVE  Goal
  BY <1>2, <1>6
  DEF CreateConflicts, GetPod, PodIsGone, PodFailed, PodIsDone, PollAgain, podVars
<1>7. ASSUME KReport \/ KTerminated \/ UNCHANGED kvars PROVE Goal
  BY <1>2, <1>7 DEF KReport, KTerminated, podVars, kvars
<1> HIDE DEF Goal
<1>8. Goal
  BY <1>3, <1>4, <1>5, <1>6, <1>7
  DEF KNext, KStep, RunStepOnKubernetes, PodProgress
<1> QED BY <1>8 DEF Goal

\* For every DAG, whatever the cluster and the API do: the pods implement
\* StepOrder, when no two steps share a pod name.
THEOREM PodsFollowOrder ==
  ASSUME DistinctNames
  PROVE  KSpec => PodsImplementOrder
<1>1. KInit => PodOrder!Init /\ Owned
  BY DEF KInit, Init, PodOrder!Init, Created, Owned
<1>2. TypeInv /\ PodTypeOK /\ Ledger /\ Owned /\ UpstreamRanFirst /\ [KNext]_kvars
      => [PodOrder!Next]_<<dag, Created, succeeded>> /\ Owned'
  BY PodOrderStep
<1>3. KSpec => []UpstreamRanFirst
  BY ImplementsDagRunner, UpstreamFirst, PTL
<1> QED
  BY <1>1, <1>2, <1>3, LedgerInvariant, PodTypeInvariant, PTL
  DEF KSpec, PodOrder!Spec, PodsImplementOrder
=============================================================================
