------------------------- MODULE StepLauncherProofs -------------------------
(***************************************************************************)
(* Proofs about StepLauncher for every set of steps, every graph (cyclic   *)
(* ones included), every page size and any number of mishaps.              *)
(***************************************************************************)
EXTENDS StepLauncher, FiniteSetTheorems, TLAPS

\* The steps of launch are the same for every proof: a proof that a step
\* preserves an invariant has one case for each.
LEMMA TypeInit == Init => TypeOK
BY GraphsAssumption DEF Init, TypeOK, Place, Ended, ExecutionStatus

\* Every step keeps the types.
LEMMA TypeStep == TypeOK /\ [Next]_vars => TypeOK'
<1> SUFFICES ASSUME TypeOK, [Next]_vars PROVE TypeOK'
  OBVIOUS
<1> USE DEF TypeOK, Place, Ended, ExecutionStatus, Kind, Goes, Raises, store,
            locals
<1>1. ASSUME NEW s \in Step, GetOrCreateRun(s) PROVE TypeOK'
  BY <1>1 DEF GetOrCreateRun
<1>2. ASSUME NEW s \in Step, PublishRunMetadata(s) PROVE TypeOK'
  BY <1>2 DEF PublishRunMetadata
<1>3. ASSUME NEW s \in Step, GetDocstring(s) PROVE TypeOK'
  BY <1>3 DEF GetDocstring
<1>4. ASSUME NEW s \in Step, Prepare(s) PROVE TypeOK'
  BY <1>4 DEF Prepare
<1>5. ASSUME NEW s \in Step, CreateRunStep(s) PROVE TypeOK'
  BY <1>5 DEF CreateRunStep, InsertRow
<1>6. ASSUME NEW s \in Step, PrepareOutputUris(s) PROVE TypeOK'
  BY <1>6 DEF PrepareOutputUris
<1>7. ASSUME NEW s \in Step, RunEntrypoint(s) PROVE TypeOK'
  BY <1>7 DEF RunEntrypoint
<1>8. ASSUME NEW s \in Step, PublishSuccessfulStepRun(s) PROVE TypeOK'
  BY <1>8 DEF PublishSuccessfulStepRun
<1>9. ASSUME NEW s \in Step, LaunchRemote(s) PROVE TypeOK'
  BY <1>9 DEF LaunchRemote
<1>10. ASSUME NEW s \in Step, OperatorReturns(s) PROVE TypeOK'
  BY <1>10 DEF OperatorReturns
<1>11. ASSUME NEW s \in Step, RemoveArtifactDirs(s) PROVE TypeOK'
  BY <1>11 DEF RemoveArtifactDirs
<1>12. ASSUME NEW s \in Step, PublishFailedStepRun(s) PROVE TypeOK'
  BY <1>12 DEF PublishFailedStepRun
<1>13. ASSUME NEW s \in Step, ListRunSteps(s) PROVE TypeOK'
  BY <1>13 DEF ListRunSteps, RunStatus
<1>14. ASSUME NEW s \in Step, UpdateRun(s) PROVE TypeOK'
  BY <1>14 DEF UpdateRun
<1>15. ASSUME NEW s \in Step, PublishFailedPipelineRun(s) PROVE TypeOK'
  BY <1>15 DEF PublishFailedPipelineRun
<1>16. ASSUME NEW s \in Step, RemoteStores(s) PROVE TypeOK'
  BY <1>16 DEF RemoteStores
<1>17. ASSUME NEW s \in Step, RemotePublishes(s) PROVE TypeOK'
  BY <1>17 DEF RemotePublishes
<1>18. ASSUME NEW s \in Step, Crash(s) PROVE TypeOK'
  BY <1>18 DEF Crash
<1>19. CASE UNCHANGED vars
  BY <1>19 DEF vars
<1> QED
  BY <1>1, <1>2, <1>3, <1>4, <1>5, <1>6, <1>7, <1>8, <1>9, <1>10, <1>11,
     <1>12, <1>13, <1>14, <1>15, <1>16, <1>17, <1>18, <1>19
  DEF Next, Launcher, Job, Terminated

\* The type invariant of the launchers and of the store.
THEOREM TypeCorrect == Spec => []TypeOK
BY TypeInit, TypeStep, PTL DEF Spec

-----------------------------------------------------------------------------
\* What has gone wrong stays on the record.
LEMMA MishapsGrow ==
  ASSUME [Next]_vars
  PROVE  mishaps \subseteq mishaps' /\ upstream' = upstream
BY DEF Next, Launcher, Job, Terminated, vars, store, locals, Goes, Raises,
       GetOrCreateRun, PublishRunMetadata, GetDocstring, Prepare, CreateRunStep,
       InsertRow, PrepareOutputUris, RunEntrypoint, PublishSuccessfulStepRun, LaunchRemote,
       OperatorReturns, RemoveArtifactDirs, PublishFailedStepRun, ListRunSteps,
       UpdateRun, PublishFailedPipelineRun, RemoteStores, RemotePublishes, Crash

\* Every step keeps what a launcher's place says of the store.
LEMMA PlacesStep ==
  TypeOK /\ Places /\ [Next]_vars => Places'
<1> SUFFICES ASSUME TypeOK, Places, [Next]_vars PROVE Places'
  OBVIOUS
<1>a. upstream \in [Step -> SUBSET Step]
  BY GraphsAssumption DEF TypeOK
<1> USE DEF TypeOK, Place, Ended, Goes, Raises, store, locals, HasOutputs, Done,
            Places, ExecutionStatus, Absent
<1>1. ASSUME NEW s \in Step, GetOrCreateRun(s) PROVE Places'
  BY <1>a, <1>1 DEF GetOrCreateRun
<1>2. ASSUME NEW s \in Step, PublishRunMetadata(s) PROVE Places'
  BY <1>a, <1>2 DEF PublishRunMetadata
<1>3. ASSUME NEW s \in Step, GetDocstring(s) PROVE Places'
  BY <1>a, <1>3 DEF GetDocstring
<1>4. ASSUME NEW s \in Step, Prepare(s) PROVE Places'
  BY <1>a, <1>4 DEF Prepare
<1>5. ASSUME NEW s \in Step, CreateRunStep(s) PROVE Places'
  BY <1>a, <1>5 DEF CreateRunStep, InsertRow
<1>6. ASSUME NEW s \in Step, PrepareOutputUris(s) PROVE Places'
  BY <1>a, <1>6 DEF PrepareOutputUris
<1>7. ASSUME NEW s \in Step, RunEntrypoint(s) PROVE Places'
  BY <1>a, <1>7 DEF RunEntrypoint
<1>8. ASSUME NEW s \in Step, PublishSuccessfulStepRun(s) PROVE Places'
  BY <1>a, <1>8 DEF PublishSuccessfulStepRun
<1>9. ASSUME NEW s \in Step, LaunchRemote(s) PROVE Places'
  BY <1>a, <1>9 DEF LaunchRemote
<1>10. ASSUME NEW s \in Step, OperatorReturns(s) PROVE Places'
  BY <1>a, <1>10 DEF OperatorReturns
<1>11. ASSUME NEW s \in Step, RemoveArtifactDirs(s) PROVE Places'
  BY <1>a, <1>11 DEF RemoveArtifactDirs
<1>12. ASSUME NEW s \in Step, PublishFailedStepRun(s) PROVE Places'
  BY <1>a, <1>12 DEF PublishFailedStepRun
<1>13. ASSUME NEW s \in Step, ListRunSteps(s) PROVE Places'
  BY <1>a, <1>13 DEF ListRunSteps
<1>14. ASSUME NEW s \in Step, UpdateRun(s) PROVE Places'
  BY <1>a, <1>14 DEF UpdateRun
<1>15. ASSUME NEW s \in Step, PublishFailedPipelineRun(s) PROVE Places'
  BY <1>a, <1>15 DEF PublishFailedPipelineRun
<1>16. ASSUME NEW s \in Step, RemoteStores(s) PROVE Places'
  BY <1>a, <1>16 DEF RemoteStores
<1>17. ASSUME NEW s \in Step, RemotePublishes(s) PROVE Places'
  BY <1>a, <1>17 DEF RemotePublishes
<1>18. ASSUME NEW s \in Step, Crash(s) PROVE Places'
  BY <1>a, <1>18 DEF Crash
<1>19. CASE UNCHANGED vars
  BY <1>a, <1>19 DEF vars
<1> QED
  BY <1>1, <1>2, <1>3, <1>4, <1>5, <1>6, <1>7, <1>8, <1>9, <1>10, <1>11,
     <1>12, <1>13, <1>14, <1>15, <1>16, <1>17, <1>18, <1>19
  DEF Next, Launcher, Job, Terminated

\* Every step keeps a done row done, unless a reply is lost or a job given up.
LEMMA DoneStep ==
  TypeOK /\ DoneIsStable /\ Places /\ [Next]_vars => DoneIsStable'
<1> SUFFICES ASSUME TypeOK, DoneIsStable, Places, [Next]_vars PROVE DoneIsStable'
  OBVIOUS
<1>a. Reliable' => Reliable
  BY MishapsGrow DEF Reliable, Only
<1> USE DEF TypeOK, Place, Ended, Goes, Raises, store, locals, HasOutputs, Done,
            DoneIsStable, Places, ExecutionStatus, Absent
<1>1. ASSUME NEW s \in Step, GetOrCreateRun(s) PROVE DoneIsStable'
  BY <1>a, <1>1 DEF GetOrCreateRun
<1>2. ASSUME NEW s \in Step, PublishRunMetadata(s) PROVE DoneIsStable'
  BY <1>a, <1>2 DEF PublishRunMetadata
<1>3. ASSUME NEW s \in Step, GetDocstring(s) PROVE DoneIsStable'
  BY <1>a, <1>3 DEF GetDocstring
<1>4. ASSUME NEW s \in Step, Prepare(s) PROVE DoneIsStable'
  BY <1>a, <1>4 DEF Prepare
<1>5. ASSUME NEW s \in Step, CreateRunStep(s) PROVE DoneIsStable'
  BY <1>a, <1>5 DEF CreateRunStep, InsertRow
<1>6. ASSUME NEW s \in Step, PrepareOutputUris(s) PROVE DoneIsStable'
  BY <1>a, <1>6 DEF PrepareOutputUris
<1>7. ASSUME NEW s \in Step, RunEntrypoint(s) PROVE DoneIsStable'
  BY <1>a, <1>7 DEF RunEntrypoint
<1>8. ASSUME NEW s \in Step, PublishSuccessfulStepRun(s) PROVE DoneIsStable'
  <2>1. CASE Raises(s, "publish_lost", "cleanup")
    <3>1. ~Reliable'
      BY <2>1 DEF Reliable, Only
    <3> QED
      BY <3>1
  <2>2. CASE ~Raises(s, "publish_lost", "cleanup")
    BY <1>a, <1>8, <2>2 DEF PublishSuccessfulStepRun
  <2> QED
    BY <2>1, <2>2
<1>9. ASSUME NEW s \in Step, LaunchRemote(s) PROVE DoneIsStable'
  BY <1>a, <1>9 DEF LaunchRemote
<1>10. ASSUME NEW s \in Step, OperatorReturns(s) PROVE DoneIsStable'
  <2>1. CASE Raises(s, "wait", "cleanup")
    <3>1. ~Reliable'
      BY <2>1 DEF Reliable, Only
    <3> QED
      BY <3>1
  <2>2. CASE ~Raises(s, "wait", "cleanup")
    BY <1>a, <1>10, <2>2 DEF OperatorReturns
  <2> QED
    BY <2>1, <2>2
<1>11. ASSUME NEW s \in Step, RemoveArtifactDirs(s) PROVE DoneIsStable'
  BY <1>a, <1>11 DEF RemoveArtifactDirs
<1>12. ASSUME NEW s \in Step, PublishFailedStepRun(s) PROVE DoneIsStable'
  BY <1>a, <1>12 DEF PublishFailedStepRun
<1>13. ASSUME NEW s \in Step, ListRunSteps(s) PROVE DoneIsStable'
  BY <1>a, <1>13 DEF ListRunSteps, RunStatus
<1>14. ASSUME NEW s \in Step, UpdateRun(s) PROVE DoneIsStable'
  BY <1>a, <1>14 DEF UpdateRun
<1>15. ASSUME NEW s \in Step, PublishFailedPipelineRun(s) PROVE DoneIsStable'
  BY <1>a, <1>15 DEF PublishFailedPipelineRun
<1>16. ASSUME NEW s \in Step, RemoteStores(s) PROVE DoneIsStable'
  BY <1>a, <1>16 DEF RemoteStores
<1>17. ASSUME NEW s \in Step, RemotePublishes(s) PROVE DoneIsStable'
  <2>1. CASE Raises(s, "publish_lost", pc[s])
    <3>1. ~Reliable'
      BY <2>1 DEF Reliable, Only
    <3> QED
      BY <3>1
  <2>2. CASE ~Raises(s, "publish_lost", pc[s])
    BY <1>a, <1>17, <2>2 DEF RemotePublishes
  <2> QED
    BY <2>1, <2>2
<1>18. ASSUME NEW s \in Step, Crash(s) PROVE DoneIsStable'
  BY <1>a, <1>18 DEF Crash
<1>19. CASE UNCHANGED vars
  BY <1>a, <1>19 DEF vars
<1> QED
  BY <1>1, <1>2, <1>3, <1>4, <1>5, <1>6, <1>7, <1>8, <1>9, <1>10, <1>11,
     <1>12, <1>13, <1>14, <1>15, <1>16, <1>17, <1>18, <1>19
  DEF Next, Launcher, Job, Terminated

\* Every step keeps a FAILED row behind each FAILED status, while failures are
\* orderly.
LEMMA FailureStep ==
  TypeOK /\ FailureIsRecorded /\ DoneIsStable /\ Places /\ [Next]_vars => FailureIsRecorded'
<1> SUFFICES ASSUME TypeOK, FailureIsRecorded, DoneIsStable, Places, [Next]_vars PROVE FailureIsRecorded'
  OBVIOUS
<1>a. (Orderly' => Orderly) /\ (Orderly => Reliable)
  BY MishapsGrow DEF Orderly, Reliable, Only, Kind
<1> USE DEF TypeOK, Place, Ended, Goes, Raises, store, locals, HasOutputs, Done,
            FailureIsRecorded, FailedRow, DoneIsStable, Places, ExecutionStatus,
            Absent
<1>1. ASSUME NEW s \in Step, GetOrCreateRun(s) PROVE FailureIsRecorded'
  BY <1>a, <1>1 DEF GetOrCreateRun
<1>2. ASSUME NEW s \in Step, PublishRunMetadata(s) PROVE FailureIsRecorded'
  <2>1. CASE Raises(s, "metadata", "fail_run")
    <3>1. ~Orderly'
      BY <2>1 DEF Orderly, Only
    <3> QED
      BY <3>1
  <2>2. CASE ~Raises(s, "metadata", "fail_run")
    BY <1>a, <1>2, <2>2 DEF PublishRunMetadata
  <2> QED
    BY <2>1, <2>2
<1>3. ASSUME NEW s \in Step, GetDocstring(s) PROVE FailureIsRecorded'
  <2>1. CASE Raises(s, "docstring", "fail_run")
    <3>1. ~Orderly'
      BY <2>1 DEF Orderly, Only
    <3> QED
      BY <3>1
  <2>2. CASE ~Raises(s, "docstring", "fail_run")
    BY <1>a, <1>3, <2>2 DEF GetDocstring
  <2> QED
    BY <2>1, <2>2
<1>4. ASSUME NEW s \in Step, Prepare(s) PROVE FailureIsRecorded'
  BY <1>a, <1>4 DEF Prepare
<1>5. ASSUME NEW s \in Step, CreateRunStep(s) PROVE FailureIsRecorded'
  <2>1. CASE Raises(s, "create", "fail_run")
    <3>1. ~Orderly'
      BY <2>1 DEF Orderly, Only
    <3> QED
      BY <3>1
  <2>2. CASE ~Raises(s, "create", "fail_run")
    BY <1>a, <1>5, <2>2 DEF CreateRunStep, InsertRow
  <2> QED
    BY <2>1, <2>2
<1>6. ASSUME NEW s \in Step, PrepareOutputUris(s) PROVE FailureIsRecorded'
  BY <1>a, <1>6 DEF PrepareOutputUris
<1>7. ASSUME NEW s \in Step, RunEntrypoint(s) PROVE FailureIsRecorded'
  BY <1>a, <1>7 DEF RunEntrypoint
<1>8. ASSUME NEW s \in Step, PublishSuccessfulStepRun(s) PROVE FailureIsRecorded'
  BY <1>a, <1>8 DEF PublishSuccessfulStepRun
<1>9. ASSUME NEW s \in Step, LaunchRemote(s) PROVE FailureIsRecorded'
  BY <1>a, <1>9 DEF LaunchRemote
<1>10. ASSUME NEW s \in Step, OperatorReturns(s) PROVE FailureIsRecorded'
  BY <1>a, <1>10 DEF OperatorReturns
<1>11. ASSUME NEW s \in Step, RemoveArtifactDirs(s) PROVE FailureIsRecorded'
  BY <1>a, <1>11 DEF RemoveArtifactDirs
<1>12. ASSUME NEW s \in Step, PublishFailedStepRun(s) PROVE FailureIsRecorded'
  <2>1. CASE Raises(s, "fail_step", "fail_run")
    <3>1. ~Orderly'
      BY <2>1 DEF Orderly, Only
    <3> QED
      BY <3>1
  <2>2. CASE ~Raises(s, "fail_step", "fail_run")
    BY <1>a, <1>12, <2>2 DEF PublishFailedStepRun
  <2> QED
    BY <2>1, <2>2
<1>13. ASSUME NEW s \in Step, ListRunSteps(s) PROVE FailureIsRecorded'
  <2>1. CASE Raises(s, "update", "fail_run")
    <3>1. ~Orderly'
      BY <2>1 DEF Orderly, Only
    <3> QED
      BY <3>1
  <2>2. CASE ~Raises(s, "update", "fail_run")
    BY <1>a, <1>13, <2>2 DEF ListRunSteps, RunStatus
  <2> QED
    BY <2>1, <2>2
<1>14. ASSUME NEW s \in Step, UpdateRun(s) PROVE FailureIsRecorded'
  <2>1. CASE Raises(s, "update", "fail_run")
    <3>1. ~Orderly'
      BY <2>1 DEF Orderly, Only
    <3> QED
      BY <3>1
  <2>2. CASE ~Raises(s, "update", "fail_run")
    BY <1>a, <1>14, <2>2 DEF UpdateRun
  <2> QED
    BY <2>1, <2>2
<1>15. ASSUME NEW s \in Step, PublishFailedPipelineRun(s) PROVE FailureIsRecorded'
  BY <1>a, <1>15 DEF PublishFailedPipelineRun
<1>16. ASSUME NEW s \in Step, RemoteStores(s) PROVE FailureIsRecorded'
  BY <1>a, <1>16 DEF RemoteStores
<1>17. ASSUME NEW s \in Step, RemotePublishes(s) PROVE FailureIsRecorded'
  <2>1. CASE Raises(s, "publish_lost", pc[s])
    <3>1. ~Orderly'
      BY <2>1 DEF Orderly, Only
    <3> QED
      BY <3>1
  <2>2. CASE ~Raises(s, "publish_lost", pc[s])
    BY <1>a, <1>17, <2>2 DEF RemotePublishes
  <2> QED
    BY <2>1, <2>2
<1>18. ASSUME NEW s \in Step, Crash(s) PROVE FailureIsRecorded'
  BY <1>a, <1>18 DEF Crash
<1>19. CASE UNCHANGED vars
  BY <1>a, <1>19 DEF vars
<1> QED
  BY <1>1, <1>2, <1>3, <1>4, <1>5, <1>6, <1>7, <1>8, <1>9, <1>10, <1>11,
     <1>12, <1>13, <1>14, <1>15, <1>16, <1>17, <1>18, <1>19
  DEF Next, Launcher, Job, Terminated

\* The strengthening holds before any launcher starts.
LEMMA IndInit == Init => Places /\ DoneIsStable /\ FailureIsRecorded
BY DEF Init, Places, DoneIsStable, FailureIsRecorded, Ended, Absent, Done

\* The strengthening is an invariant.
LEMMA IndInvariant ==
  Spec => [](TypeOK /\ Places /\ DoneIsStable /\ FailureIsRecorded)
BY TypeInit, TypeStep, IndInit, PlacesStep, DoneStep, FailureStep, PTL DEF Spec

-----------------------------------------------------------------------------
\* No step function runs on an input that is not there, whatever goes wrong.
THEOREM InputsAreThere == Spec => []InputsExist
<1>1. TypeOK /\ Places => InputsExist
  <2> SUFFICES ASSUME TypeOK, Places PROVE InputsExist
    OBVIOUS
  <2>1. upstream \in [Step -> SUBSET Step]
    BY GraphsAssumption DEF TypeOK
  <2> QED
    BY <2>1 DEF TypeOK, Places, HasOutputs, InputsExist
<1> QED
  BY <1>1, IndInvariant, PTL

\* A COMPLETED run has all its steps' outputs, as long as no reply is lost and
\* no running job is given up.
THEOREM CompletedIsDone == Spec => []CompletedMeansDone
<1>1. DoneIsStable => CompletedMeansDone
  BY DEF DoneIsStable, CompletedMeansDone, Reliable, HasOutputs
<1> QED
  BY <1>1, IndInvariant, PTL

\* A step of the launchers, the jobs or the cluster other than those that write
\* the run's row, list its steps or end a launcher.
Quiet ==
  /\ run' = run /\ computed' = computed
  /\ \A s \in Step : pc'[s] \in {"write"} \cup Ended => pc'[s] = pc[s]

LEMMA QuietSteps ==
  ASSUME TypeOK, [Next]_vars
  PROVE  \/ Quiet
         \/ \E s \in Step : \/ GetOrCreateRun(s) \/ ListRunSteps(s) \/ UpdateRun(s)
                           \/ PublishFailedPipelineRun(s) \/ Crash(s)
<1> USE DEF TypeOK, Quiet, Ended, Goes, Raises, store, locals
<1>1. ASSUME NEW s \in Step,
             PublishRunMetadata(s) \/ GetDocstring(s) \/ Prepare(s) \/ CreateRunStep(s)
      PROVE  Quiet
  BY <1>1 DEF PublishRunMetadata, GetDocstring, Prepare, CreateRunStep, InsertRow
<1>2. ASSUME NEW s \in Step,
             PrepareOutputUris(s) \/ RunEntrypoint(s) \/ PublishSuccessfulStepRun(s)
      PROVE  Quiet
  BY <1>2 DEF PrepareOutputUris, RunEntrypoint, PublishSuccessfulStepRun
<1>3. ASSUME NEW s \in Step,
             LaunchRemote(s) \/ OperatorReturns(s) \/ RemoveArtifactDirs(s)
             \/ PublishFailedStepRun(s)
      PROVE  Quiet
  BY <1>3 DEF LaunchRemote, OperatorReturns, RemoveArtifactDirs, PublishFailedStepRun
<1>4. ASSUME NEW s \in Step, Job(s) PROVE Quiet
  BY <1>4 DEF Job, RemoteStores, RemotePublishes
<1>5. CASE UNCHANGED vars
  BY <1>5 DEF vars
<1> QED
  BY <1>1, <1>2, <1>3, <1>4, <1>5 DEF Next, Launcher, Terminated

\* A run that has ended keeps its status: whoever would write another one has
\* computed it from rows that say the same as the run.
LEMMA EndStays ==
  ASSUME TypeOK, Places, DoneIsStable, FailureIsRecorded, [Next]_vars,
         Orderly', run \in {"FAILED", "COMPLETED"}
  PROVE  run' = run
<1>1. Orderly /\ Reliable
  BY MishapsGrow DEF Orderly, Reliable, Only, Kind
<1>2. /\ run = "FAILED" => \E t \in Step : row[t] = "FAILED"
      /\ run = "COMPLETED" => \A t \in Step : row[t] # "FAILED"
  BY <1>1 DEF FailureIsRecorded, FailedRow, DoneIsStable, Done
<1>3. ASSUME NEW s \in Step, UpdateRun(s) PROVE run' = run
  <2>1. pc[s] = "write"
    BY <1>3 DEF UpdateRun
  <2>2. /\ computed[s] \in {"RUNNING", "FAILED", "COMPLETED"}
        /\ snapshot[s] \in {"RUNNING", "FAILED"}
    BY <1>1, <2>1 DEF FailureIsRecorded, TypeOK, Absent
  <2>3. CASE run = "FAILED"
    <3>1. computed[s] # "COMPLETED"
      BY <1>1, <1>2, <2>1, <2>3 DEF DoneIsStable, Done
    <3>2. computed[s] # snapshot[s] => computed[s] = "FAILED"
      BY <1>1, <2>1, <2>2, <3>1 DEF FailureIsRecorded
    <3> QED
      BY <1>3, <2>3, <3>2 DEF UpdateRun
  <2>4. CASE run = "COMPLETED"
    <3>1. computed[s] # "FAILED" /\ snapshot[s] # "FAILED"
      BY <1>1, <1>2, <2>1, <2>4 DEF FailureIsRecorded, FailedRow
    <3>2. computed[s] # snapshot[s] => computed[s] = "COMPLETED"
      BY <2>2, <3>1
    <3> QED
      BY <1>3, <2>4, <3>2 DEF UpdateRun
  <2> QED
    BY <2>3, <2>4
<1>4. ASSUME NEW s \in Step, PublishFailedPipelineRun(s) PROVE run' = run
  <2>1. row[s] = "FAILED"
    BY <1>1, <1>4 DEF FailureIsRecorded, PublishFailedPipelineRun
  <2>2. run = "FAILED"
    BY <1>2, <2>1
  <2> QED
    BY <1>4, <2>2 DEF PublishFailedPipelineRun
<1>5. ASSUME NEW s \in Step, GetOrCreateRun(s) \/ ListRunSteps(s) \/ Crash(s)
      PROVE  run' = run
  BY <1>5 DEF GetOrCreateRun, ListRunSteps, Crash, Absent, store
<1> QED
  BY <1>3, <1>4, <1>5, QuietSteps DEF Quiet

\* While every failure is an orderly one, no step takes a run from FAILED or
\* from COMPLETED to another status.
THEOREM EndStaysEnd == Spec => EndIsFinal
<1>1. /\ TypeOK /\ Places /\ DoneIsStable /\ FailureIsRecorded
      /\ [Next]_vars
      => [Orderly' /\ run \in {"FAILED", "COMPLETED"} => run' = run]_vars
  BY EndStays
<1> QED
  BY <1>1, IndInvariant, PTL DEF Spec, EndIsFinal

-----------------------------------------------------------------------------
(* The launcher that finishes last decides.  A launcher that lists the     *)
(* rows when all others have listed them sees all of them done; one that   *)
(* fails sets the run to FAILED, which is final.                           *)

Decided ==
  Handled =>
    /\ \A s \in Step :
         /\ pc[s] # "crashed"
         /\ pc[s] = "error" => run = "FAILED"
         /\ pc[s] = "ok" /\ computed[s] = "COMPLETED" => run = "COMPLETED"
    /\ Step # {} /\ (\A s \in Step : pc[s] \in {"write", "ok"}) =>
         \E s \in Step : computed[s] = "COMPLETED"

\* Every step keeps the decision.
LEMMA DecidedStep ==
  TypeOK /\ Places /\ DoneIsStable /\ FailureIsRecorded /\ Decided /\ [Next]_vars
    => Decided'
<1> SUFFICES ASSUME TypeOK, Places, DoneIsStable, FailureIsRecorded, Decided,
                    [Next]_vars, Handled'
             PROVE  Decided'
  BY DEF Decided
<1>1. Handled /\ Orderly' /\ Orderly
  BY MishapsGrow DEF Handled, Orderly, Only
<1>2. run \in {"FAILED", "COMPLETED"} => run' = run
  BY <1>1, EndStays
<1>a. ASSUME NEW s \in Step, NEW h, NEW kind,
             kind \notin {"prepare", "execute", "entry", "publish", "cleanup"}
      PROVE  ~Raises(s, kind, h)
  <2> SUFFICES ASSUME Raises(s, kind, h) PROVE FALSE
    OBVIOUS
  <2>1. <<kind, s>> \in mishaps'
    BY DEF Raises
  <2>2. mishaps' \subseteq {"prepare", "execute", "entry", "publish", "cleanup"} \X Step
    BY DEF Handled, Only
  <2> QED
    BY <1>a, <2>1, <2>2
<1> USE DEF TypeOK, Goes
<1>3. CASE Quiet
  BY <1>1, <1>2, <1>3 DEF Quiet, Decided, Ended
<1>4. ASSUME NEW s \in Step, GetOrCreateRun(s) PROVE Decided'
  <2>1. ~Raises(s, "get_run", "error")
    BY <1>a
  <2> QED
    BY <1>1, <1>2, <1>4, <2>1 DEF GetOrCreateRun, Decided
<1>5. ASSUME NEW s \in Step, ListRunSteps(s) PROVE Decided'
  <2>1. ~Raises(s, "update", "fail_run")
    BY <1>a
  <2>2. /\ pc[s] = "list" /\ pc' = [pc EXCEPT ![s] = "write"] /\ run' = run
        /\ computed' = [computed EXCEPT ![s] = RunStatus]
    BY <1>5, <2>1 DEF ListRunSteps, store
  <2>3. ASSUME \A t \in Step : pc'[t] \in {"write", "ok"}
        PROVE  computed'[s] = "COMPLETED"
    <3>1. \A t \in Step : pc[t] \in {"list", "write", "ok"}
      BY <2>2, <2>3
    <3>2. \A t \in Step : row[t] \in Done
      BY <3>1 DEF Places, HasOutputs
    <3>3. RunStatus = "COMPLETED"
      BY <3>2 DEF RunStatus, Done, Absent
    <3> QED
      BY <2>2, <3>3
  <2> QED
    BY <1>1, <2>2, <2>3 DEF Decided
<1>6. ASSUME NEW s \in Step, UpdateRun(s) PROVE Decided'
  <2>1. ~Raises(s, "update", "fail_run")
    BY <1>a
  <2>2. /\ pc[s] = "write" /\ pc' = [pc EXCEPT ![s] = "ok"] /\ computed' = computed
        /\ run' = IF computed[s] # snapshot[s] THEN computed[s] ELSE run
    BY <1>6, <2>1 DEF UpdateRun, locals
  <2>3. snapshot[s] # "COMPLETED"
    BY <1>1, <2>2 DEF FailureIsRecorded
  <2> QED
    BY <1>1, <1>2, <2>2, <2>3 DEF Decided
<1>7. ASSUME NEW s \in Step, PublishFailedPipelineRun(s) PROVE Decided'
  <2>1. ~Raises(s, "fail_run", "error")
    BY <1>a
  <2> QED
    BY <1>1, <1>2, <1>7, <2>1 DEF PublishFailedPipelineRun, Decided, locals
<1>8. ASSUME NEW s \in Step, Crash(s) PROVE FALSE
  BY <1>a, <1>8 DEF Crash
<1> QED
  BY <1>3, <1>4, <1>5, <1>6, <1>7, <1>8, QuietSteps

\* Of the launchers of a graph without a cycle that are at rest, either all have
\* succeeded or one has ended with an error.
LEMMA AllOrError ==
  ASSUME TypeOK, AtRest, Acyclic, \A s \in Step : pc[s] # "crashed",
         \E s \in Step : pc[s] # "ok"
  PROVE  \E s \in Step : pc[s] = "error"
<1> DEFINE S == {s \in Step : pc[s] # "ok"}
<1>1. PICK s \in S : upstream[s] \cap S = {}
  BY DEF Acyclic
<1>2. upstream[s] \subseteq Step
  BY GraphsAssumption DEF TypeOK
<1>3. \A u \in upstream[s] : pc[u] = "ok"
  BY <1>1, <1>2
<1> QED
  BY <1>3 DEF AtRest, Ended

\* When no launcher is at work any more, the status of the run says how the
\* launchers have ended, for every graph without a cycle and any number of
\* failures that the launchers handle.
THEOREM OutcomeIsDecided == Spec => []OutcomeAtRest
<1>1. Init => Decided
  BY DEF Init, Decided
<1>2. TypeOK /\ Decided => OutcomeAtRest
  <2> SUFFICES ASSUME TypeOK, Decided, AtRest, Acyclic, Step # {}, Handled
               PROVE  run = IF \A s \in Step : pc[s] = "ok" THEN "COMPLETED" ELSE "FAILED"
    BY DEF OutcomeAtRest
  <2>1. CASE \A s \in Step : pc[s] = "ok"
    BY <2>1 DEF Decided
  <2>2. CASE \E s \in Step : pc[s] # "ok"
    <3>1. \A s \in Step : pc[s] # "crashed" /\ (pc[s] = "error" => run = "FAILED")
      BY DEF Decided
    <3>2. \E s \in Step : pc[s] = "error"
      BY <2>2, <3>1, AllOrError
    <3> QED
      BY <2>2, <3>1, <3>2
  <2> QED
    BY <2>1, <2>2
<1> QED
  BY <1>1, <1>2, DecidedStep, IndInvariant, PTL DEF Spec

-----------------------------------------------------------------------------
(* The inputs of a step.  resolve_step_inputs reads one page of the rows:  *)
(* this is the only reason for which it may miss an input that is there.   *)

HasRow(s) == pc[s] \in {"execute", "entry", "publish", "wait", "cleanup", "fail_step",
                        "list", "write", "ok"}

\* The rows of the steps at work are on the first page, and nothing is missed.
AllOnPage ==
  /\ \A s \in Step : HasRow(s) => s \in firstPage
  /\ unresolved = {}

\* A page that is full holds the rows of all steps.
LEMMA InsertOnPage ==
  ASSUME IsFiniteSet(Step), Cardinality(Step) <= PageSize, TypeOK,
         NEW s \in Step, InsertRow(s)
  PROVE  firstPage \subseteq firstPage' /\ s \in firstPage'
<1>1. CASE Cardinality(firstPage) < PageSize
  BY <1>1 DEF InsertRow
<1>2. CASE ~ (Cardinality(firstPage) < PageSize)
  <2>1. firstPage \subseteq Step
    BY DEF TypeOK
  <2>2. /\ Cardinality(firstPage) \in Nat /\ Cardinality(Step) \in Nat
        /\ Cardinality(firstPage) <= Cardinality(Step)
        /\ Cardinality(firstPage) = Cardinality(Step) => firstPage = Step
    BY <2>1, FS_Subset, FS_CardinalityType
  <2>3. firstPage = Step
    BY <1>2, <2>2, NumbersAssumption
  <2> QED
    BY <1>2, <2>3 DEF InsertRow
<1> QED
  BY <1>1, <1>2

\* Whatever goes wrong, a launcher that is started finds its inputs on the page.
LEMMA OnPageStep ==
  ASSUME IsFiniteSet(Step), Cardinality(Step) <= PageSize,
         TypeOK, Places, AllOnPage, [Next]_vars
  PROVE  AllOnPage'
<1> USE DEF TypeOK, AllOnPage, HasRow, Goes, Raises, store, locals
<1>1. ASSUME NEW s \in Step, Prepare(s) PROVE AllOnPage'
  <2>1. upstream[s] \subseteq Step
    BY GraphsAssumption
  <2>2. \A u \in upstream[s] : u \in firstPage /\ u \in linked
    BY <1>1, <2>1 DEF Places, HasOutputs, Prepare
  <2>3. CanResolve(s)
    BY <2>2 DEF CanResolve
  <2> QED
    BY <1>1, <2>3 DEF Prepare
<1>2. ASSUME NEW s \in Step, CreateRunStep(s) PROVE AllOnPage'
  <2>1. CASE InsertRow(s)
    <3>1. firstPage \subseteq firstPage' /\ s \in firstPage'
      BY <2>1, InsertOnPage
    <3> QED
      BY <1>2, <3>1 DEF CreateRunStep
  <2>2. CASE ~InsertRow(s)
    BY <1>2, <2>2 DEF CreateRunStep
  <2> QED
    BY <2>1, <2>2
<1>3. ASSUME NEW s \in Step,
             GetOrCreateRun(s) \/ PublishRunMetadata(s) \/ GetDocstring(s)
      PROVE  AllOnPage'
  BY <1>3 DEF GetOrCreateRun, PublishRunMetadata, GetDocstring
<1>4. ASSUME NEW s \in Step,
             PrepareOutputUris(s) \/ RunEntrypoint(s) \/ PublishSuccessfulStepRun(s)
      PROVE  AllOnPage'
  BY <1>4 DEF PrepareOutputUris, RunEntrypoint, PublishSuccessfulStepRun
<1>5. ASSUME NEW s \in Step,
             LaunchRemote(s) \/ OperatorReturns(s) \/ RemoveArtifactDirs(s)
             \/ PublishFailedStepRun(s)
      PROVE  AllOnPage'
  BY <1>5 DEF LaunchRemote, OperatorReturns, RemoveArtifactDirs, PublishFailedStepRun
<1>6. ASSUME NEW s \in Step,
             ListRunSteps(s) \/ UpdateRun(s) \/ PublishFailedPipelineRun(s) \/ Crash(s)
      PROVE  AllOnPage'
  BY <1>6 DEF ListRunSteps, UpdateRun, PublishFailedPipelineRun, Crash
<1>7. ASSUME NEW s \in Step, Job(s) PROVE AllOnPage'
  BY <1>7 DEF Job, RemoteStores, RemotePublishes
<1>8. CASE UNCHANGED vars
  BY <1>8 DEF vars
<1> QED
  BY <1>1, <1>2, <1>3, <1>4, <1>5, <1>6, <1>7, <1>8 DEF Next, Launcher, Terminated

\* When the rows of a run fit on one page, InputResolutionError is never raised:
\* what its docstring says then holds, as every input is there.
THEOREM OnePageResolves ==
  ASSUME IsFiniteSet(Step), Cardinality(Step) <= PageSize
  PROVE  Spec => [](unresolved = {} /\ ResolutionFailsOnMissing)
<1>1. Init => AllOnPage
  BY DEF Init, AllOnPage, HasRow
<1>2. TypeOK /\ Places /\ AllOnPage /\ [Next]_vars => AllOnPage'
  BY OnPageStep
<1>3. AllOnPage => unresolved = {} /\ ResolutionFailsOnMissing
  BY DEF AllOnPage, ResolutionFailsOnMissing
<1> QED
  BY <1>1, <1>2, <1>3, IndInvariant, PTL DEF Spec
=============================================================================
