--------------------------- MODULE DagRunnerProofs --------------------------
(***************************************************************************)
(* Proofs about DagRunner for every set of nodes, every set of graphs      *)
(* (cyclic ones included), every set of faulty nodes and any number of     *)
(* threads.                                                                *)
(***************************************************************************)
EXTENDS DagRunner, TLAPS

\* Every step keeps the types, and gives a thread that needs a node one.
LEMMA TypeStep == TypeInv /\ [Next]_vars => TypeInv'
<1> SUFFICES ASSUME TypeInv, [Next]_vars PROVE TypeInv'
  OBVIOUS
<1> USE DEF TypeInv, TypeOK, Assigned, NodeStatus, Active, Ended
<1>1. dag \in [Node -> SUBSET Node]
  BY GraphsAssumption
<1>2. ASSUME NEW t \in Thread, NEW n \in Node, Inspect(t, n) PROVE TypeInv'
  BY <1>1, <1>2 DEF Inspect
<1>3. ASSUME NEW t \in Thread, NEW u \in Node, ReadUpstream(t, u)
      PROVE TypeInv'
  BY <1>3 DEF ReadUpstream
<1>4. ASSUME NEW t \in Thread, AssertWaiting(t) PROVE TypeInv'
  BY <1>4 DEF AssertWaiting
<1>5. ASSUME NEW t \in Thread, StartThread(t) PROVE TypeInv'
  BY <1>5 DEF StartThread
<1>6. ASSUME NEW t \in Thread, Join(t) PROVE TypeInv'
  BY <1>6 DEF Join
<1>7. ASSUME NEW t \in Thread, RunFnReturns(t) PROVE TypeInv'
  BY <1>7 DEF RunFnReturns
<1>8. ASSUME NEW t \in Thread, RunFnRaises(t) PROVE TypeInv'
  BY <1>8 DEF RunFnRaises
<1>9. ASSUME NEW t \in Thread, AssertRunning(t) PROVE TypeInv'
  BY <1>9 DEF AssertRunning
<1>10. ASSUME NEW t \in Thread, Complete(t) PROVE TypeInv'
  BY <1>10 DEF Complete, ReversedDag
<1>11. CASE Report
  BY <1>11, MainAssumption DEF Report, Warn, RunReturns
<1>12. CASE UNCHANGED vars
  BY <1>12 DEF vars
<1> QED
  BY <1>2, <1>3, <1>4, <1>5, <1>6, <1>7, <1>8, <1>9, <1>10, <1>11, <1>12
  DEF Next, Step, Schedule, Terminated

\* The initial states have the types.
LEMMA TypeInit == Init => TypeInv
BY GraphsAssumption
DEF Init, TypeInv, TypeOK, Assigned, NodeStatus, Active, Ended

\* TypeInv is inductive, hence an invariant.
LEMMA TypeInvariant == Spec => []TypeInv
BY TypeInit, TypeStep, PTL DEF Spec

\* The type invariant of the runner.
THEOREM TypeCorrect == Spec => []TypeOK
<1>1. TypeInv => TypeOK
  BY DEF TypeInv
<1> QED
  BY <1>1, TypeInvariant, PTL

-----------------------------------------------------------------------------
\* A thread keeps the node it was started for, and does not go on when it has
\* ended; only a new thread enters run_fn.
LEMMA ThreadsStay ==
  ASSUME TypeInv, [Next]_vars, NEW t \in Thread
  PROVE  /\ pc[t] # "unborn" => pc'[t] # "unborn" /\ node'[t] = node[t]
         /\ pc'[t] = "unborn" => node'[t] = node[t]
         /\ pc[t] \in Ended => pc'[t] = pc[t]
         /\ pc'[t] = "run" => pc[t] \in {"unborn", "run"}
<1> USE MainAssumption DEF TypeInv, TypeOK, Ended
<1>1. ASSUME NEW k \in Thread, NEW n \in Node, Inspect(k, n) \/ ReadUpstream(k, n)
      PROVE  node' = node /\ pc[k] \notin Ended \cup {"unborn", "run"}
             /\ \E place \in Active \ {"run"} : pc' = [pc EXCEPT ![k] = place]
  BY <1>1 DEF Inspect, ReadUpstream, Active
<1>2. ASSUME NEW k \in Thread,
             AssertWaiting(k) \/ Join(k) \/ AssertRunning(k) \/ Complete(k)
      PROVE  node' = node /\ pc[k] \notin Ended \cup {"unborn", "run"}
             /\ \E place \in (Active \cup Ended) \ {"run"} : pc' = [pc EXCEPT ![k] = place]
  BY <1>2 DEF AssertWaiting, Join, AssertRunning, Complete, Active
<1>3. ASSUME NEW k \in Thread, RunFnReturns(k) \/ RunFnRaises(k)
      PROVE  node' = node /\ pc[k] = "run"
             /\ \E place \in {"finish", "raised"} : pc' = [pc EXCEPT ![k] = place]
  BY <1>3 DEF RunFnReturns, RunFnRaises
<1>4. CASE \E k \in Thread : StartThread(k) BY <1>4 DEF StartThread
<1>5. CASE Report \/ UNCHANGED vars BY <1>5 DEF Report, RunReturns, Warn, vars
<1>6. CASE \E k \in Thread, n \in Node : Inspect(k, n) \/ ReadUpstream(k, n)
  BY <1>1, <1>6 DEF Active
<1>7. CASE \E k \in Thread :
             AssertWaiting(k) \/ Join(k) \/ AssertRunning(k) \/ Complete(k)
  BY <1>2, <1>7 DEF Active
<1>8. CASE \E k \in Thread : RunFnReturns(k) \/ RunFnRaises(k) BY <1>3, <1>8
<1> QED
  BY <1>4, <1>5, <1>6, <1>7, <1>8 DEF Next, Step, Schedule, Terminated

\* A thread that has not been started has no node.
Unassigned == \A t \in Thread : pc[t] = "unborn" => node[t] = None

LEMMA UnassignedInvariant == Spec => []Unassigned
<1>1. Init => Unassigned
  BY DEF Init, Unassigned
<1>2. TypeInv /\ Unassigned /\ [Next]_vars => Unassigned'
  BY ThreadsStay DEF Unassigned
<1> QED
  BY <1>1, <1>2, TypeInvariant, PTL DEF Spec

-----------------------------------------------------------------------------
\* No test has been passed before the first step.
LEMMA PassedTestsInit == Init => PassedTests
BY DEF Init, PassedTests

\* A test that a thread has passed stays true: ran only grows, although a
\* state may go from COMPLETED back to RUNNING.
LEMMA PassedTestsStep ==
  TypeInv /\ PassedTests /\ [Next]_vars => PassedTests'
<1> SUFFICES ASSUME TypeInv, PassedTests, [Next]_vars PROVE PassedTests'
  OBVIOUS
<1> USE DEF TypeInv, TypeOK, Assigned, PassedTests
<1>1. dag \in [Node -> SUBSET Node]
  BY GraphsAssumption
<1>2. ASSUME NEW t \in Thread, NEW n \in Node, Inspect(t, n)
      PROVE PassedTests'
  BY <1>1, <1>2 DEF Inspect
<1>3. ASSUME NEW t \in Thread, NEW u \in Node, ReadUpstream(t, u)
      PROVE PassedTests'
  BY <1>1, <1>3 DEF ReadUpstream
<1>4. ASSUME NEW t \in Thread, AssertWaiting(t) PROVE PassedTests'
  BY <1>1, <1>4 DEF AssertWaiting
<1>5. ASSUME NEW t \in Thread, StartThread(t) PROVE PassedTests'
  BY <1>1, <1>5 DEF StartThread
<1>6. ASSUME NEW t \in Thread, Join(t) PROVE PassedTests'
  BY <1>1, <1>6 DEF Join
<1>7. ASSUME NEW t \in Thread, RunFnReturns(t) PROVE PassedTests'
  BY <1>1, <1>7 DEF RunFnReturns
<1>8. ASSUME NEW t \in Thread, RunFnRaises(t) PROVE PassedTests'
  BY <1>1, <1>8 DEF RunFnRaises
<1>9. ASSUME NEW t \in Thread, AssertRunning(t) PROVE PassedTests'
  BY <1>1, <1>9 DEF AssertRunning
<1>10. ASSUME NEW t \in Thread, Complete(t) PROVE PassedTests'
  BY <1>1, <1>10 DEF Complete
<1>11. CASE Report
  BY <1>1, <1>11, MainAssumption DEF Report, Warn, RunReturns
<1>12. CASE UNCHANGED vars
  BY <1>12 DEF vars
<1> QED
  BY <1>2, <1>3, <1>4, <1>5, <1>6, <1>7, <1>8, <1>9, <1>10, <1>11, <1>12
  DEF Next, Step, Schedule, Terminated

\* What the tests that have been passed say of run_fn is an invariant.
LEMMA PassedTestsInvariant == Spec => []PassedTests
BY PassedTestsInit, PassedTestsStep, TypeInvariant, PTL DEF Spec

\* A node's run_fn is called only after run_fn returned for each of its
\* upstream nodes (_can_run and _run_node_in_thread, interleaved as they are).
THEOREM UpstreamFirst == Spec => []UpstreamRanFirst
<1>1. PassedTests => UpstreamRanFirst
  BY DEF PassedTests, UpstreamRanFirst
<1> QED
  BY <1>1, PassedTestsInvariant, PTL

-----------------------------------------------------------------------------
\* Main has all nodes on its list.
LEMMA WakeupInit == Init => NoLostWakeup
BY MainAssumption DEF Init, NoLostWakeup, Ready, WillLookAt

\* A thread drops a node from its list only when it is not ready, and
\* Complete puts on a list every node it may have made ready.
LEMMA WakeupStep ==
  TypeInv /\ NoLostWakeup /\ [Next]_vars => NoLostWakeup'
<1> SUFFICES ASSUME TypeInv, NoLostWakeup, [Next]_vars,
                    NEW n \in Node, Ready(n)', ~Asserted'
             PROVE (\E t \in Thread : WillLookAt(t, n))'
  BY DEF NoLostWakeup
<1> USE DEF TypeInv, TypeOK, Assigned, NodeStatus, Active, Ended, Asserted,
            WillLookAt
<1>1. dag \in [Node -> SUBSET Node] /\ dag' = dag
  BY GraphsAssumption
  DEF Next, Step, Schedule, Report, Inspect, ReadUpstream, AssertWaiting, StartThread,
      Join, RunFnReturns, RunFnRaises, AssertRunning, Complete, Warn,
      RunReturns, Terminated, vars
<1>2. ~Asserted
  BY DEF Next, Step, Schedule, Report, Inspect, ReadUpstream, AssertWaiting, StartThread,
      Join, RunFnReturns, RunFnRaises, AssertRunning, Complete, Warn,
      RunReturns, Terminated, vars
<1>3. Ready(n) => \E t \in Thread : WillLookAt(t, n)
  BY <1>2 DEF NoLostWakeup
<1> DEFINE Goal == \E k \in Thread : WillLookAt(k, n)'
<1>4. ASSUME NEW t \in Thread, NEW m \in Node, Inspect(t, m) PROVE Goal
  <2>1. node_states' = node_states /\ Ready(n)
    BY <1>1, <1>4 DEF Inspect, Ready
  <2>2. PICK k \in Thread : WillLookAt(k, n)
    BY <1>3, <2>1
  <2>3. CASE k # t \/ m # n
    BY <1>4, <2>2, <2>3, NoneAssumption DEF Inspect
  <2>4. CASE k = t /\ m = n
    BY <1>4, <2>1, <2>4 DEF Inspect, Ready
  <2> QED
    BY <2>3, <2>4
<1>5. ASSUME NEW t \in Thread, NEW u \in Node, ReadUpstream(t, u) PROVE Goal
  <2>1. node_states' = node_states /\ Ready(n)
    BY <1>1, <1>5 DEF ReadUpstream, Ready
  <2>2. PICK k \in Thread : WillLookAt(k, n)
    BY <1>3, <2>1
  <2> QED
    BY <1>5, <2>1, <2>2 DEF ReadUpstream, Ready
<1>6. ASSUME NEW t \in Thread, AssertWaiting(t) PROVE Goal
  <2>1. Ready(n)
    BY <1>1, <1>6 DEF AssertWaiting, Ready
  <2>2. PICK k \in Thread : WillLookAt(k, n)
    BY <1>3, <2>1
  <2> QED
    BY <1>6, <2>2 DEF AssertWaiting
<1>7. ASSUME NEW t \in Thread, StartThread(t) PROVE Goal
  <2>1. node_states[n] = "WAITING" /\ n # cur[t] /\ Ready(n)
    BY <1>1, <1>7 DEF StartThread, Ready
  <2>2. PICK k \in Thread : WillLookAt(k, n)
    BY <1>3, <2>1
  <2>3. pc[k] # "unborn"
    BY <2>2
  <2> QED
    BY <1>7, <2>1, <2>2, <2>3 DEF StartThread
<1>8. ASSUME NEW t \in Thread, Join(t) PROVE Goal
  <2>1. Ready(n) /\ todo[t] = {} /\ pc[t] = "loop"
    BY <1>1, <1>8 DEF Join, Ready
  <2>2. PICK k \in Thread : WillLookAt(k, n)
    BY <1>3, <2>1
  <2> QED
    BY <1>8, <2>1, <2>2 DEF Join
<1>9. ASSUME NEW t \in Thread, RunFnReturns(t) \/ RunFnRaises(t) PROVE Goal
  <2>1. Ready(n)
    BY <1>1, <1>9 DEF RunFnReturns, RunFnRaises, Ready
  <2> QED
    BY <1>3, <1>9, <2>1 DEF RunFnReturns, RunFnRaises
<1>10. ASSUME NEW t \in Thread, AssertRunning(t) PROVE Goal
  <2>1. Ready(n)
    BY <1>1, <1>10 DEF AssertRunning, Ready
  <2> QED
    BY <1>3, <1>10, <2>1 DEF AssertRunning
<1>11. ASSUME NEW t \in Thread, Complete(t) PROVE Goal
  <2>1. CASE node[t] \in dag[n]
    BY <1>1, <1>11, <2>1 DEF Complete, ReversedDag
  <2>2. CASE node[t] \notin dag[n]
    <3>1. Ready(n)
      BY <1>1, <1>11, <2>2 DEF Complete, Ready
    <3> QED
      BY <1>3, <1>11, <3>1 DEF Complete
  <2> QED
    BY <2>1, <2>2
<1>12. CASE Report
  <2>1. Ready(n)
    BY <1>1, <1>12 DEF Report, Warn, RunReturns, Ready
  <2> QED
    BY <1>3, <1>12, <2>1, MainAssumption DEF Report, Warn, RunReturns
<1>13. CASE UNCHANGED vars
  BY <1>1, <1>3, <1>13 DEF vars, Ready
<1> QED
  BY <1>4, <1>5, <1>6, <1>7, <1>8, <1>9, <1>10, <1>11, <1>12, <1>13
  DEF Next, Step, Schedule, Terminated

\* No node that became ready is forgotten while no assertion has failed
\* (_finish_node sets COMPLETED before it calls _can_run).
THEOREM Wakeup == Spec => []NoLostWakeup
BY WakeupInit, WakeupStep, TypeInvariant, PTL DEF Spec

-----------------------------------------------------------------------------
(* run() returns last.  A thread is joined by the one that has started it, *)
(* so the threads form a tree below Main.  Rooted says so of every set of  *)
(* threads, which makes it inductive without an order of the threads.      *)

Unjoined == {"unborn", "run", "finish", "complete", "raised"}

\* Where the threads can be, and what they have joined.
Places ==
  /\ pc[Main] \notin Unjoined /\ \A t \in Thread : pc[t] = "warn" => t = Main
  /\ \A t \in Thread : pc[t] \in Unjoined => joined[t] = {}
  /\ \A t \in Thread : pc[t] \in {"warn", "returned"} =>
       \A k \in joined[t] : pc[k] \in Ended
  /\ \A t \in Thread : \A k \in joined[t] : pc[k] # "unborn"

Rooted ==
  \A S \in SUBSET Thread :
    /\ S # {} /\ Main \notin S /\ \A k \in S : pc[k] # "unborn"
    => \E k \in S : \E j \in Thread \ S : k \in joined[j]

\* A node that is RUNNING has a thread that is to complete it or has raised.
HasThread ==
  \A n \in Node : node_states[n] = "RUNNING" =>
    Asserted \/ \E t \in Thread : /\ node[t] = n
                                  /\ pc[t] \in {"run", "finish", "complete", "raised"}

\* What run() has logged so far.
Logged ==
  /\ pc[Main] \notin {"warn", "returned"} => warned = {}
  /\ pc[Main] = "warn" /\ ~Asserted =>
       warned = {n \in Node \ todo[Main] : node_states[n] = "WAITING"}
  /\ pc[Main] = "returned" /\ ~Asserted =>
       warned = {n \in Node : node_states[n] = "WAITING"}

\* When Main has joined its threads, all threads have ended.
LEMMA AllEnded ==
  ASSUME TypeInv, Places, Rooted, ~Asserted, pc[Main] \in {"warn", "returned"}
  PROVE  \A t \in Thread \ {Main} : ~Alive(t)
<1> DEFINE S == {t \in Thread \ {Main} : Alive(t)}
<1> SUFFICES ASSUME S # {} PROVE FALSE OBVIOUS
<1>1. \A k \in S : pc[k] # "unborn" BY DEF Alive, Active
<1>2. PICK k \in S, j \in Thread \ S : k \in joined[j] BY <1>1 DEF Rooted
<1>3. pc[j] \in {"warn", "returned"}
  <2>1. pc[j] \notin Unjoined BY <1>2 DEF Places
  <2>2. j = Main \/ pc[j] \notin Active BY <1>2 DEF Alive
  <2> QED BY <2>1, <2>2 DEF TypeInv, TypeOK, Asserted, Ended, Active, Unjoined
<1>4. pc[k] \in Ended BY <1>2, <1>3 DEF Places
<1> QED BY <1>4 DEF Alive, Active, Ended

\* The places of the threads.
LEMMA PlacesStep == TypeInv /\ Places /\ [Next]_vars => Places'
<1> SUFFICES ASSUME TypeInv, Places, [Next]_vars PROVE Places' OBVIOUS
<1> USE MainAssumption DEF TypeInv, TypeOK, Places, Unjoined, Ended
<1>1. ASSUME NEW t \in Thread, NEW n \in Node, Inspect(t, n) PROVE Places'
  BY <1>1 DEF Inspect
<1>2. ASSUME NEW t \in Thread, NEW u \in Node, ReadUpstream(t, u) PROVE Places'
  BY <1>2 DEF ReadUpstream
<1>3. ASSUME NEW t \in Thread, AssertWaiting(t) PROVE Places'
  BY <1>3 DEF AssertWaiting
<1>4. ASSUME NEW t \in Thread, StartThread(t) PROVE Places'
  BY <1>4 DEF StartThread
<1>5. ASSUME NEW t \in Thread, Join(t) PROVE Places'
  BY <1>5 DEF Join
<1>6. ASSUME NEW t \in Thread, RunFnReturns(t) PROVE Places'
  BY <1>6 DEF RunFnReturns
<1>7. ASSUME NEW t \in Thread, RunFnRaises(t) PROVE Places'
  BY <1>7 DEF RunFnRaises
<1>8. ASSUME NEW t \in Thread, AssertRunning(t) PROVE Places'
  BY <1>8 DEF AssertRunning
<1>9. ASSUME NEW t \in Thread, Complete(t) PROVE Places'
  BY <1>9 DEF Complete
<1>10. CASE Report BY <1>10 DEF Report, Warn, RunReturns
<1>11. CASE UNCHANGED vars BY <1>11 DEF vars
<1> QED
  BY <1>1, <1>2, <1>3, <1>4, <1>5, <1>6, <1>7, <1>8, <1>9, <1>10, <1>11
  DEF Next, Step, Schedule, Terminated

\* A new thread hangs below the one that has started it.
LEMMA RootedStep == TypeInv /\ Places /\ Rooted /\ [Next]_vars => Rooted'
<1> SUFFICES ASSUME TypeInv, Places, Rooted, [Next]_vars PROVE Rooted' OBVIOUS
<1>1. ASSUME NEW t \in Thread, StartThread(t) PROVE Rooted'
  <2>1. PICK k \in Thread :
          /\ pc[k] = "unborn" /\ pc[t] = "claim"
          /\ pc' = [pc EXCEPT ![t] = "loop", ![k] = "run"]
          /\ joined' = [joined EXCEPT ![t] = @ \cup {k}]
    BY <1>1 DEF StartThread
  <2>2. /\ \A j \in Thread : joined[j] \subseteq joined'[j]
        /\ k \in joined'[t] /\ joined[k] = {}
        /\ \A j \in Thread \ {k} : pc'[j] # "unborn" => pc[j] # "unborn"
    BY <2>1 DEF TypeInv, TypeOK, Places, Unjoined
  <2>3. ASSUME NEW S \in SUBSET Thread, S # {}, Main \notin S,
               \A j \in S : pc'[j] # "unborn"
        PROVE  \E i \in S : \E j \in Thread \ S : i \in joined'[j]
    <3>1. CASE k \notin S
      <4>1. \A j \in S : pc[j] # "unborn" BY <2>2, <2>3, <3>1
      <4> QED BY <2>2, <2>3, <4>1 DEF Rooted
    <3>2. CASE k \in S /\ t \notin S BY <2>2, <3>2
    <3>3. CASE k \in S /\ t \in S
      <4> DEFINE R == S \ {k}
      <4>1. R \in SUBSET Thread /\ t \in R /\ Main \notin R /\ \A j \in R : pc[j] # "unborn"
        BY <2>1, <2>2, <2>3, <3>3
      <4>2. PICK i \in R, j \in Thread \ R : i \in joined[j] BY <4>1 DEF Rooted
      <4>3. j # k BY <2>2, <4>2
      <4> QED BY <2>2, <4>2, <4>3
    <3> QED BY <3>1, <3>2, <3>3
  <2> QED BY <2>3 DEF Rooted
<1>2. ASSUME UNCHANGED joined, \A t \in Thread : pc'[t] # "unborn" => pc[t] # "unborn"
      PROVE  Rooted'
  BY <1>2 DEF Rooted
<1> USE DEF TypeInv, TypeOK
<1>3. ASSUME NEW t \in Thread, NEW n \in Node, Inspect(t, n) \/ ReadUpstream(t, n)
      PROVE  Rooted'
  BY <1>2, <1>3 DEF Inspect, ReadUpstream
<1>4. ASSUME NEW t \in Thread, AssertWaiting(t) \/ Join(t) PROVE Rooted'
  BY <1>2, <1>4, MainAssumption DEF AssertWaiting, Join
<1>5. ASSUME NEW t \in Thread, RunFnReturns(t) \/ RunFnRaises(t) PROVE Rooted'
  BY <1>2, <1>5 DEF RunFnReturns, RunFnRaises
<1>6. ASSUME NEW t \in Thread, AssertRunning(t) \/ Complete(t) PROVE Rooted'
  BY <1>2, <1>6 DEF AssertRunning, Complete
<1>7. CASE Report BY <1>2, <1>7, MainAssumption DEF Report, Warn, RunReturns
<1>8. CASE UNCHANGED vars BY <1>2, <1>8 DEF vars
<1> QED BY <1>1, <1>3, <1>4, <1>5, <1>6, <1>7, <1>8 DEF Next, Step, Schedule, Terminated

\* A thread leaves a RUNNING node only when it sets it COMPLETED, or raises.
LEMMA HasThreadStep == TypeInv /\ HasThread /\ [Next]_vars => HasThread'
<1> SUFFICES ASSUME TypeInv, HasThread, [Next]_vars PROVE HasThread' OBVIOUS
<1> USE DEF TypeInv, TypeOK, HasThread, Asserted
<1>1. ASSUME NEW t \in Thread, NEW n \in Node, Inspect(t, n) PROVE HasThread'
  BY <1>1 DEF Inspect
<1>2. ASSUME NEW t \in Thread, NEW u \in Node, ReadUpstream(t, u) PROVE HasThread'
  BY <1>2 DEF ReadUpstream
<1>3. ASSUME NEW t \in Thread, AssertWaiting(t) PROVE HasThread'
  BY <1>3 DEF AssertWaiting
<1>4. ASSUME NEW t \in Thread, StartThread(t) PROVE HasThread'
  BY <1>4 DEF StartThread
<1>5. ASSUME NEW t \in Thread, Join(t) PROVE HasThread'
  BY <1>5 DEF Join
<1>6. ASSUME NEW t \in Thread, RunFnReturns(t) PROVE HasThread'
  BY <1>6 DEF RunFnReturns
<1>7. ASSUME NEW t \in Thread, RunFnRaises(t) PROVE HasThread'
  BY <1>7 DEF RunFnRaises
<1>8. ASSUME NEW t \in Thread, AssertRunning(t) PROVE HasThread'
  BY <1>8 DEF AssertRunning
<1>9. ASSUME NEW t \in Thread, Complete(t) PROVE HasThread'
  BY <1>9 DEF Complete, Assigned
<1>10. CASE Report BY <1>10 DEF Report, Warn, RunReturns
<1>11. CASE UNCHANGED vars BY <1>11 DEF vars
<1> QED
  BY <1>1, <1>2, <1>3, <1>4, <1>5, <1>6, <1>7, <1>8, <1>9, <1>10, <1>11
  DEF Next, Step, Schedule, Terminated

\* No thread changes a state once run() reads them for its warning.
LEMMA LoggedStep == TypeInv /\ Places /\ Rooted /\ Logged /\ [Next]_vars => Logged'
<1> SUFFICES ASSUME TypeInv, Places, Rooted, Logged, [Next]_vars PROVE Logged' OBVIOUS
<1> USE MainAssumption DEF TypeInv, TypeOK, Logged
<1>1. ASSUME NEW t \in Thread, Step(t) PROVE Logged'
  <2>1. Alive(t) /\ warned' = warned /\ (Asserted => Asserted')
    BY <1>1 DEF Step, Schedule, Inspect, ReadUpstream, AssertWaiting, StartThread, Join,
                RunFnReturns, RunFnRaises, AssertRunning, Complete, Alive, Active, Asserted
  <2>2. pc[t] # "warn"
    BY <1>1 DEF Step, Schedule, Inspect, ReadUpstream, AssertWaiting, StartThread, Join,
                RunFnReturns, RunFnRaises, AssertRunning, Complete
  <2>3. CASE pc[Main] \in {"warn", "returned"}
    <3>1. t # Main BY <2>1, <2>2, <2>3 DEF Alive, Active
    <3>2. Asserted' BY <2>1, <2>3, <3>1, AllEnded
    <3>3. pc'[Main] = pc[Main]
      BY <1>1, <2>3, <3>1
      DEF Step, Schedule, Inspect, ReadUpstream, AssertWaiting, StartThread, Join,
          RunFnReturns, RunFnRaises, AssertRunning, Complete
    <3> QED BY <2>1, <2>3, <3>2, <3>3
  <2>4. CASE pc[Main] \notin {"warn", "returned"}
    <3>1. warned' = {} BY <2>1, <2>4
    <3>2. pc'[Main] # "returned"
      BY <1>1, <2>4
      DEF Step, Schedule, Inspect, ReadUpstream, AssertWaiting, StartThread, Join,
          RunFnReturns, RunFnRaises, AssertRunning, Complete
    <3>3. pc'[Main] = "warn" => todo'[Main] = Node
      BY <1>1, <2>4
      DEF Step, Schedule, Inspect, ReadUpstream, AssertWaiting, StartThread, Join,
          RunFnReturns, RunFnRaises, AssertRunning, Complete
    <3> QED BY <3>1, <3>2, <3>3
  <2> QED BY <2>3, <2>4
<1>2. CASE RunReturns BY <1>2 DEF RunReturns, Asserted
<1>3. ASSUME NEW n \in Node, Warn(n) PROVE Logged'
  BY <1>3 DEF Warn, Asserted
<1>4. CASE UNCHANGED vars BY <1>4 DEF vars, Asserted
<1> QED BY <1>1, <1>2, <1>3, <1>4 DEF Next, Report, Terminated

\* run() returns when no thread is alive, and its warning is exact.
THEOREM ReturnsLast == Spec => []RunReturnsLast
<1> DEFINE J == TypeInv /\ NoLostWakeup /\ Places /\ Rooted /\ HasThread /\ Logged
<1>1. Init => J
  <2>1. Init => Places
    BY MainAssumption DEF Init, Places, Unjoined
  <2>2. Init => Rooted BY DEF Init, Rooted
  <2>3. Init => HasThread BY DEF Init, HasThread
  <2>4. Init => Logged BY MainAssumption DEF Init, Logged
  <2> QED BY <2>1, <2>2, <2>3, <2>4, TypeInit, WakeupInit
<1>2. J /\ [Next]_vars => J'
  BY TypeStep, WakeupStep, PlacesStep, RootedStep, HasThreadStep, LoggedStep
<1>3. J => RunReturnsLast
  <2> SUFFICES ASSUME J, pc[Main] = "returned", ~Asserted
               PROVE  /\ \A t \in Thread : ~Alive(t)
                      /\ warned = {n \in Node : node_states[n] = "WAITING"}
                      /\ \A n \in warned : \E u \in dag[n] : node_states[u] # "COMPLETED"
                      /\ \A n \in Node : node_states[n] = "RUNNING" =>
                           \E t \in Thread : node[t] = n /\ pc[t] = "raised"
    BY DEF RunReturnsLast
  <2>1. \A t \in Thread : ~Alive(t) BY AllEnded DEF Alive, Active
  <2>2. warned = {n \in Node : node_states[n] = "WAITING"} BY DEF Logged
  <2>3. \A n \in Node : ~Ready(n)
    BY <2>1 DEF NoLostWakeup, WillLookAt, Alive, Active
  <2>4. \A n \in warned : \E u \in dag[n] : node_states[u] # "COMPLETED"
    BY <2>2, <2>3 DEF Ready
  <2>5. \A n \in Node : node_states[n] = "RUNNING" =>
          \E t \in Thread : node[t] = n /\ pc[t] = "raised"
    BY <2>1 DEF HasThread, Alive, Active
  <2> QED BY <2>1, <2>2, <2>4, <2>5
<1> HIDE DEF J
<1> QED BY <1>1, <1>2, <1>3, PTL DEF Spec

-----------------------------------------------------------------------------
(* Nobody joins a thread before it is started, and a thread that starts    *)
(* has joined nobody.  Hence every set of started threads has one that     *)
(* joins none of the set, whatever graph the threads walk through.         *)

Grounded ==
  \A S \in SUBSET Thread :
    S # {} /\ (\A k \in S : pc[k] # "unborn") => \E k \in S : joined[k] \cap S = {}

\* A new thread is joined by one thread and joins none.
LEMMA GroundedStep == TypeInv /\ Places /\ Grounded /\ [Next]_vars => Grounded'
<1> SUFFICES ASSUME TypeInv, Places, Grounded, [Next]_vars PROVE Grounded' OBVIOUS
<1>1. ASSUME NEW t \in Thread, StartThread(t) PROVE Grounded'
  <2>1. PICK k \in Thread :
          /\ pc[k] = "unborn" /\ pc[t] = "claim"
          /\ pc' = [pc EXCEPT ![t] = "loop", ![k] = "run"]
          /\ joined' = [joined EXCEPT ![t] = @ \cup {k}]
    BY <1>1 DEF StartThread
  <2>2. /\ k # t /\ joined[k] = {} /\ joined'[k] = {}
        /\ \A j \in Thread : joined'[j] \subseteq joined[j] \cup {k}
        /\ \A j \in Thread \ {k} : pc'[j] # "unborn" => pc[j] # "unborn"
    BY <2>1 DEF TypeInv, TypeOK, Places, Unjoined
  <2>3. ASSUME NEW S \in SUBSET Thread, S # {}, \A j \in S : pc'[j] # "unborn"
        PROVE  \E i \in S : joined'[i] \cap S = {}
    <3>1. CASE k \in S BY <2>2, <3>1
    <3>2. CASE k \notin S
      <4>1. \A j \in S : pc[j] # "unborn" BY <2>2, <2>3, <3>2
      <4>2. PICK i \in S : joined[i] \cap S = {} BY <2>3, <4>1 DEF Grounded
      <4> QED BY <2>2, <3>2, <4>2
    <3> QED BY <3>1, <3>2
  <2> QED BY <2>3 DEF Grounded
<1>2. ASSUME UNCHANGED joined, \A t \in Thread : pc'[t] # "unborn" => pc[t] # "unborn"
      PROVE  Grounded'
  BY <1>2 DEF Grounded
<1> USE DEF TypeInv, TypeOK
<1>3. ASSUME NEW t \in Thread, NEW n \in Node, Inspect(t, n) \/ ReadUpstream(t, n)
      PROVE  Grounded'
  BY <1>2, <1>3 DEF Inspect, ReadUpstream
<1>4. ASSUME NEW t \in Thread, AssertWaiting(t) \/ Join(t) PROVE Grounded'
  BY <1>2, <1>4, MainAssumption DEF AssertWaiting, Join
<1>5. ASSUME NEW t \in Thread, RunFnReturns(t) \/ RunFnRaises(t) PROVE Grounded'
  BY <1>2, <1>5 DEF RunFnReturns, RunFnRaises
<1>6. ASSUME NEW t \in Thread, AssertRunning(t) \/ Complete(t) PROVE Grounded'
  BY <1>2, <1>6 DEF AssertRunning, Complete
<1>7. CASE Report BY <1>2, <1>7, MainAssumption DEF Report, Warn, RunReturns
<1>8. CASE UNCHANGED vars BY <1>2, <1>8 DEF vars
<1> QED BY <1>1, <1>3, <1>4, <1>5, <1>6, <1>7, <1>8 DEF Next, Step, Schedule, Terminated

\* For every graph, cyclic or not, and any number of threads, the joins of
\* run() and of _finish_node do not deadlock: apply Grounded to the threads
\* that are alive.
THEOREM NoJoinDeadlock == Spec => []JoinsDoNotDeadlock
<1> DEFINE J == TypeInv /\ Places /\ Grounded
<1>1. Init => J
  <2>1. Init => Places BY MainAssumption DEF Init, Places, Unjoined
  <2>2. Init => Grounded BY DEF Init, Grounded
  <2> QED BY <2>1, <2>2, TypeInit
<1>2. J /\ [Next]_vars => J'
  BY TypeStep, PlacesStep, GroundedStep
<1>3. J => JoinsDoNotDeadlock
  <2> SUFFICES ASSUME J, \E t \in Thread : Alive(t)
               PROVE  \E t \in Thread : Alive(t) /\ ~Waits(t)
    BY DEF JoinsDoNotDeadlock
  <2> DEFINE S == {t \in Thread : Alive(t)}
  <2>1. S # {} /\ \A k \in S : pc[k] # "unborn" BY DEF Alive, Active
  <2>2. PICK t \in S : joined[t] \cap S = {} BY <2>1 DEF Grounded
  <2>3. \A k \in joined[t] : k \in Thread /\ pc[k] # "unborn" /\ ~Alive(k)
    BY <2>2 DEF TypeInv, TypeOK, Places
  <2>4. \A k \in joined[t] : pc[k] \in Ended BY <2>3 DEF TypeInv, TypeOK, Alive
  <2> QED BY <2>4 DEF Waits
<1> HIDE DEF J
<1> QED BY <1>1, <1>2, <1>3, PTL DEF Spec

-----------------------------------------------------------------------------
\* Of nodes that have not completed, the first one has upstream nodes that have,
\* so that it was started and its thread has not come to its end.
LEMMA MissingRaised ==
  ASSUME TypeInv, RunReturnsLast, pc[Main] = "returned", ~Asserted, Acyclic,
         NEW S \in SUBSET Node, Missing(S)
  PROVE  \E t \in Thread : node[t] \in S /\ pc[t] = "raised"
<1>1. PICK n \in S : dag[n] \cap S = {}
  BY DEF Acyclic, Missing
<1>2. dag[n] \subseteq Node
  BY GraphsAssumption DEF TypeInv, TypeOK
<1>3. \A u \in dag[n] : node_states[u] = "COMPLETED"
  BY <1>1, <1>2 DEF Missing
<1>4. node_states[n] # "WAITING"
  BY <1>3 DEF RunReturnsLast
<1>5. node_states[n] = "RUNNING"
  BY <1>4 DEF Missing, TypeInv, TypeOK, NodeStatus
<1> QED
  BY <1>5 DEF RunReturnsLast

\* For every graph without a cycle: a node that has not completed when run()
\* has returned is one for which run_fn raised, or is below such a node.
THEOREM FailuresExplain == Spec => []MissingIsExplained
<1>1. TypeInv /\ RunReturnsLast => MissingIsExplained
  BY MissingRaised DEF MissingIsExplained
<1> QED
  BY <1>1, TypeInvariant, ReturnsLast, PTL

-----------------------------------------------------------------------------
(* The runner implements the order of the steps.  The node of a thread is  *)
(* started when the thread is; later it may be started once more, which    *)
(* the order does not see.                                                 *)

LEMMA OrderStep ==
  TypeInv /\ PassedTests /\ Unassigned /\ [Next]_vars
    => [Order!Next]_<<dag, Started, ran>>
<1> SUFFICES ASSUME TypeInv, PassedTests, Unassigned, [Next]_vars
             PROVE  [Order!Next]_<<dag, Started, ran>>
  OBVIOUS
<1> USE DEF TypeInv, TypeOK
<1>1. ASSUME NEW t \in Thread, StartThread(t) PROVE Order!Start(cur[t]) /\ cur[t] \in Node
  <2>1. PICK k \in Thread : /\ pc[k] = "unborn" /\ pc[t] = "claim"
                            /\ node' = [node EXCEPT ![k] = cur[t]]
                            /\ pc' = [pc EXCEPT ![t] = "loop", ![k] = "run"]
    BY <1>1 DEF StartThread
  <2>2. cur[t] \in Node /\ dag[cur[t]] \subseteq ran
    BY <2>1 DEF Assigned, PassedTests
  <2>3. /\ pc'[k] # "unborn" /\ node'[k] = cur[t]
        /\ \A j \in Thread \ {k} : /\ pc'[j] = "unborn" <=> pc[j] = "unborn"
                                    /\ node'[j] = node[j]
    BY <2>1
  <2>4. Started' = Started \cup {cur[t]}
    BY <2>1, <2>2, <2>3 DEF Started
  <2> QED
    BY <1>1, <2>2, <2>4 DEF StartThread, Order!Start
<1>2. ASSUME NEW t \in Thread, RunFnReturns(t) PROVE Order!Succeed(node[t]) /\ node[t] \in Node
  <2>1. node[t] \in Started /\ node[t] \in Node
    BY <1>2 DEF RunFnReturns, Started, Assigned
  <2>2. Started' = Started
    BY <1>2 DEF RunFnReturns, Started
  <2> QED
    BY <1>2, <2>1, <2>2 DEF RunFnReturns, Order!Succeed
<1> DEFINE Unseen == UNCHANGED <<dag, node, ran>>
                     /\ \A j \in Thread : pc'[j] = "unborn" <=> pc[j] = "unborn"
<1>3. ASSUME NEW t \in Thread, NEW n \in Node, Inspect(t, n) \/ ReadUpstream(t, n)
      PROVE  Unseen
  BY <1>3 DEF Inspect, ReadUpstream
<1>4. ASSUME NEW t \in Thread,
             AssertWaiting(t) \/ Join(t) \/ AssertRunning(t) \/ Complete(t)
      PROVE  Unseen
  BY <1>4 DEF AssertWaiting, Join, AssertRunning, Complete
<1>5. ASSUME NEW t \in Thread, RunFnRaises(t) PROVE Unseen
  BY <1>5 DEF RunFnRaises
<1>6. ASSUME Report \/ UNCHANGED vars PROVE Unseen
  BY <1>6, MainAssumption DEF Report, RunReturns, Warn, vars
<1>7. Unseen => UNCHANGED <<dag, Started, ran>>
  BY DEF Started
<1> HIDE DEF Unseen
<1> QED
  BY <1>1, <1>2, <1>3, <1>4, <1>5, <1>6, <1>7
  DEF Next, Step, Schedule, Terminated, Order!Next

\* With the threads it starts and the calls of run_fn that return, the runner
\* implements StepOrder, for every graph and any number of threads.
THEOREM RunnerImplementsOrder == Spec => ImplementsOrder
<1>1. Init => Order!Init
  BY NoneAssumption DEF Init, Order!Init, Started
<1> QED
  BY <1>1, OrderStep, TypeInvariant, PassedTestsInvariant, UnassignedInvariant,
     PTL DEF Spec, Order!Spec, ImplementsOrder

-----------------------------------------------------------------------------
(* Nodes that are started once.  A node without upstream nodes is on no    *)
(* list but that of run().                                                 *)

HasNode(t, n) == pc[t] # "unborn" /\ node[t] = n

Looks(t, n) == pc[t] \in {"can_run", "claim"} /\ cur[t] = n

RootsAreMains ==
  \A r \in Node : dag[r] = {} =>
    /\ \A t \in Thread \ {Main} : r \notin todo[t] /\ ~Looks(t, r)
    /\ Looks(Main, r) => r \notin todo[Main]
    /\ WillLookAt(Main, r) =>
         node_states[r] = "WAITING" /\ \A t \in Thread : ~HasNode(t, r)
    /\ \A t, k \in Thread : HasNode(t, r) /\ HasNode(k, r) => t = k
    /\ \A t \in Thread : HasNode(t, r) /\ pc[t] \in {"run", "finish", "complete"} =>
         node_states[r] = "RUNNING"

LEMMA RootsStep == TypeInv /\ RootsAreMains /\ [Next]_vars => RootsAreMains'
<1> SUFFICES ASSUME TypeInv, RootsAreMains, [Next]_vars PROVE RootsAreMains'
  OBVIOUS
<1>1. dag \in [Node -> SUBSET Node]
  BY GraphsAssumption DEF TypeInv, TypeOK
<1> USE MainAssumption, NoneAssumption
        DEF TypeInv, TypeOK, Assigned, RootsAreMains, HasNode, Looks, WillLookAt
<1>2. ASSUME NEW t \in Thread, NEW n \in Node, Inspect(t, n) PROVE RootsAreMains'
  BY <1>2 DEF Inspect
<1>3. ASSUME NEW t \in Thread, NEW u \in Node, ReadUpstream(t, u) PROVE RootsAreMains'
  BY <1>3 DEF ReadUpstream
<1>4. ASSUME NEW t \in Thread, AssertWaiting(t) PROVE RootsAreMains'
  BY <1>4 DEF AssertWaiting
<1>5. ASSUME NEW t \in Thread, StartThread(t) PROVE RootsAreMains'
  <2>1. PICK k \in Thread :
          /\ pc[k] = "unborn" /\ pc[t] = "claim"
          /\ node' = [node EXCEPT ![k] = cur[t]]
          /\ pc' = [pc EXCEPT ![t] = "loop", ![k] = "run"]
    BY <1>5 DEF StartThread
  <2>2. /\ UNCHANGED <<dag, todo>> /\ cur' = [cur EXCEPT ![t] = None]
        /\ node_states' = [node_states EXCEPT ![cur[t]] = "RUNNING"]
    BY <1>5 DEF StartThread
  <2>3. /\ pc'[t] = "loop" /\ pc'[k] = "run" /\ node'[k] = cur[t] /\ cur'[t] = None
        /\ cur[t] \in Node /\ k # t
        /\ \A j \in Thread \ {t, k} : /\ pc'[j] = pc[j] /\ node'[j] = node[j]
                                       /\ cur'[j] = cur[j]
        /\ node'[t] = node[t]
    BY <2>1, <2>2
  <2> SUFFICES ASSUME NEW r \in Node, dag[r] = {}
               PROVE  /\ \A j \in Thread \ {Main} : r \notin todo'[j] /\ ~Looks(j, r)'
                      /\ Looks(Main, r)' => r \notin todo'[Main]
                      /\ WillLookAt(Main, r)' =>
                           node_states'[r] = "WAITING" /\ \A j \in Thread : ~HasNode(j, r)'
                      /\ \A j, i \in Thread : HasNode(j, r)' /\ HasNode(i, r)' => j = i
                      /\ \A j \in Thread :
                           HasNode(j, r)' /\ pc'[j] \in {"run", "finish", "complete"} =>
                           node_states'[r] = "RUNNING"
    BY <2>2
  <2>4. \A j \in Thread : Looks(j, r)' => Looks(j, r)
    BY <2>3
  <2>5. \A j \in Thread : HasNode(j, r)' <=> HasNode(j, r) \/ (j = k /\ r = cur[t])
    BY <2>1, <2>3
  <2>6. WillLookAt(Main, r)' => WillLookAt(Main, r)
    BY <2>1, <2>2, <2>3
  <2>7. CASE r = cur[t]
    <3>1. t = Main /\ WillLookAt(Main, r) /\ Looks(Main, r) /\ r \notin todo[Main]
      BY <2>1, <2>7
    <3>2. \A j \in Thread : ~HasNode(j, r)
      BY <3>1
    <3>3. ~WillLookAt(Main, r)' /\ node_states'[r] = "RUNNING"
      BY <2>2, <2>3, <2>7, <3>1
    <3> QED
      BY <2>2, <2>4, <2>5, <2>7, <3>1, <3>2, <3>3
  <2>8. CASE r # cur[t]
    <3>1. node_states'[r] = node_states[r]
      BY <2>2, <2>8
    <3>2. \A j \in Thread : HasNode(j, r)' <=> HasNode(j, r)
      BY <2>5, <2>8
    <3>3. \A j \in Thread : HasNode(j, r) /\ pc'[j] \in {"run", "finish", "complete"} =>
                              pc[j] \in {"run", "finish", "complete"}
      BY <2>1, <2>3
    <3> QED
      BY <2>2, <2>4, <2>6, <3>1, <3>2, <3>3
  <2> QED
    BY <2>7, <2>8
<1>6. ASSUME NEW t \in Thread, Join(t) PROVE RootsAreMains'
  BY <1>6 DEF Join
<1>7. ASSUME NEW t \in Thread, RunFnReturns(t) \/ RunFnRaises(t) PROVE RootsAreMains'
  BY <1>7 DEF RunFnReturns, RunFnRaises
<1>8. ASSUME NEW t \in Thread, AssertRunning(t) PROVE RootsAreMains'
  BY <1>8 DEF AssertRunning
<1>9. ASSUME NEW t \in Thread, Complete(t) PROVE RootsAreMains'
  BY <1>1, <1>9 DEF Complete, ReversedDag
<1>10. CASE Report BY <1>10 DEF Report, Warn, RunReturns
<1>11. CASE UNCHANGED vars BY <1>11 DEF vars
<1> QED
  BY <1>2, <1>3, <1>4, <1>5, <1>6, <1>7, <1>8, <1>9, <1>10, <1>11
  DEF Next, Step, Schedule, Terminated

\* An assertion that fails is one about a node that was started before.
LEMMA AssertedStep ==
  TypeInv /\ RootsAreMains /\ (Asserted => \E n \in Node : dag[n] # {}) /\ [Next]_vars
    => (Asserted' => \E n \in Node : dag'[n] # {})
<1> SUFFICES ASSUME TypeInv, RootsAreMains, [Next]_vars, \A n \in Node : dag[n] = {},
                    ~Asserted
             PROVE  ~Asserted'
  <2>1. [Next]_vars => dag' = dag
    BY DEF Next, Step, Schedule, Report, Inspect, ReadUpstream, AssertWaiting, StartThread,
       Join, RunFnReturns, RunFnRaises, AssertRunning, Complete, Warn, RunReturns,
       Terminated, vars
  <2> QED BY <2>1
<1> USE DEF TypeInv, TypeOK, Assigned, RootsAreMains, HasNode, Looks, WillLookAt, Asserted
<1>1. ASSUME NEW t \in Thread, AssertWaiting(t) \/ AssertRunning(t)
      PROVE  ~Asserted'
  BY <1>1, MainAssumption DEF AssertWaiting, AssertRunning
<1> QED
  BY <1>1, MainAssumption
  DEF Next, Step, Schedule, Report, Inspect, ReadUpstream, StartThread, Join,
      RunFnReturns, RunFnRaises, Complete, Warn, RunReturns, Terminated, vars

\* For every graph and any number of threads: what is started twice, and what
\* kills a thread, is below another node.
THEOREM RootsOnce == Spec => []RootsRunOnce
<1> DEFINE Edge == Asserted => \E n \in Node : dag[n] # {}
<1>1. Init => RootsAreMains /\ Edge
  BY MainAssumption, NoneAssumption
  DEF Init, RootsAreMains, HasNode, Looks, WillLookAt, Asserted
<1>2. TypeInv /\ RootsAreMains /\ Edge /\ [Next]_vars => (RootsAreMains /\ Edge)'
  BY RootsStep, AssertedStep
<1>3. TypeInv /\ Unassigned /\ RootsAreMains /\ Edge => RootsRunOnce
  BY NoneAssumption DEF Unassigned, RootsAreMains, HasNode, RootsRunOnce
<1> HIDE DEF Edge
<1> QED
  BY <1>1, <1>2, <1>3, TypeInvariant, UnassignedInvariant, PTL DEF Spec
=============================================================================
