----------------------------- MODULE DagRunner ------------------------------
(***************************************************************************)
(* ThreadedDagRunner (orchestrators/dag_runner.py): every node of a DAG is *)
(* run in a thread of its own; the thread that completes a node starts the *)
(* downstream nodes that became ready and joins them.  node_states is read *)
(* without the lock by _can_run and by the assertions, and written, one    *)
(* assignment at a time, under the lock.  A step below is what a thread    *)
(* does between two accesses to node_states.                               *)
(*                                                                         *)
(* The loops over self.nodes and over reversed_dag[node] visit their nodes *)
(* in the order of a dictionary; here they visit them in any order.        *)
(***************************************************************************)
EXTENDS FiniteSets

CONSTANTS Node,      \* the nodes (step names)
          Graphs,    \* the DAGs the runner may be built with
          Faulty,    \* the nodes whose run_fn may raise
          Thread,    \* thread identities: enough of them, see README
          Main,      \* the thread that calls run()
          None       \* no node

ASSUME GraphsAssumption == Graphs \subseteq [Node -> SUBSET Node]
ASSUME FaultyAssumption == Faulty \subseteq Node
ASSUME MainAssumption   == Main \in Thread
ASSUME NoneAssumption   == None \notin Node

VARIABLES
  dag,          \* dag[n]: the upstream nodes of n
  node_states,  \* [Node -> NodeStatus]
  pc,           \* where each thread is
  node,         \* the node whose run_fn the thread was started for
  todo,         \* the nodes the thread's loop has still to look at
  cur,          \* the node _can_run or _run_node_in_thread works on
  unread,       \* the upstream nodes of cur that _can_run has still to read
  joined,       \* the threads the thread has started and will join
  warned,       \* the nodes run() has logged as never run
  ran           \* history: the nodes some run_fn(node) call has returned for

vars == <<dag, node_states, pc, node, todo, cur, unread, joined, warned, ran>>

NodeStatus == {"WAITING", "RUNNING", "COMPLETED"}

\* "raised": run_fn raised.  "asserted": an assertion of the runner failed.
Ended  == {"returned", "raised", "asserted"}
Active == {"run", "finish", "complete", "loop", "can_run", "claim", "warn"}
Alive(t) == pc[t] \in Active

\* Mutant of ReversedDag: the graph is not reversed.
NotReversed(n) == dag[n]

(***************************************************************************)
(* reverse_dag: the downstream nodes.                                      *)
(***************************************************************************)
ReversedDag(n) == {m \in Node : n \in dag[m]}

Init ==
  /\ dag \in Graphs
  /\ node_states = [n \in Node |-> "WAITING"]
  /\ pc = [t \in Thread |-> IF t = Main THEN "loop" ELSE "unborn"]
  /\ node = [t \in Thread |-> None]
  /\ todo = [t \in Thread |-> IF t = Main THEN Node ELSE {}]
  /\ cur = [t \in Thread |-> None]
  /\ unread = [t \in Thread |-> {}]
  /\ joined = [t \in Thread |-> {}]
  /\ warned = {}
  /\ ran = {}

-----------------------------------------------------------------------------
(* The loop of run() and of _finish_node over the nodes to start.          *)

\* _can_run, first test: is the node still waiting?
Inspect(t, n) ==
  /\ pc[t] = "loop" /\ n \in todo[t]
  /\ todo' = [todo EXCEPT ![t] = @ \ {n}]
  /\ IF node_states[n] = "WAITING"
     THEN /\ pc' = [pc EXCEPT ![t] = "can_run"]
          /\ cur' = [cur EXCEPT ![t] = n]
          /\ unread' = [unread EXCEPT ![t] = dag[n]]
     ELSE UNCHANGED <<pc, cur, unread>>
  /\ UNCHANGED <<dag, node_states, node, joined, warned, ran>>

\* Mutant of ReadUpstream: a running upstream node counts as completed.
ReadUpstreamStarted(t, u) ==
  /\ pc[t] = "can_run" /\ u \in unread[t]
  /\ IF node_states[u] # "WAITING"
     THEN unread' = [unread EXCEPT ![t] = @ \ {u}] /\ UNCHANGED <<pc, cur>>
     ELSE /\ unread' = [unread EXCEPT ![t] = {}]
          /\ pc' = [pc EXCEPT ![t] = "loop"]
          /\ cur' = [cur EXCEPT ![t] = None]
  /\ UNCHANGED <<dag, node_states, node, todo, joined, warned, ran>>

\* _can_run, second test: one upstream node after the other, until one is
\* found that has not completed.
ReadUpstream(t, u) ==
  /\ pc[t] = "can_run" /\ u \in unread[t]
  /\ IF node_states[u] = "COMPLETED"
     THEN unread' = [unread EXCEPT ![t] = @ \ {u}] /\ UNCHANGED <<pc, cur>>
     ELSE /\ unread' = [unread EXCEPT ![t] = {}]
          /\ pc' = [pc EXCEPT ![t] = "loop"]
          /\ cur' = [cur EXCEPT ![t] = None]
  /\ UNCHANGED <<dag, node_states, node, todo, joined, warned, ran>>

\* _run_node_in_thread: the assertion that precedes the critical section.
AssertWaiting(t) ==
  /\ pc[t] = "can_run" /\ unread[t] = {}
  /\ pc' = [pc EXCEPT ![t] = IF node_states[cur[t]] = "WAITING"
                             THEN "claim" ELSE "asserted"]
  /\ UNCHANGED <<dag, node_states, node, todo, cur, unread, joined, warned, ran>>

\* Mutant of StartThread: one list of threads for all who start and join them.
StartSharedThread(t) ==
  /\ pc[t] = "claim"
  /\ \E k \in Thread :
       /\ pc[k] = "unborn"
       /\ k = CHOOSE k1 \in Thread : pc[k1] = "unborn"
       /\ node' = [node EXCEPT ![k] = cur[t]]
       /\ pc' = [pc EXCEPT ![t] = "loop", ![k] = "run"]
       /\ joined' = [j \in Thread |->
                       IF j = k \/ pc[j] # "unborn"
                       THEN (UNION {joined[i] : i \in Thread} \cup {k}) \ {j}
                       ELSE {}]
  /\ node_states' = [node_states EXCEPT ![cur[t]] = "RUNNING"]
  /\ cur' = [cur EXCEPT ![t] = None]
  /\ UNCHANGED <<dag, todo, unread, warned, ran>>

\* _run_node_in_thread: set the node RUNNING under the lock, start a thread.
\* Nothing but the new thread can tell when thread.start() happened, so it is
\* part of the same step.
StartThread(t) ==
  /\ pc[t] = "claim"
  /\ \E k \in Thread :
       /\ pc[k] = "unborn"
       /\ k = CHOOSE k1 \in Thread : pc[k1] = "unborn"
       /\ node' = [node EXCEPT ![k] = cur[t]]
       /\ pc' = [pc EXCEPT ![t] = "loop", ![k] = "run"]
       /\ joined' = [joined EXCEPT ![t] = @ \cup {k}]
  /\ node_states' = [node_states EXCEPT ![cur[t]] = "RUNNING"]
  /\ cur' = [cur EXCEPT ![t] = None]
  /\ UNCHANGED <<dag, todo, unread, warned, ran>>

\* Mutant of Join: the threads are not joined.
JoinWithoutWaiting(t) ==
  /\ pc[t] = "loop" /\ todo[t] = {}
  /\ IF t = Main
     THEN /\ pc' = [pc EXCEPT ![t] = "warn"]
          /\ todo' = [todo EXCEPT ![t] = Node]
     ELSE /\ pc' = [pc EXCEPT ![t] = "returned"]
          /\ UNCHANGED todo
  /\ UNCHANGED <<dag, node_states, node, cur, unread, joined, warned, ran>>

\* The joins at the end of run() and of _finish_node.
Join(t) ==
  /\ pc[t] = "loop" /\ todo[t] = {}
  /\ \A k \in joined[t] : pc[k] \in Ended
  /\ IF t = Main
     THEN /\ pc' = [pc EXCEPT ![t] = "warn"]
          /\ todo' = [todo EXCEPT ![t] = Node]
     ELSE /\ pc' = [pc EXCEPT ![t] = "returned"]
          /\ UNCHANGED todo
  /\ UNCHANGED <<dag, node_states, node, cur, unread, joined, warned, ran>>

\* run(): the check that all nodes were run, and its warning.
Warn(n) ==
  /\ pc[Main] = "warn" /\ n \in todo[Main]
  /\ todo' = [todo EXCEPT ![Main] = @ \ {n}]
  /\ warned' = IF node_states[n] = "WAITING" THEN warned \cup {n} ELSE warned
  /\ UNCHANGED <<dag, node_states, pc, node, cur, unread, joined, ran>>

RunReturns ==
  /\ pc[Main] = "warn" /\ todo[Main] = {}
  /\ pc' = [pc EXCEPT ![Main] = "returned"]
  /\ UNCHANGED <<dag, node_states, node, todo, cur, unread, joined, warned, ran>>

-----------------------------------------------------------------------------
(* A node's thread: _run_node.                                             *)

RunFnReturns(t) ==
  /\ pc[t] = "run"
  /\ pc' = [pc EXCEPT ![t] = "finish"]
  /\ ran' = ran \cup {node[t]}
  /\ UNCHANGED <<dag, node_states, node, todo, cur, unread, joined, warned>>

\* Mutant of RunFnRaises: the node gets a state that NodeStatus does not have.
RunFnRaisesSetsFailed(t) ==
  /\ pc[t] = "run" /\ node[t] \in Faulty
  /\ pc' = [pc EXCEPT ![t] = "raised"]
  /\ node_states' = [node_states EXCEPT ![node[t]] = "FAILED"]
  /\ UNCHANGED <<dag, node, todo, cur, unread, joined, warned, ran>>

\* The exception ends the thread; _finish_node is not called.
RunFnRaises(t) ==
  /\ pc[t] = "run" /\ node[t] \in Faulty
  /\ pc' = [pc EXCEPT ![t] = "raised"]
  /\ UNCHANGED <<dag, node_states, node, todo, cur, unread, joined, warned, ran>>

\* _finish_node: the assertion that precedes the critical section.
AssertRunning(t) ==
  /\ pc[t] = "finish"
  /\ pc' = [pc EXCEPT ![t] = IF node_states[node[t]] = "RUNNING"
                             THEN "complete" ELSE "asserted"]
  /\ UNCHANGED <<dag, node_states, node, todo, cur, unread, joined, warned, ran>>

\* _finish_node: set the node COMPLETED under the lock, enter the loop.
Complete(t) ==
  /\ pc[t] = "complete"
  /\ node_states' = [node_states EXCEPT ![node[t]] = "COMPLETED"]
  /\ todo' = [todo EXCEPT ![t] = ReversedDag(node[t])]
  /\ pc' = [pc EXCEPT ![t] = "loop"]
  /\ UNCHANGED <<dag, node, cur, unread, joined, warned, ran>>

-----------------------------------------------------------------------------
\* What a thread does outside of run_fn.
Schedule(t) ==
  \/ \E n \in Node : Inspect(t, n) \/ ReadUpstream(t, n)
  \/ AssertWaiting(t) \/ StartThread(t) \/ Join(t)
  \/ AssertRunning(t) \/ Complete(t)

Step(t) == Schedule(t) \/ RunFnReturns(t) \/ RunFnRaises(t)

Report == RunReturns \/ \E n \in Node : Warn(n)

\* The process has nothing left to do: the only states that may have no
\* successor.
Terminated ==
  /\ pc[Main] \in Ended /\ \A t \in Thread : ~Alive(t)
  /\ UNCHANGED vars

Next == Report \/ (\E t \in Thread : Step(t)) \/ Terminated

Spec == Init /\ [][Next]_vars

(***************************************************************************)
(* Threads are scheduled preemptively, and run_fn is assumed to return or  *)
(* to raise; no step waits for anything but the end of a joined thread.    *)
(***************************************************************************)
Fairness == WF_vars(Report) /\ \A t \in Thread : WF_vars(Step(t))

FairSpec == Spec /\ Fairness

-----------------------------------------------------------------------------
\* The types of the runner's state.
TypeOK ==
  /\ dag \in Graphs
  /\ node_states \in [Node -> NodeStatus]
  /\ pc \in [Thread -> {"unborn"} \cup Active \cup Ended]
  /\ node \in [Thread -> Node \cup {None}]
  /\ todo \in [Thread -> SUBSET Node]
  /\ cur \in [Thread -> Node \cup {None}]
  /\ unread \in [Thread -> SUBSET Node]
  /\ joined \in [Thread -> SUBSET Thread]
  /\ warned \subseteq Node
  /\ ran \subseteq Node

\* A thread at work on a node has one.
Assigned ==
  \A t \in Thread :
    /\ pc[t] \in {"run", "finish", "complete"} => node[t] \in Node
    /\ pc[t] \in {"can_run", "claim"} => cur[t] \in Node
    /\ pc[t] = "can_run" => unread[t] \subseteq dag[cur[t]]

TypeInv == TypeOK /\ Assigned

Asserted == \E t \in Thread : pc[t] = "asserted"

\* Whatever the threads' interleaving, and although _can_run reads the states
\* one by one without the lock while a node started twice goes back from
\* COMPLETED to RUNNING, run_fn is called for a node only after run_fn has
\* returned for each of its upstream nodes (_can_run, _run_node_in_thread).
UpstreamRanFirst ==
  \A t \in Thread : pc[t] = "run" => dag[node[t]] \subseteq ran

\* The inductive form of UpstreamRanFirst: what each test that has been passed
\* says of run_fn, which stays true when a state goes back to RUNNING.
PassedTests ==
  /\ \A n \in Node : node_states[n] = "COMPLETED" => n \in ran
  /\ \A t \in Thread :
       /\ pc[t] = "can_run" => dag[cur[t]] \ unread[t] \subseteq ran
       /\ pc[t] = "claim" => dag[cur[t]] \subseteq ran
       /\ pc[t] = "run" => dag[node[t]] \subseteq ran
       /\ pc[t] \in {"finish", "complete"} => node[t] \in ran

Ready(n) == /\ node_states[n] = "WAITING"
            /\ \A u \in dag[n] : node_states[u] = "COMPLETED"

WillLookAt(t, n) ==
  \/ pc[t] \in {"loop", "can_run", "claim"} /\ n \in todo[t]
  \/ pc[t] \in {"can_run", "claim"} /\ n = cur[t]

\* No lost wake-up: a node that is ready to run is on the list of a thread
\* that has still to look at it, unless an assertion killed a thread.  It
\* holds because _finish_node sets COMPLETED before it calls _can_run.
NoLostWakeup ==
  \A n \in Node : Ready(n) => Asserted \/ \E t \in Thread : WillLookAt(t, n)

\* run() returns last and its warning is exact: unless an assertion killed a
\* thread, when run() has returned no thread is alive, the warning lists the
\* nodes that did not run, each of them has an upstream node that never
\* completed, and a node left RUNNING is one whose run_fn raised.
RunReturnsLast ==
  pc[Main] = "returned" /\ ~Asserted =>
    /\ \A t \in Thread : ~Alive(t)
    /\ warned = {n \in Node : node_states[n] = "WAITING"}
    /\ \A n \in warned : \E u \in dag[n] : node_states[u] # "COMPLETED"
    /\ \A n \in Node : node_states[n] = "RUNNING" =>
         \E t \in Thread : node[t] = n /\ pc[t] = "raised"

\* A thread that a join keeps waiting.
Waits(t) == /\ pc[t] = "loop" /\ todo[t] = {}
            /\ \E k \in joined[t] : pc[k] \notin Ended

\* Threads never wait for each other in a circle: as long as a thread is alive,
\* some thread that is alive waits for nobody, although the threads of a cyclic
\* graph, and of nodes started twice, all join what they started (run and
\* _finish_node).  It is why run() ends.
JoinsDoNotDeadlock ==
  (\E t \in Thread : Alive(t)) => \E t \in Thread : Alive(t) /\ ~Waits(t)

\* No set of nodes has an upstream node of each of its members among them.
Acyclic == \A S \in SUBSET Node : S # {} => \E n \in S : dag[n] \cap S = {}

\* Nodes that have not completed, with all of their upstream nodes that have not.
Missing(S) ==
  /\ S # {}
  /\ \A n \in S : /\ node_states[n] # "COMPLETED"
                  /\ \A u \in dag[n] : node_states[u] # "COMPLETED" => u \in S

\* When run() has returned, a node of a DAG has not completed only because
\* run_fn raised for it or for a node above it, unless an assertion killed a
\* thread (_run_node, _finish_node, run).
MissingIsExplained ==
  pc[Main] = "returned" /\ ~Asserted /\ Acyclic =>
    \A S \in SUBSET Node : Missing(S) =>
      \E t \in Thread : node[t] \in S /\ pc[t] = "raised"

\* Only a node that has an upstream node can be started twice, and only a graph
\* that has an edge can make an assertion fail: it takes run() and a thread that
\* completes the upstream node, or two such threads, that look at one node
\* (_can_run, _run_node_in_thread).
RootsRunOnce ==
  /\ \A t, k \in Thread :
       node[t] = node[k] /\ node[t] \in Node /\ dag[node[t]] = {} => t = k
  /\ Asserted => \E n \in Node : dag[n] # {}

\* The nodes for which a thread has been started.
Started == {n \in Node : \E t \in Thread : pc[t] # "unborn" /\ node[t] = n}

Order == INSTANCE StepOrder
           WITH upstream <- dag, started <- Started, succeeded <- ran

\* The runner implements the order of the steps, with the threads it starts and
\* the calls of run_fn that return.
ImplementsOrder == Order!Spec

\* run() ends: no thread waits for ever on the threads it joins.
RunEnds == <>(pc[Main] \in Ended)

-----------------------------------------------------------------------------
(* A statement of the source that the interleavings refute (see README).   *)

\* "calls run_fn(node) for each string node in the DAG" (line 62): when no
\* run_fn raises, run_fn is called for every node.
EveryNodeIsRun == <>(ran = Node)
=============================================================================
