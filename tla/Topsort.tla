------------------------------ MODULE Topsort -------------------------------
(***************************************************************************)
(* topsorted_layers (orchestrators/topsort.py), which the compiler calls   *)
(* on the steps of a pipeline and the downstream steps that reverse_dag    *)
(* gives (Compiler._get_sorted_invocations): layers of nodes, each node    *)
(* one layer after the last of its parents, or an error.                   *)
(*                                                                         *)
(* A layer is a bag: sorting it orders its nodes and keeps the repeated    *)
(* ones.  The nodes of a layer are visited in any order.                   *)
(***************************************************************************)
EXTENDS Integers, FiniteSets

CONSTANTS Node,      \* the nodes given to the function
          Unknown,   \* other nodes that get_parent_nodes may return
          Graphs     \* the values of "upstream" considered

ASSUME NodeAssumption   == IsFiniteSet(Node) /\ Node \cap Unknown = {}
ASSUME GraphsAssumption == Graphs \subseteq [Node -> SUBSET (Node \cup Unknown)]

VARIABLES
  upstream,   \* upstream[n]: what get_parent_nodes returns for n
  layer,      \* the nodes of the current layer that are still to be visited
  next_layer,
  depth,      \* how many layers come before the current one
  level,      \* history: in which layer a node was visited (last)
  visited,    \* visited_node_ids
  count,      \* the number of nodes in the layers visited so far
  result      \* what the function has returned or raised

vars == <<upstream, layer, next_layer, depth, level, visited, count, result>>

Bag == [Node -> Nat]
Empty == [n \in Node |-> 0]
In(bag) == {n \in Node : bag[n] > 0}

\* Mutant of Parents: unknown parents are kept.
UncleanParents(n) == upstream[n]

\* _apply_and_clean: no repeated and no unknown nodes.
Parents(n)  == upstream[n] \cap Node
Children(n) == {c \in Node : n \in upstream[c]}

\* The first layer: the nodes without parents.
Init ==
  /\ upstream \in Graphs
  /\ layer = [n \in Node |-> IF Parents(n) = {} THEN 1 ELSE 0]
  /\ next_layer = Empty
  /\ depth = 0
  /\ level = Empty
  /\ visited = {}
  /\ count = 0
  /\ result = "sorting"

-----------------------------------------------------------------------------
\* Mutants of Visit: the parents of a child are not looked at; a parent in the
\* next layer is as good as one that has been visited.
VisitWithoutTest(n) ==
  /\ result = "sorting" /\ layer[n] > 0
  /\ layer' = [layer EXCEPT ![n] = @ - 1]
  /\ visited' = visited \cup {n}
  /\ level' = [level EXCEPT ![n] = depth]
  /\ count' = count + 1
  /\ next_layer' = [c \in Node |-> IF c \in Children(n) THEN next_layer[c] + 1
                                                       ELSE next_layer[c]]
  /\ UNCHANGED <<upstream, depth, result>>

VisitTooEarly(n) ==
  /\ result = "sorting" /\ layer[n] > 0
  /\ layer' = [layer EXCEPT ![n] = @ - 1]
  /\ visited' = visited \cup {n}
  /\ level' = [level EXCEPT ![n] = depth]
  /\ count' = count + 1
  /\ next_layer' =
       [c \in Node |-> IF /\ c \in Children(n)
                          /\ Parents(c) \subseteq visited' \cup In(next_layer)
                       THEN next_layer[c] + 1 ELSE next_layer[c]]
  /\ UNCHANGED <<upstream, depth, result>>

\* The body of the loop over a layer: the node is visited, and its children
\* whose parents have all been visited join the next layer.
Visit(n) ==
  /\ result = "sorting" /\ layer[n] > 0
  /\ layer' = [layer EXCEPT ![n] = @ - 1]
  /\ visited' = visited \cup {n}
  /\ level' = [level EXCEPT ![n] = depth]
  /\ count' = count + 1
  /\ next_layer' =
       [c \in Node |-> IF c \in Children(n) /\ Parents(c) \subseteq visited'
                       THEN next_layer[c] + 1 ELSE next_layer[c]]
  /\ UNCHANGED <<upstream, depth, result>>

\* Mutants of NextLayer: an empty layer is followed by another one; the layers
\* are counted down.
NextLayerAlways ==
  /\ result = "sorting" /\ layer = Empty
  /\ layer' = next_layer
  /\ next_layer' = Empty
  /\ depth' = depth + 1
  /\ UNCHANGED <<upstream, level, visited, count, result>>

NextLayerDown ==
  /\ result = "sorting" /\ layer = Empty /\ next_layer # Empty
  /\ layer' = next_layer
  /\ next_layer' = Empty
  /\ depth' = depth - 1
  /\ UNCHANGED <<upstream, level, visited, count, result>>

\* The head of the while loop.
NextLayer ==
  /\ result = "sorting" /\ layer = Empty /\ next_layer # Empty
  /\ layer' = next_layer
  /\ next_layer' = Empty
  /\ depth' = depth + 1
  /\ UNCHANGED <<upstream, level, visited, count, result>>

\* Mutant of Finish: it waits for the nodes that are missing.
FinishWhenComplete ==
  /\ result = "sorting" /\ layer = Empty /\ next_layer = Empty
  /\ count = Cardinality(Node)
  /\ result' = "sorted"
  /\ UNCHANGED <<upstream, layer, next_layer, depth, level, visited, count>>

\* The last layer was empty: count the nodes.
Finish ==
  /\ result = "sorting" /\ layer = Empty /\ next_layer = Empty
  /\ result' = IF count < Cardinality(Node) THEN "contains a cycle"
               ELSE IF count > Cardinality(Node) THEN "unknown error"
               ELSE "sorted"
  /\ UNCHANGED <<upstream, layer, next_layer, depth, level, visited, count>>

Next == NextLayer \/ Finish \/ \E n \in Node : Visit(n)

Terminated == result # "sorting" /\ UNCHANGED vars

Spec == Init /\ [][Next \/ Terminated]_vars

\* A loop of one thread goes on until it ends.
FairSpec == Spec /\ WF_vars(Next)

-----------------------------------------------------------------------------
\* The types of the loop's variables; the layers are counted upwards.
TypeOK ==
  /\ upstream \in Graphs
  /\ layer \in Bag /\ next_layer \in Bag /\ level \in Bag
  /\ depth \in Nat /\ count \in Nat
  /\ visited \subseteq Node
  /\ result \in {"sorting", "sorted", "contains a cycle", "unknown error"}

\* "This should never happen; raise an error if this occurs" (line 141): no
\* node is put into two layers, nor twice into one.
NoUnknownError == result # "unknown error"

\* A node comes in the layer after the last of its parents: after all of them,
\* so that the steps can be run in this order, and as early as possible.
LayersFollowParents ==
  \A n \in visited :
    /\ \A p \in Parents(n) : p \in visited /\ level[p] < level[n]
    /\ level[n] > 0 => \E p \in Parents(n) : level[n] = level[p] + 1

\* A set of nodes each of which has a parent in the set: there is one if and
\* only if the graph of a finite set of nodes has a cycle.
Cyclic(S) == S # {} /\ \A n \in S : Parents(n) \cap S # {}

\* "Cannot sort graph because it contains a cycle": the error is raised for the
\* graphs that have one and for no other.
ErrorMeansCycle ==
  /\ result = "contains a cycle" => \E S \in SUBSET Node : Cyclic(S)
  /\ result = "sorted" => visited = Node /\ ~ \E S \in SUBSET Node : Cyclic(S)

\* The loop's work is bounded, for graphs with cycles too: it visits no node
\* twice and begins no layer without having visited a node in the one before, so
\* that it makes at most 2 * Cardinality(Node) + 1 steps.
WorkIsBounded == depth <= count /\ count <= Cardinality(Node)

\* The function returns or raises, for graphs with cycles too.
SortEnds == <>(result # "sorting")
=============================================================================
