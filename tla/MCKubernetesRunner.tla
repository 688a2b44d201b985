------------------------- MODULE MCKubernetesRunner -------------------------
(* Instances of KubernetesRunner for TLC.                                  *)
EXTENDS KubernetesRunner

MCNode == 1..2
MCThread == 0..5
MCPodName == {"a", "b"}

\* One step above the other, and two steps without an edge.
MCGraphs == {[n \in MCNode |-> IF n = 2 THEN {1} ELSE {}],
             [n \in MCNode |-> {}]}

Distinct == [n \in MCNode |-> <<"a", "b">>[n]]
=============================================================================
