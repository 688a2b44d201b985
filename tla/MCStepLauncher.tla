--------------------------- MODULE MCStepLauncher ---------------------------
(* Instances of StepLauncher for TLC.                                      *)
EXTENDS StepLauncher

CONSTANTS a, b, c

MCStep == {a, b, c}

NoEdges == [s \in MCStep |-> {}]
Parallel == {NoEdges}
Chain    == {[NoEdges EXCEPT ![b] = {a}, ![c] = {b}]}
Fork     == {[NoEdges EXCEPT ![b] = {a}, ![c] = {a}]}
Join     == {[NoEdges EXCEPT ![c] = {a, b}]}

Shapes == Parallel \cup Chain \cup Fork \cup Join
=============================================================================
