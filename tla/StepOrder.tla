----------------------------- MODULE StepOrder ------------------------------
(***************************************************************************)
(* What a runner of steps promises to a pipeline, and what a launcher      *)
(* relies on when it starts (base_orchestrator.py, dag_runner.py): a step  *)
(* is started only when its upstream steps have succeeded, and succeeds    *)
(* only after it was started.  Nothing is said of a step that is started   *)
(* twice, nor that every step is started: dag_runner.py promises neither.  *)
(***************************************************************************)
CONSTANTS Node,    \* the steps of the pipeline
          Graphs   \* the graphs of upstream steps considered

VARIABLES upstream,  \* upstream[s]: the steps that s comes after
          started,   \* the steps that have been started
          succeeded  \* the steps that have succeeded

Init == upstream \in Graphs /\ started = {} /\ succeeded = {}

Start(s) ==
  /\ upstream[s] \subseteq succeeded
  /\ started' = started \cup {s}
  /\ UNCHANGED <<upstream, succeeded>>

Succeed(s) ==
  /\ s \in started
  /\ succeeded' = succeeded \cup {s}
  /\ UNCHANGED <<upstream, started>>

Next == \E s \in Node : Start(s) \/ Succeed(s)

Spec == Init /\ [][Next]_<<upstream, started, succeeded>>
=============================================================================
