----------------------------- MODULE RunRegistry ----------------------------
(***************************************************************************)
(* What get_or_create_run promises to the launchers of a pipeline run      *)
(* (zen_store_interface.py, step_launcher.py): as if in one step, a caller *)
(* creates its run or gets the run that has its ID, so that the launchers  *)
(* of one orchestrator run share one run and one of them has created it.   *)
(***************************************************************************)
CONSTANTS Caller,    \* the calls
          Request,   \* Request[c]: the ID and the name that call c asks for
          Pending,   \* the answer of a call that has not returned
          Failed     \* the answer of a call that has raised KeyError

VARIABLES runs,      \* the runs that exist, as records of an ID and a name
          answer     \* [Caller -> an answer]

Ids == {Request[c].id : c \in Caller}

Created(id)  == [id |-> id, created |-> TRUE]
Existing(id) == [id |-> id, created |-> FALSE]

Init == runs = {} /\ answer = [c \in Caller |-> Pending]

\* Neither the ID nor the name is taken.
Create(c) ==
  /\ answer[c] = Pending
  /\ \A r \in runs : r.id # Request[c].id /\ r.name # Request[c].name
  /\ runs' = runs \cup {Request[c]}
  /\ answer' = [answer EXCEPT ![c] = Created(Request[c].id)]

Get(c) ==
  /\ answer[c] = Pending
  /\ \E r \in runs : r.id = Request[c].id
  /\ answer' = [answer EXCEPT ![c] = Existing(Request[c].id)]
  /\ UNCHANGED runs

\* The run was there when the call tried to create it, and has been deleted.
Fail(c) ==
  /\ answer[c] = Pending
  /\ \A r \in runs : r.name # Request[c].name
  /\ answer' = [answer EXCEPT ![c] = Failed]
  /\ UNCHANGED runs

Delete(id) ==
  /\ runs' = {r \in runs : r.id # id}
  /\ UNCHANGED answer

Next == \/ \E c \in Caller : Create(c) \/ Get(c) \/ Fail(c)
        \/ \E id \in Ids : Delete(id)

Spec == Init /\ [][Next]_<<runs, answer>>
=============================================================================
