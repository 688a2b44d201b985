------------------------------ MODULE RunStore ------------------------------
(***************************************************************************)
(* get_or_create_run, create_run, get_run and delete_run of SqlZenStore    *)
(* (zen_stores/sql_zen_store.py), called concurrently by the launchers of  *)
(* pipeline runs.  Each call is a sequence of statements in sessions of    *)
(* its own; the only uniqueness the database enforces is that of the       *)
(* primary key, the run's ID.                                              *)
(***************************************************************************)
EXTENDS Naturals

CONSTANTS Caller, Request, Pending, Failed,
          Name,        \* the names of runs
          MaxDeletes   \* how many delete_run calls a behaviour has

VARIABLES
  rows,      \* the pipeline_run table
  pc,        \* where each call is
  view,      \* the rows a call's session saw in its first query
  answer,    \* what each call has returned
  deletes    \* how many runs have been deleted

vars == <<rows, pc, view, answer, deletes>>

Registry == INSTANCE RunRegistry WITH runs <- rows

Ids == {Request[c].id : c \in Caller}
Row == [id : Ids, name : Name]

ASSUME RequestAssumption == Request \in [Caller -> Row]
ASSUME AnswerAssumption  == /\ Pending # Failed
                            /\ \A id \in Ids, b \in BOOLEAN :
                                 [id |-> id, created |-> b] \notin {Pending, Failed}
ASSUME DeletesAssumption == MaxDeletes \in Nat

Init ==
  /\ rows = {}
  /\ pc = [c \in Caller |-> "check_name"]
  /\ view = [c \in Caller |-> {}]
  /\ answer = [c \in Caller |-> Pending]
  /\ deletes = 0

Goto(c, place) == pc' = [pc EXCEPT ![c] = place]

Answer(c, a) == answer' = [answer EXCEPT ![c] = a] /\ Goto(c, "done")

\* create_run: no run has this name ...
CheckName(c) ==
  /\ pc[c] = "check_name"
  /\ view' = [view EXCEPT ![c] = rows]
  /\ Goto(c, IF \E r \in rows : r.name = Request[c].name
             THEN "get_id" ELSE "check_id")
  /\ UNCHANGED <<rows, answer, deletes>>

\* ... and no run has this ID.  The query sees the rows of the session's first
\* query (MySQL) or the current ones (SQLite).
CheckId(c) ==
  /\ pc[c] = "check_id"
  /\ \E seen \in {view[c], rows} :
       Goto(c, IF \E r \in seen : r.id = Request[c].id
               THEN "get_id" ELSE "insert")
  /\ UNCHANGED <<rows, view, answer, deletes>>

\* Mutants of Insert: no primary key; an upsert.
InsertDuplicate(c) ==
  /\ pc[c] = "insert"
  /\ rows' = rows \cup {Request[c]}
  /\ Answer(c, Registry!Created(Request[c].id))
  /\ UNCHANGED <<view, deletes>>

InsertOrReplace(c) ==
  /\ pc[c] = "insert"
  /\ rows' = {r \in rows : r.id # Request[c].id} \cup {Request[c]}
  /\ Answer(c, Registry!Created(Request[c].id))
  /\ UNCHANGED <<view, deletes>>

\* create_run: insert and commit, or IntegrityError on the primary key.
Insert(c) ==
  /\ pc[c] = "insert"
  /\ IF \E r \in rows : r.id = Request[c].id
     THEN Goto(c, "get_id") /\ UNCHANGED <<rows, answer>>
     ELSE /\ rows' = rows \cup {Request[c]}
          /\ Answer(c, Registry!Created(Request[c].id))
  /\ UNCHANGED <<view, deletes>>

\* Mutant of GetById: the query has no filter.
GetAnyRun(c) ==
  /\ pc[c] = "get_id"
  /\ \/ \E r \in rows : Answer(c, Registry!Existing(r.id))
     \/ rows = {} /\ Goto(c, "get_name") /\ UNCHANGED answer
  /\ UNCHANGED <<rows, view, deletes>>

\* The handler in get_or_create_run: get_run by ID ...
GetById(c) ==
  /\ pc[c] = "get_id"
  /\ IF \E r \in rows : r.id = Request[c].id
     THEN Answer(c, Registry!Existing(Request[c].id))
     ELSE Goto(c, "get_name") /\ UNCHANGED answer
  /\ UNCHANGED <<rows, view, deletes>>

\* Mutant of GetByName: the answer holds the name instead of the ID.
GetByNameAnswersName(c) ==
  /\ pc[c] = "get_name"
  /\ \/ \E r \in rows : /\ r.name = Request[c].name
                        /\ Answer(c, Registry!Existing(r.name))
     \/ /\ \A r \in rows : r.name # Request[c].name
        /\ Answer(c, Failed)
  /\ UNCHANGED <<rows, view, deletes>>

\* ... and, when there is none, by name: the first one the database returns.
GetByName(c) ==
  /\ pc[c] = "get_name"
  /\ \/ \E r \in rows : /\ r.name = Request[c].name
                        /\ Answer(c, Registry!Existing(r.id))
     \/ /\ \A r \in rows : r.name # Request[c].name
        /\ Answer(c, Failed)
  /\ UNCHANGED <<rows, view, deletes>>

\* delete_run, by a user.
DeleteRun(r) ==
  /\ deletes < MaxDeletes
  /\ rows' = rows \ {r}
  /\ deletes' = deletes + 1
  /\ UNCHANGED <<pc, view, answer>>

Call(c) == CheckName(c) \/ CheckId(c) \/ Insert(c) \/ GetById(c) \/ GetByName(c)

Terminated == (\A c \in Caller : pc[c] = "done") /\ UNCHANGED vars

Next == \/ \E c \in Caller : Call(c)
        \/ \E r \in rows : DeleteRun(r)
        \/ Terminated

Spec == Init /\ [][Next]_vars

-----------------------------------------------------------------------------
\* The types of the table and of the calls.
TypeOK ==
  /\ rows \subseteq Row
  /\ pc \in [Caller -> {"check_name", "check_id", "insert", "get_id",
                        "get_name", "done"}]
  /\ view \in [Caller -> SUBSET Row]
  /\ answer \in [Caller -> [id : Ids, created : BOOLEAN] \cup {Pending, Failed}]
  /\ deletes \in Nat

\* Two requests for one name are requests for one run: what run_name_template
\* gives as long as it has the {time} placeholder or is used once.
NamesDetermineIds ==
  \A c, d \in Caller : Request[c].name = Request[d].name =>
                       Request[c].id = Request[d].id

\* The calls behave like the atomic ones of the registry: the checks of
\* create_run race with other calls, and the handler of get_or_create_run makes
\* up for it (sql_zen_store.py, "running it first will reduce concurrency
\* issues").
ImplementsRegistry == Registry!Spec

\* A run that nobody has deleted was created once: of the launchers that share
\* it one is told so, and publishes the run's metadata.
CreatedOnce ==
  deletes = 0 =>
    \A c, d \in Caller :
      /\ answer[c] = Registry!Created(Request[c].id)
      /\ answer[d] = Registry!Created(Request[c].id)
      => c = d

\* A launcher writes to the run of its own orchestrator run.
GetsOwnRun ==
  \A c \in Caller : answer[c] \in {Pending, Failed} \/ answer[c].id = Request[c].id

\* "Pipeline run names must be unique" (docs, create-an-ml-pipeline.md, line
\* 132): create_run refuses a name that is taken.
NamesAreUnique == \A r, q \in rows : r.name = q.name => r = q
=============================================================================
