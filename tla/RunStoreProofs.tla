--------------------------- MODULE RunStoreProofs ---------------------------
(***************************************************************************)
(* Proofs about RunStore, for every set of calls and of requests.          *)
(***************************************************************************)
EXTENDS RunStore, TLAPS

\* Every row was requested by a call, and a call answers when it is done.
RowsRequested == \A r \in rows : \E c \in Caller : r = Request[c]

OpenIsPending == \A c \in Caller : pc[c] # "done" => answer[c] = Pending

\* The primary key.
IdsAreUnique == \A r, q \in rows : r.id = q.id => r = q

Inv == TypeOK /\ RowsRequested /\ OpenIsPending /\ IdsAreUnique

\* What a call was answered is true as long as nothing is deleted.
CreatedExists ==
  deletes = 0 =>
    \A c \in Caller, id \in Ids :
      answer[c] = Registry!Created(id) => \E r \in rows : r.id = id

\* The answers of the calls.
LEMMA Answers ==
  /\ \A c \in Caller : Request[c] \in Row /\ Request[c].id \in Ids
  /\ \A id \in Ids :
       /\ Registry!Created(id) \in [id : Ids, created : BOOLEAN]
       /\ Registry!Existing(id) \in [id : Ids, created : BOOLEAN]
       /\ Registry!Created(id) \notin {Pending, Failed}
       /\ Registry!Existing(id) \notin {Pending, Failed}
       /\ \A id2 \in Ids : Registry!Existing(id) # Registry!Created(id2)
<1>1. \A c \in Caller : Request[c] \in Row /\ Request[c].id \in Ids
  BY RequestAssumption DEF Ids
<1> QED
  BY <1>1, AnswerAssumption DEF Registry!Created, Registry!Existing

\* The strengthening holds of the empty table.
LEMMA InvInit == Init => Inv
BY DEF Init, Inv, TypeOK, RowsRequested, OpenIsPending, IdsAreUnique

\* Every statement keeps it: only an insertion that finds its ID free adds a row.
LEMMA InvStep == Inv /\ [Next]_vars => Inv'
<1> SUFFICES ASSUME Inv, [Next]_vars PROVE Inv'
  OBVIOUS
<1> USE Answers
    DEF Inv, TypeOK, RowsRequested, OpenIsPending, IdsAreUnique, Goto, Answer
<1>1. ASSUME NEW c \in Caller, CheckName(c) PROVE Inv'
  BY <1>1 DEF CheckName
<1>2. ASSUME NEW c \in Caller, CheckId(c) PROVE Inv'
  BY <1>2 DEF CheckId
<1>3. ASSUME NEW c \in Caller, Insert(c) PROVE Inv'
  <2>1. CASE \E r \in rows : r.id = Request[c].id
    <3>1. UNCHANGED <<rows, answer, view, deletes>>
      BY <1>3, <2>1 DEF Insert
    <3>2. pc' = [pc EXCEPT ![c] = "get_id"] /\ pc[c] # "done"
      BY <1>3, <2>1 DEF Insert
    <3> QED
      BY <3>1, <3>2
  <2>2. CASE ~ \E r \in rows : r.id = Request[c].id
    <3>1. rows' = rows \cup {Request[c]} /\ UNCHANGED <<view, deletes>>
      BY <1>3, <2>2 DEF Insert
    <3>2. /\ pc' = [pc EXCEPT ![c] = "done"]
          /\ answer' = [answer EXCEPT ![c] = Registry!Created(Request[c].id)]
      BY <1>3, <2>2 DEF Insert
    <3>3. TypeOK' /\ OpenIsPending'
      BY <3>1, <3>2
    <3>4. RowsRequested' /\ IdsAreUnique'
      BY <2>2, <3>1
    <3> QED
      BY <3>1, <3>3, <3>4
  <2> QED
    BY <2>1, <2>2
<1>4. ASSUME NEW c \in Caller, GetById(c) PROVE Inv'
  <2>1. CASE \E r \in rows : r.id = Request[c].id
    <3>1. answer' = [answer EXCEPT ![c] = Registry!Existing(Request[c].id)]
      BY <1>4, <2>1 DEF GetById
    <3>2. UNCHANGED <<rows, view, deletes>> /\ pc' = [pc EXCEPT ![c] = "done"]
      BY <1>4, <2>1 DEF GetById
    <3> QED
      BY <3>1, <3>2
  <2>2. CASE ~ \E r \in rows : r.id = Request[c].id
    BY <1>4, <2>2 DEF GetById
  <2> QED
    BY <2>1, <2>2
<1>5. ASSUME NEW c \in Caller, GetByName(c) PROVE Inv'
  <2>1. ASSUME NEW r \in rows PROVE r.id \in Ids
    BY DEF Row
  <2> QED
    BY <1>5, <2>1 DEF GetByName
<1>6. ASSUME NEW r \in rows, DeleteRun(r) PROVE Inv'
  BY <1>6, DeletesAssumption DEF DeleteRun
<1>7. CASE UNCHANGED vars
  BY <1>7 DEF vars
<1> QED
  BY <1>1, <1>2, <1>3, <1>4, <1>5, <1>6, <1>7 DEF Next, Call, Terminated

\* The strengthening is an invariant.
LEMMA Invariant == Spec => []Inv
BY InvInit, InvStep, PTL DEF Spec

\* The type invariant of the store's calls.
THEOREM TypeCorrect == Spec => []TypeOK
BY Invariant, PTL DEF Inv

-----------------------------------------------------------------------------
\* Of the calls for one run, one creates it (create_run, get_or_create_run).
THEOREM OneCreator == Spec => []CreatedOnce
<1> DEFINE I == Inv /\ CreatedExists /\ CreatedOnce
<1>1. Init => CreatedExists /\ CreatedOnce
  BY Answers
  DEF Init, CreatedExists, CreatedOnce
<1>2. I /\ [Next]_vars => CreatedExists' /\ CreatedOnce'
  <2> SUFFICES ASSUME I, [Next]_vars PROVE CreatedExists' /\ CreatedOnce'
    OBVIOUS
  <2> USE DEF Inv, TypeOK, OpenIsPending, CreatedExists, CreatedOnce, Goto,
              Answer
  <2>1. ASSUME NEW c \in Caller, CheckName(c) \/ CheckId(c)
        PROVE CreatedExists' /\ CreatedOnce'
    BY <2>1 DEF CheckName, CheckId
  <2>2. ASSUME NEW c \in Caller, Insert(c)
        PROVE CreatedExists' /\ CreatedOnce'
    <3>1. CASE \E r \in rows : r.id = Request[c].id
      BY <2>2, <3>1 DEF Insert
    <3>2. CASE ~ \E r \in rows : r.id = Request[c].id
      <4>1. /\ rows' = rows \cup {Request[c]}
            /\ answer' = [answer EXCEPT ![c] = Registry!Created(Request[c].id)]
            /\ UNCHANGED deletes
        BY <2>2, <3>2 DEF Insert
      <4>2. \A d \in Caller \ {c} : answer'[d] = answer[d]
        BY <4>1
      <4>3. \A id \in Ids : Registry!Created(id) = Registry!Created(Request[c].id)
                           => id = Request[c].id
        BY DEF Registry!Created
      <4>4. ASSUME deletes = 0, NEW d \in Caller \ {c},
                   answer[d] = Registry!Created(Request[c].id)
            PROVE  FALSE
        BY <3>2, <4>4, Answers
      <4>5. CreatedExists'
        BY <4>1, <4>2, <4>3, Answers
      <4>6. CreatedOnce'
        <5> SUFFICES ASSUME deletes' = 0, NEW d \in Caller, NEW e \in Caller,
                            answer'[d] = Registry!Created(Request[d].id),
                            answer'[e] = Registry!Created(Request[d].id)
                     PROVE  d = e
          OBVIOUS
        <5>1. CASE d # c /\ e # c
          BY <4>1, <4>2, <5>1
        <5>2. CASE d = c
          BY <4>1, <4>2, <4>4, <5>2
        <5>3. CASE e = c
          <6>1. Registry!Created(Request[c].id) = Registry!Created(Request[d].id)
            BY <4>1, <5>3
          <6> QED
            BY <4>1, <4>2, <4>4, <5>3, <6>1
        <5> QED
          BY <5>1, <5>2, <5>3
      <4> QED
        BY <4>5, <4>6
    <3> QED
      BY <3>1, <3>2
  <2>3. ASSUME NEW c \in Caller, GetById(c) \/ GetByName(c)
        PROVE CreatedExists' /\ CreatedOnce'
    <3>1. /\ UNCHANGED <<rows, deletes>>
          /\ \A d \in Caller, id \in Ids :
               answer'[d] = Registry!Created(id) =>
               answer[d] = Registry!Created(id)
      BY <2>3, Answers DEF GetById, GetByName, Row
    <3>2. CreatedExists'
      BY <3>1, Answers
    <3>3. CreatedOnce'
      BY <3>1, Answers
    <3> QED
      BY <3>2, <3>3
  <2>4. ASSUME NEW r \in rows, DeleteRun(r)
        PROVE CreatedExists' /\ CreatedOnce'
    BY <2>4 DEF DeleteRun
  <2>5. CASE UNCHANGED vars
    BY <2>5 DEF vars
  <2> QED
    BY <2>1, <2>2, <2>3, <2>4, <2>5 DEF Next, Call, Terminated
<1>3. I => CreatedOnce
  OBVIOUS
<1> QED
  BY <1>1, <1>2, <1>3, Invariant, PTL DEF Spec

-----------------------------------------------------------------------------
\* When a name stands for one run, a row that has the name of a request has
\* its ID.
LEMMA NameGivesId ==
  ASSUME NamesDetermineIds, RowsRequested, NEW c \in Caller, NEW r \in rows,
         r.name = Request[c].name
  PROVE  r.id = Request[c].id
BY DEF NamesDetermineIds, RowsRequested

\* A launcher is given the run it asked for, although get_or_create_run falls
\* back on the run that has its name.
THEOREM OwnRun ==
  ASSUME NamesDetermineIds
  PROVE  Spec => []GetsOwnRun
<1>1. Init => GetsOwnRun
  BY DEF Init, GetsOwnRun
<1>2. Inv /\ GetsOwnRun /\ [Next]_vars => GetsOwnRun'
  <2> SUFFICES ASSUME Inv, GetsOwnRun, [Next]_vars PROVE GetsOwnRun'
    OBVIOUS
  <2> USE DEF Inv, TypeOK, GetsOwnRun, Goto, Answer
  <2>1. ASSUME NEW c \in Caller, CheckName(c) \/ CheckId(c) PROVE GetsOwnRun'
    BY <2>1 DEF CheckName, CheckId
  <2>2. ASSUME NEW c \in Caller, Insert(c) PROVE GetsOwnRun'
    BY <2>2 DEF Insert, Registry!Created
  <2>3. ASSUME NEW c \in Caller, GetById(c) PROVE GetsOwnRun'
    BY <2>3 DEF GetById, Registry!Existing
  <2>4. ASSUME NEW c \in Caller, GetByName(c) PROVE GetsOwnRun'
    BY <2>4, NameGivesId DEF GetByName, Registry!Existing
  <2>5. ASSUME NEW r \in rows, DeleteRun(r) PROVE GetsOwnRun'
    BY <2>5 DEF DeleteRun
  <2>6. CASE UNCHANGED vars
    BY <2>6 DEF vars
  <2> QED
    BY <2>1, <2>2, <2>3, <2>4, <2>5, <2>6 DEF Next, Call, Terminated
<1> QED
  BY <1>1, <1>2, Invariant, PTL DEF Spec

\* Names are unique, although no constraint of the table says so and the check of
\* create_run comes too early: the primary key does it, when no two orchestrator
\* runs ask for one name.
THEOREM UniqueNames ==
  ASSUME NamesDetermineIds
  PROVE  Spec => []NamesAreUnique
<1>1. Inv => NamesAreUnique
  <2> SUFFICES ASSUME Inv, NEW r \in rows, NEW q \in rows, r.name = q.name
               PROVE  r = q
    BY DEF NamesAreUnique
  <2>1. PICK c \in Caller, d \in Caller : r = Request[c] /\ q = Request[d]
    BY DEF Inv, RowsRequested
  <2>2. r.id = q.id
    BY <2>1 DEF NamesDetermineIds
  <2> QED
    BY <2>2 DEF Inv, IdsAreUnique
<1> QED
  BY <1>1, Invariant, PTL

\* Every step of the store's calls is a step of the registry or leaves it
\* unchanged: get_or_create_run is atomic for its callers.
THEOREM Implements ==
  ASSUME NamesDetermineIds
  PROVE  Spec => ImplementsRegistry
<1>1. Init => Registry!Init
  BY DEF Init, Registry!Init
<1>2. Inv /\ [Next]_vars => [Registry!Next]_<<rows, answer>>
  <2> SUFFICES ASSUME Inv, [Next]_vars
               PROVE  [Registry!Next]_<<rows, answer>>
    OBVIOUS
  <2> USE DEF Inv, OpenIsPending, Goto, Answer
  <2>1. ASSUME NEW c \in Caller, CheckName(c) \/ CheckId(c)
        PROVE UNCHANGED <<rows, answer>>
    BY <2>1 DEF CheckName, CheckId
  <2>2. ASSUME NEW c \in Caller, Insert(c)
        PROVE Registry!Create(c) \/ UNCHANGED <<rows, answer>>
    BY <2>2, NameGivesId DEF Insert, Registry!Create
  <2>3. ASSUME NEW c \in Caller, GetById(c)
        PROVE Registry!Get(c) \/ UNCHANGED <<rows, answer>>
    BY <2>3 DEF GetById, Registry!Get
  <2>4. ASSUME NEW c \in Caller, GetByName(c)
        PROVE Registry!Get(c) \/ Registry!Fail(c)
    <3>1. answer[c] = Pending /\ UNCHANGED rows
      BY <2>4 DEF GetByName
    <3>2. CASE \E r \in rows : /\ r.name = Request[c].name
                               /\ Answer(c, Registry!Existing(r.id))
      BY <3>1, <3>2, NameGivesId DEF Registry!Get
    <3>3. CASE (\A r \in rows : r.name # Request[c].name) /\ Answer(c, Failed)
      BY <3>1, <3>3 DEF Registry!Fail
    <3> QED
      BY <2>4, <3>2, <3>3 DEF GetByName
  <2>5. ASSUME NEW r \in rows, DeleteRun(r)
        PROVE \E id \in Registry!Ids : Registry!Delete(id)
    <3>1. r.id \in Registry!Ids
      BY DEF RowsRequested, Registry!Ids
    <3>2. \A q \in rows : q.id = r.id => q = r
      BY DEF IdsAreUnique
    <3> QED
      BY <2>5, <3>1, <3>2 DEF DeleteRun, Registry!Delete
  <2>6. CASE UNCHANGED vars
    BY <2>6 DEF vars
  <2> QED
    BY <2>1, <2>2, <2>3, <2>4, <2>5, <2>6
    DEF Next, Call, Terminated, Registry!Next
<1> QED
  BY <1>1, <1>2, Invariant, PTL DEF Spec, Registry!Spec, ImplementsRegistry
=============================================================================
