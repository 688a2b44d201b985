-------------------------- MODULE ConnectorsProofs --------------------------
(***************************************************************************)
(* Proofs about Connectors for any number of threads, connectors and       *)
(* secrets.                                                                *)
(***************************************************************************)
EXTENDS Connectors, TLAPS

\* An empty row is a row.
LEMMA NoRowType == NoRow \in Row
BY DEF NoRow, Row

\* No connector, no secret and no request at first.
LEMMA TypeInit == Init => TypeOK
BY NoRowType DEF Init, TypeOK

\* Every step keeps the types.
LEMMA TypeStep == TypeOK /\ [Next]_vars => TypeOK'
<1> SUFFICES ASSUME TypeOK, [Next]_vars PROVE TypeOK'
  OBVIOUS
<1> USE DEF TypeOK
<1>1. ASSUME NEW t \in Thread, NEW c \in Connector, NEW shared \in BOOLEAN, NEW secrets \in BOOLEAN, CreateServiceConnector(t, c, shared, secrets)
      PROVE  TypeOK'
  BY <1>1, NoRowType DEF CreateServiceConnector, Begin, Goto, Row, ScopeOf, NoRow
<1>2. ASSUME NEW t \in Thread, NEW c \in Connector, NEW shared \in BOOLEAN, NEW secrets \in {"keep", "empty", "new"}, UpdateServiceConnector(t, c, shared, secrets)
      PROVE  TypeOK'
  BY <1>2, NoRowType DEF UpdateServiceConnector, Begin, SecretUpdate, Goto, Row, ScopeOf, NoRow
<1>3. ASSUME NEW t \in Thread, NEW c \in Connector, DeleteServiceConnector(t, c)
      PROVE  TypeOK'
  BY <1>3, NoRowType DEF DeleteServiceConnector, Begin, Goto, Row, ScopeOf, NoRow
<1>4. ASSUME NEW t \in Thread, CreateSecret(t)
      PROVE  TypeOK'
  <2>1. PICK s \in Secret :
          /\ scope' = [scope EXCEPT ![s] = ScopeOf(write[t].shared)]
          /\ owner' = [owner EXCEPT ![s] = on[t]]
          /\ write' = [write EXCEPT ![t].secret = s]
    BY <1>4 DEF CreateSecret
  <2>2. write[t].shared \in BOOLEAN /\ write' \in [Thread -> Row]
    BY <2>1 DEF Row
  <2>3. scope' \in [Secret -> {"unused", "user", "workspace", "deleted"}]
    BY <2>1, <2>2 DEF ScopeOf
  <2>4. UNCHANGED <<there, rows, born, kind, on, read, stale, torn, lost>>
    BY <1>4 DEF CreateSecret, db, request, history
  <2>5. pc[t] # "idle" /\ pc' = [pc EXCEPT ![t] = "commit"] /\ touched' = touched \cup {t}
    BY <1>4 DEF CreateSecret, Goto
  <2> QED
    BY <2>1, <2>2, <2>3, <2>4, <2>5
<1>5. ASSUME NEW t \in Thread, UpdateScope(t)
      PROVE  TypeOK'
  BY <1>5, NoRowType DEF UpdateScope, db, request, history, Goto, Row, ScopeOf, NoRow
<1>6. ASSUME NEW t \in Thread, UpdateScopeRaises(t)
      PROVE  TypeOK'
  BY <1>6, NoRowType DEF UpdateScopeRaises, Raise, Answer, AnswerAnd, Goto, Row, ScopeOf, NoRow
<1>7. ASSUME NEW t \in Thread, DeleteSecret(t)
      PROVE  TypeOK'
  BY <1>7, NoRowType DEF DeleteSecret, db, request, history, Goto, Row, ScopeOf, NoRow
<1>8. ASSUME NEW t \in Thread, Insert(t)
      PROVE  TypeOK'
  <2>1. on[t] \in Connector /\ pc' = [pc EXCEPT ![t] = "refresh"]
    BY <1>8 DEF Insert, Goto
  <2> QED
    BY <1>8, <2>1 DEF Insert, history
<1>9. ASSUME NEW t \in Thread, InsertRaises(t)
      PROVE  TypeOK'
  <2>1. CASE write[t].secret = None
    <3>1. Answer(t) /\ UNCHANGED <<there, rows, scope, owner, torn, lost>>
      BY <1>9, <2>1 DEF InsertRaises, db
    <3> QED
      BY <3>1, NoRowType DEF Answer, AnswerAnd, Goto
  <2>2. CASE write[t].secret # None
    BY <1>9, <2>2 DEF InsertRaises, db, request, Goto
  <2> QED
    BY <2>1, <2>2
<1>10. ASSUME NEW t \in Thread, CleanUp(t)
      PROVE  TypeOK'
  BY <1>10, NoRowType DEF CleanUp, Answer, AnswerAnd, db, Goto, Row, ScopeOf, NoRow
<1>11. ASSUME NEW t \in Thread, Update(t)
      PROVE  TypeOK'
  BY <1>11, NoRowType DEF Update, AnswerAnd, Others, Merge, Goto, Row, ScopeOf, NoRow
<1>12. ASSUME NEW t \in Thread, UpdateRaises(t)
      PROVE  TypeOK'
  BY <1>12, NoRowType DEF UpdateRaises, Raise, Answer, AnswerAnd, Goto, Row, ScopeOf, NoRow
<1>13. ASSUME NEW t \in Thread, Delete(t)
      PROVE  TypeOK'
  BY <1>13, NoRowType DEF Delete, AnswerAnd, Others, Goto, Row, ScopeOf, NoRow
<1>14. ASSUME NEW t \in Thread, Fail(t)
      PROVE  TypeOK'
  BY <1>14, NoRowType DEF Fail, Raise, Answer, AnswerAnd, Goto, Row, ScopeOf, NoRow
<1>15. CASE UNCHANGED vars
  BY <1>15 DEF vars
<1>16. ASSUME NEW t \in Thread, Refresh(t)
      PROVE  TypeOK'
  BY <1>16, NoRowType DEF Refresh, Answer, AnswerAnd, Goto, db
<1> QED
  BY <1>1, <1>2, <1>3, <1>4, <1>5, <1>6, <1>7, <1>8, <1>9, <1>10, <1>11, <1>12, <1>13, <1>14, <1>15, <1>16
  DEF Next, Request, SecretsStore, Database

\* The type invariant of the tables, of the secrets store and of the threads.
THEOREM TypeCorrect == Spec => []TypeOK
BY TypeInit, TypeStep, PTL DEF Spec

-----------------------------------------------------------------------------

\* The registers of the thread u stay.
Same(u) ==
  /\ pc'[u] = pc[u] /\ kind'[u] = kind[u] /\ on'[u] = on[u]
  /\ read'[u] = read[u] /\ write'[u] = write[u]
  /\ u \in touched' <=> u \in touched

\* A thread that has answered.
AtRest(t) ==
  /\ pc'[t] = "idle" /\ kind'[t] = "create" /\ on'[t] = None
  /\ read'[t] = NoRow /\ write'[t] = NoRow /\ t \notin touched' /\ t \notin stale'

\* A step that moves a thread leaves the registers of the others alone.
LEMMA OthersStay ==
  ASSUME TypeOK, NEW t \in Thread, NEW where,
         pc' = [pc EXCEPT ![t] = where],
         touched' = touched \/ touched' = touched \cup {t},
         UNCHANGED <<kind, on, read, write>>
  PROVE  \A u \in Thread \ {t} : Same(u)
<1> TAKE u \in Thread \ {t}
<1>1. pc'[u] = pc[u]
  BY DEF TypeOK
<1>2. u \in touched' <=> u \in touched
  OBVIOUS
<1> QED
  BY <1>1, <1>2 DEF Same

\* A thread that has answered holds nothing.
LEMMA AnswerAtRest ==
  ASSUME TypeOK, NEW t \in Thread, NEW outdated, AnswerAnd(t, outdated)
  PROVE  /\ AtRest(t) /\ born' = born
         /\ stale' = (stale \cup outdated) \ {t}
         /\ \A u \in Thread \ {t} : Same(u)
BY DEF TypeOK, AnswerAnd, Goto, AtRest, Same

\* Holding nothing is what the invariant asks of an idle thread.
LEMMA RestHolds ==
  ASSUME TypeOK, NEW t \in Thread, AtRest(t), None \notin there'
  PROVE  Local(t)' /\ Holds(t)'
BY DEF AtRest, Local, Holds, Inserting, Fresh, Dirty, Drops, NoRow

\* What a thread holds is not disturbed by a step of another that takes neither
\* its row nor a deleted secret back.
LEMMA OtherLocal ==
  ASSUME NEW u \in Thread, Local(u), Same(u), born \subseteq born', TypeOK,
         Inserting(u) /\ on[u] \in there' => on[u] \in there,
         pc[u] = "idle" /\ u \in stale' => u \in stale,
         \A s \in Secret : scope[s] = "deleted" => scope'[s] = "deleted"
  PROVE  Local(u)'
<1>1. read[u].secret \in Secret \cup {None}
  BY DEF TypeOK, Row
<1> QED
  BY <1>1 DEF Local, Inserting, Same, Fresh, Dirty, Drops

\* The same about its secrets, its row and the other threads.
LEMMA OtherHolds ==
  ASSUME NEW t \in Thread, NEW u \in Thread \ {t}, Holds(u), TypeOK,
         \A v \in Thread \ {t} : Same(v),
         \A s \in Secret : scope[s] # "unused" =>
           owner'[s] = owner[s] /\ scope'[s] # "unused",
         Fresh(u) =>
           /\ scope'[write[u].secret] = scope[write[u].secret]
           /\ on[u] \in there' => rows'[on[u]].secret # write[u].secret
           /\ read'[t].secret # write[u].secret /\ write'[t].secret # write[u].secret,
         Inserting(u) => on'[t] # on[u],
         kind[u] # "create" /\ u \notin stale' =>
           u \notin stale /\ on[u] \in there' /\ rows'[on[u]] = rows[on[u]]
  PROVE  Holds(u)'
<1>1. read[u].secret \in Secret \cup {None} /\ write[u].secret \in Secret \cup {None}
  BY DEF TypeOK, Row
<1>2. Same(u)
  OBVIOUS
<1>3. Fresh(u)' <=> Fresh(u)
  BY <1>2 DEF Fresh, Same
<1>4. read'[u].secret # None =>
        owner'[read'[u].secret] = on'[u] /\ scope'[read'[u].secret] # "unused"
  BY <1>1, <1>2 DEF Holds, Same
<1>5. Fresh(u) => scope[write[u].secret] # "unused" /\ write[u].secret \in Secret
  BY <1>1 DEF Holds, ScopeOf, Fresh
<1>6. ASSUME Fresh(u)
      PROVE  /\ owner'[write'[u].secret] = on'[u]
             /\ scope'[write'[u].secret] = ScopeOf(write'[u].shared)
             /\ on'[u] \in there' => rows'[on'[u]].secret # write'[u].secret
             /\ \A v \in Thread \ {u} : /\ read'[v].secret # write'[u].secret
                                        /\ write'[v].secret # write'[u].secret
  BY <1>2, <1>5, <1>6 DEF Holds, Same
<1>7. Inserting(u)' => \A v \in Thread \ {u} : on'[v] # on'[u]
  <2>1. Inserting(u)' <=> Inserting(u)
    BY <1>2 DEF Inserting, Same
  <2> QED
    BY <1>2, <2>1 DEF Holds, Same
<1>8. kind'[u] # "create" /\ u \notin stale' => on'[u] \in there' /\ rows'[on'[u]] = read'[u]
  BY <1>2 DEF Holds, Same
<1> QED
  BY <1>3, <1>4, <1>6, <1>7, <1>8 DEF Holds, ScopeOf

\* A thread that answers, and changes nothing but its own registers, keeps what
\* the others hold.
LEMMA RowAnswerOnly ==
  ASSUME TypeOK, RowInv, NEW t \in Thread, AnswerAnd(t, {}),
         UNCHANGED <<there, rows, scope, owner>>
  PROVE  RowInv'
<1>1. AtRest(t) /\ born' = born /\ stale' = stale \ {t} /\ \A u \in Thread \ {t} : Same(u)
  BY AnswerAtRest
<1>2. None \notin there'
  BY NoneAssumption DEF TypeOK
<1>3. Local(t)' /\ Holds(t)'
  BY <1>1, <1>2, RestHolds
<1>4. ASSUME NEW u \in Thread \ {t} PROVE Local(u)'
  BY <1>1, OtherLocal DEF RowInv
<1>5. ASSUME NEW u \in Thread \ {t} PROVE Holds(u)'
  <2>1. Fresh(u) => write[u].secret # None
    BY DEF Fresh
  <2>2. Inserting(u) => on[u] # None
    BY NoneAssumption DEF TypeOK, Inserting
  <2> QED
    BY <1>1, <2>1, <2>2, OtherHolds DEF RowInv, Holds, AtRest, NoRow
<1> QED
  BY <1>1, <1>3, <1>4, <1>5 DEF RowInv

\* UpdateScopeRaises changes no row and no secret.
LEMMA RowUpdateScopeRaises ==
  ASSUME TypeOK, RowInv, NEW t \in Thread, UpdateScopeRaises(t)
  PROVE  RowInv'
<1>1. AnswerAnd(t, {}) /\ UNCHANGED <<there, rows, scope, owner>>
  BY DEF UpdateScopeRaises, Raise, Answer
<1> QED
  BY <1>1, RowAnswerOnly

\* UpdateRaises changes no row and no secret.
LEMMA RowUpdateRaises ==
  ASSUME TypeOK, RowInv, NEW t \in Thread, UpdateRaises(t)
  PROVE  RowInv'
<1>1. AnswerAnd(t, {}) /\ UNCHANGED <<there, rows, scope, owner>>
  BY DEF UpdateRaises, Raise, Answer
<1> QED
  BY <1>1, RowAnswerOnly

\* Fail changes no row and no secret.
LEMMA RowFail ==
  ASSUME TypeOK, RowInv, NEW t \in Thread, Fail(t)
  PROVE  RowInv'
<1>1. AnswerAnd(t, {}) /\ UNCHANGED <<there, rows, scope, owner>>
  BY DEF Fail, Raise, Answer
<1> QED
  BY <1>1, RowAnswerOnly

\* The secrets of rows and registers are secrets, or none.
LEMMA Secrets ==
  ASSUME TypeOK
  PROVE  /\ \A c \in Connector : rows[c].secret \in Secret \cup {None}
         /\ \A t \in Thread : /\ read[t].secret \in Secret \cup {None}
                              /\ write[t].secret \in Secret \cup {None}
BY DEF TypeOK, Row

\* InsertRaises answers, or goes on to delete the secret.
LEMMA RowInsertRaises ==
  ASSUME TypeOK, RowInv, NEW t \in Thread, InsertRaises(t)
  PROVE  RowInv'
<1>1. CASE write[t].secret = None
  <2>1. AnswerAnd(t, {}) /\ UNCHANGED <<there, rows, scope, owner>>
    BY <1>1 DEF InsertRaises, Answer, db
  <2> QED
    BY <2>1, RowAnswerOnly
<1>2. CASE write[t].secret # None
  <2>1. /\ pc[t] \in {"commit", "refresh"} /\ kind[t] = "create"
        /\ pc' = [pc EXCEPT ![t] = "clean up"]
    BY <1>2 DEF InsertRaises, Goto
  <2>2. UNCHANGED <<born, there, rows, scope, owner, kind, on, read, write, touched, stale>>
    BY <1>2 DEF InsertRaises, db, request
  <2>3. pc'[t] = "clean up" /\ \A u \in Thread \ {t} : Same(u)
    BY <2>1, <2>2, OthersStay DEF TypeOK
  <2>4. ASSUME NEW u \in Thread \ {t} PROVE Local(u)' /\ Holds(u)'
    <3>1. Local(u) /\ Holds(u)
      BY DEF RowInv
    <3>2. Local(u)'
      BY <2>2, <2>3, <3>1, OtherLocal
    <3>3. read'[t] = read[t] /\ write'[t] = write[t] /\ on'[t] = on[t]
      BY <2>2
    <3>4. Fresh(u) => read[t].secret # write[u].secret /\ write[t].secret # write[u].secret
      BY <3>1 DEF Holds
    <3>5. Inserting(u) => on[t] # on[u]
      BY <3>1 DEF Holds
    <3>6. Fresh(u) => (on[u] \in there => rows[on[u]].secret # write[u].secret)
      BY <3>1 DEF Holds
    <3>7. kind[u] # "create" /\ u \notin stale => on[u] \in there
      BY <3>1 DEF Holds
    <3>8. Holds(u)'
      BY <2>2, <2>3, <3>1, <3>3, <3>4, <3>5, <3>6, <3>7, OtherHolds
    <3> QED
      BY <3>2, <3>8
  <2>5. Local(t)' /\ Holds(t)'
    <3>1. Local(t) /\ Holds(t)
      BY DEF RowInv
    <3>2. Local(t)'
      BY <1>2, <2>1, <2>2, <2>3, <3>1 DEF Local, Inserting, Fresh, Dirty, Drops
    <3>4. Inserting(t)' => Inserting(t)
      BY <1>2, <2>1, <2>2, <2>3, <3>1 DEF Local, Inserting
    <3>3. \A u \in Thread : /\ read'[u] = read[u] /\ write'[u] = write[u]
                            /\ on'[u] = on[u] /\ kind'[u] = kind[u]
      BY <2>2
    <3> QED
      BY <2>1, <2>2, <3>1, <3>2, <3>3, <3>4 DEF Holds, Fresh
  <2> QED
    BY <2>2, <2>4, <2>5 DEF RowInv
<1> QED
  BY <1>1, <1>2

\* CleanUp deletes a secret that no other thread has created.
LEMMA RowCleanUp ==
  ASSUME TypeOK, RowInv, NEW t \in Thread, CleanUp(t)
  PROVE  RowInv'
<1> DEFINE s == write[t].secret
<1>1. AnswerAnd(t, {}) /\ UNCHANGED <<there, rows, owner>>
  BY DEF CleanUp, Answer, db
<1>2. pc[t] = "clean up" /\ scope' = [scope EXCEPT ![s] = "deleted"]
  BY DEF CleanUp
<1>3. s # None
  BY <1>2 DEF RowInv, Local
<1>4. s \in Secret
  BY <1>3, Secrets
<1>5. AtRest(t) /\ born' = born /\ stale' = stale \ {t} /\ \A u \in Thread \ {t} : Same(u)
  BY <1>1, AnswerAtRest
<1>6. Local(t)' /\ Holds(t)'
  BY <1>1, <1>5, RestHolds, NoneAssumption DEF TypeOK
<1>7. \A x \in Secret : /\ x # s => scope'[x] = scope[x]
                        /\ scope'[s] = "deleted"
  BY <1>2, <1>4 DEF TypeOK
<1>8. ASSUME NEW u \in Thread \ {t} PROVE Local(u)'
  BY <1>1, <1>5, <1>7, OtherLocal DEF RowInv
<1>9. ASSUME NEW u \in Thread \ {t} PROVE Holds(u)'
  <2>1. Fresh(u) => write[u].secret # None /\ write[u].secret # s /\ write[u].secret \in Secret
    <3>1. Fresh(u) => write[u].secret # s
      BY DEF RowInv, Holds
    <3> QED
      BY <3>1, Secrets DEF Fresh
  <2>2. Inserting(u) => on[u] # None
    BY NoneAssumption DEF TypeOK, Inserting
  <2> QED
    BY <1>1, <1>5, <1>7, <2>1, <2>2, OtherHolds DEF RowInv, Holds, AtRest, NoRow
<1>10. ASSUME NEW b \in there, rows[b].secret # None
       PROVE  owner'[rows[b].secret] = b /\ scope'[rows[b].secret] # "unused"
  <2>1. rows[b].secret \in Secret /\ owner[rows[b].secret] = b /\ scope[rows[b].secret] # "unused"
    <3>1. b \in Connector
      BY DEF TypeOK
    <3> QED
      BY <1>10, <3>1, Secrets DEF RowInv
  <2> QED
    BY <1>1, <1>7, <2>1
<1> QED
  BY <1>1, <1>5, <1>6, <1>8, <1>9, <1>10 DEF RowInv

\* Refresh changes no row and no secret.
LEMMA RowRefresh ==
  ASSUME TypeOK, RowInv, NEW t \in Thread, Refresh(t)
  PROVE  RowInv'
<1>1. AnswerAnd(t, {}) /\ UNCHANGED <<there, rows, scope, owner>>
  BY DEF Refresh, Answer, db
<1> QED
  BY <1>1, RowAnswerOnly

\* Insert gives the row the secret that the thread has created.
LEMMA RowInsert ==
  ASSUME TypeOK, RowInv, NEW t \in Thread, Insert(t)
  PROVE  RowInv'
<1> DEFINE c == on[t]
<1>1. UNCHANGED <<born, scope, owner, kind, on, write, stale>>
  BY DEF Insert, history
<1>2. /\ pc[t] = "commit" /\ kind[t] = "create"
      /\ there' = there \cup {c} /\ rows' = [rows EXCEPT ![c] = write[t]]
  BY DEF Insert
<1>3. Inserting(t) /\ c \in Connector /\ c \in born /\ c \notin there /\ read[t].secret = None
  BY <1>2 DEF TypeOK, RowInv, Local, Inserting
<1>4. /\ \A u \in Thread \ {t} : Same(u)
      /\ pc'[t] = "refresh" /\ read'[t] = write[t] /\ t \notin touched'
  BY DEF Insert, Goto, Same, TypeOK
<1>5. Local(t)' /\ Holds(t)'
  <2>1. Local(t)'
    BY <1>1, <1>2, <1>3, <1>4 DEF Local, Inserting, Fresh, Dirty, Drops
  <2>2. write[t].secret # None =>
          owner[write[t].secret] = c /\ scope[write[t].secret] # "unused"
    BY <1>3 DEF RowInv, Holds, Fresh, ScopeOf
  <2> QED
    BY <1>1, <1>2, <1>4, <2>1, <2>2 DEF Holds, Inserting, Fresh
<1>6. \A u \in Thread \ {t} : on[u] # c
  BY <1>3 DEF RowInv, Holds
<1>7. rows'[c] = write[t] /\ \A b \in Connector \ {c} : rows'[b] = rows[b]
  BY <1>2, <1>3 DEF TypeOK
<1>8. ASSUME NEW u \in Thread \ {t} PROVE Local(u)'
  BY <1>1, <1>2, <1>4, <1>6, OtherLocal DEF RowInv
<1>9. ASSUME NEW u \in Thread \ {t} PROVE Holds(u)'
  <2>1. Fresh(u) => write[u].secret # None /\ write[t].secret # write[u].secret
    BY DEF Fresh, RowInv, Holds
  <2>2. on[u] # c
    BY <1>6
  <2>3. on[u] # None => on[u] \in Connector
    BY DEF TypeOK
  <2>4. None \notin there'
    BY <1>2, <1>3, NoneAssumption DEF TypeOK
  <2>5. on[u] \in there' => on[u] \in there /\ rows'[on[u]] = rows[on[u]]
    BY <1>2, <1>6, <1>7, <2>3, <2>4
  <2>6. kind[u] # "create" /\ u \notin stale => on[u] \in there
    BY DEF RowInv, Holds
  <2>7. Holds(u)
    BY DEF RowInv
  <2>8. Fresh(u) => (on[u] \in there => rows[on[u]].secret # write[u].secret)
    BY <2>7 DEF Holds
  <2> QED
    BY <1>1, <1>2, <1>4, <2>1, <2>2, <2>5, <2>6, <2>7, <2>8, OtherHolds
<1>10. ASSUME NEW b \in there', rows'[b].secret # None
       PROVE  owner'[rows'[b].secret] = b /\ scope'[rows'[b].secret] # "unused"
  <2>1. CASE b = c
    BY <1>1, <1>3, <1>7, <1>10, <2>1 DEF RowInv, Holds, Fresh, ScopeOf
  <2>2. CASE b # c
    BY <1>1, <1>2, <1>7, <1>10, <2>2 DEF RowInv, TypeOK
  <2> QED
    BY <2>1, <2>2
<1> QED
  BY <1>1, <1>2, <1>3, <1>5, <1>8, <1>9, <1>10 DEF RowInv

\* Delete takes a row away that the other threads then know to be outdated.
LEMMA RowDelete ==
  ASSUME TypeOK, RowInv, NEW t \in Thread, Delete(t)
  PROVE  RowInv'
<1> DEFINE c == on[t]
<1>1. AnswerAnd(t, Others(t)) /\ UNCHANGED <<scope, owner>>
  BY DEF Delete
<1>2. /\ pc[t] = "commit" /\ kind[t] = "delete"
      /\ there' = there \ {c} /\ rows' = [rows EXCEPT ![c] = NoRow]
  BY DEF Delete
<1>3. c \in Connector
  BY <1>2 DEF TypeOK
<1>4. /\ AtRest(t) /\ born' = born /\ stale' = (stale \cup Others(t)) \ {t}
      /\ \A u \in Thread \ {t} : Same(u)
  BY <1>1, AnswerAtRest
<1>5. Local(t)' /\ Holds(t)'
  BY <1>2, <1>4, RestHolds, NoneAssumption DEF TypeOK
<1>6. ASSUME NEW u \in Thread \ {t} PROVE Local(u)'
  BY <1>1, <1>2, <1>4, OtherLocal DEF RowInv, Others
<1>7. \A b \in Connector \ {c} : rows'[b] = rows[b]
  BY <1>2, <1>3 DEF TypeOK
<1>8. ASSUME NEW u \in Thread \ {t} PROVE Holds(u)'
  <2>1. Fresh(u) => write[u].secret # None
    BY DEF Fresh
  <2>2. Inserting(u) => on[u] # None
    BY NoneAssumption DEF TypeOK, Inserting
  <2>3. on[u] \in there' => on[u] \in there /\ rows'[on[u]] = rows[on[u]]
    BY <1>2, <1>7 DEF TypeOK
  <2>4. kind[u] # "create" /\ u \notin stale' => u \notin stale /\ on[u] \in there /\ on[u] # c
    <3>1. kind[u] # "create" => pc[u] # "idle"
      BY DEF RowInv, Local
    <3>2. u \notin stale' => u \notin stale /\ u \notin Others(t)
      BY <1>4
    <3> QED
      BY <3>1, <3>2 DEF RowInv, Holds, Others
  <2>5. kind[u] # "create" /\ u \notin stale' => on[u] \in there'
    BY <1>2, <2>4
  <2> QED
    BY <1>1, <1>4, <2>1, <2>2, <2>3, <2>4, <2>5, OtherHolds DEF RowInv, Holds, AtRest, NoRow
<1>9. ASSUME NEW b \in there', rows'[b].secret # None
      PROVE  owner'[rows'[b].secret] = b /\ scope'[rows'[b].secret] # "unused"
  BY <1>1, <1>2, <1>7, <1>9 DEF RowInv, TypeOK
<1> QED
  BY <1>2, <1>4, <1>5, <1>6, <1>8, <1>9 DEF RowInv

\* Update writes what it has changed, and outdates what the others have read.
LEMMA RowUpdate ==
  ASSUME TypeOK, RowInv, NEW t \in Thread, Update(t)
  PROVE  RowInv'
<1> DEFINE c == on[t]
           outdated == IF write[t] = read[t] THEN {} ELSE Others(t)
<1>1. AnswerAnd(t, outdated) /\ UNCHANGED <<there, scope, owner>>
  BY DEF Update
<1>2. /\ pc[t] = "commit" /\ kind[t] = "update" /\ c \in there
      /\ rows' = [rows EXCEPT ![c] = Merge(rows[c], read[t], write[t])]
  BY DEF Update
<1>3. c \in Connector /\ rows[c] \in Row
  BY <1>2 DEF TypeOK
<1>4. /\ AtRest(t) /\ born' = born /\ stale' = (stale \cup outdated) \ {t}
      /\ \A u \in Thread \ {t} : Same(u)
  <2> HIDE DEF outdated
  <2> QED
    BY <1>1, AnswerAtRest
<1>5. Local(t)' /\ Holds(t)'
  BY <1>1, <1>4, RestHolds, NoneAssumption DEF TypeOK
<1>6. \A u \in Thread \ {t} : u \in stale' /\ pc[u] = "idle" => u \in stale
  BY <1>4 DEF Others
<1>7. ASSUME NEW u \in Thread \ {t} PROVE Local(u)'
  BY <1>1, <1>4, <1>6, OtherLocal DEF RowInv
<1>8. rows'[c] = Merge(rows[c], read[t], write[t]) /\ \A b \in Connector \ {c} : rows'[b] = rows[b]
  BY <1>2, <1>3 DEF TypeOK
<1>9. write[t] = read[t] => rows'[c] = rows[c]
  BY <1>3, <1>8 DEF Merge, Row
<1>10. \/ rows'[c].secret = rows[c].secret
       \/ Fresh(t) /\ rows'[c].secret = write[t].secret
       \/ rows'[c].secret = None
  <2>1. rows'[c].secret = IF write[t].secret = read[t].secret THEN rows[c].secret
                                                              ELSE write[t].secret
    BY <1>8 DEF Merge
  <2> QED
    BY <2>1 DEF Fresh
<1>11. ASSUME NEW u \in Thread \ {t} PROVE Holds(u)'
  <2>1. Fresh(u) => write[u].secret # None
    BY DEF Fresh
  <2>2. Inserting(u) => on[u] # None
    BY NoneAssumption DEF TypeOK, Inserting
  <2>3. Fresh(u) => write[t].secret # write[u].secret
    BY DEF RowInv, Holds
  <2>4. ASSUME Fresh(u), on[u] \in there'
        PROVE  rows'[on[u]].secret # write[u].secret
    <3>1. on[u] \in Connector /\ rows[on[u]].secret # write[u].secret
      BY <1>1, <2>4 DEF TypeOK, RowInv, Holds
    <3> QED
      BY <1>8, <1>10, <2>1, <2>3, <2>4, <3>1
  <2>5. ASSUME kind[u] # "create", u \notin stale'
        PROVE  u \notin stale /\ on[u] \in there' /\ rows'[on[u]] = rows[on[u]]
    <3>1. pc[u] # "idle" /\ on[u] \in Connector
      BY <2>5 DEF RowInv, Local, TypeOK
    <3>2. u \notin stale /\ u \notin outdated
      BY <1>4, <2>5
    <3>3. on[u] = c => write[t] = read[t]
      BY <3>1, <3>2 DEF Others
    <3> QED
      BY <1>1, <1>8, <1>9, <2>5, <3>1, <3>2, <3>3 DEF RowInv, Holds
  <2> QED
    BY <1>1, <1>4, <2>1, <2>2, <2>4, <2>5, OtherHolds DEF RowInv, Holds, AtRest, NoRow
<1>12. ASSUME NEW b \in there', rows'[b].secret # None
       PROVE  owner'[rows'[b].secret] = b /\ scope'[rows'[b].secret] # "unused"
  <2>1. CASE b = c
    BY <1>1, <1>2, <1>10, <1>12, <2>1 DEF RowInv, Holds, ScopeOf
  <2>2. CASE b # c
    BY <1>1, <1>8, <1>12, <2>2 DEF RowInv, TypeOK
  <2> QED
    BY <2>1, <2>2
<1> QED
  BY <1>1, <1>4, <1>5, <1>7, <1>11, <1>12 DEF RowInv

\* CreateSecret makes a secret that nobody has.
LEMMA RowCreateSecret ==
  ASSUME TypeOK, RowInv, NEW t \in Thread, CreateSecret(t)
  PROVE  RowInv'
<1>1. PICK s \in Secret :
        /\ scope[s] = "unused"
        /\ scope' = [scope EXCEPT ![s] = ScopeOf(write[t].shared)]
        /\ owner' = [owner EXCEPT ![s] = on[t]]
        /\ write' = [write EXCEPT ![t].secret = s]
  BY DEF CreateSecret
<1>2. /\ pc[t] = "create secret" /\ pc' = [pc EXCEPT ![t] = "commit"]
      /\ touched' = touched \cup {t}
      /\ UNCHANGED <<born, there, rows, kind, on, read, stale>>
  BY DEF CreateSecret, Goto, db, request, history
<1>3. Local(t) /\ Holds(t)
  BY DEF RowInv
<1>4. pc'[t] = "commit" /\ t \in touched' /\ \A u \in Thread \ {t} : Same(u)
  BY <1>1, <1>2 DEF TypeOK, Same
<1>5. /\ scope'[s] = ScopeOf(write[t].shared) /\ owner'[s] = on[t]
      /\ \A x \in Secret \ {s} : scope'[x] = scope[x] /\ owner'[x] = owner[x]
  BY <1>1 DEF TypeOK
<1>6. write'[t].secret = s /\ write'[t].shared = write[t].shared
  BY <1>1 DEF TypeOK, Row
<1>7. s # None /\ \A u \in Thread : read[u].secret # s
  BY <1>1, NoneAssumption DEF RowInv, Holds
<1>8. \A u \in Thread \ {t} : write[u].secret # s
  <2> SUFFICES ASSUME NEW u \in Thread \ {t}, write[u].secret = s PROVE FALSE
    OBVIOUS
  <2>1. Fresh(u)
    BY <1>7 DEF Fresh
  <2> QED
    BY <1>1, <2>1 DEF RowInv, Holds, ScopeOf
<1>9. \A b \in there : rows[b].secret # s
  BY <1>1, <1>7 DEF RowInv
<1>10. \A x \in Secret : scope[x] # "unused" => owner'[x] = owner[x] /\ scope'[x] = scope[x]
  BY <1>1, <1>5
<1>11. ASSUME NEW u \in Thread \ {t} PROVE Local(u)'
  BY <1>1, <1>2, <1>4, <1>10, OtherLocal DEF RowInv
<1>12. ASSUME NEW u \in Thread \ {t} PROVE Holds(u)'
  <2>1. Local(u) /\ Holds(u) /\ write[u].secret # s
    BY <1>8 DEF RowInv
  <2>2. Fresh(u) => write[u].secret # None /\ scope[write[u].secret] # "unused"
    BY <2>1 DEF Fresh, Holds, ScopeOf
  <2>3. Fresh(u) => scope'[write[u].secret] = scope[write[u].secret]
    BY <1>10, <2>2, Secrets
  <2>4. Fresh(u) => read'[t].secret # write[u].secret
    BY <1>2, <2>1 DEF Holds
  <2>5. Fresh(u) => (on[u] \in there => rows[on[u]].secret # write[u].secret)
    BY <2>1 DEF Holds
  <2>6. Inserting(u) => on[t] # on[u]
    BY <2>1 DEF Holds
  <2>7. kind[u] # "create" /\ u \notin stale => on[u] \in there
    BY <2>1 DEF Holds
  <2>8. write'[t].secret # write[u].secret
    BY <1>6, <2>1
  <2> QED
    BY <1>2, <1>4, <1>10, <2>1, <2>3, <2>4, <2>5, <2>6, <2>7, <2>8, OtherHolds
<1>13. Local(t)'
  <2>1. kind[t] \in {"create", "update"} /\ write[t].secret = None
    BY <1>2, <1>3 DEF Local, TypeOK
  <2>2. Drops(t) => t \in touched /\ scope[read[t].secret] = "deleted"
    BY <1>2, <1>3 DEF Local
  <2>3. read[t].secret # None => Drops(t) \/ kind[t] = "create"
    BY <2>1 DEF Drops
  <2>4. read[t].secret # None => kind[t] = "update" /\ scope[read[t].secret] = "deleted"
    BY <1>2, <1>3, <2>1, <2>2, <2>3 DEF Local, Inserting
  <2>5. read[t].secret # None => scope'[read[t].secret] = "deleted"
    BY <1>10, <2>4, Secrets
  <2> QED
    BY <1>2, <1>3, <1>4, <1>6, <1>7, <2>1, <2>5 DEF Local, Inserting, Fresh, Dirty, Drops
<1>14. Holds(t)'
  <2>1. read[t].secret # None =>
          owner'[read[t].secret] = on[t] /\ scope'[read[t].secret] # "unused"
    BY <1>3, <1>10, Secrets DEF Holds
  <2>2. \A u \in Thread \ {t} : read'[u].secret # s /\ write'[u].secret # s
    BY <1>4, <1>7, <1>8 DEF Same
  <2>3. \A u \in Thread : on'[u] = on[u]
    BY <1>2
  <2>4. on[t] \in there => rows[on[t]].secret # s
    BY <1>9
  <2> QED
    BY <1>2, <1>3, <1>4, <1>5, <1>6, <2>1, <2>2, <2>3, <2>4 DEF Holds, Inserting
<1>15. ASSUME NEW b \in there, rows[b].secret # None
       PROVE  owner'[rows[b].secret] = b /\ scope'[rows[b].secret] # "unused"
  <2>1. b \in Connector
    BY DEF TypeOK
  <2> QED
    BY <1>10, <1>15, <2>1, Secrets DEF RowInv
<1> QED
  BY <1>2, <1>11, <1>12, <1>13, <1>14, <1>15 DEF RowInv

\* A step that changes the scope of a secret that its thread has read, and no
\* other data, disturbs no other thread.
LEMMA RowSecretChanges ==
  ASSUME TypeOK, RowInv, NEW t \in Thread, NEW s \in Secret, NEW value,
         s = read[t].secret, kind[t] # "create", value # "unused",
         scope[s] = "deleted" => value = "deleted",
         scope' = [scope EXCEPT ![s] = value],
         \A u \in Thread \ {t} : Same(u),
         UNCHANGED <<born, there, rows, owner, kind, on, read, write, stale>>,
         Local(t)'
  PROVE  RowInv'
<1>1. scope'[s] = value /\ \A x \in Secret \ {s} : scope'[x] = scope[x]
  BY DEF TypeOK
<1>2. s # None /\ scope[s] # "unused" /\ owner[s] = on[t]
  BY NoneAssumption DEF RowInv, Holds
<1>3. \A x \in Secret : scope[x] # "unused" => scope'[x] # "unused"
  BY <1>1
<1>4. \A u \in Thread : Fresh(u) => scope'[write[u].secret] = scope[write[u].secret]
  <2> SUFFICES ASSUME NEW u \in Thread, Fresh(u)
               PROVE  scope'[write[u].secret] = scope[write[u].secret]
    OBVIOUS
  <2>1. write[u].secret \in Secret
    BY Secrets DEF Fresh
  <2>2. write[u].secret # s
    <3>1. CASE u = t
      BY <3>1 DEF Fresh
    <3>2. CASE u # t
      BY <3>2 DEF RowInv, Holds
    <3> QED
      BY <3>1, <3>2
  <2> QED
    BY <1>1, <2>1, <2>2
<1>5. ASSUME NEW u \in Thread \ {t} PROVE Local(u)'
  BY <1>1, OtherLocal DEF RowInv
<1>6. ASSUME NEW u \in Thread PROVE Holds(u)'
  <2>1. Holds(u)
    BY DEF RowInv
  <2>2. \A v \in Thread : /\ read'[v] = read[v] /\ write'[v] = write[v]
                          /\ on'[v] = on[v]
    OBVIOUS
  <2>4. kind[u] = "create" => pc'[u] = pc[u]
    BY DEF Same
  <2>5. Fresh(u)' <=> Fresh(u)
    BY <2>2 DEF Fresh
  <2>6. read[u].secret # None =>
          owner[read[u].secret] = on[u] /\ scope'[read[u].secret] # "unused"
    BY <1>3, <2>1, Secrets DEF Holds
  <2>7. Inserting(u)' => \A v \in Thread \ {u} : on[v] # on[u]
    BY <2>1, <2>2, <2>4 DEF Holds, Inserting
  <2> QED
    BY <1>4, <2>1, <2>2, <2>5, <2>6, <2>7 DEF Holds
<1>7. ASSUME NEW b \in there, rows[b].secret # None
      PROVE  owner'[rows[b].secret] = b /\ scope'[rows[b].secret] # "unused"
  <2>1. b \in Connector
    BY DEF TypeOK
  <2> QED
    BY <1>3, <1>7, <2>1, Secrets DEF RowInv
<1> QED
  BY <1>5, <1>6, <1>7 DEF RowInv

\* UpdateScope changes a secret that the thread keeps.
LEMMA RowUpdateScope ==
  ASSUME TypeOK, RowInv, NEW t \in Thread, UpdateScope(t)
  PROVE  RowInv'
<1>1. /\ pc[t] = "update scope" /\ Exists(read[t].secret)
      /\ scope' = [scope EXCEPT ![read[t].secret] = ScopeOf(write[t].shared)]
      /\ touched' = touched \cup {t} /\ pc' = [pc EXCEPT ![t] = "commit"]
      /\ UNCHANGED <<born, there, rows, owner, kind, on, read, write, stale>>
  BY DEF UpdateScope, Goto, db, request, history
<1>2. Local(t) /\ read[t].secret \in Secret
  BY <1>1, Secrets DEF RowInv, Local
<1>3. pc'[t] = "commit" /\ t \in touched' /\ \A u \in Thread \ {t} : Same(u)
  BY <1>1, OthersStay DEF TypeOK
<1>4. Local(t)'
  BY <1>1, <1>2, <1>3 DEF Local, Inserting, Fresh, Dirty, Drops
<1>5. /\ ScopeOf(write[t].shared) # "unused" /\ scope[read[t].secret] # "deleted"
      /\ kind[t] # "create"
  BY <1>1, <1>2 DEF ScopeOf, Exists, Local
<1> QED
  BY <1>1, <1>2, <1>3, <1>4, <1>5, RowSecretChanges

\* DeleteSecret deletes a secret that the thread takes out of the row.
LEMMA RowDeleteSecret ==
  ASSUME TypeOK, RowInv, NEW t \in Thread, DeleteSecret(t)
  PROVE  RowInv'
<1>1. /\ pc[t] \in {"replace secret", "drop secret"}
      /\ scope' = [scope EXCEPT ![read[t].secret] = "deleted"]
      /\ touched' = touched \cup {t}
      /\ pc' = [pc EXCEPT ![t] = IF pc[t] = "replace secret" THEN "create secret"
                                                             ELSE "commit"]
      /\ UNCHANGED <<born, there, rows, owner, kind, on, read, write, stale>>
  BY DEF DeleteSecret, Goto, db, request, history
<1>2. Local(t) /\ read[t].secret \in Secret /\ read[t].secret # None
  BY <1>1, Secrets DEF RowInv, Local
<1>3. /\ pc'[t] = IF pc[t] = "replace secret" THEN "create secret" ELSE "commit"
      /\ t \in touched' /\ \A u \in Thread \ {t} : Same(u)
      /\ scope'[read[t].secret] = "deleted"
  BY <1>1, <1>2, OthersStay DEF TypeOK
<1>4. kind[t] = "update" => write[t].secret = None
  BY <1>1, <1>2 DEF Local
<1>5. kind[t] \in {"update", "delete"}
  BY <1>1, <1>2 DEF Local, TypeOK
<1>6. Local(t)'
  <2>1. kind[t] = "delete" => write[t] = read[t] /\ pc[t] = "drop secret"
    BY <1>1, <1>2 DEF Local
  <2>2. pc[t] = "replace secret" => kind[t] = "update"
    BY <1>2 DEF Local
  <2>3. ~Fresh(t)' /\ ~Dirty(t)'
    BY <1>1, <1>2, <1>4, <1>5, <2>1 DEF Fresh, Dirty
  <2>4. on[t] \in born
    BY <1>1, <1>2 DEF Local
  <2>5. /\ kind'[t] = kind[t] /\ on'[t] = on[t] /\ read'[t] = read[t]
        /\ write'[t] = write[t] /\ born' = born /\ there' = there
    BY <1>1
  <2>6. CASE pc[t] = "replace secret"
    BY <1>2, <1>3, <1>4, <2>2, <2>3, <2>4, <2>5, <2>6 DEF Local, Inserting
  <2>7. CASE pc[t] = "drop secret"
    BY <1>2, <1>3, <1>4, <1>5, <2>1, <2>3, <2>4, <2>5, <2>7 DEF Local, Inserting
  <2> QED
    BY <1>1, <2>6, <2>7
<1> QED
  BY <1>1, <1>2, <1>3, <1>5, <1>6, RowSecretChanges

\* A request that begins has created nothing, and has read the row as it is.
LEMMA RowBegin ==
  ASSUME TypeOK, RowInv, NEW t \in Thread, NEW c \in Connector,
         NEW k \in {"create", "update", "delete"}, NEW where, NEW old \in Row,
         NEW new \in Row, Begin(t, k, c, old, new), where # "idle",
         Goto(t, where), born' = born \cup {c},
         new.secret \in {None, old.secret},
         k = "create" => c \notin born /\ old.secret = None,
         k # "create" => c \in there /\ rows[c] = old,
         Local(t)'
  PROVE  RowInv'
<1>1. /\ pc[t] = "idle" /\ pc' = [pc EXCEPT ![t] = where]
      /\ kind' = [kind EXCEPT ![t] = k] /\ on' = [on EXCEPT ![t] = c]
      /\ read' = [read EXCEPT ![t] = old] /\ write' = [write EXCEPT ![t] = new]
      /\ UNCHANGED <<there, rows, scope, owner, touched, stale>>
  BY DEF Begin, Goto
<1>2. /\ pc'[t] = where /\ kind'[t] = k /\ on'[t] = c /\ read'[t] = old /\ write'[t] = new
      /\ \A u \in Thread \ {t} : Same(u)
  BY <1>1 DEF TypeOK, Same
<1>3. old.secret # None => owner[old.secret] = c /\ scope[old.secret] # "unused"
  BY DEF RowInv
<1>4. ~Fresh(t)'
  BY <1>2 DEF Fresh
<1>5. \A u \in Thread \ {t} : Inserting(u) => on[u] # c
  <2>1. \A u \in Thread : Inserting(u) => on[u] \in born \ there
    BY DEF RowInv, Local, Inserting
  <2> QED
    BY <2>1
<1>6. k = "create" => \A u \in Thread \ {t} : on[u] # c
  <2>1. \A u \in Thread : on[u] = None \/ on[u] \in born
    BY DEF RowInv, Local
  <2> QED
    BY <2>1, NoneAssumption
<1>7. ASSUME NEW u \in Thread \ {t} PROVE Local(u)'
  BY <1>1, <1>2, OtherLocal DEF RowInv
<1>8. ASSUME NEW u \in Thread \ {t} PROVE Holds(u)'
  <2>1. Holds(u)
    BY DEF RowInv
  <2>2. Fresh(u) => old.secret # write[u].secret
    <3> SUFFICES ASSUME Fresh(u), old.secret = write[u].secret PROVE FALSE
      OBVIOUS
    <3>1. old.secret # None /\ owner[old.secret] = on[u]
      BY <2>1 DEF Fresh, Holds
    <3>2. on[u] = c /\ c \in there /\ rows[c] = old
      BY <1>3, <3>1
    <3> QED
      BY <2>1, <3>2 DEF Holds
  <2>3. Fresh(u) => new.secret # write[u].secret
    BY <2>2 DEF Fresh
  <2>4. Fresh(u) => (on[u] \in there => rows[on[u]].secret # write[u].secret)
    BY <2>1 DEF Holds
  <2>5. kind[u] # "create" /\ u \notin stale => on[u] \in there
    BY <2>1 DEF Holds
  <2>6. \A s \in Secret : scope[s] # "unused" => owner'[s] = owner[s] /\ scope'[s] # "unused"
    BY <1>1
  <2>7. Inserting(u) => on[u] # c
    BY <1>5
  <2> QED
    BY <1>1, <1>2, <2>1, <2>2, <2>3, <2>4, <2>5, <2>6, <2>7, OtherHolds
<1>9. Holds(t)'
  <2>1. k = "create" => \A u \in Thread \ {t} : on'[u] # c
    BY <1>2, <1>6 DEF Same
  <2>2. Inserting(t)' => \A u \in Thread \ {t} : on'[u] # on'[t]
    BY <1>2, <2>1 DEF Inserting
  <2>3. read'[t].secret # None =>
          owner'[read'[t].secret] = on'[t] /\ scope'[read'[t].secret] # "unused"
    BY <1>1, <1>2, <1>3
  <2>4. kind'[t] # "create" => on'[t] \in there' /\ rows'[on'[t]] = read'[t]
    BY <1>1, <1>2
  <2> QED
    BY <1>4, <2>2, <2>3, <2>4 DEF Holds
<1>10. there' \subseteq born'
  BY <1>1 DEF RowInv
<1>11. ASSUME NEW b \in there', rows'[b].secret # None
       PROVE  owner'[rows'[b].secret] = b /\ scope'[rows'[b].secret] # "unused"
  BY <1>1, <1>11 DEF RowInv
<1> QED
  BY <1>7, <1>8, <1>9, <1>10, <1>11 DEF RowInv

\* A request for a new connector.
LEMMA RowCreateServiceConnector ==
  ASSUME TypeOK, RowInv, NEW t \in Thread, NEW c \in Connector,
         NEW shared \in BOOLEAN, NEW secrets \in BOOLEAN,
         CreateServiceConnector(t, c, shared, secrets)
  PROVE  RowInv'
<1> DEFINE new == [secret |-> None, shared |-> shared]
           where == IF secrets THEN "create secret" ELSE "commit"
<1>1. /\ c \notin born /\ born' = born \cup {c}
      /\ Begin(t, "create", c, new, new) /\ Goto(t, where)
  BY DEF CreateServiceConnector
<1>2. new \in Row /\ new.secret = None /\ where \in {"create secret", "commit"}
  BY DEF Row
<1>3. /\ pc'[t] = where /\ kind'[t] = "create" /\ on'[t] = c
      /\ read'[t] = new /\ write'[t] = new /\ there' = there
  BY <1>1 DEF Begin, Goto, TypeOK
<1>4. c \notin there
  BY <1>1 DEF RowInv
<1> HIDE DEF new, where
<1>5. Local(t)'
  BY <1>1, <1>2, <1>3, <1>4 DEF Local, Inserting, Fresh, Dirty, Drops
<1> QED
  BY <1>1, <1>2, <1>5, RowBegin

\* A request to change a connector.
LEMMA RowUpdateServiceConnector ==
  ASSUME TypeOK, RowInv, NEW t \in Thread, NEW c \in Connector,
         NEW shared \in BOOLEAN, NEW secrets \in {"keep", "empty", "new"},
         UpdateServiceConnector(t, c, shared, secrets)
  PROVE  RowInv'
<1> DEFINE kept == IF secrets = "keep" THEN rows[c].secret ELSE None
           new == [secret |-> kept, shared |-> shared]
           where == SecretUpdate(rows[c], shared, secrets)
<1>1. /\ c \in there /\ Begin(t, "update", c, rows[c], new) /\ Goto(t, where)
      /\ born' = born
  BY DEF UpdateServiceConnector
<1>2. /\ rows[c] \in Row /\ new \in Row /\ new.secret = kept /\ new.shared = shared
      /\ kept \in {None, rows[c].secret}
  BY DEF TypeOK, Row
<1>3. /\ secrets = "keep" => kept = rows[c].secret
      /\ secrets # "keep" => kept = None
  OBVIOUS
<1>4. /\ where \in {"create secret", "replace secret", "drop secret", "update scope", "commit"}
      /\ where \in {"replace secret", "drop secret", "update scope"} => rows[c].secret # None
      /\ where \in {"create secret", "replace secret", "drop secret"} => secrets # "keep"
      /\ where = "update scope" => secrets = "keep" /\ shared # rows[c].shared
      /\ where = "create secret" => rows[c].secret = None
      /\ where = "commit" /\ rows[c].secret # None => secrets = "keep" /\ shared = rows[c].shared
  BY DEF SecretUpdate
<1>5. /\ pc'[t] = where /\ kind'[t] = "update" /\ on'[t] = c
      /\ read'[t] = rows[c] /\ write'[t] = new /\ there' = there
      /\ touched' = touched /\ stale' = stale /\ scope' = scope /\ pc[t] = "idle"
  BY <1>1 DEF Begin, Goto, TypeOK
<1>6. t \notin touched /\ c \in born
  BY <1>1, <1>5 DEF RowInv, Local
<1> HIDE DEF kept, new, where
<1>7. Local(t)'
  BY <1>1, <1>2, <1>3, <1>4, <1>5, <1>6 DEF Local, Inserting, Fresh, Dirty, Drops
<1>8. born' = born \cup {c}
  BY <1>1, <1>6
<1> QED
  BY <1>1, <1>2, <1>4, <1>7, <1>8, RowBegin

\* A request to delete a connector.
LEMMA RowDeleteServiceConnector ==
  ASSUME TypeOK, RowInv, NEW t \in Thread, NEW c \in Connector,
         DeleteServiceConnector(t, c)
  PROVE  RowInv'
<1> DEFINE where == IF rows[c].secret # None THEN "drop secret" ELSE "commit"
<1>1. /\ c \in there /\ Begin(t, "delete", c, rows[c], rows[c]) /\ Goto(t, where)
      /\ born' = born
  BY DEF DeleteServiceConnector
<1>2. rows[c] \in Row
  BY DEF TypeOK
<1>3. /\ where \in {"drop secret", "commit"}
      /\ where = "drop secret" <=> rows[c].secret # None
  OBVIOUS
<1>4. /\ pc'[t] = where /\ kind'[t] = "delete" /\ on'[t] = c
      /\ read'[t] = rows[c] /\ write'[t] = rows[c] /\ there' = there
  BY <1>1 DEF Begin, Goto, TypeOK
<1>5. c \in born
  BY <1>1 DEF RowInv
<1> HIDE DEF where
<1>6. Local(t)'
  BY <1>1, <1>3, <1>4, <1>5 DEF Local, Inserting, Fresh, Dirty, Drops
<1>7. born' = born \cup {c}
  BY <1>1, <1>5
<1> QED
  BY <1>1, <1>2, <1>3, <1>6, <1>7, RowBegin

\* At first there is nothing to hold.
LEMMA RowInit == Init => RowInv
BY NoneAssumption DEF Init, RowInv, Local, Holds, Inserting, Fresh, Dirty, Drops, NoRow

\* Every step keeps what the threads hold.
LEMMA RowStep == TypeOK /\ RowInv /\ [Next]_vars => RowInv'
<1> SUFFICES ASSUME TypeOK, RowInv, [Next]_vars PROVE RowInv'
  OBVIOUS
<1>1. CASE Next
  <2>1. PICK t \in Thread : Request(t) \/ SecretsStore(t) \/ Database(t) \/ Fail(t)
    BY <1>1 DEF Next
  <2>2. CASE Request(t)
    BY <2>2, RowCreateServiceConnector, RowUpdateServiceConnector,
       RowDeleteServiceConnector DEF Request
  <2>3. CASE SecretsStore(t)
    BY <2>3, RowCreateSecret, RowUpdateScope, RowUpdateScopeRaises,
       RowDeleteSecret DEF SecretsStore
  <2>4. CASE Database(t)
    BY <2>4, RowInsert, RowRefresh, RowInsertRaises, RowCleanUp, RowUpdate, RowUpdateRaises,
       RowDelete DEF Database
  <2>5. CASE Fail(t)
    BY <2>5, RowFail
  <2> QED
    BY <2>1, <2>2, <2>3, <2>4, <2>5
<1>2. CASE UNCHANGED vars
  <2>1. UNCHANGED <<born, there, rows, scope, owner, pc, kind, on, read, write, touched, stale>>
    BY <1>2 DEF vars
  <2>2. ASSUME NEW t \in Thread PROVE Local(t)'
    <3>1. Local(t)
      BY DEF RowInv
    <3> QED
      BY <2>1, <3>1 DEF Local, Inserting, Fresh, Dirty, Drops
  <2>3. ASSUME NEW t \in Thread PROVE Holds(t)'
    <3>1. Holds(t)
      BY DEF RowInv
    <3> QED
      BY <2>1, <3>1 DEF Holds, Inserting, Fresh, ScopeOf
  <2> QED
    BY <2>1, <2>2, <2>3 DEF RowInv
<1> QED
  BY <1>1, <1>2

\* Whether its row is in the table or not, the secret of a creation is its own.
LEMMA CleanUpOwn ==
  ASSUME TypeOK, RowInv, NEW t \in Thread, pc[t] = "clean up"
  PROVE  /\ kind[t] = "create" /\ write[t].secret \in Secret
         /\ owner[write[t].secret] = on[t]
<1>1. Local(t) /\ Holds(t)
  BY DEF RowInv
<1>2. kind[t] = "create" /\ write[t].secret # None
  BY <1>1 DEF Local
<1>3. write[t].secret \in Secret
  BY <1>2, Secrets
<1>4. owner[write[t].secret] = on[t]
  BY <1>1, <1>2 DEF Holds, Fresh
<1> QED
  BY <1>2, <1>3, <1>4

\* After its commit a creation holds what it wrote, and nothing that is its own.
LEMMA InsertStep ==
  ASSUME TypeOK, RowInv, NEW t \in Thread, Insert(t)
  PROVE  /\ \A u \in Thread \ {t} : Same(u) /\ on[u] # on[t]
         /\ pc[t] = "commit" /\ kind[t] = "create" /\ on[t] \in Connector \ there
         /\ there' = there \cup {on[t]} /\ rows' = [rows EXCEPT ![on[t]] = write[t]]
         /\ read[t].secret = None
         /\ UNCHANGED <<scope, owner, kind, on, write, stale, torn, lost>>
<1>1. /\ pc[t] = "commit" /\ kind[t] = "create"
      /\ there' = there \cup {on[t]} /\ rows' = [rows EXCEPT ![on[t]] = write[t]]
      /\ UNCHANGED <<scope, owner, kind, on, write, stale, torn, lost>>
  BY DEF Insert, history
<1>2. Inserting(t) /\ on[t] \in Connector
  BY <1>1 DEF Inserting, TypeOK
<1>3. on[t] \notin there /\ read[t].secret = None /\ \A u \in Thread \ {t} : on[u] # on[t]
  BY <1>2 DEF RowInv, Local, Holds
<1>4. \A u \in Thread \ {t} : Same(u)
  BY DEF Insert, Goto, Same, TypeOK
<1> QED
  BY <1>1, <1>2, <1>3, <1>4

-----------------------------------------------------------------------------
\* A witness of SecretPresent other than the thread that takes the step stays one.
LEMMA PresentFrame ==
  ASSUME TypeOK, SecretPresent, NEW t \in Thread, \A u \in Thread \ {t} : Same(u),
         NEW c \in there \ torn, NEW s \in Secret, s = rows[c].secret, ~Exists(s),
         on[t] = c => ~Replacing(t, s)
  PROVE  \E u \in Thread : on'[u] = c /\ Replacing(u, s)'
<1>1. s # None
  BY NoneAssumption
<1>2. PICK u \in Thread : on[u] = c /\ Replacing(u, s)
  BY <1>1 DEF SecretPresent
<1>3. u # t /\ Same(u)
  BY <1>2
<1>4. on'[u] = c /\ Replacing(u, s)'
  BY <1>2, <1>3 DEF Same, Replacing
<1> QED
  BY <1>4

\* The three ways for a request to end early: what it was replacing is torn.
LEMMA PresentRaise ==
  ASSUME TypeOK, SecretPresent, NEW t \in Thread, Raise(t), pc[t] # "idle",
         NEW c \in there' \ torn', NEW s \in Secret, s = rows'[c].secret, ~Exists(s)'
  PROVE  \E u \in Thread : on'[u] = c /\ Replacing(u, s)'
<1>1. AnswerAnd(t, {}) /\ UNCHANGED <<there, rows, scope>>
  BY DEF Raise, Answer
<1>2. \A u \in Thread \ {t} : Same(u)
  BY <1>1, AnswerAtRest
<1>3. torn' = IF t \in touched THEN torn \cup {on[t]} ELSE torn
  BY DEF Raise
<1>4. c \in there \ torn /\ s = rows[c].secret /\ ~Exists(s)
  BY <1>1, <1>3 DEF Exists
<1>5. on[t] = c => ~Replacing(t, s)
  BY <1>3 DEF Replacing
<1> QED
  BY <1>2, <1>4, <1>5, PresentFrame

\* A request that begins replaces nothing yet.
LEMMA PresentBegin ==
  ASSUME TypeOK, SecretPresent, NEW t \in Thread, NEW k, NEW b, NEW old, NEW new,
         NEW where, Begin(t, k, b, old, new), Goto(t, where),
         NEW c \in there' \ torn', NEW s \in Secret, s = rows'[c].secret, ~Exists(s)'
  PROVE  \E u \in Thread : on'[u] = c /\ Replacing(u, s)'
<1>1. pc[t] = "idle" /\ \A u \in Thread \ {t} : Same(u)
  BY DEF Begin, Goto, TypeOK, Same
<1>2. c \in there \ torn /\ s = rows[c].secret /\ ~Exists(s)
  BY DEF Begin, Exists
<1>3. ~Replacing(t, s)
  BY <1>1 DEF Replacing
<1> QED
  BY <1>1, <1>2, <1>3, PresentFrame

\* At first there are no rows.
LEMMA PresentInit == Init => SecretPresent
BY DEF Init, SecretPresent

\* A secret that is deleted is one that the request takes out of the row, and
\* a secret that a request writes to the row is one that nobody can delete.
LEMMA PresentStep ==
  TypeOK /\ TypeOK' /\ RowInv /\ SecretPresent /\ [Next]_vars => SecretPresent'
<1> SUFFICES ASSUME TypeOK, TypeOK', RowInv, SecretPresent, [Next]_vars
             PROVE  SecretPresent'
  OBVIOUS
<1> SUFFICES ASSUME NEW c \in there' \ torn', NEW s \in Secret,
                    rows'[c].secret = s, ~Exists(s)'
             PROVE  \E u \in Thread : on'[u] = c /\ Replacing(u, s)'
  BY DEF SecretPresent
<1>1. s = rows'[c].secret
  OBVIOUS
<1>2. ~Exists(s)' /\ s # None
  BY NoneAssumption
<1> DEFINE Goal == \E u \in Thread : on'[u] = c /\ Replacing(u, s)'
<1>4. ASSUME NEW t \in Thread, Request(t) PROVE Goal
  <2>1. PICK b, k, old, new, where : Begin(t, k, b, old, new) /\ Goto(t, where)
    BY <1>4 DEF Request, CreateServiceConnector, UpdateServiceConnector,
                DeleteServiceConnector
  <2> QED
    BY <1>1, <1>2, <2>1, PresentBegin
<1>5. ASSUME NEW t \in Thread, UpdateScopeRaises(t) \/ UpdateRaises(t) \/ Fail(t) PROVE Goal
  <2>1. Raise(t) /\ pc[t] # "idle"
    BY <1>5 DEF UpdateScopeRaises, UpdateRaises, Fail
  <2> QED
    BY <1>1, <1>2, <2>1, PresentRaise
<1>6. ASSUME NEW t \in Thread, CreateSecret(t) PROVE Goal
  <2>1. PICK x \in Secret :
          /\ scope[x] = "unused"
          /\ scope' = [scope EXCEPT ![x] = ScopeOf(write[t].shared)]
          /\ write' = [write EXCEPT ![t].secret = x]
    BY <1>6 DEF CreateSecret
  <2>2. /\ pc[t] = "create secret" /\ pc' = [pc EXCEPT ![t] = "commit"]
        /\ touched' = touched \cup {t}
        /\ UNCHANGED <<there, rows, kind, on, read, torn>>
    BY <1>6 DEF CreateSecret, Goto, db, request, history
  <2>3. \A u \in Thread \ {t} : Same(u)
    <3>1. \A u \in Thread \ {t} : pc'[u] = pc[u]
      BY <2>2 DEF TypeOK
    <3>4. \A u \in Thread \ {t} : write'[u] = write[u]
      BY <2>1 DEF TypeOK
    <3>2. \A u \in Thread \ {t} : (u \in touched' <=> u \in touched)
      BY <2>2
    <3> QED
      BY <2>2, <3>1, <3>2, <3>4 DEF Same
  <2>4. scope[s] # "unused" /\ s = rows[c].secret /\ c \in there \ torn
    BY <1>1, <1>2, <2>2 DEF RowInv
  <2>5. ~Exists(s) /\ s # x
    BY <1>2, <2>1, <2>4 DEF Exists, TypeOK
  <2>6. CASE on[t] = c /\ Replacing(t, s)
    <3>1. pc'[t] = "commit" /\ t \in touched'
      BY <2>2 DEF TypeOK
    <3>2. write[t] \in Row
      BY DEF TypeOK
    <3>3. write'[t].secret = x
      BY <2>1, <3>2 DEF TypeOK, Row
    <3> QED
      BY <2>2, <2>5, <2>6, <3>1, <3>3 DEF Replacing
  <2>7. CASE ~(on[t] = c /\ Replacing(t, s))
    BY <2>3, <2>4, <2>5, <2>7, PresentFrame
  <2> QED
    BY <2>6, <2>7
<1>7. ASSUME NEW t \in Thread, UpdateScope(t) PROVE Goal
  <2>1. /\ pc[t] = "update scope" /\ Exists(read[t].secret)
        /\ scope' = [scope EXCEPT ![read[t].secret] = ScopeOf(write[t].shared)]
        /\ touched' = touched \cup {t} /\ pc' = [pc EXCEPT ![t] = "commit"]
        /\ UNCHANGED <<there, rows, kind, on, read, write, torn>>
    BY <1>7 DEF UpdateScope, Goto, db, request, history
  <2>2. \A u \in Thread \ {t} : Same(u)
    BY <2>1, OthersStay
  <2>3. ~Exists(s)
    BY <1>2, <2>1 DEF Exists, TypeOK, ScopeOf
  <2>4. ~Replacing(t, s)
    BY <2>1 DEF Replacing
  <2> QED
    BY <1>1, <2>1, <2>2, <2>3, <2>4, PresentFrame
<1>8. ASSUME NEW t \in Thread, DeleteSecret(t) PROVE Goal
  <2>1. /\ pc[t] \in {"replace secret", "drop secret"}
        /\ scope' = [scope EXCEPT ![read[t].secret] = "deleted"]
        /\ touched' = touched \cup {t}
        /\ pc' = [pc EXCEPT ![t] = IF pc[t] = "replace secret" THEN "create secret"
                                                               ELSE "commit"]
        /\ UNCHANGED <<there, rows, owner, kind, on, read, write, torn>>
    BY <1>8 DEF DeleteSecret, Goto, db, request, history
  <2>2. \A u \in Thread \ {t} : Same(u)
    BY <2>1, OthersStay
  <2>3. Local(t) /\ Holds(t) /\ owner[s] = c
    BY <1>1, <1>2, <2>1 DEF RowInv
  <2>4. CASE s = read[t].secret
    <3>1. on[t] = c
      BY <1>2, <2>3, <2>4 DEF Holds
    <3>2. pc'[t] \in {"create secret", "commit"} /\ t \in touched'
      BY <2>1 DEF TypeOK
    <3>3. kind[t] \in {"update", "delete"} /\ (kind[t] = "update" => write[t].secret = None)
      BY <2>1, <2>3 DEF Local, TypeOK
    <3>4. Replacing(t, s)'
      BY <1>2, <2>1, <2>4, <3>2, <3>3 DEF Replacing
    <3> QED
      BY <2>1, <3>1, <3>4
  <2>5. CASE s # read[t].secret
    <3>1. ~Exists(s)
      BY <1>2, <2>1, <2>5 DEF Exists, TypeOK
    <3>2. ~Replacing(t, s)
      BY <2>1 DEF Replacing
    <3> QED
      BY <1>1, <2>1, <2>2, <3>1, <3>2, PresentFrame
  <2> QED
    BY <2>4, <2>5
<1>9. ASSUME NEW t \in Thread, Insert(t) PROVE Goal
  <2>1. UNCHANGED <<scope, torn>>
    BY <1>9, InsertStep
  <2>2. /\ pc[t] = "commit" /\ kind[t] = "create" /\ on[t] \in Connector
        /\ there' = there \cup {on[t]} /\ rows' = [rows EXCEPT ![on[t]] = write[t]]
        /\ read[t].secret = None
    BY <1>9, InsertStep
  <2>3. \A u \in Thread \ {t} : Same(u)
    BY <1>9, InsertStep
  <2>4. ~Replacing(t, s)
    BY <2>2 DEF Replacing
  <2>5. c # on[t]
    <3> SUFFICES ASSUME c = on[t] PROVE FALSE
      OBVIOUS
    <3>1. s = write[t].secret
      BY <1>1, <2>2 DEF TypeOK
    <3>2. Fresh(t)
      BY <1>2, <2>2, <3>1 DEF Fresh
    <3>3. scope[s] = ScopeOf(write[t].shared)
      BY <3>1, <3>2 DEF RowInv, Holds
    <3> QED
      BY <1>2, <2>1, <3>3 DEF Exists, ScopeOf
  <2>6. c \in there \ torn /\ s = rows[c].secret /\ ~Exists(s)
    BY <1>1, <1>2, <2>1, <2>2, <2>5 DEF TypeOK, Exists
  <2> QED
    BY <2>3, <2>4, <2>6, PresentFrame
<1>10. ASSUME NEW t \in Thread, InsertRaises(t) PROVE Goal
  <2>1. kind[t] = "create" /\ UNCHANGED <<there, rows, scope, torn>>
    BY <1>10 DEF InsertRaises, db
  <2>2. \A u \in Thread \ {t} : Same(u)
    <3>1. CASE write[t].secret = None
      <4>1. AnswerAnd(t, {})
        BY <1>10, <3>1 DEF InsertRaises, Answer
      <4> QED
        BY <4>1, AnswerAtRest
    <3>2. CASE write[t].secret # None
      <4>1. pc' = [pc EXCEPT ![t] = "clean up"]
        BY <1>10, <3>2 DEF InsertRaises, Goto
      <4>2. UNCHANGED <<kind, on, read, write, touched, stale>>
        BY <1>10, <3>2 DEF InsertRaises, request
      <4> QED
        BY <4>1, <4>2 DEF TypeOK, Same
    <3> QED
      BY <3>1, <3>2
  <2>3. ~Exists(s) /\ ~Replacing(t, s)
    BY <1>2, <2>1 DEF Exists, Replacing
  <2> QED
    BY <1>1, <2>1, <2>2, <2>3, PresentFrame
<1>11. ASSUME NEW t \in Thread, CleanUp(t) PROVE Goal
  <2>1. AnswerAnd(t, {}) /\ UNCHANGED <<there, rows>>
    BY <1>11 DEF CleanUp, Answer, db
  <2>2. /\ pc[t] = "clean up" /\ scope' = [scope EXCEPT ![write[t].secret] = "deleted"]
        /\ torn' = IF InUse(on[t], write[t].secret) THEN torn \cup {on[t]} ELSE torn
    BY <1>11 DEF CleanUp
  <2>3. \A u \in Thread \ {t} : Same(u)
    BY <2>1, AnswerAtRest
  <2>4. kind[t] = "create" /\ owner[write[t].secret] = on[t]
    BY <2>2, CleanUpOwn
  <2>5. c \in there \ torn /\ rows[c].secret = s
    BY <1>1, <2>1, <2>2
  <2>6. ~Exists(s)
    <3> SUFFICES ASSUME Exists(s) PROVE FALSE
      OBVIOUS
    <3>1. s = write[t].secret
      BY <1>2, <2>2 DEF Exists, TypeOK
    <3>2. c = on[t]
      BY <1>2, <2>4, <2>5, <3>1 DEF RowInv
    <3> QED
      BY <2>2, <2>5, <3>1, <3>2 DEF InUse
  <2>7. ~Replacing(t, s)
    BY <2>2 DEF Replacing
  <2> QED
    BY <2>1, <2>3, <2>5, <2>6, <2>7, PresentFrame
<1>17. ASSUME NEW t \in Thread, Refresh(t) PROVE Goal
  <2>1. AnswerAnd(t, {}) /\ UNCHANGED <<there, rows, scope, torn>> /\ pc[t] = "refresh"
    BY <1>17 DEF Refresh, Answer, db
  <2>2. \A u \in Thread \ {t} : Same(u)
    BY <2>1, AnswerAtRest
  <2>3. ~Exists(s) /\ ~Replacing(t, s)
    BY <1>2, <2>1 DEF Exists, Replacing
  <2> QED
    BY <1>1, <2>1, <2>2, <2>3, PresentFrame
<1>12. ASSUME NEW t \in Thread, Update(t) PROVE Goal
  <2>1. /\ AnswerAnd(t, IF write[t] = read[t] THEN {} ELSE Others(t))
        /\ UNCHANGED <<there, scope, torn>>
    BY <1>12 DEF Update
  <2>2. /\ on[t] \in Connector
        /\ rows' = [rows EXCEPT ![on[t]] = Merge(rows[on[t]], read[t], write[t])]
    BY <1>12 DEF Update, TypeOK
  <2>3. \A u \in Thread \ {t} : Same(u)
    <3> DEFINE outdated == IF write[t] = read[t] THEN {} ELSE Others(t)
    <3> HIDE DEF outdated
    <3>1. AnswerAnd(t, outdated)
      BY <2>1 DEF outdated
    <3> QED
      BY <3>1, AnswerAtRest
  <2>4. ~Exists(s)
    BY <1>2, <2>1 DEF Exists
  <2>5. CASE c = on[t]
    <3>1. s = IF write[t].secret = read[t].secret THEN rows[c].secret ELSE write[t].secret
      BY <1>1, <2>2, <2>5 DEF TypeOK, Merge
    <3>2. ~(Fresh(t) /\ s = write[t].secret)
      BY <2>4 DEF RowInv, Holds, Exists, ScopeOf
    <3>3. write[t].secret = read[t].secret /\ s = rows[c].secret
      BY <1>2, <3>1, <3>2 DEF Fresh
    <3>4. ~Replacing(t, s)
      BY <1>12, <3>3 DEF Update, Replacing
    <3> QED
      BY <2>1, <2>3, <2>4, <3>3, <3>4, PresentFrame
  <2>6. CASE c # on[t]
    <3>1. s = rows[c].secret
      BY <1>1, <2>2, <2>6 DEF TypeOK
    <3> QED
      BY <2>1, <2>3, <2>4, <2>6, <3>1, PresentFrame
  <2> QED
    BY <2>5, <2>6
<1>13. ASSUME NEW t \in Thread, Delete(t) PROVE Goal
  <2>1. AnswerAnd(t, Others(t)) /\ UNCHANGED <<scope, torn>>
    BY <1>13 DEF Delete
  <2>2. /\ there' = there \ {on[t]} /\ rows' = [rows EXCEPT ![on[t]] = NoRow]
    BY <1>13 DEF Delete
  <2>3. \A u \in Thread \ {t} : Same(u)
    BY <2>1, AnswerAtRest
  <2>4. c # on[t] /\ c \in there \ torn /\ s = rows[c].secret /\ ~Exists(s)
    BY <1>1, <1>2, <2>1, <2>2 DEF TypeOK, Exists
  <2> QED
    BY <2>3, <2>4, PresentFrame
<1>14. ASSUME UNCHANGED vars PROVE Goal
  <2>1. UNCHANGED <<there, rows, scope, torn, on, pc, kind, read, write, touched>>
    BY <1>14 DEF vars
  <2>2. ~Exists(s) /\ s = rows[c].secret /\ c \in there \ torn
    BY <1>1, <1>2, <2>1 DEF Exists
  <2>3. PICK u \in Thread : on[u] = c /\ Replacing(u, s)
    BY <1>2, <2>2 DEF SecretPresent
  <2>4. on'[u] = c
    BY <2>1, <2>3
  <2>5. Replacing(u, s)'
    BY <2>1, <2>3 DEF Replacing
  <2> QED
    BY <2>4, <2>5
<1> HIDE DEF Goal
<1>15. ASSUME Next PROVE Goal
  <2>1. PICK t \in Thread : Request(t) \/ SecretsStore(t) \/ Database(t) \/ Fail(t)
    BY <1>15 DEF Next
  <2>2. SecretsStore(t) => Goal
    BY <1>5, <1>6, <1>7, <1>8 DEF SecretsStore
  <2>3. Database(t) => Goal
    BY <1>5, <1>9, <1>10, <1>11, <1>12, <1>13, <1>17 DEF Database
  <2>4. Request(t) \/ Fail(t) => Goal
    BY <1>4, <1>5
  <2> QED
    BY <2>1, <2>2, <2>3, <2>4
<1>16. Goal
  BY <1>14, <1>15
<1> QED
  BY <1>16 DEF Goal

\* However requests interleave, the secret that a row names exists, unless a
\* request is replacing it, or one has failed half-way: an update or a deletion
\* whose secret had changed, or a creation that raised behind its commit
\* (create_service_connector, update_service_connector, delete_service_connector).
THEOREM RowsNameSecrets == Spec => []SecretPresent
BY TypeInit, TypeStep, RowInit, RowStep, PresentInit, PresentStep, PTL DEF Spec
-----------------------------------------------------------------------------
\* The secret s is in its connector's row, or a request will write it there.
Kept(s) ==
  \/ owner[s] \in there /\ rows[owner[s]].secret = s
  \/ \E u \in Thread : Fresh(u) /\ write[u].secret = s

\* What keeps a secret stays, unless it is the row or the thread that a step changes.
LEMMA OrphanFrame ==
  ASSUME TypeOK, OrphanInv, NEW t \in Thread, \A u \in Thread \ {t} : Same(u),
         NEW s \in Secret, Exists(s), owner[s] \notin torn \cup lost,
         owner[s] \in there /\ rows[owner[s]].secret = s => Kept(s)',
         Fresh(t) /\ write[t].secret = s => Kept(s)'
  PROVE  Kept(s)'
<1>1. Kept(s)
  BY DEF OrphanInv, Kept
<1>2. ASSUME NEW u \in Thread \ {t}, Fresh(u), write[u].secret = s PROVE Kept(s)'
  <2>1. read'[u] = read[u] /\ write'[u] = write[u]
    BY <1>2 DEF Same
  <2> QED
    BY <1>2, <2>1 DEF Fresh, Kept
<1> QED
  BY <1>1, <1>2 DEF Kept

\* A request that ends early with a secret of its own tears its connector.
LEMMA OrphanRaise ==
  ASSUME TypeOK, RowInv, OrphanInv, NEW t \in Thread, Raise(t), NEW s \in Secret,
         Exists(s)', owner'[s] \notin torn' \cup lost', lost' = lost, owner' = owner
  PROVE  Kept(s)'
<1>1. AnswerAnd(t, {}) /\ UNCHANGED <<there, rows, scope>>
  BY DEF Raise, Answer
<1>2. \A u \in Thread \ {t} : Same(u)
  BY <1>1, AnswerAtRest
<1>3. torn' = IF t \in touched THEN torn \cup {on[t]} ELSE torn
  BY DEF Raise
<1>4. Exists(s) /\ owner[s] \notin torn \cup lost
  BY <1>1, <1>3 DEF Exists
<1>5. ~(Fresh(t) /\ write[t].secret = s)
  BY <1>3 DEF RowInv, Local, Holds
<1>6. owner[s] \in there /\ rows[owner[s]].secret = s => Kept(s)'
  BY <1>1 DEF Kept
<1> QED
  BY <1>2, <1>4, <1>5, <1>6, OrphanFrame

\* A request that begins has no secret of its own.
LEMMA OrphanBegin ==
  ASSUME TypeOK, RowInv, OrphanInv, NEW t \in Thread, NEW k, NEW b, NEW old, NEW new,
         NEW where, Begin(t, k, b, old, new), Goto(t, where),
         NEW s \in Secret, Exists(s)', owner'[s] \notin torn' \cup lost'
  PROVE  Kept(s)'
<1>1. \A u \in Thread \ {t} : Same(u)
  BY DEF Begin, Goto, TypeOK, Same
<1>2. UNCHANGED <<there, rows, scope, owner, torn, lost>> /\ pc[t] = "idle"
  BY DEF Begin
<1>3. Exists(s) /\ owner[s] \notin torn \cup lost
  BY <1>2 DEF Exists
<1>4. ~Fresh(t)
  BY <1>2 DEF RowInv, Local, Fresh
<1>5. owner[s] \in there /\ rows[owner[s]].secret = s => Kept(s)'
  BY <1>2 DEF Kept
<1> QED
  BY <1>1, <1>3, <1>4, <1>5, OrphanFrame

\* At first there are no secrets.
LEMMA OrphanInit == Init => OrphanInv
BY DEF Init, OrphanInv, Exists

\* A secret that leaves a row has been deleted, and one that leaves a request has
\* been deleted or written to a row.
LEMMA OrphanStep ==
  TypeOK /\ TypeOK' /\ RowInv /\ OrphanInv /\ [Next]_vars => OrphanInv'
<1> SUFFICES ASSUME TypeOK, TypeOK', RowInv, OrphanInv, [Next]_vars
             PROVE  OrphanInv'
  OBVIOUS
<1> SUFFICES ASSUME NEW s \in Secret, Exists(s)', owner'[s] \notin torn' \cup lost'
             PROVE  Kept(s)'
  BY DEF OrphanInv, Kept
<1>1. s # None
  BY NoneAssumption
<1>2. ASSUME NEW t \in Thread, Request(t) PROVE Kept(s)'
  <2>1. PICK b, k, old, new, where : Begin(t, k, b, old, new) /\ Goto(t, where)
    BY <1>2 DEF Request, CreateServiceConnector, UpdateServiceConnector,
                DeleteServiceConnector
  <2> QED
    BY <2>1, OrphanBegin
<1>3. ASSUME NEW t \in Thread, UpdateScopeRaises(t) \/ UpdateRaises(t) \/ Fail(t)
      PROVE  Kept(s)'
  <2>1. Raise(t)
    BY <1>3 DEF UpdateScopeRaises, UpdateRaises, Fail
  <2>2. UNCHANGED <<owner, lost>>
    BY <2>1 DEF Raise
  <2> QED
    BY <2>1, <2>2, OrphanRaise
<1>4. ASSUME NEW t \in Thread, CreateSecret(t) PROVE Kept(s)'
  <2>1. PICK x \in Secret :
          /\ scope[x] = "unused"
          /\ scope' = [scope EXCEPT ![x] = ScopeOf(write[t].shared)]
          /\ owner' = [owner EXCEPT ![x] = on[t]]
          /\ write' = [write EXCEPT ![t].secret = x]
    BY <1>4 DEF CreateSecret
  <2>2. /\ pc[t] = "create secret" /\ pc' = [pc EXCEPT ![t] = "commit"]
        /\ touched' = touched \cup {t}
        /\ UNCHANGED <<there, rows, kind, on, read, torn, lost>>
    BY <1>4 DEF CreateSecret, Goto, db, request, history
  <2>3. Local(t) /\ Holds(t)
    BY DEF RowInv
  <2>4. write[t] \in Row /\ write[t].secret = None
    BY <2>2, <2>3 DEF Local, TypeOK
  <2>5. CASE s = x
    <3>3. write' = [write EXCEPT ![t] = [write[t] EXCEPT !.secret = s]]
      BY <2>1, <2>5
    <3>1. write'[t].secret = s
      BY <2>4, <3>3 DEF TypeOK, Row
    <3>2. read[t].secret # s
      BY <1>1, <2>1, <2>3, <2>5 DEF Holds
    <3> QED
      BY <1>1, <2>2, <3>1, <3>2 DEF Kept, Fresh
  <2>6. CASE s # x
    <3>1. scope'[s] = scope[s] /\ owner'[s] = owner[s]
      BY <2>1, <2>6 DEF TypeOK
    <3>2. Exists(s) /\ owner[s] \notin torn \cup lost
      BY <2>2, <3>1 DEF Exists
    <3>3. \A u \in Thread \ {t} : pc'[u] = pc[u]
      BY <2>2 DEF TypeOK
    <3>4. \A u \in Thread \ {t} : write'[u] = write[u]
      BY <2>1 DEF TypeOK
    <3>5. \A u \in Thread \ {t} : Same(u)
      BY <2>2, <3>3, <3>4 DEF Same
    <3>6. ~Fresh(t)
      BY <2>4 DEF Fresh
    <3>7. owner[s] \in there /\ rows[owner[s]].secret = s => Kept(s)'
      BY <2>2, <3>1 DEF Kept
    <3> QED
      BY <3>2, <3>5, <3>6, <3>7, OrphanFrame
  <2> QED
    BY <2>5, <2>6
<1>5. ASSUME NEW t \in Thread, UpdateScope(t) PROVE Kept(s)'
  <2>1. /\ pc[t] = "update scope" /\ Exists(read[t].secret)
        /\ scope' = [scope EXCEPT ![read[t].secret] = ScopeOf(write[t].shared)]
        /\ UNCHANGED <<there, rows, owner, kind, on, read, write, torn, lost>>
    BY <1>5 DEF UpdateScope, Goto, db, request, history
  <2>2. \A u \in Thread \ {t} : Same(u)
    <3>3. touched' = touched \cup {t} /\ pc' = [pc EXCEPT ![t] = "commit"]
      BY <1>5 DEF UpdateScope, Goto
    <3>1. \A u \in Thread \ {t} : pc'[u] = pc[u]
      BY <3>3 DEF TypeOK
    <3>2. \A u \in Thread \ {t} : (u \in touched' <=> u \in touched)
      BY <3>3
    <3> QED
      BY <2>1, <3>1, <3>2 DEF Same
  <2>3. Exists(s) /\ owner[s] \notin torn \cup lost
    <3>1. s # read[t].secret => scope'[s] = scope[s]
      BY <2>1 DEF TypeOK
    <3>2. UNCHANGED <<owner, torn, lost>>
      BY <2>1
    <3>3. Exists(s)
      BY <2>1, <3>1 DEF Exists
    <3> QED
      BY <3>2, <3>3
  <2>4. owner[s] \in there /\ rows[owner[s]].secret = s => Kept(s)'
    BY <2>1 DEF Kept
  <2>5. Fresh(t) /\ write[t].secret = s => Kept(s)'
    BY <2>1 DEF Kept, Fresh
  <2> QED
    BY <2>2, <2>3, <2>4, <2>5, OrphanFrame
<1>6. ASSUME NEW t \in Thread, DeleteSecret(t) PROVE Kept(s)'
  <2>1. /\ scope' = [scope EXCEPT ![read[t].secret] = "deleted"]
        /\ touched' = touched \cup {t}
        /\ pc' = [pc EXCEPT ![t] = IF pc[t] = "replace secret" THEN "create secret"
                                                               ELSE "commit"]
        /\ UNCHANGED <<there, rows, owner, kind, on, read, write, torn, lost>>
    BY <1>6 DEF DeleteSecret, Goto, db, request, history
  <2>2. \A u \in Thread \ {t} : Same(u)
    BY <2>1, OthersStay
  <2>3. Exists(s) /\ owner[s] \notin torn \cup lost
    BY <2>1 DEF Exists, TypeOK
  <2>4. owner[s] \in there /\ rows[owner[s]].secret = s => Kept(s)'
    BY <2>1 DEF Kept
  <2>5. Fresh(t) /\ write[t].secret = s => Kept(s)'
    BY <2>1 DEF Kept, Fresh
  <2> QED
    BY <2>2, <2>3, <2>4, <2>5, OrphanFrame
<1>7. ASSUME NEW t \in Thread, Insert(t) PROVE Kept(s)'
  <2>1. UNCHANGED <<scope, owner, torn, lost>>
    BY <1>7, InsertStep
  <2>2. /\ on[t] \in Connector
        /\ there' = there \cup {on[t]} /\ rows' = [rows EXCEPT ![on[t]] = write[t]]
    BY <1>7, InsertStep
  <2>3. \A u \in Thread \ {t} : Same(u)
    BY <1>7, InsertStep
  <2>4. Exists(s) /\ owner[s] \notin torn \cup lost
    BY <2>1 DEF Exists
  <2>5. on[t] \notin there
    BY <1>7, InsertStep
  <2>6. owner[s] \in there /\ rows[owner[s]].secret = s => Kept(s)'
    BY <2>1, <2>2, <2>5 DEF Kept, TypeOK
  <2>7. ASSUME Fresh(t), write[t].secret = s PROVE Kept(s)'
    <3>1. owner[s] = on[t]
      BY <2>7 DEF RowInv, Holds
    <3>2. rows'[on[t]].secret = s
      BY <2>2, <2>7 DEF TypeOK
    <3> QED
      BY <2>1, <2>2, <3>1, <3>2 DEF Kept
  <2> QED
    BY <2>3, <2>4, <2>6, <2>7, OrphanFrame
<1>8. ASSUME NEW t \in Thread, InsertRaises(t) PROVE Kept(s)'
  <2>1. UNCHANGED <<there, rows, scope, owner, torn, lost>>
    BY <1>8 DEF InsertRaises, db
  <2>2. Exists(s) /\ owner[s] \notin torn \cup lost
    BY <2>1 DEF Exists
  <2>3. owner[s] \in there /\ rows[owner[s]].secret = s => Kept(s)'
    BY <2>1 DEF Kept
  <2>4. CASE write[t].secret = None
    <3>1. AnswerAnd(t, {})
      BY <1>8, <2>4 DEF InsertRaises, Answer
    <3>2. \A u \in Thread \ {t} : Same(u)
      BY <3>1, AnswerAtRest
    <3> QED
      BY <1>1, <2>2, <2>3, <2>4, <3>2, OrphanFrame
  <2>5. CASE write[t].secret # None
    <3>1. pc' = [pc EXCEPT ![t] = "clean up"] /\ UNCHANGED <<kind, on, read, write, touched>>
      BY <1>8, <2>5 DEF InsertRaises, Goto, request
    <3>2. \A u \in Thread \ {t} : Same(u)
      BY <3>1, OthersStay
    <3>3. Fresh(t) /\ write[t].secret = s => Kept(s)'
      BY <3>1 DEF Kept, Fresh
    <3> QED
      BY <2>2, <2>3, <3>2, <3>3, OrphanFrame
  <2> QED
    BY <2>4, <2>5
<1>9. ASSUME NEW t \in Thread, CleanUp(t) PROVE Kept(s)'
  <2>1. AnswerAnd(t, {}) /\ UNCHANGED <<there, rows, owner, lost>> /\ torn \subseteq torn'
    BY <1>9 DEF CleanUp, Answer, db
  <2>2. scope' = [scope EXCEPT ![write[t].secret] = "deleted"]
    BY <1>9 DEF CleanUp
  <2>3. \A u \in Thread \ {t} : Same(u)
    BY <2>1, AnswerAtRest
  <2>4. Exists(s) /\ write[t].secret # s /\ owner[s] \notin torn \cup lost
    BY <2>1, <2>2 DEF Exists, TypeOK
  <2>5. owner[s] \in there /\ rows[owner[s]].secret = s => Kept(s)'
    BY <2>1 DEF Kept
  <2> QED
    BY <2>3, <2>4, <2>5, OrphanFrame
<1>10. ASSUME NEW t \in Thread, Update(t) PROVE Kept(s)'
  <2> DEFINE outdated == IF write[t] = read[t] THEN {} ELSE Others(t)
  <2>1. /\ AnswerAnd(t, outdated) /\ UNCHANGED <<there, scope, owner, torn>>
        /\ lost' = IF t \in stale /\ write[t] # read[t] THEN lost \cup {on[t]} ELSE lost
    BY <1>10 DEF Update
  <2> HIDE DEF outdated
  <2>2. /\ pc[t] = "commit" /\ kind[t] = "update" /\ on[t] \in there /\ on[t] \in Connector
        /\ rows' = [rows EXCEPT ![on[t]] = Merge(rows[on[t]], read[t], write[t])]
    BY <1>10 DEF Update, TypeOK
  <2>3. \A u \in Thread \ {t} : Same(u)
    BY <2>1, AnswerAtRest
  <2>4. Exists(s) /\ owner[s] \notin torn \cup lost
    BY <2>1 DEF Exists
  <2>5. Local(t) /\ Holds(t)
    BY DEF RowInv
  <2>6. rows'[on[t]].secret = IF write[t].secret = read[t].secret THEN rows[on[t]].secret
                                                                  ELSE write[t].secret
    BY <2>2 DEF TypeOK, Merge
  <2>7. ASSUME owner[s] \in there, rows[owner[s]].secret = s PROVE Kept(s)'
    <3>1. CASE owner[s] # on[t]
      BY <2>1, <2>2, <2>7, <3>1 DEF Kept, TypeOK
    <3>2. CASE owner[s] = on[t] /\ write[t].secret = read[t].secret
      BY <2>1, <2>6, <2>7, <3>2 DEF Kept
    <3>3. CASE owner[s] = on[t] /\ write[t].secret # read[t].secret
      <4>1. t \notin stale
        BY <2>1, <3>3
      <4>2. read[t].secret = s
        BY <2>2, <2>5, <2>7, <3>3, <4>1 DEF Holds
      <4>3. scope[s] = "deleted"
        BY <1>1, <2>2, <2>5, <3>3, <4>2 DEF Local, Drops
      <4> QED
        BY <2>4, <4>3 DEF Exists
    <3> QED
      BY <3>1, <3>2, <3>3
  <2>8. ASSUME Fresh(t), write[t].secret = s PROVE Kept(s)'
    <3>1. owner[s] = on[t] /\ write[t].secret # read[t].secret
      BY <2>5, <2>8 DEF Holds, Fresh
    <3> QED
      BY <2>1, <2>2, <2>6, <2>8, <3>1 DEF Kept
  <2> QED
    BY <2>3, <2>4, <2>7, <2>8, OrphanFrame
<1>11. ASSUME NEW t \in Thread, Delete(t) PROVE Kept(s)'
  <2>1. /\ AnswerAnd(t, Others(t)) /\ UNCHANGED <<scope, owner, torn>>
        /\ lost' = IF t \in stale THEN lost \cup {on[t]} ELSE lost
    BY <1>11 DEF Delete
  <2>2. /\ pc[t] = "commit" /\ kind[t] = "delete"
        /\ there' = there \ {on[t]} /\ rows' = [rows EXCEPT ![on[t]] = NoRow]
    BY <1>11 DEF Delete
  <2>3. \A u \in Thread \ {t} : Same(u)
    BY <2>1, AnswerAtRest
  <2>4. Exists(s) /\ owner[s] \notin torn \cup lost
    BY <2>1 DEF Exists
  <2>5. Local(t) /\ Holds(t)
    BY DEF RowInv
  <2>6. ASSUME owner[s] \in there, rows[owner[s]].secret = s PROVE Kept(s)'
    <3>1. CASE owner[s] # on[t]
      BY <2>1, <2>2, <2>6, <3>1 DEF Kept, TypeOK
    <3>2. CASE owner[s] = on[t]
      <4>1. t \notin stale
        BY <2>1, <3>2
      <4>2. read[t].secret = s
        BY <2>2, <2>5, <2>6, <3>2, <4>1 DEF Holds
      <4>3. scope[s] = "deleted"
        BY <1>1, <2>2, <2>5, <4>2 DEF Local, Drops
      <4> QED
        BY <2>4, <4>3 DEF Exists
    <3> QED
      BY <3>1, <3>2
  <2>7. ~Fresh(t)
    BY <2>2, <2>5 DEF Local, Fresh
  <2> QED
    BY <2>3, <2>4, <2>6, <2>7, OrphanFrame
<1>12. ASSUME UNCHANGED vars PROVE Kept(s)'
  <2>1. UNCHANGED <<there, rows, scope, owner, read, write, torn, lost>>
    BY <1>12 DEF vars
  <2>2. Exists(s) /\ owner[s] \notin torn \cup lost
    BY <2>1 DEF Exists
  <2>3. Kept(s)
    BY <2>2 DEF OrphanInv, Kept
  <2> QED
    BY <2>1, <2>3 DEF Kept, Fresh
<1>14. ASSUME NEW t \in Thread, Refresh(t) PROVE Kept(s)'
  <2>1. AnswerAnd(t, {}) /\ UNCHANGED <<there, rows, scope, owner, torn, lost>>
    BY <1>14 DEF Refresh, Answer, db
  <2>2. \A u \in Thread \ {t} : Same(u)
    BY <2>1, AnswerAtRest
  <2>3. Exists(s) /\ owner[s] \notin torn \cup lost
    BY <2>1 DEF Exists
  <2>4. owner[s] \in there /\ rows[owner[s]].secret = s => Kept(s)'
    BY <2>1 DEF Kept
  <2>5. ~Fresh(t)
    BY <1>14 DEF Refresh, RowInv, Local, Fresh
  <2> QED
    BY <2>2, <2>3, <2>4, <2>5, OrphanFrame
<1>13. ASSUME Next PROVE Kept(s)'
  <2>1. PICK t \in Thread : Request(t) \/ SecretsStore(t) \/ Database(t) \/ Fail(t)
    BY <1>13 DEF Next
  <2>2. SecretsStore(t) => Kept(s)'
    BY <1>3, <1>4, <1>5, <1>6 DEF SecretsStore
  <2>3. Database(t) => Kept(s)'
    BY <1>3, <1>7, <1>8, <1>9, <1>10, <1>11, <1>14 DEF Database
  <2>4. Request(t) \/ Fail(t) => Kept(s)'
    BY <1>2, <1>3
  <2> QED
    BY <2>1, <2>2, <2>3, <2>4
<1> QED
  BY <1>12, <1>13

\* A request that has a secret of its own is at work on the secret's connector.
LEMMA OrphanImplies == TypeOK /\ RowInv /\ OrphanInv => NoOrphan
<1> SUFFICES ASSUME TypeOK, RowInv, OrphanInv, NEW s \in Secret, Exists(s),
                    owner[s] \notin torn \cup lost
             PROVE  \/ owner[s] \in there /\ rows[owner[s]].secret = s
                    \/ \E t \in Thread : Working(t, owner[s]) /\ write[t].secret = s
  BY DEF NoOrphan
<1>1. ASSUME NEW t \in Thread, Fresh(t), write[t].secret = s PROVE Working(t, owner[s])
  <2>1. on[t] = owner[s]
    BY <1>1 DEF RowInv, Holds
  <2>2. pc[t] # "idle"
    BY <1>1 DEF RowInv, Local, Fresh
  <2> QED
    BY <2>1, <2>2 DEF Working
<1> QED
  BY <1>1 DEF OrphanInv

\* No secret is left behind by requests that end as they should, or whose commit
\* of a new connector fails (create_service_connector and its clean-up).
THEOREM NoSecretIsLeft == Spec => []NoOrphan
BY TypeInit, TypeStep, RowInit, RowStep, OrphanInit, OrphanStep, OrphanImplies, PTL
   DEF Spec

-----------------------------------------------------------------------------
\* A request about the connector c has changed the scope of its secret.
Changing(u, c) == on[u] = c /\ Dirty(u)

\* The scope of the secret s is what its connector c or the requests say.
Right(c, s) ==
  /\ \A u \in Thread : Changing(u, c) => scope[s] = ScopeOf(write[u].shared)
  /\ scope[s] = ScopeOf(rows[c].shared) \/ \E u \in Thread : Changing(u, c)

\* What the other threads are changing they have been changing before.
LEMMA OthersChanging ==
  ASSUME NEW t \in Thread, \A u \in Thread \ {t} : Same(u), NEW c
  PROVE  \A u \in Thread \ {t} :
           (Changing(u, c)' <=> Changing(u, c)) /\ write'[u] = write[u]
BY DEF Same, Changing, Dirty

\* A step of a thread that is changing no scope of this connector's secret.
LEMMA ScopeFrame ==
  ASSUME TypeOK, ScopeInv, NEW t \in Thread, \A u \in Thread \ {t} : Same(u),
         stale \subseteq stale' \cup {t},
         NEW c \in there \ (torn \cup lost), NEW s \in Secret,
         rows[c].secret = s, rows'[c] = rows[c], Exists(s), scope'[s] = scope[s],
         ~Changing(t, c), ~Changing(t, c)',
         \A u \in Thread : Changing(u, c)' => u \notin stale'
  PROVE  Right(c, s)'
<1>1. \A u \in Thread : /\ Changing(u, c)' <=> Changing(u, c)
                        /\ Changing(u, c) => write'[u] = write[u] /\ u # t
  BY OthersChanging
<1>2. \A u \in Thread : Changing(u, c) => u \notin stale
  BY <1>1
<1>3. Right(c, s)
  BY <1>2 DEF ScopeInv, Right, Changing
<1> QED
  BY <1>1, <1>3 DEF Right, ScopeOf

\* A request that has changed a scope and ends early tears its connector.
LEMMA ScopeRaise ==
  ASSUME TypeOK, ScopeInv, NEW t \in Thread, Raise(t), NEW s \in Secret,
         NEW c \in there' \ (torn' \cup lost'), rows'[c].secret = s, Exists(s)',
         \A u \in Thread : Changing(u, c)' => u \notin stale'
  PROVE  Right(c, s)'
<1>1. AnswerAnd(t, {}) /\ UNCHANGED <<there, rows, scope, lost>>
  BY DEF Raise, Answer
<1>2. (\A u \in Thread \ {t} : Same(u)) /\ AtRest(t) /\ stale' = stale \ {t}
  BY <1>1, AnswerAtRest
<1>3. torn' = IF t \in touched THEN torn \cup {on[t]} ELSE torn
  BY DEF Raise
<1>4. ~Changing(t, c) /\ ~Changing(t, c)'
  BY <1>2, <1>3 DEF Changing, Dirty, AtRest
<1>5. c \in there \ (torn \cup lost) /\ rows[c].secret = s /\ Exists(s)
  BY <1>1, <1>3 DEF Exists
<1>6. rows'[c] = rows[c] /\ scope'[s] = scope[s] /\ stale \subseteq stale' \cup {t}
  BY <1>1, <1>2
<1> QED
  BY <1>2, <1>4, <1>5, <1>6, ScopeFrame

\* A request that begins has changed nothing.
LEMMA ScopeBegin ==
  ASSUME TypeOK, RowInv, ScopeInv, NEW t \in Thread, NEW k, NEW b, NEW old, NEW new,
         NEW where, Begin(t, k, b, old, new), Goto(t, where), NEW s \in Secret,
         NEW c \in there' \ (torn' \cup lost'), rows'[c].secret = s, Exists(s)',
         \A u \in Thread : Changing(u, c)' => u \notin stale'
  PROVE  Right(c, s)'
<1>1. \A u \in Thread \ {t} : Same(u)
  BY DEF Begin, Goto, TypeOK, Same
<1>2. UNCHANGED <<there, rows, scope, touched, stale, torn, lost>> /\ pc[t] = "idle"
  BY DEF Begin
<1>3. t \notin touched
  BY <1>2 DEF RowInv, Local
<1>4. ~Changing(t, c) /\ ~Changing(t, c)'
  BY <1>2, <1>3 DEF Changing, Dirty
<1>5. c \in there \ (torn \cup lost) /\ rows[c].secret = s /\ Exists(s)
  BY <1>2 DEF Exists
<1>6. rows'[c] = rows[c] /\ scope'[s] = scope[s] /\ stale \subseteq stale' \cup {t}
  BY <1>2
<1> QED
  BY <1>1, <1>4, <1>5, <1>6, ScopeFrame

\* At first there are no connectors.
LEMMA ScopeInit == Init => ScopeInv
BY DEF Init, ScopeInv

\* Two requests that change the scope of a secret which none has overtaken have
\* read the same row, so they change it to the same scope.
LEMMA ScopeUpdateScope ==
  ASSUME TypeOK, RowInv, ScopeInv, NEW t \in Thread, UpdateScope(t), NEW s \in Secret,
         NEW c \in there' \ (torn' \cup lost'), rows'[c].secret = s, Exists(s)',
         \A u \in Thread : Changing(u, c)' => u \notin stale'
  PROVE  Right(c, s)'
<1>1. /\ pc[t] = "update scope" /\ Exists(read[t].secret)
      /\ scope' = [scope EXCEPT ![read[t].secret] = ScopeOf(write[t].shared)]
      /\ UNCHANGED <<there, rows, owner, kind, on, read, write, stale, torn, lost>>
  BY DEF UpdateScope, db, request, history
<1>2. touched' = touched \cup {t} /\ pc' = [pc EXCEPT ![t] = "commit"]
  BY DEF UpdateScope, Goto
<1>3. \A u \in Thread \ {t} : Same(u)
  <2>1. \A u \in Thread \ {t} : pc'[u] = pc[u]
    BY <1>2 DEF TypeOK
  <2>2. \A u \in Thread \ {t} : (u \in touched' <=> u \in touched)
    BY <1>2
  <2> QED
    BY <1>1, <2>1, <2>2 DEF Same
<1>4. Local(t) /\ Holds(t)
  BY DEF RowInv
<1>5. t \notin touched /\ kind[t] = "update" /\ write[t].secret = read[t].secret
      /\ write[t].shared # read[t].shared /\ read[t].secret # None
  BY <1>1, <1>4 DEF Local
<1>6. read[t].secret \in Secret
  BY <1>5, Secrets
<1>7. c \in there \ (torn \cup lost) /\ rows[c].secret = s /\ rows'[c] = rows[c]
  BY <1>1
<1>8. owner[s] = c /\ s # None
  BY <1>7, NoneAssumption DEF RowInv
<1>9. CASE on[t] # c
  <2>1. s # read[t].secret
    BY <1>4, <1>5, <1>8, <1>9 DEF Holds
  <2>2. scope'[s] = scope[s]
    BY <1>1, <2>1 DEF TypeOK
  <2>3. Exists(s)
    BY <2>2 DEF Exists
  <2>4. ~Changing(t, c) /\ ~Changing(t, c)'
    BY <1>1, <1>9 DEF Changing
  <2>5. stale \subseteq stale' \cup {t}
    BY <1>1
  <2> QED
    BY <1>3, <1>7, <2>2, <2>3, <2>4, <2>5, ScopeFrame
<1>10. CASE on[t] = c
  <2>1. Changing(t, c)'
    BY <1>1, <1>2, <1>5, <1>10 DEF Changing, Dirty
  <2>2. t \notin stale
    BY <1>1, <2>1
  <2>3. rows[c] = read[t]
    BY <1>4, <1>5, <1>10, <2>2 DEF Holds
  <2>4. scope'[s] = ScopeOf(write[t].shared)
    BY <1>1, <1>6, <1>7, <2>3 DEF TypeOK
  <2>5. ASSUME NEW u \in Thread, u # t, Changing(u, c)'
        PROVE  scope'[s] = ScopeOf(write'[u].shared)
    <3>1. on[u] = c /\ Dirty(u) /\ u \notin stale /\ write'[u] = write[u]
      <4>1. Changing(u, c) /\ write'[u] = write[u]
        BY <1>3, <2>5, OthersChanging
      <4> QED
        BY <1>1, <2>5, <4>1 DEF Changing
    <3>2. write[u].shared # read[u].shared /\ rows[c] = read[u]
      <4>1. Local(u) /\ Holds(u)
        BY DEF RowInv
      <4> QED
        BY <3>1, <4>1 DEF Local, Holds, Dirty
    <3>3. /\ write[u].shared \in BOOLEAN /\ write[t].shared \in BOOLEAN
          /\ read[t].shared \in BOOLEAN
      BY DEF TypeOK, Row
    <3>4. write[u].shared = write[t].shared
      BY <1>5, <2>3, <3>2, <3>3
    <3> QED
      BY <2>4, <3>1, <3>4
  <2>6. write'[t] = write[t]
    BY <1>1
  <2> QED
    BY <2>1, <2>4, <2>5, <2>6 DEF Right
<1> QED
  BY <1>9, <1>10

\* An update that is not too late writes the flag that it has given the secret,
\* and puts all others out of date.
LEMMA ScopeUpdate ==
  ASSUME TypeOK, RowInv, ScopeInv, NEW t \in Thread, Update(t), NEW s \in Secret,
         NEW c \in there' \ (torn' \cup lost'), rows'[c].secret = s, Exists(s)',
         \A u \in Thread : Changing(u, c)' => u \notin stale'
  PROVE  Right(c, s)'
<1> DEFINE outdated == IF write[t] = read[t] THEN {} ELSE Others(t)
<1>1. /\ AnswerAnd(t, outdated) /\ UNCHANGED <<there, scope, torn>>
      /\ lost' = IF t \in stale /\ write[t] # read[t] THEN lost \cup {on[t]} ELSE lost
  BY DEF Update
<1>2. write[t] # read[t] => outdated = Others(t)
  OBVIOUS
<1> HIDE DEF outdated
<1>3. /\ pc[t] = "commit" /\ kind[t] = "update" /\ on[t] \in there /\ on[t] \in Connector
      /\ rows' = [rows EXCEPT ![on[t]] = Merge(rows[on[t]], read[t], write[t])]
  BY DEF Update, TypeOK
<1>4. /\ \A u \in Thread \ {t} : Same(u)
      /\ AtRest(t) /\ stale' = (stale \cup outdated) \ {t}
  BY <1>1, AnswerAtRest
<1>5. Local(t) /\ Holds(t)
  BY DEF RowInv
<1>6. c \in there \ (torn \cup lost) /\ scope'[s] = scope[s] /\ Exists(s)
  BY <1>1 DEF Exists
<1>7. ~Changing(t, c)' /\ stale \subseteq stale' \cup {t}
  BY <1>4 DEF Changing, Dirty, AtRest
<1>8. CASE on[t] # c
  <2>1. ~Changing(t, c)
    BY <1>8 DEF Changing
  <2>2. c \in Connector /\ rows \in [Connector -> Row]
    BY <1>6 DEF TypeOK
  <2>3. rows'[c] = rows[c]
    BY <1>3, <1>8, <2>2
  <2> QED
    BY <1>4, <1>6, <1>7, <2>1, <2>3, ScopeFrame
<1>9. CASE on[t] = c /\ write[t] = read[t]
  <2>1. ~Changing(t, c)
    BY <1>5, <1>9 DEF Changing, Local
  <2>2. rows[c] \in Row
    BY <1>3, <1>9 DEF TypeOK
  <2>3. Merge(rows[c], read[t], write[t]) = rows[c]
    BY <1>9, <2>2 DEF Merge, Row
  <2>4. rows'[c] = rows[c]
    BY <1>3, <1>9, <2>3 DEF TypeOK
  <2> QED
    BY <1>4, <1>6, <1>7, <2>1, <2>4, ScopeFrame
<1>10. CASE on[t] = c /\ write[t] # read[t]
  <2>1. t \notin stale
    BY <1>1, <1>10
  <2>2. rows[c] = read[t]
    BY <1>3, <1>5, <1>10, <2>1 DEF Holds
  <2>3. rows'[c].secret = write[t].secret /\ rows'[c].shared = write[t].shared
    BY <1>3, <1>10, <2>2 DEF TypeOK, Merge
  <2>4. ASSUME NEW u \in Thread, u # t, Changing(u, c) PROVE FALSE
    <3>1. Changing(u, c)'
      BY <1>4, <2>4, OthersChanging
    <3>2. pc[u] # "idle" /\ on[u] = on[t]
      BY <1>10, <2>4 DEF RowInv, Local, Changing
    <3>3. u \in stale'
      BY <1>2, <1>4, <1>10, <2>4, <3>2 DEF Others
    <3> QED
      BY <3>1, <3>3
  <2>5. \A u \in Thread : ~Changing(u, c)'
    BY <1>4, <1>7, <2>4, OthersChanging
  <2>6. scope[s] = ScopeOf(write[t].shared)
    <3>1. CASE write[t].secret # read[t].secret
      <4>1. s = write[t].secret /\ s # None
        BY <2>3, NoneAssumption
      <4> QED
        BY <1>5, <3>1, <4>1 DEF Holds, Fresh
    <3>2. CASE write[t].secret = read[t].secret
      <4>1. read[t].secret = s /\ s # None
        BY <2>3, <3>2, NoneAssumption
      <4>2. write[t].shared # read[t].shared
        <5>1. write[t] \in Row /\ read[t] \in Row
          BY DEF TypeOK
        <5>2. /\ write[t] = [secret |-> write[t].secret, shared |-> write[t].shared]
              /\ read[t] = [secret |-> read[t].secret, shared |-> read[t].shared]
          BY <5>1 DEF Row
        <5> QED
          BY <1>10, <3>2, <5>2
      <4>3. Changing(t, c)
        BY <1>3, <1>5, <1>10, <3>2, <4>1, <4>2 DEF Local, Changing, Dirty
      <4>4. \A u \in Thread : Changing(u, c) => u \notin stale
        BY <2>1, <2>4
      <4>5. rows[c].secret = s
        BY <2>2, <4>1
      <4> QED
        BY <1>6, <4>3, <4>4, <4>5 DEF ScopeInv, Changing
    <3> QED
      BY <3>1, <3>2
  <2> QED
    BY <1>6, <2>3, <2>5, <2>6 DEF Right
<1> QED
  BY <1>8, <1>9, <1>10

\* The scope of a secret changes with its row.
LEMMA ScopeStep ==
  TypeOK /\ TypeOK' /\ RowInv /\ ScopeInv /\ [Next]_vars => ScopeInv'
<1> SUFFICES ASSUME TypeOK, TypeOK', RowInv, ScopeInv, [Next]_vars
             PROVE  ScopeInv'
  OBVIOUS
<1> SUFFICES ASSUME NEW c \in there' \ (torn' \cup lost'), NEW s \in Secret,
                    rows'[c].secret = s, Exists(s)',
                    \A u \in Thread : Changing(u, c)' => u \notin stale'
             PROVE  Right(c, s)'
  BY DEF ScopeInv, Right, Changing
<1>1. s # None /\ c # None
  BY NoneAssumption DEF TypeOK
<1>2. ASSUME NEW t \in Thread, Request(t) PROVE Right(c, s)'
  <2>1. PICK b, k, old, new, where : Begin(t, k, b, old, new) /\ Goto(t, where)
    BY <1>2 DEF Request, CreateServiceConnector, UpdateServiceConnector,
                DeleteServiceConnector
  <2> QED
    BY <2>1, ScopeBegin
<1>3. ASSUME NEW t \in Thread, UpdateScopeRaises(t) \/ UpdateRaises(t) \/ Fail(t)
      PROVE  Right(c, s)'
  <2>1. Raise(t)
    BY <1>3 DEF UpdateScopeRaises, UpdateRaises, Fail
  <2> QED
    BY <2>1, ScopeRaise
<1>4. ASSUME NEW t \in Thread, CreateSecret(t) PROVE Right(c, s)'
  <2>1. PICK x \in Secret :
          /\ scope[x] = "unused"
          /\ scope' = [scope EXCEPT ![x] = ScopeOf(write[t].shared)]
          /\ write' = [write EXCEPT ![t].secret = x]
    BY <1>4 DEF CreateSecret
  <2>2. UNCHANGED <<there, rows, kind, on, read, stale, torn, lost>>
    BY <1>4 DEF CreateSecret, db, request, history
  <2>3. pc[t] = "create secret" /\ pc' = [pc EXCEPT ![t] = "commit"]
        /\ touched' = touched \cup {t}
    BY <1>4 DEF CreateSecret, Goto
  <2>4. Local(t) /\ Holds(t)
    BY DEF RowInv
  <2>5. c \in there \ (torn \cup lost) /\ rows[c].secret = s /\ rows'[c] = rows[c]
    BY <2>2
  <2>6. scope[s] # "unused"
    BY <1>1, <2>5 DEF RowInv
  <2>7. scope'[s] = scope[s]
    BY <2>1, <2>6 DEF TypeOK
  <2>8. Exists(s)
    BY <2>7 DEF Exists
  <2>9. \A u \in Thread \ {t} : Same(u)
    <3>1. \A u \in Thread \ {t} : pc'[u] = pc[u]
      BY <2>3 DEF TypeOK
    <3>2. \A u \in Thread \ {t} : (u \in touched' <=> u \in touched)
      BY <2>3
    <3>3. \A u \in Thread \ {t} : write'[u] = write[u]
      BY <2>1 DEF TypeOK
    <3> QED
      BY <2>2, <3>1, <3>2, <3>3 DEF Same
  <2>10. ~Changing(t, c)
    BY <2>3, <2>4 DEF Changing, Local
  <2>11. ~Changing(t, c)'
    <3>1. write[t] \in Row
      BY DEF TypeOK
    <3>2. write' = [write EXCEPT ![t] = [write[t] EXCEPT !.secret = x]]
      BY <2>1
    <3>3. write'[t].secret = x
      BY <3>1, <3>2 DEF TypeOK, Row
    <3>4. read[t].secret # x
      BY <2>1, <2>4, NoneAssumption DEF Holds
    <3> QED
      BY <2>2, <3>3, <3>4 DEF Changing, Dirty
  <2>12. stale \subseteq stale' \cup {t}
    BY <2>2
  <2> QED
    BY <2>5, <2>7, <2>8, <2>9, <2>10, <2>11, <2>12, ScopeFrame
<1>5. ASSUME NEW t \in Thread, DeleteSecret(t) PROVE Right(c, s)'
  <2>1. /\ pc[t] \in {"replace secret", "drop secret"}
        /\ scope' = [scope EXCEPT ![read[t].secret] = "deleted"]
    BY <1>5 DEF DeleteSecret
  <2>2. UNCHANGED <<there, rows, kind, on, read, write, stale, torn, lost>>
    BY <1>5 DEF DeleteSecret, db, request, history
  <2>3. /\ touched' = touched \cup {t}
        /\ pc' = [pc EXCEPT ![t] = IF pc[t] = "replace secret" THEN "create secret"
                                                               ELSE "commit"]
    BY <1>5 DEF DeleteSecret, Goto
  <2>4. Local(t)
    BY DEF RowInv
  <2>5. c \in there \ (torn \cup lost) /\ rows[c].secret = s /\ rows'[c] = rows[c]
    BY <2>2
  <2>6. scope'[s] = scope[s]
    BY <2>1 DEF TypeOK, Exists
  <2>7. Exists(s)
    BY <2>6 DEF Exists
  <2>8. \A u \in Thread \ {t} : Same(u)
    <3>1. \A u \in Thread \ {t} : pc'[u] = pc[u]
      BY <2>3 DEF TypeOK
    <3>2. \A u \in Thread \ {t} : (u \in touched' <=> u \in touched)
      BY <2>3
    <3> QED
      BY <2>2, <3>1, <3>2 DEF Same
  <2>9. ~Changing(t, c)
    BY <2>1, <2>4 DEF Changing, Local
  <2>10. kind[t] = "update" => write[t].secret # read[t].secret
    BY <2>1, <2>4 DEF Local
  <2>11. ~Changing(t, c)'
    BY <2>2, <2>10 DEF Changing, Dirty
  <2>12. stale \subseteq stale' \cup {t}
    BY <2>2
  <2> QED
    BY <2>5, <2>6, <2>7, <2>8, <2>9, <2>11, <2>12, ScopeFrame
<1>6. ASSUME NEW t \in Thread, Insert(t) PROVE Right(c, s)'
  <2>1. UNCHANGED <<scope, torn, lost, kind, stale>>
    BY <1>6, InsertStep
  <2>2. /\ kind[t] = "create" /\ on[t] \in Connector /\ read[t].secret = None
        /\ there' = there \cup {on[t]} /\ rows' = [rows EXCEPT ![on[t]] = write[t]]
    BY <1>6, InsertStep
  <2>3. \A u \in Thread \ {t} : Same(u)
    BY <1>6, InsertStep
  <2>4. ~Changing(t, c) /\ ~Changing(t, c)' /\ stale \subseteq stale' \cup {t}
    BY <2>1, <2>2 DEF Changing, Dirty
  <2>5. scope'[s] = scope[s] /\ Exists(s)
    BY <2>1 DEF Exists
  <2>6. CASE c # on[t]
    <3>1. c \in there \ (torn \cup lost) /\ rows'[c] = rows[c] /\ rows[c].secret = s
      BY <2>1, <2>2, <2>6 DEF TypeOK
    <3> QED
      BY <2>3, <2>4, <2>5, <3>1, ScopeFrame
  <2>7. CASE c = on[t]
    <3>1. rows'[c] = write[t] /\ Local(t) /\ Holds(t)
      BY <2>2, <2>7 DEF TypeOK, RowInv
    <3>2. scope[s] = ScopeOf(write[t].shared)
      BY <1>1, <2>2, <3>1 DEF Holds, Fresh
    <3>3. \A u \in Thread \ {t} : on[u] # c
      BY <1>6, <2>7, InsertStep
    <3>4. \A u \in Thread : ~Changing(u, c)'
      BY <2>3, <2>4, <3>3, OthersChanging DEF Changing
    <3> QED
      BY <2>5, <3>1, <3>2, <3>4 DEF Right
  <2> QED
    BY <2>6, <2>7
<1>7. ASSUME NEW t \in Thread, InsertRaises(t) PROVE Right(c, s)'
  <2>1. UNCHANGED <<there, rows, scope, torn, lost>> /\ kind[t] = "create"
    BY <1>7 DEF InsertRaises, db
  <2>2. /\ c \in there \ (torn \cup lost) /\ rows[c].secret = s /\ rows'[c] = rows[c]
        /\ scope'[s] = scope[s] /\ Exists(s) /\ ~Changing(t, c)
    BY <2>1 DEF Exists, Changing, Dirty
  <2>3. CASE write[t].secret = None
    <3>1. AnswerAnd(t, {})
      BY <1>7, <2>3 DEF InsertRaises, Answer
    <3>2. /\ \A u \in Thread \ {t} : Same(u)
          /\ AtRest(t) /\ stale' = stale \ {t}
      BY <3>1, AnswerAtRest
    <3>3. ~Changing(t, c)' /\ stale \subseteq stale' \cup {t}
      BY <3>2 DEF Changing, Dirty, AtRest
    <3> QED
      BY <2>2, <3>2, <3>3, ScopeFrame
  <2>4. CASE write[t].secret # None
    <3>1. pc' = [pc EXCEPT ![t] = "clean up"]
          /\ UNCHANGED <<kind, on, read, write, touched, stale>>
      BY <1>7, <2>4 DEF InsertRaises, Goto, request
    <3>2. \A u \in Thread \ {t} : Same(u)
      BY <3>1, OthersStay
    <3>3. ~Changing(t, c)' /\ stale \subseteq stale' \cup {t}
      BY <2>1, <3>1 DEF Changing, Dirty
    <3> QED
      BY <2>2, <3>2, <3>3, ScopeFrame
  <2> QED
    BY <2>3, <2>4
<1>8. ASSUME NEW t \in Thread, CleanUp(t) PROVE Right(c, s)'
  <2>1. AnswerAnd(t, {}) /\ UNCHANGED <<there, rows, lost>> /\ torn \subseteq torn'
    BY <1>8 DEF CleanUp, Answer, db
  <2>2. pc[t] = "clean up" /\ scope' = [scope EXCEPT ![write[t].secret] = "deleted"]
    BY <1>8 DEF CleanUp
  <2>3. /\ \A u \in Thread \ {t} : Same(u)
        /\ AtRest(t) /\ stale' = stale \ {t}
    BY <2>1, AnswerAtRest
  <2>4. ~Changing(t, c)
    BY <2>2, CleanUpOwn DEF Changing, Dirty
  <2>5. ~Changing(t, c)' /\ stale \subseteq stale' \cup {t}
    BY <2>3 DEF Changing, Dirty, AtRest
  <2>6. scope'[s] = scope[s]
    BY <2>2 DEF TypeOK, Exists
  <2>7. c \in there \ (torn \cup lost) /\ rows[c].secret = s /\ rows'[c] = rows[c]
        /\ Exists(s)
    BY <2>1, <2>6 DEF Exists
  <2> QED
    BY <2>3, <2>4, <2>5, <2>6, <2>7, ScopeFrame
<1>9. ASSUME NEW t \in Thread, Delete(t) PROVE Right(c, s)'
  <2>1. /\ AnswerAnd(t, Others(t)) /\ UNCHANGED <<scope, torn>>
        /\ lost' = IF t \in stale THEN lost \cup {on[t]} ELSE lost
    BY <1>9 DEF Delete
  <2>2. /\ there' = there \ {on[t]} /\ rows' = [rows EXCEPT ![on[t]] = NoRow]
    BY <1>9 DEF Delete
  <2>3. /\ \A u \in Thread \ {t} : Same(u)
        /\ AtRest(t) /\ stale' = (stale \cup Others(t)) \ {t}
    BY <2>1, AnswerAtRest
  <2>4. on[t] # c /\ ~Changing(t, c)
    BY <2>2 DEF Changing
  <2>5. ~Changing(t, c)' /\ stale \subseteq stale' \cup {t}
    BY <2>3 DEF Changing, Dirty, AtRest
  <2>6. rows'[c] = rows[c]
    BY <2>2, <2>4 DEF TypeOK
  <2>7. c \in there \ (torn \cup lost) /\ rows[c].secret = s
        /\ scope'[s] = scope[s] /\ Exists(s)
    BY <2>1, <2>2, <2>6 DEF Exists
  <2> QED
    BY <2>3, <2>4, <2>5, <2>6, <2>7, ScopeFrame
<1>10. ASSUME UNCHANGED vars PROVE Right(c, s)'
  <2>1. UNCHANGED <<there, rows, scope, kind, on, pc, read, write, touched, stale, torn, lost>>
    BY <1>10 DEF vars
  <2>2. \A u \in Thread : Changing(u, c)' <=> Changing(u, c)
    BY <2>1 DEF Changing, Dirty
  <2>3. c \in there \ (torn \cup lost) /\ rows[c].secret = s /\ Exists(s)
    BY <2>1 DEF Exists
  <2>4. \A u \in Thread : Changing(u, c) => u \notin stale
    BY <2>1, <2>2
  <2>5. Right(c, s)
    BY <2>3, <2>4 DEF ScopeInv, Right, Changing
  <2> QED
    BY <2>1, <2>2, <2>5 DEF Right, ScopeOf
<1>12. ASSUME NEW t \in Thread, Refresh(t) PROVE Right(c, s)'
  <2>1. AnswerAnd(t, {}) /\ UNCHANGED <<there, rows, scope, torn, lost>>
    BY <1>12 DEF Refresh, Answer, db
  <2>2. /\ \A u \in Thread \ {t} : Same(u)
        /\ AtRest(t) /\ stale' = stale \ {t}
    BY <2>1, AnswerAtRest
  <2>3. ~Changing(t, c)
    BY <1>12 DEF Refresh, RowInv, Local, Changing, Dirty
  <2>4. ~Changing(t, c)' /\ stale \subseteq stale' \cup {t}
    BY <2>2 DEF Changing, Dirty, AtRest
  <2>5. /\ c \in there \ (torn \cup lost) /\ rows[c].secret = s /\ rows'[c] = rows[c]
        /\ scope'[s] = scope[s] /\ Exists(s)
    BY <2>1 DEF Exists
  <2> QED
    BY <2>2, <2>3, <2>4, <2>5, ScopeFrame
<1>11. ASSUME Next PROVE Right(c, s)'
  <2>1. PICK t \in Thread : Request(t) \/ SecretsStore(t) \/ Database(t) \/ Fail(t)
    BY <1>11 DEF Next
  <2>2. SecretsStore(t) => Right(c, s)'
    BY <1>3, <1>4, <1>5, ScopeUpdateScope DEF SecretsStore
  <2>3. Database(t) => Right(c, s)'
    BY <1>3, <1>6, <1>7, <1>8, <1>9, <1>12, ScopeUpdate DEF Database
  <2>4. Request(t) \/ Fail(t) => Right(c, s)'
    BY <1>2, <1>3
  <2> QED
    BY <2>1, <2>2, <2>3, <2>4
<1> QED
  BY <1>10, <1>11

\* A thread that is changing a scope is at work, so is one that replaces a secret.
LEMMA ScopeImplies ==
  TypeOK /\ RowInv /\ SecretPresent /\ ScopeInv => ScopeMatches
<1> SUFFICES ASSUME TypeOK, RowInv, SecretPresent, ScopeInv,
                    NEW c \in there \ (torn \cup lost), rows[c].secret # None,
                    \A t \in Thread : ~Working(t, c)
             PROVE  scope[rows[c].secret] = ScopeOf(rows[c].shared)
  BY DEF ScopeMatches
<1>1. PICK s \in Secret : rows[c].secret = s
  <2>1. c \in Connector
    BY DEF TypeOK
  <2> QED
    BY <2>1, Secrets
<1>2. \A t \in Thread : ~(on[t] = c /\ Dirty(t))
  BY DEF RowInv, Local, Working
<1>3. Exists(s)
  <2>1. \A t \in Thread : ~(on[t] = c /\ Replacing(t, s))
    BY DEF Replacing, Working
  <2> QED
    BY <1>1, <2>1 DEF SecretPresent
<1> QED
  BY <1>1, <1>2, <1>3 DEF ScopeInv

\* When no request is at work on a connector, its secret is visible to those to
\* whom it is itself, unless a request failed half-way or overwrote another's
\* (_update_connector_secret, update_service_connector).
THEOREM ScopesMatch == Spec => []ScopeMatches
BY TypeInit, TypeStep, RowInit, RowStep, PresentInit, PresentStep, ScopeInit,
   ScopeStep, ScopeImplies, PTL DEF Spec

=============================================================================
