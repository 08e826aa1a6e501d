------------------------- MODULE ExportServiceProofs -------------------------
(***************************************************************************)
(* Proofs about ExportService, for any exports, organisations, pages,      *)
(* window and number of failures: the types, that an export's row is       *)
(* always of one outcome, and that the service keeps ExportPromise.        *)
(***************************************************************************)
EXTENDS ExportService, FiniteSetTheorems, TLAPS

\* Where a live task is, its row's status is known; so only the task settles the row.
TaskFollowsRow ==
  \A e \in Exports :
    /\ task[e] = "none" <=> status[e] = "none"
    /\ task[e] \in {"answering", "queued"} => status[e] = "pending"
    /\ task[e] \in {"reading", "holding"} => status[e] = "processing"

\* Pages show and link to rows that are there.
PagesFollowRows ==
  /\ \A e \in Exports : detail[e] # "closed" => status[e] # "none"
  /\ \A v \in Viewers, e \in Exports : shown[v][e] # "absent" => status[e] # "none"

IInv == /\ TypeOK
        /\ OutcomeConsistent /\ TaskFollowsRow /\ NoExportForgotten
        /\ PagesFollowRows

\* Some lists of the exports there are have a length.
LEMMA CountIsInt == Cardinality({f \in Exports : status[f] # "none"}) \in Int
<1>1. IsFiniteSet({f \in Exports : status[f] # "none"})
  BY FS_Subset, ExportAssumption
<1> QED
  BY <1>1, FS_CardinalityType

LEMMA InitInv == Init => IInv
  BY ExportAssumption
  DEF Init, IInv, TypeOK, OutcomeConsistent, TaskFollowsRow, PagesFollowRows,
      NoExportForgotten, Statuses, PayloadData

\* Types.
LEMMA TypeStep == IInv /\ [Next]_vars => TypeOK'
<1> SUFFICES ASSUME TypeOK, PagesFollowRows, [Next]_vars PROVE TypeOK'
  BY DEF IInv
<1> USE DEF TypeOK, Statuses, PayloadData, LocalData, rowVars, taskVars, pageVars
<1>1. ASSUME NEW e \in Exports, Create(e) PROVE TypeOK'
  BY <1>1, CountIsInt DEF Create
<1>2. ASSUME NEW e \in Exports, Work(e) PROVE TypeOK'
  <2>1. CASE Answer(e)
    BY <2>1 DEF Answer
  <2>2. CASE Start(e)
    BY <2>2 DEF Start
  <2>3. CASE ReadLocal(e)
    BY <2>3 DEF ReadLocal
  <2>4. CASE RejectRrns(e)
    BY <2>4 DEF RejectRrns, EndTask
  <2>5. CASE Refuse(e)
    BY <2>5 DEF Refuse, EndTask
  <2>6. CASE Complete(e)
    BY <2>6 DEF Complete, EndTask
  <2>7. CASE StoreFails(e)
    BY <2>7 DEF StoreFails, EndTask
  <2> QED
    BY <1>2, <2>1, <2>2, <2>3, <2>4, <2>5, <2>6, <2>7 DEF Work
<1>3. ASSUME NEW e \in Exports, DatabaseFails(e) PROVE TypeOK'
  BY <1>3, ExportAssumption DEF DatabaseFails
<1>4. CASE Restart
  BY <1>4, ExportAssumption DEF Restart
<1>5. ASSUME NEW v \in Viewers, OpenList(v) PROVE TypeOK'
  BY <1>5 DEF OpenList
<1>6. ASSUME NEW v \in Viewers, ReadList(v) PROVE TypeOK'
  <2>1. [e \in Exports |-> IF e \in Newest(v) THEN status[e] ELSE "absent"]
          \in [Exports -> Statuses \cup {"absent"}]
    BY DEF Newest, Visible
  <2>2. shown' \in [Viewers -> [Exports -> Statuses \cup {"absent"}]]
    BY <1>6, <2>1 DEF ReadList
  <2>3. list' \in [Viewers -> {"closed", "loading", "error", "data"}]
    BY <1>6 DEF ReadList
  <2> QED
    BY <1>6, <2>2, <2>3 DEF ReadList
<1>7. ASSUME NEW e \in Exports, OpenDetail(e) PROVE TypeOK'
  BY <1>7 DEF OpenDetail
<1>8. ASSUME NEW e \in Exports, ReadDetail(e) PROVE TypeOK'
  <2>1. ReadDetail(e) => detail' \in [Exports -> Statuses \cup {"closed", "loading", "error"}]
    <3>1. CASE Readable(e)
      BY <3>1 DEF ReadDetail, PagesFollowRows
    <3>2. CASE ~Readable(e) /\ detail[e] \in Statuses
      BY <3>2 DEF ReadDetail
    <3>3. CASE ~Readable(e) /\ detail[e] \notin Statuses
      BY <3>3 DEF ReadDetail
    <3> QED
      BY <3>1, <3>2, <3>3
  <2> QED
    BY <1>8, <2>1 DEF ReadDetail
<1>9. CASE UNCHANGED vars
  BY <1>9 DEF vars
<1> QED
  BY <1>1, <1>2, <1>3, <1>4, <1>5, <1>6, <1>7, <1>8, <1>9 DEF Next

\* The rows and their tasks.
RowsInv == OutcomeConsistent /\ TaskFollowsRow /\ NoExportForgotten
LEMMA RowStep ==
  ASSUME IInv, [Next]_vars
  PROVE  RowsInv'
<1> USE DEF RowsInv, IInv, TypeOK, OutcomeConsistent, TaskFollowsRow, NoExportForgotten,
           Settled, rowVars, taskVars
<1>1. ASSUME NEW e \in Exports, Create(e) PROVE RowsInv'
  BY <1>1 DEF Create
<1>2. ASSUME NEW e \in Exports, Work(e) PROVE RowsInv'
  <2>1. CASE Answer(e)
    BY <2>1 DEF Answer
  <2>2. CASE Start(e)
    BY <2>2 DEF Start
  <2>3. CASE ReadLocal(e)
    BY <2>3 DEF ReadLocal
  <2>4. CASE RejectRrns(e)
    BY <2>4 DEF RejectRrns, EndTask
  <2>5. CASE Refuse(e)
    BY <2>5 DEF Refuse, EndTask
  <2>6. CASE Complete(e)
    BY <2>6 DEF Complete, EndTask
  <2>7. CASE StoreFails(e)
    BY <2>7 DEF StoreFails, EndTask
  <2> QED
    BY <1>2, <2>1, <2>2, <2>3, <2>4, <2>5, <2>6, <2>7 DEF Work
<1>3. ASSUME NEW e \in Exports, DatabaseFails(e) PROVE RowsInv'
  BY <1>3 DEF DatabaseFails
<1>4. CASE Restart
  BY <1>4 DEF Restart
<1>5. ASSUME NEW v \in Viewers, OpenList(v) \/ ReadList(v)
      PROVE RowsInv'
  BY <1>5 DEF OpenList, ReadList
<1>6. ASSUME NEW e \in Exports, OpenDetail(e) \/ ReadDetail(e)
      PROVE RowsInv'
  BY <1>6 DEF OpenDetail, ReadDetail
<1>7. CASE UNCHANGED vars
  BY <1>7 DEF vars
<1> QED
  BY <1>1, <1>2, <1>3, <1>4, <1>5, <1>6, <1>7 DEF Next

\* No row goes away, and a page reads what is there.
LEMMA PageStep ==
  ASSUME IInv, [Next]_vars
  PROVE  PagesFollowRows'
<1> USE DEF IInv, TypeOK, PagesFollowRows, rowVars, taskVars, pageVars
<1>1. ASSUME NEW e \in Exports, Create(e) \/ Work(e) PROVE PagesFollowRows'
  <2>1. UNCHANGED <<detail, shown>>
    BY <1>1 DEF Create, Work, Answer, Start, ReadLocal, RejectRrns, Refuse, Complete,
                StoreFails, EndTask
  <2>2. \A f \in Exports : status[f] # "none" => status'[f] # "none"
    BY <1>1 DEF Create, Work, Answer, Start, ReadLocal, RejectRrns, Refuse, Complete,
                StoreFails, EndTask
  <2> QED
    BY <2>1, <2>2
<1>2. ASSUME NEW e \in Exports, DatabaseFails(e) PROVE PagesFollowRows'
  BY <1>2 DEF DatabaseFails
<1>3. CASE Restart
  BY <1>3 DEF Restart
<1>4. ASSUME NEW v \in Viewers, OpenList(v) PROVE PagesFollowRows'
  BY <1>4 DEF OpenList
<1>5. ASSUME NEW v \in Viewers, ReadList(v) PROVE PagesFollowRows'
  <2>1. \A e \in Newest(v) : status[e] # "none"
    BY DEF Newest, Visible
  <2> QED
    BY <1>5, <2>1 DEF ReadList
<1>6. ASSUME NEW e \in Exports, OpenDetail(e) PROVE PagesFollowRows'
  BY <1>6 DEF OpenDetail
<1>7. ASSUME NEW e \in Exports, ReadDetail(e) PROVE PagesFollowRows'
  BY <1>7 DEF ReadDetail
<1>8. CASE UNCHANGED vars
  BY <1>8 DEF vars
<1> QED
  BY <1>1, <1>2, <1>3, <1>4, <1>5, <1>6, <1>7, <1>8 DEF Next

\* The inductive invariant: types, one outcome per row, and the row's status as far as its
\* live task has come (process_export, process_export_from_local).
THEOREM ServiceInvariant == Spec => []IInv
<1>1. IInv /\ [Next]_vars => IInv'
  BY TypeStep, RowStep, PageStep DEF IInv, RowsInv
<1> QED
  BY InitInv, <1>1, PTL DEF Spec

\* Every variable keeps its type, for any constants.
THEOREM ServiceTypeCorrect == Spec => []TypeOK
  BY ServiceInvariant, PTL DEF IInv

\* XML, participations and counts are there exactly when the row is completed, for any
\* number of exports and of failures (the single commit at the end of the task).
THEOREM OutcomesConsistent == Spec => []OutcomeConsistent
  BY ServiceInvariant, PTL DEF IInv

\* A task that ended without settling its row was lost or refused by the database, for any
\* constants: no path of the code forgets a row.
THEOREM NoneForgotten == Spec => []NoExportForgotten
  BY ServiceInvariant, PTL DEF IInv

-----------------------------------------------------------------------------
(* The refinement.                                                         *)

LEMMA PromiseInit == Init => Promise!Init
<1> SUFFICES ASSUME Init PROVE Promise!Init
  OBVIOUS
<1>1. \A e \in Exports : StatusAnswer(e) = "unknown" /\ ~XmlAnswered(e) /\ ~parts[e]
  BY DEF Init, StatusAnswer, Readable, XmlAnswered
<1> QED
  BY <1>1 DEF Promise!Init

\* A step that leaves the rows alone is invisible.
LEMMA PromiseStutter ==
  ASSUME UNCHANGED <<status, summary, xml, parts>>
  PROVE  UNCHANGED Promise!vars
  BY DEF Promise!vars, StatusAnswer, XmlAnswered, Readable

LEMMA PromiseStep == IInv /\ IInv' /\ [Next]_vars => [Promise!Next]_Promise!vars
<1> SUFFICES ASSUME IInv, IInv', [Next]_vars PROVE [Promise!Next]_Promise!vars
  OBVIOUS
<1> USE DEF IInv
<1>1. ASSUME NEW e \in Exports, Create(e) PROVE Promise!Next
  <2>1. \A f \in Exports : StatusAnswer(f)' = IF f = e THEN "working" ELSE StatusAnswer(f)
    BY <1>1 DEF Create, TypeOK, OutcomeConsistent, TaskFollowsRow, StatusAnswer, XmlAnswered, Readable
  <2>2. /\ StatusAnswer(e) = "unknown"
        /\ \A f \in Exports : XmlAnswered(f)' = XmlAnswered(f) /\ parts'[f] = parts[f]
    BY <1>1 DEF Create, TypeOK, OutcomeConsistent, TaskFollowsRow, StatusAnswer, XmlAnswered, Readable
  <2>3. Promise!Accept(e)
    BY <2>1, <2>2 DEF Promise!Accept
  <2> QED
    BY <2>3 DEF Promise!Next
<1>2. ASSUME NEW e \in Exports, Work(e) PROVE [Promise!Next]_Promise!vars
  <2>1. CASE Answer(e) \/ ReadLocal(e)
    BY <2>1, PromiseStutter DEF Answer, ReadLocal, rowVars
  <2>2. CASE Start(e)
    <3>1. \A f \in Exports : /\ StatusAnswer(f)' = StatusAnswer(f)
                            /\ XmlAnswered(f)' = XmlAnswered(f)
                            /\ parts'[f] = parts[f]
      BY <2>2 DEF Start, TypeOK, OutcomeConsistent, TaskFollowsRow, StatusAnswer, XmlAnswered, Readable
    <3> QED
      BY <3>1 DEF Promise!vars
  <2>3. CASE RejectRrns(e) \/ Refuse(e)
    <3> DEFINE verdict == IF RejectRrns(e) THEN "broken" ELSE "refused"
    <3>1. \A f \in Exports : StatusAnswer(f)' = IF f = e THEN verdict ELSE StatusAnswer(f)
      BY <2>3 DEF RejectRrns, Refuse, EndTask,
                  TypeOK, OutcomeConsistent, TaskFollowsRow, StatusAnswer, XmlAnswered, Readable
    <3>2. /\ StatusAnswer(e) = "working"
          /\ \A f \in Exports : XmlAnswered(f)' = XmlAnswered(f) /\ parts'[f] = parts[f]
      BY <2>3 DEF RejectRrns, Refuse, EndTask,
                  TypeOK, OutcomeConsistent, TaskFollowsRow, StatusAnswer, XmlAnswered, Readable
    <3>3. verdict \in {"refused", "broken"}
      OBVIOUS
    <3> HIDE DEF verdict
    <3>4. Promise!Refuse(e)
      BY <3>1, <3>2, <3>3 DEF Promise!Refuse
    <3> QED
      BY <3>4 DEF Promise!Next
  <2>4. CASE Complete(e)
    <3>1. \A f \in Exports : StatusAnswer(f)' = IF f = e THEN "ready" ELSE StatusAnswer(f)
      BY <2>4 DEF Complete, EndTask,
                  TypeOK, OutcomeConsistent, TaskFollowsRow, StatusAnswer, XmlAnswered, Readable
    <3>2. StatusAnswer(e) = "working"
      BY <2>4 DEF Complete, EndTask,
                  TypeOK, OutcomeConsistent, TaskFollowsRow, StatusAnswer, XmlAnswered, Readable
    <3>3. {f \in Exports : XmlAnswered(f)}' = {f \in Exports : XmlAnswered(f)} \cup {e}
      <4>1. \A f \in Exports : f # e => xml'[f] = xml[f] /\ status'[f] = status[f]
        BY <2>4 DEF Complete, TypeOK
      <4>2. xml'[e] /\ status'[e] = "completed"
        BY <2>4 DEF Complete, TypeOK
      <4> QED
        BY <4>1, <4>2 DEF XmlAnswered
    <3>4. {f \in Exports : parts[f]}' = {f \in Exports : parts[f]} \cup {e}
      <4>1. \A f \in Exports : f # e => parts'[f] = parts[f]
        BY <2>4 DEF Complete, TypeOK
      <4>2. parts'[e]
        BY <2>4 DEF Complete, TypeOK
      <4> QED
        BY <4>1, <4>2
    <3>5. Promise!Deliver(e)
      BY <3>1, <3>2, <3>3, <3>4 DEF Promise!Deliver
    <3> QED
      BY <3>5 DEF Promise!Next
  <2>5. CASE StoreFails(e)
    BY <2>5, PromiseStutter DEF StoreFails
  <2> QED
    BY <1>2, <2>1, <2>2, <2>3, <2>4, <2>5 DEF Work
<1>3. ASSUME NEW e \in Exports, DatabaseFails(e) PROVE UNCHANGED Promise!vars
  BY <1>3, PromiseStutter DEF DatabaseFails, rowVars
<1>4. CASE Restart
  BY <1>4, PromiseStutter DEF Restart, rowVars
<1>5. ASSUME NEW v \in Viewers, OpenList(v) \/ ReadList(v) PROVE UNCHANGED Promise!vars
  BY <1>5, PromiseStutter DEF OpenList, ReadList, rowVars
<1>6. ASSUME NEW e \in Exports, OpenDetail(e) \/ ReadDetail(e) PROVE UNCHANGED Promise!vars
  BY <1>6, PromiseStutter DEF OpenDetail, ReadDetail, rowVars
<1>7. CASE UNCHANGED vars
  BY <1>7, PromiseStutter DEF vars, rowVars
<1> QED
  BY <1>1, <1>2, <1>3, <1>4, <1>5, <1>6, <1>7 DEF Next

\* The service keeps its promise to the clients: no export is told two outcomes, and XML and
\* participations appear with the outcome, for any exports, pages and failures.
THEOREM ServiceKeepsPromise == Spec => PromiseKept
<1>1. IInv /\ IInv' /\ [Next]_vars => [Promise!Next]_Promise!vars
  BY PromiseStep
<1> QED
  BY PromiseInit, <1>1, ServiceInvariant, PTL DEF Spec, PromiseKept, Promise!Spec
=============================================================================
