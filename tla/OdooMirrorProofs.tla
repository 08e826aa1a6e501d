--------------------------- MODULE OdooMirrorProofs ---------------------------
(***************************************************************************)
(* Theorems about OdooMirror for any set of records, tasks and bounds.     *)
(***************************************************************************)
EXTENDS OdooMirror, TLAPS

(***************************************************************************)
(* Type correctness, one lemma per group of actions.                       *)
(***************************************************************************)
LEMMA InitTyped == Init => TypeOK
<1> SUFFICES ASSUME Init PROVE TypeOK
  OBVIOUS
<1>1. EnvironmentTypes
  BY ConstantsAssumption DEF Init, EnvironmentTypes, Hook
<1>2. StoreTypes
  BY ConstantsAssumption DEF Init, StoreTypes, LogStatus, Absent
<1>3. TaskTypes
  BY ConstantsAssumption
  DEF Init, TaskTypes, NoReads, NoWrites, Location, Kind, Unread, NoWrite
<1>4. HistoryTypes
  BY ConstantsAssumption DEF Init, HistoryTypes, Absent
<1> QED
  BY <1>1, <1>2, <1>3, <1>4 DEF TypeOK

LEMMA CurrentTyped == ASSUME TypeOK, NEW r \in Records PROVE Current(r) \in 0 .. MaxVersion
BY ConstantsAssumption DEF TypeOK, EnvironmentTypes, Current, Live, Absent

LEMMA SpendTyped ==
  ASSUME EnvironmentTypes, NEW b \in {"changes", "faults", "manual"}, Spend(b)
  PROVE  left' \in [changes : 0 .. MaxChanges, faults : 0 .. MaxFaults,
                    manual : 0 .. MaxManual]
<1>1. CASE b = "changes"
  BY <1>1, ConstantsAssumption DEF EnvironmentTypes, Spend
<1>2. CASE b = "faults"
  BY <1>2, ConstantsAssumption DEF EnvironmentTypes, Spend
<1>3. CASE b = "manual"
  BY <1>3, ConstantsAssumption DEF EnvironmentTypes, Spend
<1> QED
  BY <1>1, <1>2, <1>3

LEMMA CallHookTyped ==
  ASSUME hooks \subseteq Hook, NEW r, NEW u \in BOOLEAN, CallHook(r, u)
  PROVE  hooks' \subseteq Hook
<1>1. CASE UNCHANGED hooks
  BY <1>1
<1>2. CASE r \in Rows /\ hooks' = hooks \cup {[id |-> r, unlink |-> u]}
  <2>1. [id |-> r, unlink |-> u] \in Hook
    BY <1>2 DEF Hook
  <2> QED
    BY <1>2, <2>1
<1> QED
  BY <1>1, <1>2 DEF CallHook

LEMMA WriteTyped ==
  ASSUME TypeOK, NEW r \in Records, OdooWrite(r) PROVE TypeOK'
<1>1. odoo' \in [Records -> [ver : 0 .. MaxVersion, live : BOOLEAN]]
  BY ConstantsAssumption DEF TypeOK, EnvironmentTypes, OdooWrite, CanCreate
<1>2. hooks' \subseteq Hook
  BY CallHookTyped DEF TypeOK, EnvironmentTypes, OdooWrite
<1>3. EnvironmentTypes'
  BY <1>1, <1>2, SpendTyped DEF TypeOK, EnvironmentTypes, OdooWrite
<1>4. StoreTypes' /\ TaskTypes' /\ HistoryTypes'
  BY DEF TypeOK, StoreTypes, TaskTypes, HistoryTypes, OdooWrite, Shift, taskVars
<1> QED
  BY <1>3, <1>4 DEF TypeOK

LEMMA UnlinkTyped ==
  ASSUME TypeOK, NEW r \in Records, OdooUnlink(r) PROVE TypeOK'
<1>1. odoo' \in [Records -> [ver : 0 .. MaxVersion, live : BOOLEAN]]
  <2>1. ASSUME NEW x \in Records
        PROVE  [odoo[x] EXCEPT !.live = FALSE] \in [ver : 0 .. MaxVersion, live : BOOLEAN]
    BY DEF TypeOK, EnvironmentTypes
  <2> QED
    BY <2>1 DEF TypeOK, EnvironmentTypes, OdooUnlink
<1>2. hooks' \subseteq Hook
  BY CallHookTyped DEF TypeOK, EnvironmentTypes, OdooUnlink
<1>3. EnvironmentTypes'
  BY <1>1, <1>2, SpendTyped DEF TypeOK, EnvironmentTypes, OdooUnlink
<1>4. StoreTypes' /\ TaskTypes'
  BY DEF TypeOK, StoreTypes, TaskTypes, OdooUnlink, taskVars
<1>5. HistoryTypes'
  BY DEF TypeOK, HistoryTypes, OdooUnlink, Shift
<1> QED
  BY <1>3, <1>4, <1>5 DEF TypeOK

LEMMA ConnectionTyped ==
  ASSUME TypeOK, CreateConnection \/ DeleteConnection PROVE TypeOK'
<1>1. CASE CreateConnection
  BY <1>1, ConstantsAssumption
  DEF TypeOK, EnvironmentTypes, StoreTypes, TaskTypes, HistoryTypes, CreateConnection,
      taskVars, historyVars
<1>2. CASE DeleteConnection
  <2>1. EnvironmentTypes'
    BY <1>2, SpendTyped DEF TypeOK, EnvironmentTypes, DeleteConnection
  <2>2. StoreTypes' /\ TaskTypes' /\ HistoryTypes'
    BY <1>2 DEF TypeOK, StoreTypes, TaskTypes, HistoryTypes, DeleteConnection,
                taskVars, historyVars
  <2> QED
    BY <2>1, <2>2 DEF TypeOK
<1> QED
  BY <1>1, <1>2

LEMMA RefuseTyped == ASSUME TypeOK, NEW h \in hooks, RefuseHook(h) PROVE TypeOK'
BY DEF TypeOK, EnvironmentTypes, StoreTypes, TaskTypes, HistoryTypes, RefuseHook,
       taskVars, historyVars

LEMMA RestartTyped == ASSUME TypeOK, Restart PROVE TypeOK'
<1>1. EnvironmentTypes'
  BY SpendTyped DEF TypeOK, EnvironmentTypes, Restart, LoseTasks
<1>2. StoreTypes'
  BY DEF TypeOK, StoreTypes, Restart, LoseTasks
<1>3. TaskTypes'
  BY ConstantsAssumption
  DEF TypeOK, TaskTypes, StoreTypes, Restart, LoseTasks, NoReads, NoWrites, Location, Kind,
      Unread, NoWrite
<1>4. HistoryTypes'
  BY ConstantsAssumption DEF TypeOK, HistoryTypes, Restart, LoseTasks, Absent
<1> QED
  BY <1>1, <1>2, <1>3, <1>4 DEF TypeOK

\* What a task's beginning, reads, statements and end do to the types.
LEMMA BeginTyped ==
  ASSUME TypeOK, NEW t \in Tasks, NEW k \in Kind, NEW r \in Rows \cup {NoRecord},
         NEW p \in Location, Begin(t, k, r, p)
  PROVE  /\ TaskTypes' /\ HistoryTypes'
         /\ UNCHANGED <<mirror, conn, odoo>>
         /\ log' \in [Tasks -> LogStatus] /\ rlog' \in [Tasks -> LogStatus]
<1>1. [x \in Records |-> Current(x)] \in [Records -> 0 .. MaxVersion]
  BY CurrentTyped
<1>2. HistoryTypes'
  BY <1>1 DEF TypeOK, HistoryTypes, Begin
<1>3. TaskTypes'
  BY DEF TypeOK, StoreTypes, TaskTypes, Begin
<1>4. log' \in [Tasks -> LogStatus] /\ rlog' \in [Tasks -> LogStatus]
  BY DEF TypeOK, StoreTypes, Begin, LogStatus
<1> QED
  BY <1>2, <1>3, <1>4 DEF Begin

LEMMA EndTyped ==
  ASSUME TypeOK, NEW t \in Tasks, End(t)
  PROVE  /\ TaskTypes' /\ job' \in Tasks \cup {NoTask}
         /\ base' \in [Tasks -> [Records -> 0 .. MaxVersion]]
         /\ shifted' \in [Tasks -> BOOLEAN]
<1>1. TaskTypes'
  BY ConstantsAssumption
  DEF TypeOK, TaskTypes, End, NoReads, NoWrites, Location, Kind, Unread, NoWrite
<1>2. job' \in Tasks \cup {NoTask}
  BY DEF TypeOK, StoreTypes, End
<1>3. base' \in [Tasks -> [Records -> 0 .. MaxVersion]]
  BY ConstantsAssumption DEF TypeOK, HistoryTypes, End, Absent
<1> QED
  BY <1>1, <1>2, <1>3 DEF TypeOK, HistoryTypes, End

LEMMA CommitWritesTyped ==
  ASSUME TypeOK, NEW t \in Tasks, CommitWrites(t)
  PROVE  mirror' \in [Records -> 0 .. MaxVersion]
<1>1. ASSUME NEW r \in Written(t) PROVE pend[t][r] \in 0 .. MaxVersion
  BY <1>1, ConstantsAssumption DEF Written, NoWrite, TypeOK, TaskTypes
<1> QED
  BY <1>1 DEF TypeOK, StoreTypes, CommitWrites

LEMMA MovedByTyped ==
  ASSUME TypeOK, NEW t \in Tasks, NEW ended \in BOOLEAN, MovedBy(t, ended)
  PROVE  moved' \in [Tasks -> SUBSET Records]
<1>1. Written(t) \subseteq Records
  BY DEF Written
<1> QED
  BY <1>1 DEF TypeOK, HistoryTypes, MovedBy

LEMMA TriggerTyped == ASSUME TypeOK, NEW t \in Tasks, Trigger(t) PROVE TypeOK'
<1>1. CASE StartBootstrap(t)
  <2>1. /\ TaskTypes' /\ HistoryTypes' /\ UNCHANGED <<mirror, conn, odoo>>
        /\ log' \in [Tasks -> LogStatus] /\ rlog' \in [Tasks -> LogStatus]
    BY <1>1, BeginTyped DEF StartBootstrap, Kind, Location
  <2>2. EnvironmentTypes'
    BY <1>1, <2>1, SpendTyped DEF StartBootstrap, TypeOK, EnvironmentTypes
  <2> QED
    BY <1>1, <2>1, <2>2 DEF StartBootstrap, TypeOK, StoreTypes
<1>2. CASE StartResync(t)
  <2>1. /\ TaskTypes' /\ HistoryTypes' /\ UNCHANGED <<mirror, conn, odoo>>
        /\ log' \in [Tasks -> LogStatus] /\ rlog' \in [Tasks -> LogStatus]
    BY <1>2, BeginTyped DEF StartResync, Kind, Location
  <2>2. EnvironmentTypes'
    BY <1>2, <2>1, SpendTyped DEF StartResync, TypeOK, EnvironmentTypes
  <2> QED
    BY <1>2, <2>1, <2>2 DEF StartResync, TypeOK, StoreTypes
<1>3. CASE NightlyReconcile(t)
  <2>1. /\ TaskTypes' /\ HistoryTypes' /\ UNCHANGED <<mirror, conn, odoo>>
        /\ log' \in [Tasks -> LogStatus] /\ rlog' \in [Tasks -> LogStatus]
    BY <1>3, BeginTyped DEF NightlyReconcile, Kind, Location
  <2> QED
    BY <1>3, <2>1 DEF NightlyReconcile, TypeOK, StoreTypes, EnvironmentTypes
<1>4. ASSUME NEW h \in hooks, ReceiveHook(t, h) PROVE TypeOK'
  <2>1. h.id \in Rows \cup {NoRecord}
    BY DEF TypeOK, EnvironmentTypes, Hook
  <2>2. \/ Begin(t, "unlink", h.id, "delete")
        \/ Begin(t, "upsert", h.id, "auth")
    BY <1>4 DEF ReceiveHook
  <2>3. /\ TaskTypes' /\ HistoryTypes' /\ UNCHANGED <<mirror, conn, odoo>>
        /\ log' \in [Tasks -> LogStatus] /\ rlog' \in [Tasks -> LogStatus]
    BY <2>1, <2>2, BeginTyped DEF Kind, Location
  <2> QED
    BY <1>4, <2>3 DEF ReceiveHook, TypeOK, StoreTypes, EnvironmentTypes
<1> QED
  BY <1>1, <1>2, <1>3, <1>4 DEF Trigger

LEMMA ReadKeepsTypes ==
  ASSUME TypeOK, UNCHANGED unchangedByRead, pc' \in [Tasks -> Location],
         got' \in [Tasks -> [Records -> -1 .. MaxVersion]],
         offset' \in [Tasks -> Nat], seen' \in [Tasks -> SUBSET Rows]
  PROVE  TypeOK'
BY DEF TypeOK, EnvironmentTypes, StoreTypes, TaskTypes, HistoryTypes, unchangedByRead,
       historyVars

LEMMA ReadTyped ==
  ASSUME TypeOK, NEW t \in Tasks, NEW asked, Read(t, asked)
  PROVE  got' \in [Tasks -> [Records -> -1 .. MaxVersion]]
<1>1. ASSUME NEW r \in Records PROVE Current(r) \in -1 .. MaxVersion
  BY CurrentTyped, ConstantsAssumption
<1> QED
  BY <1>1 DEF TypeOK, TaskTypes, Read

LEMMA GotoTyped ==
  ASSUME TypeOK, NEW t \in Tasks, NEW p \in Location, Goto(t, p)
  PROVE  pc' \in [Tasks -> Location]
BY DEF TypeOK, TaskTypes, Goto

LEMMA FetchPageTyped ==
  ASSUME TypeOK, NEW t \in Tasks, NEW here, NEW rows, NEW next \in Location,
         FetchPage(t, here, rows, next)
  PROVE  TypeOK'
<1>1. got' \in [Tasks -> [Records -> -1 .. MaxVersion]]
  BY ReadTyped DEF FetchPage
<1>2. pc' \in [Tasks -> Location]
  BY GotoTyped DEF FetchPage, TypeOK, TaskTypes
<1>3. offset' \in [Tasks -> Nat]
  <2>1. offset \in [Tasks -> Nat] /\ offset[t] + Batch \in Nat
    BY ConstantsAssumption DEF TypeOK, TaskTypes
  <2>2. offset' \in {offset, [offset EXCEPT ![t] = 0], [offset EXCEPT ![t] = offset[t] + Batch]}
    BY DEF FetchPage
  <2> QED
    BY <2>1, <2>2
<1> QED
  BY <1>1, <1>2, <1>3, ReadKeepsTypes DEF FetchPage, TypeOK, TaskTypes

LEMMA FetchTyped ==
  ASSUME TypeOK, NEW t \in Tasks, NEW here, NEW asked, NEW next \in Location,
         Fetch(t, here, asked, next)
  PROVE  TypeOK'
<1>1. got' \in [Tasks -> [Records -> -1 .. MaxVersion]]
  BY ReadTyped DEF Fetch
<1>2. pc' \in [Tasks -> Location]
  BY GotoTyped DEF Fetch
<1> QED
  BY <1>1, <1>2, ReadKeepsTypes DEF Fetch, TypeOK, TaskTypes

LEMMA FetchIdsTyped ==
  ASSUME TypeOK, NEW t \in Tasks, NEW here, NEW rows \in SUBSET Rows, NEW next \in Location,
         FetchIds(t, here, rows, next)
  PROVE  TypeOK'
<1>1. seen' \in [Tasks -> SUBSET Rows]
  BY DEF FetchIds, TypeOK, TaskTypes
<1>2. pc' \in [Tasks -> Location]
  BY GotoTyped DEF FetchIds
<1> QED
  BY <1>1, <1>2, ReadKeepsTypes DEF FetchIds, TypeOK, TaskTypes

LEMMA WriteKeepsTypes ==
  ASSUME TypeOK, UNCHANGED unchangedByWrite, pc' \in [Tasks -> Location],
         pend' \in [Tasks -> [Records -> -1 .. MaxVersion]], stale' \in [Tasks -> SUBSET Rows]
  PROVE  TypeOK'
BY DEF TypeOK, EnvironmentTypes, StoreTypes, TaskTypes, HistoryTypes, unchangedByWrite,
       historyVars

LEMMA UpsertTyped == ASSUME TypeOK, NEW t \in Tasks, NEW r \in Rows, Upsert(t, r) PROVE TypeOK'
<1>1. pend' \in [Tasks -> [Records -> -1 .. MaxVersion]]
  BY DEF Upsert, TypeOK, TaskTypes
<1> QED
  BY <1>1, WriteKeepsTypes DEF Upsert, TypeOK, TaskTypes

LEMMA SelectLocalTyped ==
  ASSUME TypeOK, NEW t \in Tasks, NEW here, NEW rows \in SUBSET Rows, NEW next \in Location,
         SelectLocal(t, here, rows, next)
  PROVE  TypeOK'
<1>1. stale' \in [Tasks -> SUBSET Rows]
  BY DEF SelectLocal, TypeOK, TaskTypes
<1>2. pc' \in [Tasks -> Location]
  BY GotoTyped DEF SelectLocal
<1> QED
  BY <1>1, <1>2, WriteKeepsTypes DEF SelectLocal, TypeOK, TaskTypes

LEMMA DeleteTyped ==
  ASSUME TypeOK, NEW t \in Tasks, NEW here, NEW next \in Location, Delete(t, here, next)
  PROVE  TypeOK'
<1>1. pend' \in [Tasks -> [Records -> -1 .. MaxVersion]]
  BY ConstantsAssumption DEF Delete, TypeOK, TaskTypes, Absent
<1>2. pc' \in [Tasks -> Location]
  BY GotoTyped DEF Delete
<1> QED
  BY <1>1, <1>2, WriteKeepsTypes DEF Delete, TypeOK, TaskTypes

LEMMA FinalsTyped ==
  ASSUME TypeOK, NEW t \in Tasks, CommitSync(t) \/ CommitUnlink(t) \/ NestedWithoutConnection(t)
  PROVE  TypeOK'
<1>1. CASE CommitSync(t)
  <2>1. mirror' \in [Records -> 0 .. MaxVersion] /\ moved' \in [Tasks -> SUBSET Records]
    BY <1>1, CommitWritesTyped, MovedByTyped DEF CommitSync
  <2>2. conn' \in [exists : BOOLEAN, boot : BOOLEAN, id : 0 .. MaxConnections]
    <3>1. conn.boot \/ FullSync(t) \in BOOLEAN
      BY DEF FullSync
    <3> QED
      BY <1>1, <3>1 DEF CommitSync, TypeOK, StoreTypes
  <2>3. log' \in [Tasks -> LogStatus]
    BY <1>1 DEF CommitSync, TypeOK, StoreTypes, LogStatus
  <2>4. /\ TaskTypes' /\ job' \in Tasks \cup {NoTask}
        /\ base' \in [Tasks -> [Records -> 0 .. MaxVersion]]
        /\ shifted' \in [Tasks -> BOOLEAN]
    BY <1>1, EndTyped DEF CommitSync
  <2> QED
    BY <1>1, <2>1, <2>2, <2>3, <2>4
    DEF CommitSync, TypeOK, EnvironmentTypes, StoreTypes, HistoryTypes
<1>2. CASE CommitUnlink(t)
  <2>1. mirror' \in [Records -> 0 .. MaxVersion] /\ moved' \in [Tasks -> SUBSET Records]
    BY <1>2, CommitWritesTyped, MovedByTyped DEF CommitUnlink
  <2>2. log' \in [Tasks -> LogStatus]
    BY <1>2 DEF CommitUnlink, TypeOK, StoreTypes, LogStatus
  <2>3. /\ TaskTypes' /\ job' \in Tasks \cup {NoTask}
        /\ base' \in [Tasks -> [Records -> 0 .. MaxVersion]]
        /\ shifted' \in [Tasks -> BOOLEAN]
    BY <1>2, EndTyped DEF CommitUnlink
  <2> QED
    BY <1>2, <2>1, <2>2, <2>3
    DEF CommitUnlink, TypeOK, EnvironmentTypes, StoreTypes, HistoryTypes
<1>3. CASE NestedWithoutConnection(t)
  <2>1. /\ TaskTypes' /\ job' \in Tasks \cup {NoTask}
        /\ base' \in [Tasks -> [Records -> 0 .. MaxVersion]]
        /\ shifted' \in [Tasks -> BOOLEAN]
    BY <1>3, EndTyped DEF NestedWithoutConnection
  <2>2. moved' \in [Tasks -> SUBSET Records]
    BY <1>3 DEF NestedWithoutConnection, TypeOK, HistoryTypes
  <2> QED
    BY <1>3, <2>1, <2>2
    DEF NestedWithoutConnection, TypeOK, EnvironmentTypes, StoreTypes, HistoryTypes
<1> QED
  BY <1>1, <1>2, <1>3

LEMMA CommitReconcileTyped ==
  ASSUME TypeOK, NEW t \in Tasks, CommitReconcile(t) PROVE TypeOK'
<1>1. mirror' \in [Records -> 0 .. MaxVersion] /\ moved' \in [Tasks -> SUBSET Records]
  BY CommitWritesTyped, MovedByTyped DEF CommitReconcile
<1>2. rlog' \in [Tasks -> LogStatus]
  BY DEF CommitReconcile, TypeOK, StoreTypes, LogStatus
<1>3. pc' \in [Tasks -> Location]
  BY GotoTyped DEF CommitReconcile, Location
<1>4. NoWrites \in [Records -> -1 .. MaxVersion]
  BY ConstantsAssumption DEF NoWrites, NoWrite
<1>5. kind' \in [Tasks -> Kind]
  BY DEF CommitReconcile, TypeOK, TaskTypes, Kind
<1>6. TaskTypes'
  BY <1>3, <1>4, <1>5 DEF CommitReconcile, TypeOK, TaskTypes
<1> QED
  BY <1>1, <1>2, <1>6
  DEF CommitReconcile, TypeOK, EnvironmentTypes, StoreTypes, HistoryTypes

LEMMA NestedBootstrapTyped ==
  ASSUME TypeOK, NEW t \in Tasks, NestedBootstrap(t) PROVE TypeOK'
<1>1. pc' \in [Tasks -> Location]
  BY GotoTyped DEF NestedBootstrap, Location
<1>2. TaskTypes'
  BY <1>1 DEF NestedBootstrap, TypeOK, StoreTypes, TaskTypes
<1>3. log' \in [Tasks -> LogStatus]
  BY DEF NestedBootstrap, TypeOK, StoreTypes, LogStatus
<1> QED
  BY <1>2, <1>3
  DEF NestedBootstrap, TypeOK, EnvironmentTypes, StoreTypes, HistoryTypes, historyVars

LEMMA RaiseTyped ==
  ASSUME TypeOK, NEW t \in Tasks, Raise(t),
         left' \in [changes : 0 .. MaxChanges, faults : 0 .. MaxFaults, manual : 0 .. MaxManual]
  PROVE  TypeOK'
<1>1. ASSUME NEW s \in LogStatus PROVE FailedLog(t, s) \in LogStatus
  BY DEF FailedLog, LogStatus
<1>2. log' \in [Tasks -> LogStatus]
  BY <1>1 DEF Raise, TypeOK, StoreTypes
<1>3. rlog' \in [Tasks -> LogStatus]
  <2>1. CASE kind[t] = "reconcile"
    BY <1>1, <2>1 DEF Raise, TypeOK, StoreTypes
  <2>2. CASE kind[t] = "nested"
    BY <2>2 DEF Raise, TypeOK, StoreTypes, LogStatus
  <2>3. CASE kind[t] \notin {"reconcile", "nested"}
    BY <2>3 DEF Raise, TypeOK, StoreTypes
  <2> QED
    BY <2>1, <2>2, <2>3
<1>4. /\ TaskTypes' /\ job' \in Tasks \cup {NoTask}
      /\ base' \in [Tasks -> [Records -> 0 .. MaxVersion]]
      /\ shifted' \in [Tasks -> BOOLEAN]
  BY EndTyped DEF Raise
<1>5. moved' \in [Tasks -> SUBSET Records]
  BY DEF Raise, TypeOK, HistoryTypes
<1> QED
  BY <1>2, <1>3, <1>4, <1>5 DEF Raise, TypeOK, EnvironmentTypes, StoreTypes, HistoryTypes

LEMMA AdvanceTyped == ASSUME TypeOK, NEW t \in Tasks, Advance(t) PROVE TypeOK'
<1>1. CASE Authenticate(t)
  <2>1. pc' \in [Tasks -> Location]
    BY <1>1 DEF Authenticate, Goto, TypeOK, TaskTypes, Location
  <2> QED
    BY <1>1, <2>1, ReadKeepsTypes DEF Authenticate, TypeOK, TaskTypes
<1>2. CASE FetchEvents(t) \/ FetchRegistrations(t)
  BY <1>2, FetchPageTyped DEF FetchEvents, FetchRegistrations, Location
<1>3. CASE FetchOne(t)
  <2>1. PICK next \in {"commit", "putEvents", "putPartners", "tickets"} :
          Fetch(t, "fetch", {target[t]}, next)
    BY <1>3 DEF FetchOne
  <2> QED
    BY <2>1, FetchTyped DEF Location
<1>4. CASE FetchTickets(t) \/ FetchPartners(t) \/ FetchAnswers(t)
  BY <1>4, FetchTyped DEF FetchTickets, FetchPartners, FetchAnswers, Location
<1>5. CASE FetchEventIds(t) \/ FetchRegistrationIds(t)
  BY <1>5, FetchIdsTyped DEF FetchEventIds, FetchRegistrationIds, Location, Rows
<1>6. CASE SelectLocalEvents(t) \/ SelectLocalRegistrations(t)
  BY <1>6, SelectLocalTyped DEF SelectLocalEvents, SelectLocalRegistrations, Location, Rows
<1>7. ASSUME NEW r \in Rows, Upsert(t, r) PROVE TypeOK'
  BY <1>7, UpsertTyped
<1>8. CASE UpsertsDone(t)
  <2>1. pc' \in [Tasks -> Location]
    BY <1>8 DEF UpsertsDone, Goto, TypeOK, TaskTypes, Location
  <2> QED
    BY <1>8, <2>1, WriteKeepsTypes DEF UpsertsDone, TypeOK, TaskTypes
<1>9. CASE DeleteUnlinked(t) \/ DeleteStaleEvents(t) \/ DeleteStaleRegistrations(t)
  BY <1>9, DeleteTyped
  DEF DeleteUnlinked, DeleteStaleEvents, DeleteStaleRegistrations, Location
<1>10. CASE CommitRefused(t) \/ DeadlockAbort(t)
  <2>1. Raise(t) /\ UNCHANGED left
    BY <1>10 DEF CommitRefused, DeadlockAbort
  <2> QED
    BY <2>1, RaiseTyped DEF TypeOK, EnvironmentTypes
<1> QED
  BY <1>1, <1>2, <1>3, <1>4, <1>5, <1>6, <1>7, <1>8, <1>9, <1>10, FinalsTyped,
     CommitReconcileTyped, NestedBootstrapTyped
  DEF Advance

LEMMA NextTyped == TypeOK /\ [Next]_vars => TypeOK'
<1> SUFFICES ASSUME TypeOK, [Next]_vars PROVE TypeOK'
  OBVIOUS
<1>1. CASE Environment
  BY <1>1, WriteTyped, UnlinkTyped, ConnectionTyped, RefuseTyped, RestartTyped DEF Environment
<1>2. ASSUME NEW t \in Tasks, Trigger(t) PROVE TypeOK'
  BY <1>2, TriggerTyped
<1>3. ASSUME NEW t \in Tasks, Advance(t) PROVE TypeOK'
  BY <1>3, AdvanceTyped
<1>4. ASSUME NEW t \in Tasks, Fail(t) PROVE TypeOK'
  <2>1. Raise(t) /\ Spend("faults")
    BY <1>4 DEF Fail
  <2> QED
    BY <2>1, RaiseTyped, SpendTyped DEF TypeOK
<1>5. CASE UNCHANGED vars
  BY <1>5 DEF vars, taskVars, historyVars, TypeOK, EnvironmentTypes, StoreTypes, TaskTypes,
              HistoryTypes
<1> QED
  BY <1>1, <1>2, <1>3, <1>4, <1>5 DEF Next

\* Every variable keeps its type in every behaviour, whatever the records, tasks, page size
\* and bounds: the syncs of odoo_sync.py only store versions Odoo handed out, or "absent".
THEOREM TypeCorrect == Spec => []TypeOK
BY InitTyped, NextTyped, PTL DEF Spec

-----------------------------------------------------------------------------
(***************************************************************************)
(* The inductive invariant behind DeletesJustified, NoRegressionWithout-   *)
(* Overlap and RowsChangeOnlyAtCompletion.                                 *)
(***************************************************************************)
Gone(r)       == odoo[r].ver > 0 /\ ~Live(r)   \* unlinked, for good
Lasting(t, r) == base[t][r] # Absent /\ Live(r) \* in Odoo since the task began

ReconcileSteps == {"eventIds", "regIds", "localEvents", "localRegs",
                   "deleteEvents", "deleteRegs"}
SyncSteps      == {"fetch", "events", "putEvents", "regs", "tickets", "partners",
                   "putPartners", "answers", "putRegs", "commit"}

IdleInv == \A t \in Tasks :
             /\ pc[t] = "idle" => pend[t] = NoWrites /\ stale[t] = {}
             /\ pc[t] = "idle" \/ kind[t] = "reconcile" => got[t] = NoReads
KindInv == \A t \in Tasks :
             /\ pc[t] = "delete" => kind[t] = "unlink"
             /\ pc[t] = "nested" => kind[t] = "nested"
             /\ pc[t] \in ReconcileSteps => kind[t] = "reconcile"
             /\ pc[t] \in SyncSteps => kind[t] \in {"bootstrap", "nested", "upsert"}
             /\ pc[t] = "auth" => kind[t] \in {"bootstrap", "nested", "upsert", "reconcile"}
OdooInv == \A r \in Records : Live(r) => odoo[r].ver > 0
BaseInv == \A t \in Tasks : \A r \in Records : base[t][r] <= odoo[r].ver
UnlinkInv == /\ \A h \in hooks : h.unlink => Gone(h.id)
             /\ \A t \in Tasks : kind[t] = "unlink" =>
                  /\ target[t] \in Rows /\ Gone(target[t])
                  /\ \A r \in Rows : pend[t][r] = Absent => r = target[t]
SeenInv == \A t \in Tasks :
             /\ pc[t] \in {"regIds", "localEvents", "localRegs"} =>
                  \A r \in Events : Lasting(t, r) => r \in seen[t]
             /\ pc[t] \in {"localEvents", "localRegs"} =>
                  \A r \in Registrations : Lasting(t, r) => r \in seen[t]
StaleInv == \A t \in Tasks : \A r \in stale[t] : ~Lasting(t, r)
FreshInv == \A t \in Tasks : pc[t] # "idle" =>
              \A r \in Rows \ moved[t] :
                /\ got[t][r] > 0 => mirror[r] <= got[t][r]
                /\ pend[t][r] > 0 => mirror[r] <= pend[t][r]
LogInv == \A t \in Tasks :
            /\ kind[t] = "reconcile" /\ pc[t] # "idle" => rlog[t] = "running"
            /\ kind[t] # "reconcile" /\ pc[t] \notin {"idle", "nested"} => log[t] = "running"

Inv == /\ IdleInv /\ KindInv /\ OdooInv /\ BaseInv /\ UnlinkInv /\ SeenInv /\ StaleInv
       /\ FreshInv /\ LogInv /\ Provenance /\ DeletesJustified

LEMMA InitInv == Init => Inv
<1> SUFFICES ASSUME Init PROVE Inv
  OBVIOUS
<1>1. IdleInv /\ KindInv /\ SeenInv /\ StaleInv /\ FreshInv /\ LogInv
  BY DEF Init, IdleInv, KindInv, SeenInv, StaleInv, FreshInv, LogInv, ReconcileSteps, SyncSteps
<1>2. OdooInv /\ BaseInv /\ UnlinkInv
  <2>1. PICK S : odoo = [r \in Records |-> IF r \in S THEN [ver |-> 1, live |-> TRUE]
                                                     ELSE [ver |-> 0, live |-> FALSE]]
    BY DEF Init
  <2>2. OdooInv
    BY <2>1 DEF OdooInv, Live
  <2>3. BaseInv
    BY <2>1 DEF Init, BaseInv, Absent
  <2>4. UnlinkInv
    BY DEF Init, UnlinkInv
  <2> QED
    BY <2>2, <2>3, <2>4
<1>3. Provenance /\ DeletesJustified
  BY DEF Init, Provenance, DeletesJustified, Absent, NoReads, NoWrites, Unread, NoWrite, Records
<1> QED
  BY <1>1, <1>2, <1>3 DEF Inv

\* Odoo's changes: versions only grow, an unlinked record never lives again.
LEMMA OdooGrows ==
  ASSUME TypeOK, OdooInv, NEW r \in Records, OdooWrite(r) \/ OdooUnlink(r)
  PROVE  \A x \in Records :
           /\ odoo[x].ver \in Nat /\ odoo'[x].ver \in Nat
           /\ odoo[x].ver <= odoo'[x].ver
           /\ odoo'[x].live => odoo'[x].ver > 0 /\ (odoo[x].live \/ odoo[x].ver = 0)
<1> SUFFICES ASSUME NEW x \in Records
             PROVE  /\ odoo[x].ver \in Nat /\ odoo'[x].ver \in Nat
                    /\ odoo[x].ver <= odoo'[x].ver
                    /\ odoo'[x].live =>
                         odoo'[x].ver > 0 /\ (odoo[x].live \/ odoo[x].ver = 0)
  OBVIOUS
<1>1. odoo[x].ver \in Nat /\ odoo[r].ver \in Nat /\ (odoo[x].live => odoo[x].ver > 0)
  BY ConstantsAssumption DEF TypeOK, EnvironmentTypes, OdooInv, Live
<1>2. CASE OdooWrite(r)
  BY <1>1, <1>2 DEF OdooWrite, CanCreate, Live, TypeOK, EnvironmentTypes
<1>3. CASE OdooUnlink(r)
  BY <1>1, <1>3 DEF OdooUnlink, TypeOK, EnvironmentTypes
<1> QED
  BY <1>2, <1>3

LEMMA OdooChangeInv ==
  ASSUME TypeOK, Inv, NEW r \in Records, OdooWrite(r) \/ OdooUnlink(r) PROVE Inv'
<1>1. \A x \in Records :
        /\ odoo[x].ver \in Nat /\ odoo'[x].ver \in Nat
        /\ odoo[x].ver <= odoo'[x].ver
        /\ odoo'[x].live => odoo'[x].ver > 0 /\ (odoo[x].live \/ odoo[x].ver = 0)
  BY OdooGrows DEF Inv
<1>2. UNCHANGED <<mirror, pc, kind, target, got, pend, seen, stale, log, rlog, base, moved>>
  BY DEF OdooWrite, OdooUnlink, taskVars, historyVars
<1>3. \A x \in Records : Gone(x) => Gone(x)'
  BY <1>1 DEF Gone, Live
<1>4. \A t \in Tasks, x \in Records : Lasting(t, x)' => Lasting(t, x)
  BY <1>1, <1>2, ConstantsAssumption
  DEF Inv, BaseInv, Lasting, Live, Absent, TypeOK, EnvironmentTypes, HistoryTypes
<1>5. IdleInv' /\ KindInv' /\ LogInv' /\ FreshInv'
  BY <1>2 DEF Inv, IdleInv, KindInv, LogInv, FreshInv
<1>6. OdooInv'
  BY <1>1 DEF OdooInv, Live
<1>7. BaseInv' /\ Provenance'
  <2>1. \A x \in Records : mirror[x] \in Int /\ \A t \in Tasks :
          base[t][x] \in Int /\ got[t][x] \in Int /\ pend[t][x] \in Int
    BY ConstantsAssumption DEF TypeOK, StoreTypes, TaskTypes, HistoryTypes
  <2>2. BaseInv'
    BY <1>1, <1>2, <2>1 DEF Inv, BaseInv
  <2>3. Provenance'
    BY <1>1, <1>2, <2>1 DEF Inv, Provenance
  <2> QED
    BY <2>2, <2>3
<1>8. UnlinkInv'
  <2>1. \A h \in hooks' : h \in hooks \/ (h.unlink => OdooUnlink(r) /\ h.id = r)
    BY DEF OdooWrite, OdooUnlink, CallHook
  <2>2. OdooUnlink(r) => Gone(r)'
    BY DEF OdooUnlink, CanUnlink, Columns, Gone, Live, Inv, OdooInv, TypeOK, EnvironmentTypes
  <2>3. \A h \in hooks : h.id \in Records
    BY DEF TypeOK, EnvironmentTypes, Hook, Records
  <2>4. \A h \in hooks' : h.unlink => Gone(h.id)'
    BY <1>3, <2>1, <2>2, <2>3 DEF Inv, UnlinkInv
  <2>5. Rows \subseteq Records
    BY DEF Records
  <2> QED
    BY <1>2, <1>3, <2>4, <2>5 DEF Inv, UnlinkInv, Gone
<1>9. SeenInv'
  BY <1>2, <1>4 DEF Inv, SeenInv, Records, Rows
<1>10. StaleInv'
  BY <1>2, <1>4 DEF Inv, StaleInv, Records, TypeOK, TaskTypes
<1>11. DeletesJustified'
  <2> SUFFICES ASSUME NEW t \in Tasks, NEW x \in Rows, pend[t][x] = Absent
               PROVE  /\ kind[t] \in {"reconcile", "unlink"}
                      /\ Live(x)' => kind[t] = "reconcile" /\ base[t][x] = Absent
    BY <1>2 DEF DeletesJustified
  <2>1. x \in Records
    BY DEF Records
  <2>2. /\ kind[t] \in {"reconcile", "unlink"}
        /\ Live(x) => kind[t] = "reconcile" /\ base[t][x] = Absent
    BY DEF Inv, DeletesJustified
  <2>3. odoo[x].ver = 0 => base[t][x] = Absent
    BY <2>1, ConstantsAssumption DEF Inv, BaseInv, TypeOK, HistoryTypes, Absent
  <2>4. kind[t] = "unlink" => ~Live(x)'
    BY <1>2, <1>3, <2>1 DEF Inv, UnlinkInv, Gone
  <2> QED
    BY <1>1, <2>1, <2>2, <2>3, <2>4 DEF Live
<1> QED
  BY <1>5, <1>6, <1>7, <1>8, <1>9, <1>10, <1>11 DEF Inv

LEMMA OtherEnvironmentInv ==
  ASSUME TypeOK, Inv,
         \/ CreateConnection \/ DeleteConnection
         \/ \E h \in hooks : RefuseHook(h)
         \/ UNCHANGED vars
  PROVE  Inv'
<1>1. UNCHANGED <<odoo, mirror, pc, kind, target, got, pend, seen, stale, log, rlog, base, moved>>
  BY DEF CreateConnection, DeleteConnection, RefuseHook, vars, taskVars, historyVars
<1>2. hooks' \subseteq hooks
  BY DEF CreateConnection, DeleteConnection, RefuseHook, vars
<1>3. IdleInv' /\ KindInv' /\ OdooInv' /\ BaseInv' /\ FreshInv' /\ LogInv'
  BY <1>1 DEF Inv, IdleInv, KindInv, OdooInv, BaseInv, FreshInv, LogInv, Live
<1>4. UnlinkInv'
  BY <1>1, <1>2 DEF Inv, UnlinkInv, Gone, Live
<1>5. SeenInv' /\ StaleInv'
  BY <1>1 DEF Inv, SeenInv, StaleInv, Lasting, Live
<1>6. Provenance' /\ DeletesJustified'
  BY <1>1 DEF Inv, Provenance, DeletesJustified, Live
<1> QED
  BY <1>3, <1>4, <1>5, <1>6 DEF Inv

LEMMA RestartInv == ASSUME TypeOK, Inv, Restart PROVE Inv'
<1>1. /\ UNCHANGED <<odoo, hooks, mirror>>
      /\ \A t \in Tasks :
           /\ pc'[t] = "idle" /\ kind'[t] = "none" /\ got'[t] = NoReads /\ pend'[t] = NoWrites
           /\ stale'[t] = {} /\ \A r \in Records : base'[t][r] = 0
  BY DEF Restart, LoseTasks, Absent
<1>2. IdleInv' /\ KindInv' /\ SeenInv' /\ FreshInv' /\ LogInv' /\ StaleInv'
  BY <1>1 DEF IdleInv, KindInv, SeenInv, FreshInv, LogInv, StaleInv, ReconcileSteps, SyncSteps,
              NoReads, NoWrites
<1>3. OdooInv' /\ BaseInv'
  BY <1>1 DEF Inv, OdooInv, BaseInv, Live, TypeOK, EnvironmentTypes
<1>4. UnlinkInv'
  BY <1>1 DEF Inv, UnlinkInv, Gone, Live
<1>5. \A t \in Tasks, r \in Records : got'[t][r] = -1 /\ pend'[t][r] = -1
  BY <1>1 DEF NoReads, NoWrites, Unread, NoWrite
<1>6. Provenance'
  BY <1>1, <1>5, ConstantsAssumption DEF Inv, Provenance, TypeOK, EnvironmentTypes
<1>7. DeletesJustified'
  BY <1>5 DEF DeletesJustified, Records, Absent
<1> QED
  BY <1>2, <1>3, <1>4, <1>6, <1>7 DEF Inv

\* A task begins: an idle task has read and written nothing.
LEMMA BeginInv ==
  ASSUME TypeOK, Inv, NEW t \in Tasks, NEW k, NEW r, NEW p, Begin(t, k, r, p),
         hooks' \subseteq hooks,
         \/ k \in {"bootstrap", "reconcile", "upsert"} /\ p = "auth"
         \/ k = "unlink" /\ p = "delete" /\ r \in Rows /\ Gone(r)
  PROVE  Inv'
<1>1. /\ UNCHANGED <<odoo, mirror, got, pend, seen, stale, moved>>
      /\ pc[t] = "idle"
      /\ pc' = [pc EXCEPT ![t] = p] /\ kind' = [kind EXCEPT ![t] = k]
      /\ target' = [target EXCEPT ![t] = r]
      /\ base' = [base EXCEPT ![t] = [x \in Records |-> Current(x)]]
  BY DEF Begin
<1>2. got[t] = NoReads /\ pend[t] = NoWrites /\ stale[t] = {}
  BY <1>1 DEF Inv, IdleInv
<1>3. \A x \in Records : got[t][x] = -1 /\ pend[t][x] = -1
  BY <1>2 DEF NoReads, NoWrites, Unread, NoWrite
<1>4. p # "idle"
  OBVIOUS
<1>5. IdleInv' /\ KindInv' /\ SeenInv'
  BY <1>1, <1>4
  DEF Inv, IdleInv, KindInv, SeenInv, Lasting, Live, ReconcileSteps, SyncSteps, TypeOK,
      TaskTypes, HistoryTypes
<1>6. OdooInv'
  BY <1>1 DEF Inv, OdooInv, Live
<1>7. BaseInv'
  <2>1. \A x \in Records : Current(x) <= odoo[x].ver
    BY ConstantsAssumption DEF Current, Live, Absent, TypeOK, EnvironmentTypes
  <2> QED
    BY <1>1, <2>1 DEF Inv, BaseInv, TypeOK, HistoryTypes
<1>8. UnlinkInv'
  BY <1>1, <1>3 DEF Inv, UnlinkInv, Gone, Live, TypeOK, TaskTypes, Records, Absent
<1>9. StaleInv'
  BY <1>1, <1>2 DEF Inv, StaleInv, Lasting, Live, TypeOK, HistoryTypes
<1>10. FreshInv'
  BY <1>1, <1>3 DEF Inv, FreshInv, TypeOK, TaskTypes, Records
<1>11. LogInv'
  BY <1>1 DEF Inv, LogInv, Begin, TypeOK, TaskTypes, StoreTypes
<1>12. Provenance'
  BY <1>1 DEF Inv, Provenance
<1>13. DeletesJustified'
  BY <1>1, <1>3 DEF Inv, DeletesJustified, Live, TypeOK, TaskTypes, HistoryTypes, Records, Absent
<1> QED
  BY <1>5, <1>6, <1>7, <1>8, <1>9, <1>10, <1>11, <1>12, <1>13 DEF Inv

LEMMA TriggerInv == ASSUME TypeOK, Inv, NEW t \in Tasks, Trigger(t) PROVE Inv'
<1>1. CASE StartBootstrap(t) \/ StartResync(t) \/ NightlyReconcile(t)
  BY <1>1, BeginInv DEF StartBootstrap, StartResync, NightlyReconcile
<1>2. ASSUME NEW h \in hooks, ReceiveHook(t, h) PROVE Inv'
  <2>1. hooks' \subseteq hooks
    BY <1>2 DEF ReceiveHook
  <2>2. CASE h.unlink
    <3>1. Begin(t, "unlink", h.id, "delete") /\ Gone(h.id) /\ h.id \in Rows
      BY <1>2, <2>2 DEF ReceiveHook, Inv, UnlinkInv, TypeOK, EnvironmentTypes, Hook
    <3> QED
      BY <2>1, <3>1, BeginInv
  <2>3. CASE ~h.unlink
    BY <1>2, <2>1, <2>3, BeginInv DEF ReceiveHook
  <2> QED
    BY <2>2, <2>3
<1> QED
  BY <1>1, <1>2 DEF Trigger

\* A task moves on without ending, beginning or committing: where it may come to.
MovesTo(t, p) ==
  /\ pc[t] \notin {"idle", "nested"} /\ p \notin {"idle", "nested", "auth", "delete"}
  /\ pc' = [pc EXCEPT ![t] = p]
  /\ p \in ReconcileSteps => kind[t] = "reconcile"
  /\ p \in SyncSteps => kind[t] \in {"bootstrap", "nested", "upsert"}

\* A read: the task keeps what it had or holds what Odoo has now; nothing is written.
LEMMA ReadInv ==
  ASSUME TypeOK, Inv, NEW t \in Tasks, UNCHANGED unchangedByRead,
         NEW p \in Location, MovesTo(t, p),
         got' \in [Tasks -> [Records -> -1 .. MaxVersion]],
         \A u \in Tasks : \A r \in Records :
           got'[u][r] = got[u][r] \/ (u = t /\ got'[u][r] = Current(r)),
         \A u \in Tasks \ {t} : got'[u] = got[u],
         kind[t] = "reconcile" => got' = got,
         SeenInv'
  PROVE  Inv'
<1>1. KindInv'
  BY DEF Inv, KindInv, MovesTo, TypeOK, TaskTypes, unchangedByRead
<1>2. IdleInv'
  BY DEF Inv, IdleInv, MovesTo, TypeOK, TaskTypes, unchangedByRead
<1>3. OdooInv' /\ BaseInv' /\ UnlinkInv' /\ StaleInv' /\ DeletesJustified'
  BY DEF Inv, OdooInv, BaseInv, UnlinkInv, StaleInv, DeletesJustified, unchangedByRead,
         historyVars, Live, Gone, Lasting
<1>4. LogInv'
  BY DEF Inv, LogInv, MovesTo, TypeOK, TaskTypes, unchangedByRead
<1>5. \A r \in Records : Current(r) <= odoo[r].ver /\ (Current(r) > 0 => mirror[r] <= Current(r))
  BY ConstantsAssumption
  DEF Inv, Provenance, Current, Live, Absent, TypeOK, EnvironmentTypes, StoreTypes
<1>6. Provenance'
  BY <1>5 DEF Inv, Provenance, unchangedByRead
<1>7. FreshInv'
  BY <1>5 DEF Inv, FreshInv, MovesTo, unchangedByRead, historyVars, Records, TypeOK, TaskTypes
<1> QED
  BY <1>1, <1>2, <1>3, <1>4, <1>6, <1>7 DEF Inv

LEMMA ReadFetches ==
  ASSUME TypeOK, NEW t \in Tasks, NEW asked, Read(t, asked)
  PROVE  /\ \A u \in Tasks : \A r \in Records :
              got'[u][r] = got[u][r] \/ (u = t /\ got'[u][r] = Current(r))
         /\ \A u \in Tasks \ {t} : got'[u] = got[u]
BY DEF TypeOK, TaskTypes, Read

\* A read whose next step is not one that relies on the ids seen.
LEMMA SeenKept ==
  ASSUME TypeOK, Inv, NEW t \in Tasks, NEW p, pc' = [pc EXCEPT ![t] = p],
         p \notin {"regIds", "localEvents", "localRegs"},
         UNCHANGED <<odoo, base, seen>>
  PROVE  SeenInv'
BY DEF Inv, SeenInv, Lasting, Live, TypeOK, TaskTypes

LEMMA FetchPageInv ==
  ASSUME TypeOK, Inv, NEW t \in Tasks, NEW here \in {"events", "regs"}, NEW rows,
         NEW next \in {"putEvents", "tickets"}, FetchPage(t, here, rows, next)
  PROVE  Inv'
<1>1. PICK p \in {here, next} : pc' = [pc EXCEPT ![t] = p]
  BY DEF FetchPage, Goto, TypeOK, TaskTypes
<1>2. MovesTo(t, p) /\ p \in Location /\ p \notin {"regIds", "localEvents", "localRegs"}
  BY <1>1 DEF FetchPage, MovesTo, Inv, KindInv, SyncSteps, ReconcileSteps, Location
<1>3. SeenInv'
  BY <1>1, <1>2, SeenKept DEF FetchPage, unchangedByRead, historyVars
<1>4. PICK asked : Read(t, asked)
  BY DEF FetchPage
<1>5. kind[t] # "reconcile"
  BY DEF FetchPage, Inv, KindInv, SyncSteps
<1> QED
  BY <1>2, <1>3, <1>4, <1>5, ReadTyped, ReadFetches, ReadInv DEF FetchPage

LEMMA FetchInv ==
  ASSUME TypeOK, Inv, NEW t \in Tasks, NEW here \in SyncSteps, NEW asked,
         NEW next \in SyncSteps, Fetch(t, here, asked, next)
  PROVE  Inv'
<1>1. /\ MovesTo(t, next) /\ next \in Location
      /\ next \notin {"regIds", "localEvents", "localRegs"}
  BY DEF Fetch, Goto, MovesTo, Inv, KindInv, SyncSteps, ReconcileSteps, Location
<1>2. SeenInv'
  BY <1>1, SeenKept DEF Fetch, Goto, unchangedByRead, historyVars
<1>3. kind[t] # "reconcile"
  BY DEF Fetch, Inv, KindInv
<1> QED
  BY <1>1, <1>2, <1>3, ReadTyped, ReadFetches, ReadInv DEF Fetch

LEMMA FetchIdsInv ==
  ASSUME TypeOK, Inv, NEW t \in Tasks, FetchEventIds(t) \/ FetchRegistrationIds(t)
  PROVE  Inv'
<1>1. /\ UNCHANGED unchangedByRead /\ got' = got
      /\ got \in [Tasks -> [Records -> -1 .. MaxVersion]]
  BY DEF FetchEventIds, FetchRegistrationIds, FetchIds, TypeOK, TaskTypes
<1>2. CASE FetchEventIds(t)
  <2>1. SeenInv'
    BY <1>2 DEF FetchEventIds, FetchIds, Goto, Inv, SeenInv, Lasting, Live, TypeOK, TaskTypes,
                unchangedByRead, historyVars
  <2>2. MovesTo(t, "regIds")
    BY <1>2 DEF FetchEventIds, FetchIds, Goto, MovesTo, Inv, KindInv, SyncSteps, ReconcileSteps
  <2> QED
    BY <1>1, <2>1, <2>2, ReadInv DEF Location
<1>3. CASE FetchRegistrationIds(t)
  <2>1. SeenInv'
    BY <1>3 DEF FetchRegistrationIds, FetchIds, Goto, Inv, SeenInv, Lasting, Live, TypeOK,
                TaskTypes, unchangedByRead, historyVars
  <2>2. MovesTo(t, "localEvents")
    BY <1>3 DEF FetchRegistrationIds, FetchIds, Goto, MovesTo, Inv, KindInv, SyncSteps,
                ReconcileSteps
  <2> QED
    BY <1>1, <2>1, <2>2, ReadInv DEF Location
<1> QED
  BY <1>2, <1>3

LEMMA AuthenticateInv == ASSUME TypeOK, Inv, NEW t \in Tasks, Authenticate(t) PROVE Inv'
<1>1. PICK p \in {"events", "fetch", "eventIds"} :
        /\ pc' = [pc EXCEPT ![t] = p]
        /\ p \in {"events", "fetch"} => kind[t] \in {"bootstrap", "nested", "upsert"}
        /\ p = "eventIds" => kind[t] \notin {"bootstrap", "nested", "upsert"}
  BY DEF Authenticate, Goto, FullSync
<1>2. MovesTo(t, p) /\ p \in Location /\ p \notin {"regIds", "localEvents", "localRegs"}
  BY <1>1 DEF Authenticate, MovesTo, Inv, KindInv, SyncSteps, ReconcileSteps, Location
<1>3. SeenInv'
  BY <1>1, <1>2, SeenKept DEF Authenticate, unchangedByRead, historyVars
<1> QED
  BY <1>2, <1>3, ReadInv DEF Authenticate, TypeOK, TaskTypes

LEMMA ReadsInv ==
  ASSUME TypeOK, Inv, NEW t \in Tasks,
         \/ Authenticate(t) \/ FetchEvents(t) \/ FetchRegistrations(t)
         \/ FetchOne(t) \/ FetchTickets(t) \/ FetchPartners(t) \/ FetchAnswers(t)
         \/ FetchEventIds(t) \/ FetchRegistrationIds(t)
  PROVE  Inv'
<1>1. CASE FetchEvents(t) \/ FetchRegistrations(t)
  BY <1>1, FetchPageInv DEF FetchEvents, FetchRegistrations
<1>2. CASE FetchOne(t)
  <2>1. PICK next \in {"commit", "putEvents", "putPartners", "tickets"} :
          Fetch(t, "fetch", {target[t]}, next)
    BY <1>2 DEF FetchOne
  <2> QED
    BY <2>1, FetchInv DEF SyncSteps
<1>3. CASE FetchTickets(t) \/ FetchPartners(t) \/ FetchAnswers(t)
  BY <1>3, FetchInv DEF FetchTickets, FetchPartners, FetchAnswers, SyncSteps
<1> QED
  BY <1>1, <1>2, <1>3, AuthenticateInv, FetchIdsInv

-----------------------------------------------------------------------------
\* The statements of a transaction.
LEMMA OwnColumn == \A r, x \in Rows : x \in Columns(r) => x = r
BY KindsDisjoint DEF Columns

\* A statement: other tasks' writes and everything committed stay.
LEMMA StatementInv ==
  ASSUME TypeOK, Inv, NEW t \in Tasks, UNCHANGED unchangedByWrite,
         NEW p \in Location, MovesTo(t, p) \/ (pc' = pc /\ p = pc[t] /\ p \in SyncSteps),
         pend' \in [Tasks -> [Records -> -1 .. MaxVersion]],
         \A u \in Tasks \ {t} : pend'[u] = pend[u],
         \A r \in Records : pend'[t][r] <= odoo[r].ver,
         \A r \in Rows : \/ pend'[t][r] = pend[t][r]
                         \/ pend'[t][r] = got[t][r] /\ got[t][r] > 0
                         \/ /\ pend'[t][r] = Absent
                            /\ \/ kind[t] = "reconcile" /\ ~Lasting(t, r)
                               \/ kind[t] = "unlink" /\ r = target[t],
         StaleInv', SeenInv',
         \A u \in Tasks : pc[u] = "idle" => stale'[u] = stale[u]
  PROVE  Inv'
<1>1. pc[t] # "idle"
  BY DEF MovesTo, SyncSteps
<1>2. KindInv' /\ LogInv'
  BY DEF Inv, KindInv, LogInv, MovesTo, TypeOK, TaskTypes, unchangedByWrite
<1>3. IdleInv'
  BY <1>1 DEF Inv, IdleInv, MovesTo, TypeOK, TaskTypes, unchangedByWrite
<1>4. OdooInv' /\ BaseInv'
  BY DEF Inv, OdooInv, BaseInv, unchangedByWrite, historyVars, Live
<1>5. Rows \subseteq Records
  BY DEF Records
<1>6. UnlinkInv'
  <2>1. ASSUME NEW u \in Tasks, kind[u] = "unlink", NEW r \in Rows, pend'[u][r] = Absent
        PROVE  r = target[u]
    <3>1. CASE pend'[u][r] = pend[u][r]
      BY <2>1, <3>1 DEF Inv, UnlinkInv
    <3>2. CASE u = t /\ pend'[u][r] # pend[u][r]
      BY <2>1, <3>2 DEF Absent
    <3> QED
      BY <2>1, <3>1, <3>2
  <2>2. UNCHANGED <<hooks, kind, target, odoo>>
    BY DEF unchangedByWrite
  <2> QED
    BY <2>1, <2>2 DEF Inv, UnlinkInv, Gone, Live
<1>7. Provenance'
  BY DEF Inv, Provenance, unchangedByWrite
<1>8. FreshInv'
  <2> SUFFICES ASSUME NEW u \in Tasks, pc'[u] # "idle", NEW r \in Rows \ moved[u]
               PROVE  /\ got[u][r] > 0 => mirror[r] <= got[u][r]
                      /\ pend'[u][r] > 0 => mirror[r] <= pend'[u][r]
    BY DEF FreshInv, unchangedByWrite, historyVars
  <2>1. pc[u] # "idle"
    BY <1>1 DEF MovesTo, TypeOK, TaskTypes
  <2>2. /\ got[u][r] > 0 => mirror[r] <= got[u][r]
        /\ pend[u][r] > 0 => mirror[r] <= pend[u][r]
    BY <2>1 DEF Inv, FreshInv
  <2>3. \/ pend'[u][r] = pend[u][r]
        \/ u = t /\ pend'[t][r] = got[t][r] /\ got[t][r] > 0
        \/ pend'[u][r] = 0
    BY DEF Absent
  <2> QED
    BY <2>2, <2>3
<1>9. DeletesJustified'
  <2> SUFFICES ASSUME NEW u \in Tasks, NEW r \in Rows, pend'[u][r] = Absent
               PROVE  /\ kind[u] \in {"reconcile", "unlink"}
                      /\ Live(r) => kind[u] = "reconcile" /\ base[u][r] = Absent
    BY DEF DeletesJustified, unchangedByWrite, historyVars, Live
  <2>1. CASE pend'[u][r] = pend[u][r]
    BY <2>1 DEF Inv, DeletesJustified
  <2>2. CASE u = t /\ kind[t] = "reconcile" /\ ~Lasting(t, r)
    BY <2>2 DEF Lasting
  <2>3. CASE u = t /\ kind[t] = "unlink" /\ r = target[t]
    BY <2>3 DEF Inv, UnlinkInv, Gone
  <2> QED
    BY <2>1, <2>2, <2>3 DEF Absent
<1> QED
  BY <1>2, <1>3, <1>4, <1>6, <1>7, <1>8, <1>9 DEF Inv

LEMMA UpsertInv == ASSUME TypeOK, Inv, NEW t \in Tasks, NEW r \in Rows, Upsert(t, r) PROVE Inv'
<1>1. pc[t] \in {"putEvents", "putPartners", "putRegs"} /\ got[t][r] > 0
  BY DEF Upsert, ToPut, PutStage, Fetched
<1>2. pend' \in [Tasks -> [Records -> -1 .. MaxVersion]]
  BY DEF Upsert, TypeOK, TaskTypes
<1>3. \A x \in Records : pend'[t][x] <= odoo[x].ver
  BY DEF Upsert, Inv, Provenance, TypeOK, TaskTypes
<1>4. \A x \in Rows : pend'[t][x] = pend[t][x] \/ (pend'[t][x] = got[t][x] /\ got[t][x] > 0)
  BY <1>1, OwnColumn DEF Upsert, TypeOK, TaskTypes, Records
<1>5. \A u \in Tasks \ {t} : pend'[u] = pend[u]
  BY DEF Upsert, TypeOK, TaskTypes
<1>6. StaleInv' /\ SeenInv'
  BY DEF Upsert, unchangedByWrite, historyVars, Inv, StaleInv, SeenInv, Lasting, Live
<1>7. pc' = pc /\ pc[t] \in SyncSteps /\ pc[t] \in Location /\ stale' = stale
      /\ UNCHANGED unchangedByWrite
  BY <1>1 DEF Upsert, SyncSteps, Location
<1> QED
  BY <1>2, <1>3, <1>4, <1>5, <1>6, <1>7, StatementInv

LEMMA UpsertsDoneInv == ASSUME TypeOK, Inv, NEW t \in Tasks, UpsertsDone(t) PROVE Inv'
<1>1. pc[t] \in {"putEvents", "putPartners", "putRegs"}
  BY DEF UpsertsDone, PutStage
<1>2. PICK p \in {"regs", "answers", "commit"} : pc' = [pc EXCEPT ![t] = p]
  BY DEF UpsertsDone, Goto
<1>3. MovesTo(t, p) /\ p \in Location
  BY <1>1, <1>2 DEF MovesTo, Inv, KindInv, SyncSteps, ReconcileSteps, Location
<1>4. StaleInv' /\ SeenInv'
  BY <1>2, SeenKept
  DEF UpsertsDone, unchangedByWrite, historyVars, Inv, StaleInv, Lasting, Live
<1>5. \A r \in Records : pend'[t][r] <= odoo[r].ver
  BY DEF UpsertsDone, Inv, Provenance
<1>6. UNCHANGED <<unchangedByWrite, pend, stale>>
      /\ pend \in [Tasks -> [Records -> -1 .. MaxVersion]]
  BY DEF UpsertsDone, TypeOK, TaskTypes
<1> QED
  BY <1>3, <1>4, <1>5, <1>6, StatementInv

LEMMA SelectLocalInv ==
  ASSUME TypeOK, Inv, NEW t \in Tasks, SelectLocalEvents(t) \/ SelectLocalRegistrations(t)
  PROVE  Inv'
<1>1. UNCHANGED <<unchangedByWrite, pend>>
      /\ pend \in [Tasks -> [Records -> -1 .. MaxVersion]]
      /\ \A r \in Records : pend'[t][r] <= odoo[r].ver
  BY DEF SelectLocalEvents, SelectLocalRegistrations, SelectLocal, TypeOK, TaskTypes, Inv,
         Provenance
<1>2. CASE SelectLocalEvents(t)
  <2>1. MovesTo(t, "localRegs")
    BY <1>2 DEF SelectLocalEvents, SelectLocal, Goto, MovesTo, Inv, KindInv, SyncSteps,
                ReconcileSteps
  <2>2. StaleInv'
    BY <1>1, <1>2 DEF SelectLocalEvents, SelectLocal, Inv, StaleInv, SeenInv, Lasting, Live,
                unchangedByWrite, historyVars, TypeOK, TaskTypes
  <2>3. SeenInv'
    BY <1>1, <1>2 DEF SelectLocalEvents, SelectLocal, Goto, Inv, SeenInv, Lasting, Live,
                unchangedByWrite, historyVars, TypeOK, TaskTypes
  <2>4. \A u \in Tasks : pc[u] = "idle" => stale'[u] = stale[u]
    BY <1>2 DEF SelectLocalEvents, SelectLocal, TypeOK, TaskTypes
  <2> QED
    BY <1>1, <2>1, <2>2, <2>3, <2>4, StatementInv DEF Location
<1>3. CASE SelectLocalRegistrations(t)
  <2>1. MovesTo(t, "deleteEvents")
    BY <1>3 DEF SelectLocalRegistrations, SelectLocal, Goto, MovesTo, Inv, KindInv, SyncSteps,
                ReconcileSteps
  <2>2. StaleInv'
    BY <1>1, <1>3 DEF SelectLocalRegistrations, SelectLocal, Inv, StaleInv, SeenInv, Lasting,
                Live, unchangedByWrite, historyVars, TypeOK, TaskTypes
  <2>3. SeenInv'
    BY <1>1, <1>3 DEF SelectLocalRegistrations, SelectLocal, Goto, Inv, SeenInv, Lasting, Live,
                unchangedByWrite, historyVars, TypeOK, TaskTypes
  <2>4. \A u \in Tasks : pc[u] = "idle" => stale'[u] = stale[u]
    BY <1>3 DEF SelectLocalRegistrations, SelectLocal, TypeOK, TaskTypes
  <2> QED
    BY <1>1, <2>1, <2>2, <2>3, <2>4, StatementInv DEF Location
<1> QED
  BY <1>2, <1>3

LEMMA DeleteInv ==
  ASSUME TypeOK, Inv, NEW t \in Tasks,
         DeleteUnlinked(t) \/ DeleteStaleEvents(t) \/ DeleteStaleRegistrations(t)
  PROVE  Inv'
<1>1. PICK p \in {"deleteRegs", "commitDelete"} :
        /\ pc[t] \in {"delete", "deleteEvents", "deleteRegs"}
        /\ p = "deleteRegs" => pc[t] = "deleteEvents"
        /\ Delete(t, pc[t], p)
  BY DEF DeleteUnlinked, DeleteStaleEvents, DeleteStaleRegistrations, Delete
<1>2. MovesTo(t, p) /\ p \in Location
  BY <1>1 DEF Delete, Goto, MovesTo, Inv, KindInv, SyncSteps, ReconcileSteps, Location
<1>3. /\ UNCHANGED <<unchangedByWrite, stale>>
      /\ pend' = [pend EXCEPT ![t] = [x \in Records |->
                    IF \E r \in Doomed(t) : x \in Columns(r) THEN Absent ELSE pend[t][x]]]
  BY <1>1 DEF Delete
<1>4. pend' \in [Tasks -> [Records -> -1 .. MaxVersion]]
  BY <1>3, ConstantsAssumption DEF TypeOK, TaskTypes, Absent
<1>5. \A r \in Records : pend'[t][r] <= odoo[r].ver
  BY <1>3 DEF Inv, Provenance, TypeOK, TaskTypes, EnvironmentTypes, Absent
<1>6. ASSUME NEW r \in Doomed(t), r \in Rows
      PROVE  \/ kind[t] = "reconcile" /\ ~Lasting(t, r)
             \/ kind[t] = "unlink" /\ r = target[t]
  BY <1>1, <1>6 DEF Doomed, Targets, Inv, KindInv, StaleInv, ReconcileSteps
<1>7. Doomed(t) \subseteq Rows
  BY <1>1 DEF Doomed, Targets, Inv, KindInv, UnlinkInv, TypeOK, TaskTypes
<1>8. \A r \in Rows : \/ pend'[t][r] = pend[t][r]
                      \/ /\ pend'[t][r] = Absent
                         /\ \/ kind[t] = "reconcile" /\ ~Lasting(t, r)
                            \/ kind[t] = "unlink" /\ r = target[t]
  BY <1>3, <1>6, <1>7, OwnColumn DEF Records, TypeOK, TaskTypes
<1>9. StaleInv' /\ SeenInv'
  BY <1>1, <1>2, <1>3, SeenKept
  DEF MovesTo, unchangedByWrite, historyVars, Inv, StaleInv, Lasting, Live
<1>10. \A u \in Tasks \ {t} : pend'[u] = pend[u]
  BY <1>3 DEF TypeOK, TaskTypes
<1> QED
  BY <1>2, <1>3, <1>4, <1>5, <1>8, <1>9, <1>10, StatementInv
-----------------------------------------------------------------------------
\* The ends: what a commit does to the rows and to the tasks still running.
LEMMA CommitFacts ==
  ASSUME TypeOK, Inv, NEW t \in Tasks, NEW ended \in BOOLEAN,
         CommitWrites(t), MovedBy(t, ended)
  PROVE  /\ \A r \in Records : mirror'[r] <= odoo[r].ver
         /\ \A u \in Tasks \ {t} : pc[u] # "idle" =>
              moved[u] \subseteq moved'[u] /\ \A r \in Rows \ moved'[u] : mirror'[r] = mirror[r]
<1>1. \A r \in Records : mirror'[r] <= odoo[r].ver
  BY DEF CommitWrites, Inv, Provenance
<1>2. ASSUME NEW u \in Tasks \ {t}, pc[u] # "idle"
      PROVE  moved'[u] = moved[u] \cup Written(t)
  BY <1>2 DEF MovedBy
<1>3. \A r \in Rows \ Written(t) : mirror'[r] = mirror[r]
  BY DEF CommitWrites, Records
<1> QED
  BY <1>1, <1>2, <1>3

LEMMA EndInv ==
  ASSUME TypeOK, Inv, NEW t \in Tasks, End(t), UNCHANGED <<odoo, hooks>>,
         \A r \in Records : mirror'[r] <= odoo[r].ver,
         \A u \in Tasks \ {t} : pc[u] # "idle" =>
           moved[u] \subseteq moved'[u] /\ \A r \in Rows \ moved'[u] : mirror'[r] = mirror[r],
         \A u \in Tasks \ {t} : log'[u] = log[u] /\ rlog'[u] = rlog[u]
  PROVE  Inv'
<1>1. /\ pc'[t] = "idle" /\ kind'[t] = "none" /\ got'[t] = NoReads /\ pend'[t] = NoWrites
      /\ stale'[t] = {} /\ seen'[t] = {} /\ \A r \in Records : base'[t][r] = 0
  BY DEF End, TypeOK, TaskTypes, HistoryTypes, Absent
<1>2. \A u \in Tasks \ {t} :
        /\ pc'[u] = pc[u] /\ kind'[u] = kind[u] /\ target'[u] = target[u]
        /\ got'[u] = got[u] /\ pend'[u] = pend[u]
        /\ stale'[u] = stale[u] /\ seen'[u] = seen[u] /\ base'[u] = base[u]
  BY DEF End, TypeOK, TaskTypes, HistoryTypes
<1>3. \A r \in Records : got'[t][r] = -1 /\ pend'[t][r] = -1
  BY <1>1 DEF NoReads, NoWrites, Unread, NoWrite
<1>4. \A r \in Records : odoo[r].ver \in Nat
  BY ConstantsAssumption DEF TypeOK, EnvironmentTypes
<1>5. IdleInv' /\ KindInv' /\ LogInv'
  BY <1>1, <1>2 DEF Inv, IdleInv, KindInv, LogInv, ReconcileSteps, SyncSteps
<1>6. OdooInv' /\ BaseInv'
  BY <1>1, <1>2, <1>4 DEF Inv, OdooInv, BaseInv, Live
<1>7. UnlinkInv'
  BY <1>1, <1>2 DEF Inv, UnlinkInv, Gone, Live
<1>8. SeenInv' /\ StaleInv'
  BY <1>1, <1>2 DEF Inv, SeenInv, StaleInv, Lasting, Live
<1>9. FreshInv'
  BY <1>1, <1>2 DEF Inv, FreshInv
<1>10. Provenance'
  <2>1. \A u \in Tasks, r \in Records : got'[u][r] <= odoo[r].ver /\ pend'[u][r] <= odoo[r].ver
    BY <1>2, <1>3, <1>4 DEF Inv, Provenance
  <2> QED
    BY <2>1 DEF Provenance
<1>11. DeletesJustified'
  BY <1>2, <1>3 DEF Inv, DeletesJustified, Live, Absent, Records
<1> QED
  BY <1>5, <1>6, <1>7, <1>8, <1>9, <1>10, <1>11 DEF Inv

LEMMA RaiseInv == ASSUME TypeOK, Inv, NEW t \in Tasks, Raise(t) PROVE Inv'
<1>1. \A u \in Tasks \ {t} : moved'[u] = moved[u] /\ log'[u] = log[u] /\ rlog'[u] = rlog[u]
  BY DEF Raise, TypeOK, StoreTypes, HistoryTypes
<1>2. \A r \in Records : mirror'[r] <= odoo[r].ver
  BY DEF Raise, Inv, Provenance
<1> QED
  BY <1>1, <1>2, EndInv DEF Raise

LEMMA FinalsInv ==
  ASSUME TypeOK, Inv, NEW t \in Tasks,
         CommitSync(t) \/ CommitUnlink(t) \/ NestedWithoutConnection(t)
  PROVE  Inv'
<1>1. CASE CommitSync(t)
  <2>1. CommitWrites(t) /\ MovedBy(t, TRUE) /\ End(t) /\ UNCHANGED <<odoo, hooks>>
    BY <1>1 DEF CommitSync
  <2>2. \A u \in Tasks \ {t} : log'[u] = log[u] /\ rlog'[u] = rlog[u]
    BY <1>1 DEF CommitSync, TypeOK, StoreTypes
  <2> QED
    BY <2>1, <2>2, CommitFacts, EndInv
<1>2. CASE CommitUnlink(t)
  <2>1. CommitWrites(t) /\ MovedBy(t, TRUE) /\ End(t) /\ UNCHANGED <<odoo, hooks>>
    BY <1>2 DEF CommitUnlink
  <2>2. \A u \in Tasks \ {t} : log'[u] = log[u] /\ rlog'[u] = rlog[u]
    BY <1>2 DEF CommitUnlink, TypeOK, StoreTypes
  <2> QED
    BY <2>1, <2>2, CommitFacts, EndInv
<1>3. CASE NestedWithoutConnection(t)
  <2>1. \A u \in Tasks \ {t} : moved'[u] = moved[u]
    BY <1>3 DEF NestedWithoutConnection, TypeOK, HistoryTypes
  <2>2. \A r \in Records : mirror'[r] <= odoo[r].ver
    BY <1>3 DEF NestedWithoutConnection, Inv, Provenance
  <2> QED
    BY <1>3, <2>1, <2>2, EndInv DEF NestedWithoutConnection
<1> QED
  BY <1>1, <1>2, <1>3

LEMMA CommitReconcileInv == ASSUME TypeOK, Inv, NEW t \in Tasks, CommitReconcile(t) PROVE Inv'
<1>1. /\ kind[t] = "reconcile" /\ pc'[t] = "nested" /\ kind'[t] = "nested"
      /\ pend'[t] = NoWrites /\ stale'[t] = {} /\ seen'[t] = {}
  BY DEF CommitReconcile, Goto, TypeOK, TaskTypes
<1>2. \A u \in Tasks \ {t} :
        /\ pc'[u] = pc[u] /\ kind'[u] = kind[u] /\ pend'[u] = pend[u]
        /\ stale'[u] = stale[u] /\ seen'[u] = seen[u] /\ rlog'[u] = rlog[u]
  BY DEF CommitReconcile, Goto, TypeOK, TaskTypes, StoreTypes
<1>3. UNCHANGED <<odoo, hooks, target, got, log, base>>
  BY DEF CommitReconcile
<1>4. got[t] = NoReads
  BY <1>1 DEF Inv, IdleInv
<1>5. \A r \in Records : got[t][r] = -1 /\ pend'[t][r] = -1
  BY <1>1, <1>4 DEF NoReads, NoWrites, Unread, NoWrite
<1>6. /\ \A r \in Records : mirror'[r] <= odoo[r].ver
      /\ \A u \in Tasks \ {t} : pc[u] # "idle" =>
           moved[u] \subseteq moved'[u] /\ \A r \in Rows \ moved'[u] : mirror'[r] = mirror[r]
  BY CommitFacts DEF CommitReconcile
<1>7. IdleInv' /\ KindInv' /\ LogInv'
  BY <1>1, <1>2, <1>3 DEF Inv, IdleInv, KindInv, LogInv, ReconcileSteps, SyncSteps
<1>8. OdooInv' /\ BaseInv'
  BY <1>3 DEF Inv, OdooInv, BaseInv, Live
<1>9. UnlinkInv'
  BY <1>1, <1>2, <1>3 DEF Inv, UnlinkInv, Gone, Live
<1>10. SeenInv' /\ StaleInv'
  BY <1>1, <1>2, <1>3 DEF Inv, SeenInv, StaleInv, Lasting, Live
<1>11. FreshInv'
  BY <1>2, <1>3, <1>5, <1>6 DEF Inv, FreshInv, Records
<1>12. Provenance'
  <2>1. \A r \in Records : odoo[r].ver \in Nat
    BY ConstantsAssumption DEF TypeOK, EnvironmentTypes
  <2>2. \A u \in Tasks, r \in Records : pend'[u][r] <= odoo[r].ver
    BY <1>2, <1>5, <2>1 DEF Inv, Provenance
  <2> QED
    BY <1>3, <1>6, <2>2 DEF Inv, Provenance
<1>13. DeletesJustified'
  BY <1>2, <1>3, <1>5 DEF Inv, DeletesJustified, Live, Absent, Records
<1> QED
  BY <1>7, <1>8, <1>9, <1>10, <1>11, <1>12, <1>13 DEF Inv

LEMMA NestedBootstrapInv == ASSUME TypeOK, Inv, NEW t \in Tasks, NestedBootstrap(t) PROVE Inv'
<1>1. UNCHANGED <<odoo, hooks, mirror, kind, target, got, pend, seen, stale, rlog, base, moved>>
  BY DEF NestedBootstrap, historyVars
<1>2. pc[t] = "nested" /\ pc' = [pc EXCEPT ![t] = "auth"] /\ log' = [log EXCEPT ![t] = "running"]
  BY DEF NestedBootstrap, Goto
<1>3. IdleInv' /\ KindInv' /\ LogInv'
  BY <1>1, <1>2
  DEF Inv, IdleInv, KindInv, LogInv, ReconcileSteps, SyncSteps, TypeOK, TaskTypes, StoreTypes
<1>4. OdooInv' /\ BaseInv' /\ UnlinkInv' /\ Provenance' /\ DeletesJustified'
  BY <1>1 DEF Inv, OdooInv, BaseInv, UnlinkInv, Provenance, DeletesJustified, Gone, Live
<1>5. SeenInv' /\ StaleInv'
  BY <1>1, <1>2 DEF Inv, SeenInv, StaleInv, Lasting, Live, TypeOK, TaskTypes
<1>6. FreshInv'
  BY <1>1, <1>2 DEF Inv, FreshInv, TypeOK, TaskTypes
<1> QED
  BY <1>3, <1>4, <1>5, <1>6 DEF Inv

LEMMA AdvanceInv == ASSUME TypeOK, Inv, NEW t \in Tasks, Advance(t) PROVE Inv'
<1>1. CASE CommitRefused(t) \/ DeadlockAbort(t)
  BY <1>1, RaiseInv DEF CommitRefused, DeadlockAbort
<1> QED
  BY <1>1, ReadsInv, SelectLocalInv, UpsertInv, UpsertsDoneInv, DeleteInv, FinalsInv,
     CommitReconcileInv, NestedBootstrapInv
  DEF Advance

LEMMA NextInv == TypeOK /\ Inv /\ [Next]_vars => Inv'
<1> SUFFICES ASSUME TypeOK, Inv, [Next]_vars PROVE Inv'
  OBVIOUS
<1>1. CASE Environment \/ UNCHANGED vars
  BY <1>1, OdooChangeInv, OtherEnvironmentInv, RestartInv DEF Environment
<1>2. ASSUME NEW t \in Tasks, Trigger(t) \/ Advance(t) \/ Fail(t) PROVE Inv'
  BY <1>2, TriggerInv, AdvanceInv, RaiseInv DEF Fail
<1> QED
  BY <1>1, <1>2 DEF Next

\* The inductive invariant holds in every reachable state.
THEOREM Invariant == Spec => [](TypeOK /\ Inv)
<1>1. Init => TypeOK /\ Inv
  BY InitTyped, InitInv
<1>2. TypeOK /\ Inv /\ [Next]_vars => (TypeOK /\ Inv)'
  BY NextTyped, NextInv
<1> QED
  BY <1>1, <1>2, PTL DEF Spec

\* No task holds or stores a version Odoo never had (the fetches and upserts of
\* odoo_sync.py), for every set of records and any number of concurrent tasks.
THEOREM ProvenanceHolds == Spec => []Provenance
<1>1. TypeOK /\ Inv => Provenance
  BY DEF Inv
<1> QED
  BY <1>1, Invariant, PTL

\* The ids a reconciliation read before it read the local rows suffice: whatever the
\* interleaving, it deletes no row whose record was in Odoo all along, and an unlink webhook
\* deletes only the row of a record that is gone.
THEOREM DeletesAreJustified == Spec => []DeletesJustified
<1>1. TypeOK /\ Inv => DeletesJustified
  BY DEF Inv
<1> QED
  BY <1>1, Invariant, PTL

\* At its commit a full sync or webhook upsert writes no delete.
LEMMA SyncDeletesNothing ==
  ASSUME TypeOK, Inv, NEW t \in Tasks, pc[t] = "commit", NEW r \in Rows
  PROVE  pend[t][r] # Absent
BY DEF Inv, KindInv, SyncSteps, DeletesJustified

\* Only the three commits change rows, each those its transaction wrote.
LEMMA RowsChangeInCommits ==
  ASSUME TypeOK, [Next]_vars, mirror' # mirror
  PROVE  \E t \in Tasks :
           /\ CommitWrites(t)
           /\ CommitSync(t) \/ CommitUnlink(t) \/ CommitReconcile(t)
<1>1. CASE Environment
  BY <1>1 DEF Environment, OdooWrite, OdooUnlink, CreateConnection, DeleteConnection,
              RefuseHook, Restart, LoseTasks
<1>2. ASSUME NEW t \in Tasks, Trigger(t) PROVE FALSE
  BY <1>2 DEF Trigger, StartBootstrap, StartResync, NightlyReconcile, ReceiveHook, Begin
<1>3. ASSUME NEW t \in Tasks, Raise(t) PROVE FALSE
  BY <1>3 DEF Raise
<1>4. ASSUME NEW t \in Tasks, Advance(t)
      PROVE  CommitSync(t) \/ CommitUnlink(t) \/ CommitReconcile(t)
  <2>1. CASE \/ Authenticate(t) \/ FetchEvents(t) \/ FetchRegistrations(t)
             \/ FetchOne(t) \/ FetchTickets(t) \/ FetchPartners(t) \/ FetchAnswers(t)
             \/ FetchEventIds(t) \/ FetchRegistrationIds(t)
    BY <2>1 DEF Authenticate, FetchEvents, FetchRegistrations, FetchPage, FetchOne, Fetch,
                FetchTickets, FetchPartners, FetchAnswers, FetchEventIds,
                FetchRegistrationIds, FetchIds, unchangedByRead
  <2>2. CASE \/ SelectLocalEvents(t) \/ SelectLocalRegistrations(t)
             \/ \E r \in Rows : Upsert(t, r)
             \/ UpsertsDone(t)
             \/ DeleteUnlinked(t) \/ DeleteStaleEvents(t) \/ DeleteStaleRegistrations(t)
    BY <2>2 DEF SelectLocalEvents, SelectLocalRegistrations, SelectLocal, Upsert, UpsertsDone,
                DeleteUnlinked, DeleteStaleEvents, DeleteStaleRegistrations, Delete,
                unchangedByWrite
  <2>3. CASE \/ CommitRefused(t) \/ DeadlockAbort(t)
             \/ NestedBootstrap(t) \/ NestedWithoutConnection(t)
    BY <2>3, <1>3 DEF CommitRefused, DeadlockAbort, NestedBootstrap, NestedWithoutConnection
  <2> QED
    BY <1>4, <2>1, <2>2, <2>3 DEF Advance
<1>5. \E t \in Tasks : CommitSync(t) \/ CommitUnlink(t) \/ CommitReconcile(t)
  BY <1>1, <1>2, <1>3, <1>4 DEF Next, Fail, vars
<1> QED
  BY <1>5 DEF CommitSync, CommitUnlink, CommitReconcile

LEMMA CompletionStep ==
  ASSUME TypeOK, Inv, [Next]_vars
  PROVE  mirror' # mirror =>
           \E t \in Tasks :
             /\ \/ log[t] = "running" /\ log'[t] = "completed"
                \/ rlog[t] = "running" /\ rlog'[t] = "completed"
             /\ \A r \in Records \ Written(t) : mirror'[r] = mirror[r]
<1> SUFFICES ASSUME mirror' # mirror
             PROVE  \E t \in Tasks :
                      /\ \/ log[t] = "running" /\ log'[t] = "completed"
                         \/ rlog[t] = "running" /\ rlog'[t] = "completed"
                      /\ \A r \in Records \ Written(t) : mirror'[r] = mirror[r]
  OBVIOUS
<1>1. PICK t \in Tasks : /\ CommitWrites(t)
                         /\ CommitSync(t) \/ CommitUnlink(t) \/ CommitReconcile(t)
  BY RowsChangeInCommits
<1>2. \A r \in Records \ Written(t) : mirror'[r] = mirror[r]
  BY <1>1 DEF CommitWrites
<1>3. CASE CommitSync(t) \/ CommitUnlink(t)
  <2>1. kind[t] # "reconcile" /\ pc[t] \notin {"idle", "nested"}
    BY <1>3 DEF CommitSync, CommitUnlink, Inv, KindInv, SyncSteps
  <2>2. log[t] = "running" /\ log'[t] = "completed"
    BY <1>3, <2>1 DEF CommitSync, CommitUnlink, Inv, LogInv, TypeOK, StoreTypes
  <2> QED
    BY <1>2, <2>2
<1>4. CASE CommitReconcile(t)
  <2>1. rlog[t] = "running" /\ rlog'[t] = "completed"
    BY <1>4 DEF CommitReconcile, Inv, LogInv, TypeOK, StoreTypes
  <2> QED
    BY <1>2, <2>1
<1> QED
  BY <1>1, <1>3, <1>4

\* A sync is all or nothing: the rows change only in the step that completes its log row, and
\* only those its transaction wrote (the one commit at the end of each function).
THEOREM RowsChangeAtCompletion == Spec => RowsChangeOnlyAtCompletion
BY CompletionStep, Invariant, PTL DEF Spec, RowsChangeOnlyAtCompletion

LEMMA NoRegressionStep ==
  ASSUME TypeOK, Inv, [Next]_vars
  PROVE  \A t \in Tasks : Commits(t) =>
           \A r \in Rows : mirror'[r] < mirror[r] => r \in moved[t]
<1> SUFFICES ASSUME NEW t \in Tasks, Commits(t), NEW r \in Rows, mirror'[r] < mirror[r],
                    r \notin moved[t]
             PROVE  FALSE
  OBVIOUS
<1>1. mirror[r] \in Int /\ pend[t][r] \in -1 .. MaxVersion /\ r \in Records
  BY ConstantsAssumption DEF TypeOK, StoreTypes, TaskTypes, Records
<1>2. log[t] = "running" /\ log'[t] = "completed" /\ pc[t] = "commit"
  BY DEF Commits, Inv, KindInv, LogInv, SyncSteps
<1>3. mirror' # mirror
  BY <1>1
<1>4. PICK u \in Tasks : /\ CommitWrites(u)
                         /\ CommitSync(u) \/ CommitUnlink(u) \/ CommitReconcile(u)
  BY <1>3, RowsChangeInCommits
<1>5. u = t
  BY <1>2, <1>4 DEF CommitSync, CommitUnlink, CommitReconcile, TypeOK, StoreTypes
<1>6. r \in Written(t) /\ mirror'[r] = pend[t][r]
  BY <1>1, <1>4, <1>5 DEF CommitWrites
<1>7. pend[t][r] > 0
  BY <1>1, <1>2, <1>6, SyncDeletesNothing, ConstantsAssumption DEF Written, NoWrite, Absent
<1>8. mirror[r] <= pend[t][r]
  BY <1>2, <1>7 DEF Inv, FreshInv
<1> QED
  BY <1>1, <1>6, <1>8

\* The blind upserts of a full sync or webhook put an older version over a newer one only in a
\* row that another sync committed while this one was running.
THEOREM NoRegression == Spec => NoRegressionWithoutOverlap
BY NoRegressionStep, Invariant, PTL DEF Spec, NoRegressionWithoutOverlap

-----------------------------------------------------------------------------
\* The connection: a row that is gone counts as not bootstrapped.
ConnInv == ~conn.exists => ~conn.boot

LEMMA ConnStep ==
  ASSUME TypeOK, [Next]_vars
  PROVE  \/ UNCHANGED conn
         \/ CreateConnection \/ DeleteConnection
         \/ \E t \in Tasks : CommitSync(t)
<1>1. CASE Environment
  BY <1>1 DEF Environment, OdooWrite, OdooUnlink, RefuseHook, Restart, LoseTasks
<1>2. ASSUME NEW t \in Tasks, Trigger(t) PROVE UNCHANGED conn
  BY <1>2 DEF Trigger, StartBootstrap, StartResync, NightlyReconcile, ReceiveHook, Begin
<1>3. ASSUME NEW t \in Tasks, Raise(t) PROVE UNCHANGED conn
  BY <1>3 DEF Raise
<1>4. ASSUME NEW t \in Tasks, Advance(t) PROVE UNCHANGED conn \/ CommitSync(t)
  <2>1. CASE \/ Authenticate(t) \/ FetchEvents(t) \/ FetchRegistrations(t)
             \/ FetchOne(t) \/ FetchTickets(t) \/ FetchPartners(t) \/ FetchAnswers(t)
             \/ FetchEventIds(t) \/ FetchRegistrationIds(t)
    BY <2>1 DEF Authenticate, FetchEvents, FetchRegistrations, FetchPage, FetchOne, Fetch,
                FetchTickets, FetchPartners, FetchAnswers, FetchEventIds,
                FetchRegistrationIds, FetchIds, unchangedByRead
  <2>2. CASE \/ SelectLocalEvents(t) \/ SelectLocalRegistrations(t)
             \/ \E r \in Rows : Upsert(t, r)
             \/ UpsertsDone(t)
             \/ DeleteUnlinked(t) \/ DeleteStaleEvents(t) \/ DeleteStaleRegistrations(t)
    BY <2>2 DEF SelectLocalEvents, SelectLocalRegistrations, SelectLocal, Upsert, UpsertsDone,
                DeleteUnlinked, DeleteStaleEvents, DeleteStaleRegistrations, Delete,
                unchangedByWrite
  <2>3. CASE \/ CommitRefused(t) \/ DeadlockAbort(t) \/ CommitUnlink(t) \/ CommitReconcile(t)
             \/ NestedBootstrap(t) \/ NestedWithoutConnection(t)
    BY <2>3, <1>3 DEF CommitRefused, DeadlockAbort, CommitUnlink, CommitReconcile,
                      NestedBootstrap, NestedWithoutConnection
  <2> QED
    BY <1>4, <2>1, <2>2, <2>3 DEF Advance
<1> QED
  BY <1>1, <1>2, <1>3, <1>4 DEF Next, Fail, vars

LEMMA BootStep ==
  ASSUME TypeOK, ConnInv, [Next]_vars
  PROVE  /\ ConnInv'
         /\ conn'.boot # conn.boot =>
              \/ ~conn'.exists
              \/ \E t \in Tasks : Commits(t) /\ FullSync(t) /\ connOf[t] = conn.id
<1>1. CASE UNCHANGED conn
  BY <1>1 DEF ConnInv
<1>2. CASE CreateConnection
  <2>1. ~conn.exists /\ conn'.exists = TRUE /\ conn'.boot = FALSE
    BY <1>2 DEF CreateConnection
  <2>2. conn.boot = FALSE
    BY <2>1 DEF ConnInv, TypeOK, StoreTypes
  <2> QED
    BY <2>1, <2>2 DEF ConnInv
<1>3. CASE DeleteConnection
  <2>1. conn'.exists = FALSE /\ conn'.boot = FALSE
    BY <1>3 DEF DeleteConnection, TypeOK, StoreTypes
  <2> QED
    BY <2>1 DEF ConnInv
<1>4. ASSUME NEW t \in Tasks, CommitSync(t)
      PROVE  /\ ConnInv'
             /\ conn'.boot # conn.boot => Commits(t) /\ FullSync(t) /\ connOf[t] = conn.id
  <2>1. /\ conn.exists /\ connOf[t] = conn.id /\ pc[t] = "commit"
        /\ conn' = [conn EXCEPT !.boot = @ \/ FullSync(t)]
        /\ log'[t] = "completed"
    BY <1>4 DEF CommitSync, SameConnection, TypeOK, StoreTypes
  <2> QED
    BY <2>1 DEF ConnInv, Commits, FullSync, TypeOK, StoreTypes
<1> QED
  BY <1>1, <1>2, <1>3, <1>4, ConnStep

\* bootstrap_completed is set by the commit of a full sync of this very connection and by
\* nothing else; only the loss of the row clears it.
THEOREM BootstrappedHonestly == Spec => BootstrappedByFullSync
<1>1. Init => ConnInv
  BY DEF Init, ConnInv
<1> QED
  BY <1>1, BootStep, TypeCorrect, PTL DEF Spec, BootstrappedByFullSync

-----------------------------------------------------------------------------
(***************************************************************************)
(* The log rows.                                                           *)
(***************************************************************************)
\* Until its bootstrap begins a reconciliation has a log row of its own only.
LogKindInv == \A t \in Tasks : kind[t] = "reconcile" \/ pc[t] = "nested" => log[t] = "none"

\* Only a task that runs can be in a cycle of lock waits.
LEMMA RaiseRuns ==
  ASSUME NEW t \in Tasks, Fail(t) \/ CommitRefused(t) \/ DeadlockAbort(t)
  PROVE  Raise(t) /\ pc[t] # "idle"
<1>1. CASE Fail(t) \/ CommitRefused(t)
  BY <1>1 DEF Fail, CommitRefused
<1>2. CASE DeadlockAbort(t)
  <2>1. Raise(t) /\ WaitsFor(t) # {}
    BY <1>2 DEF DeadlockAbort, Deadlocked
  <2>2. pc[t] = "idle" => ToPut(t) = {} /\ Doomed(t) = {}
    BY DEF ToPut, PutStage, Doomed, Targets
  <2>3. ToPut(t) = {} /\ Doomed(t) = {} => WaitsFor(t) = {}
    BY DEF WaitsFor
  <2> QED
    BY <2>1, <2>2, <2>3
<1> QED
  BY <1>1, <1>2

\* What a step does to the log rows and to what the tasks run.
LEMMA LogStep ==
  ASSUME TypeOK, [Next]_vars
  PROVE  \/ /\ UNCHANGED <<log, rlog, kind>>
            /\ \A t \in Tasks : pc'[t] = "nested" => pc[t] = "nested"
         \/ Restart
         \/ \E t \in Tasks :
              \/ Trigger(t) \/ CommitSync(t) \/ CommitUnlink(t) \/ CommitReconcile(t)
              \/ NestedBootstrap(t) \/ NestedWithoutConnection(t)
              \/ Raise(t) /\ pc[t] # "idle"
<1>1. CASE Environment
  BY <1>1 DEF Environment, OdooWrite, OdooUnlink, CreateConnection, DeleteConnection,
              RefuseHook, taskVars
<1>2. ASSUME NEW t \in Tasks, NEW p, p # "nested", UNCHANGED <<log, rlog, kind>>,
             pc' \in {pc, [pc EXCEPT ![t] = p]}
      PROVE  \A u \in Tasks : pc'[u] = "nested" => pc[u] = "nested"
  BY <1>2 DEF TypeOK, TaskTypes
<1>3. ASSUME NEW t \in Tasks,
             \/ Authenticate(t) \/ FetchEvents(t) \/ FetchRegistrations(t)
             \/ FetchOne(t) \/ FetchTickets(t) \/ FetchPartners(t) \/ FetchAnswers(t)
             \/ FetchEventIds(t) \/ FetchRegistrationIds(t)
      PROVE  /\ UNCHANGED <<log, rlog, kind>>
             /\ \A u \in Tasks : pc'[u] = "nested" => pc[u] = "nested"
  <2>1. UNCHANGED <<log, rlog, kind>>
    BY <1>3 DEF Authenticate, FetchEvents, FetchRegistrations, FetchPage, FetchOne, Fetch,
                FetchTickets, FetchPartners, FetchAnswers, FetchEventIds,
                FetchRegistrationIds, FetchIds, unchangedByRead
  <2>2. \E p : p # "nested" /\ pc' \in {pc, [pc EXCEPT ![t] = p]}
    BY <1>3 DEF Authenticate, FetchEvents, FetchRegistrations, FetchPage, FetchOne, Fetch, Goto,
                FetchTickets, FetchPartners, FetchAnswers, FetchEventIds,
                FetchRegistrationIds, FetchIds
  <2> QED
    BY <1>2, <2>1, <2>2
<1>4. ASSUME NEW t \in Tasks,
             \/ SelectLocalEvents(t) \/ SelectLocalRegistrations(t)
             \/ \E r \in Rows : Upsert(t, r)
             \/ UpsertsDone(t)
             \/ DeleteUnlinked(t) \/ DeleteStaleEvents(t) \/ DeleteStaleRegistrations(t)
      PROVE  /\ UNCHANGED <<log, rlog, kind>>
             /\ \A u \in Tasks : pc'[u] = "nested" => pc[u] = "nested"
  <2>1. UNCHANGED <<log, rlog, kind>>
    BY <1>4 DEF SelectLocalEvents, SelectLocalRegistrations, SelectLocal, Upsert, UpsertsDone,
                DeleteUnlinked, DeleteStaleEvents, DeleteStaleRegistrations, Delete,
                unchangedByWrite
  <2>2. \E p : p # "nested" /\ pc' \in {pc, [pc EXCEPT ![t] = p]}
    BY <1>4 DEF SelectLocalEvents, SelectLocalRegistrations, SelectLocal, Upsert, UpsertsDone,
                DeleteUnlinked, DeleteStaleEvents, DeleteStaleRegistrations, Delete, Goto
  <2> QED
    BY <1>2, <2>1, <2>2
<1>5. CASE UNCHANGED vars
  BY <1>5 DEF vars, taskVars
<1>6. ASSUME NEW t \in Tasks, Advance(t)
      PROVE  \/ /\ UNCHANGED <<log, rlog, kind>>
                /\ \A u \in Tasks : pc'[u] = "nested" => pc[u] = "nested"
             \/ CommitSync(t) \/ CommitUnlink(t) \/ CommitReconcile(t)
             \/ NestedBootstrap(t) \/ NestedWithoutConnection(t)
             \/ Raise(t) /\ pc[t] # "idle"
  BY <1>3, <1>4, <1>6, RaiseRuns DEF Advance
<1> QED
  BY <1>1, <1>5, <1>6, RaiseRuns DEF Next

LEMMA LogKindStep ==
  ASSUME TypeOK, Inv, LogKindInv, [Next]_vars PROVE LogKindInv'
<1>1. CASE /\ UNCHANGED <<log, rlog, kind>>
           /\ \A t \in Tasks : pc'[t] = "nested" => pc[t] = "nested"
  BY <1>1 DEF LogKindInv
<1>2. CASE Restart
  BY <1>2 DEF Restart, LoseTasks, LogKindInv
<1>3. ASSUME NEW t \in Tasks, Trigger(t) PROVE LogKindInv'
  <2>1. PICK k, r, p : Begin(t, k, r, p) /\ p # "nested"
    BY <1>3 DEF Trigger, StartBootstrap, StartResync, NightlyReconcile, ReceiveHook
  <2> QED
    BY <2>1 DEF Begin, LogKindInv, TypeOK, TaskTypes, StoreTypes
<1>4. ASSUME NEW t \in Tasks, End(t), \A u \in Tasks \ {t} : log'[u] = log[u] PROVE LogKindInv'
  BY <1>4 DEF End, LogKindInv, TypeOK, TaskTypes
<1>5. ASSUME NEW t \in Tasks,
             \/ CommitSync(t) \/ CommitUnlink(t) \/ NestedWithoutConnection(t) \/ Raise(t)
      PROVE  LogKindInv'
  BY <1>4, <1>5 DEF CommitSync, CommitUnlink, NestedWithoutConnection, Raise, TypeOK, StoreTypes
<1>6. ASSUME NEW t \in Tasks, CommitReconcile(t) PROVE LogKindInv'
  BY <1>6 DEF CommitReconcile, Goto, LogKindInv, TypeOK, TaskTypes
<1>7. ASSUME NEW t \in Tasks, NestedBootstrap(t) PROVE LogKindInv'
  BY <1>7 DEF NestedBootstrap, Goto, Inv, KindInv, LogKindInv, TypeOK, TaskTypes, StoreTypes
<1> QED
  BY <1>1, <1>2, <1>3, <1>5, <1>6, <1>7, LogStep

LEMMA FinishedLogsStep ==
  ASSUME TypeOK, Inv, LogKindInv, [Next]_vars, NEW t \in Tasks
  PROVE  LET begins == pc[t] = "idle" /\ pc'[t] # "idle"
         IN  /\ log[t] \in {"completed", "failed"} /\ log'[t] # log[t] => begins
             /\ rlog[t] \in {"completed", "failed"} /\ rlog'[t] # rlog[t] =>
                  \/ begins
                  \/ kind[t] = "nested" /\ rlog'[t] = "failed" /\ log'[t] # "completed"
<1> DEFINE begins == pc[t] = "idle" /\ pc'[t] # "idle"
           Stays  == /\ log[t] \in {"completed", "failed"} /\ log'[t] # log[t] => begins
                     /\ rlog[t] \in {"completed", "failed"} /\ rlog'[t] # rlog[t] =>
                          \/ begins
                          \/ kind[t] = "nested" /\ rlog'[t] = "failed" /\ log'[t] # "completed"
<1> SUFFICES Stays
  OBVIOUS
<1>1. CASE UNCHANGED <<log, rlog>>
  BY <1>1
<1>2. CASE Restart
  BY <1>2 DEF Restart
<1>3. ASSUME NEW u \in Tasks, u # t, Trigger(u) PROVE UNCHANGED <<log[t], rlog[t]>>
  BY <1>3 DEF Trigger, StartBootstrap, StartResync, NightlyReconcile, ReceiveHook, Begin,
              TypeOK, StoreTypes
<1>4. ASSUME NEW u \in Tasks, u # t,
             \/ CommitSync(u) \/ CommitUnlink(u) \/ CommitReconcile(u)
             \/ NestedBootstrap(u) \/ NestedWithoutConnection(u) \/ Raise(u)
      PROVE  UNCHANGED <<log[t], rlog[t]>>
  BY <1>4 DEF CommitSync, CommitUnlink, CommitReconcile, NestedBootstrap,
              NestedWithoutConnection, Raise, TypeOK, StoreTypes
<1>5. ASSUME Trigger(t) PROVE begins
  <2>1. PICK k, r, p : Begin(t, k, r, p) /\ p # "idle"
    BY <1>5 DEF Trigger, StartBootstrap, StartResync, NightlyReconcile, ReceiveHook
  <2> QED
    BY <2>1 DEF Begin, TypeOK, TaskTypes
<1>6. CASE CommitSync(t) \/ CommitUnlink(t)
  <2>1. log[t] = "running" /\ UNCHANGED rlog
    BY <1>6 DEF CommitSync, CommitUnlink, Inv, KindInv, LogInv, SyncSteps
  <2> QED
    BY <2>1
<1>7. CASE CommitReconcile(t)
  <2>1. rlog[t] = "running" /\ UNCHANGED log
    BY <1>7 DEF CommitReconcile, Inv, LogInv
  <2> QED
    BY <2>1
<1>8. CASE NestedBootstrap(t)
  BY <1>8 DEF NestedBootstrap, LogKindInv
<1>9. CASE NestedWithoutConnection(t)
  BY <1>9 DEF NestedWithoutConnection
<1>10. CASE Raise(t) /\ pc[t] # "idle"
  <2>1. CASE kind[t] = "reconcile"
    <3>1. rlog[t] = "running" /\ UNCHANGED log
      BY <1>10, <2>1 DEF Raise, Inv, LogInv
    <3> QED
      BY <3>1
  <2>2. CASE kind[t] # "reconcile" /\ pc[t] = "nested"
    <3>1. log[t] = "none" /\ UNCHANGED log
      BY <1>10, <2>2 DEF Raise, LogKindInv
    <3>2. kind[t] = "nested" /\ rlog'[t] = "failed"
      BY <1>10, <2>2 DEF Raise, Inv, KindInv, TypeOK, StoreTypes
    <3> QED
      BY <3>1, <3>2
  <2>3. CASE kind[t] # "reconcile" /\ pc[t] # "nested"
    <3>1. log[t] = "running" /\ log'[t] \in {"running", "failed"}
      BY <1>10, <2>3 DEF Raise, FailedLog, Inv, LogInv, TypeOK, StoreTypes
    <3>2. rlog'[t] = rlog[t] \/ (kind[t] = "nested" /\ rlog'[t] = "failed")
      BY <1>10, <2>3 DEF Raise, TypeOK, StoreTypes
    <3> QED
      BY <3>1, <3>2
  <2> QED
    BY <2>1, <2>2, <2>3
<1> QED
  BY <1>1, <1>2, <1>3, <1>4, <1>5, <1>6, <1>7, <1>8, <1>9, <1>10, LogStep

\* A log row that says "completed" or "failed" keeps saying so until the next run takes its
\* slot, but for a reconciliation whose inner bootstrap raises.
THEOREM FinishedLogsKept == Spec => FinishedLogsStay
<1>1. Init => LogKindInv
  BY DEF Init, LogKindInv
<1>2. TypeOK /\ Inv /\ LogKindInv /\ [Next]_vars => LogKindInv'
  BY LogKindStep
<1>3. Spec => [](TypeOK /\ Inv /\ LogKindInv)
  BY <1>1, <1>2, Invariant, PTL DEF Spec
<1>4. TypeOK /\ Inv /\ LogKindInv /\ [Next]_vars =>
        \A t \in Tasks :
          LET begins == pc[t] = "idle" /\ pc'[t] # "idle"
          IN  /\ log[t] \in {"completed", "failed"} /\ log'[t] # log[t] => begins
              /\ rlog[t] \in {"completed", "failed"} /\ rlog'[t] # rlog[t] =>
                   \/ begins
                   \/ kind[t] = "nested" /\ rlog'[t] = "failed" /\ log'[t] # "completed"
  BY FinishedLogsStep
<1> QED
  BY <1>3, <1>4, PTL DEF Spec, FinishedLogsStay
=============================================================================
