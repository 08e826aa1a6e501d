------------------------------ MODULE OdooMirror ------------------------------
(***************************************************************************)
(* The local mirror of one organisation's Odoo database and the background *)
(* syncs that write it (services/odoo_sync.py): the bootstrap, the webhook *)
(* sync of one record and the reconciliation, started by an administrator, *)
(* by Odoo or by the nightly scheduler.  Every sync runs as a coroutine of *)
(* one process; each remote call and each SQL statement is a point where   *)
(* the others, Odoo's users and the administrators may interleave.         *)
(*                                                                         *)
(* A record's contents are abstracted to a version: how often Odoo wrote   *)
(* it.  A mirrored registration row is made of several remote reads (the   *)
(* registration, its ticket price, its answers), so its ticket and answers *)
(* are records of their own, stored and deleted with the row.              *)
(*                                                                         *)
(* PostgreSQL runs at READ COMMITTED: a transaction's writes are invisible *)
(* to the others until it commits and lock the rows they touch.            *)
(***************************************************************************)
EXTENDS Integers, FiniteSets

CONSTANTS
  Events, Registrations, Partners,  \* records with a row of their own
  Tickets, Answers,                 \* records folded into a registration's row
  EventOf, PartnerOf,               \* the event and partner of a registration
  OwnerOf,                          \* the registration of a ticket or answer
  Position,                         \* a row's place in Odoo's result order, by version
  Batch,                            \* rows per page of get_events/get_registrations
  Tasks, NoTask, NoRecord,
  MaxVersion, MaxConnections,       \* bounds on the counters
  MaxChanges, MaxFaults, MaxManual  \* budgets of the environment

Details == Tickets \cup Answers
Rows    == Events \cup Registrations \cup Partners
Records == Rows \cup Details

ASSUME ConstantsAssumption ==
  /\ EventOf \in [Registrations -> Events]
  /\ PartnerOf \in [Registrations -> Partners]
  /\ OwnerOf \in [Details -> Registrations]
  /\ Batch \in Nat \ {0}
  /\ NoTask \notin Tasks
  /\ NoRecord \notin Records
  /\ MaxVersion \in Nat \ {0}
  /\ {MaxConnections, MaxChanges, MaxFaults, MaxManual} \subseteq Nat

\* A database holds finitely many records.
ASSUME FiniteAssumption == IsFiniteSet(Records)

\* Odoo's order is total.
ASSUME PositionAssumption ==
  /\ Position \in [Events \cup Registrations -> [1 .. MaxVersion -> Nat]]
  /\ \A q, r \in DOMAIN Position : \A v, w \in 1 .. MaxVersion :
       q # r /\ (q \in Events <=> r \in Events) => Position[q][v] # Position[r][w]

ASSUME KindsDisjoint ==
  /\ Events \cap (Registrations \cup Partners) = {}
  /\ Registrations \cap Partners = {}
  /\ Details \cap Rows = {}
  /\ Tickets \cap Answers = {}

Unread  == -1  \* not fetched by this task
NoWrite == -1  \* not written by this task's transaction
Absent  == 0   \* no such record, or no such row

VARIABLES
  odoo,      \* Odoo: [ver, live] of every record; an id is never used again
  hooks,     \* webhook calls under way to POST /webhooks/odoo/{org_id}
  mirror,    \* committed version of every row, Absent if there is none
  conn,      \* the odoo_connections row: exists, bootstrap_completed, identity
  pc, kind, target, connOf,  \* a task's position, function, record, connection
  got,       \* what a task has fetched
  pend,      \* the writes of a task's open transaction
  offset,    \* of the page a task fetches next
  seen,      \* ids a reconciliation found in Odoo
  stale,     \* ids it will delete
  log, rlog, \* odoo_sync_logs row of the task's bootstrap or webhook, of its reconciliation
  job,       \* the task the nightly job is waiting for
  left       \* what is left of the environment's budgets

VARIABLES    \* history, read by properties only
  base,      \* versions in Odoo when the task began
  moved,     \* rows other tasks committed since it began
  shifted    \* whether rows may have slipped to earlier pages since it began

taskVars    == <<pc, kind, target, connOf, got, pend, offset, seen, stale>>
historyVars == <<base, moved, shifted>>
vars == <<odoo, hooks, mirror, conn, taskVars, log, rlog, job, left, historyVars>>

-----------------------------------------------------------------------------
(* Types. *)

Hook      == [id : Rows, unlink : BOOLEAN]
Kind      == {"none", "bootstrap", "reconcile", "nested", "upsert", "unlink"}
LogStatus == {"none", "running", "completed", "failed"}
Location  == {"idle", "auth", "fetch",
              "events", "putEvents", "regs", "tickets", "partners",
              "putPartners", "answers", "putRegs", "commit",
              "delete", "commitDelete",
              "eventIds", "regIds", "localEvents", "localRegs",
              "deleteEvents", "deleteRegs", "nested"}

EnvironmentTypes ==
  /\ odoo \in [Records -> [ver : 0 .. MaxVersion, live : BOOLEAN]]
  /\ hooks \subseteq Hook
  /\ left \in [changes : 0 .. MaxChanges, faults : 0 .. MaxFaults,
               manual : 0 .. MaxManual]
StoreTypes ==
  /\ mirror \in [Records -> 0 .. MaxVersion]
  /\ conn \in [exists : BOOLEAN, boot : BOOLEAN, id : 0 .. MaxConnections]
  /\ log \in [Tasks -> LogStatus]
  /\ rlog \in [Tasks -> LogStatus]
  /\ job \in Tasks \cup {NoTask}
TaskTypes ==
  /\ pc \in [Tasks -> Location]
  /\ kind \in [Tasks -> Kind]
  /\ target \in [Tasks -> Rows \cup {NoRecord}]
  /\ connOf \in [Tasks -> 0 .. MaxConnections]
  /\ got \in [Tasks -> [Records -> -1 .. MaxVersion]]
  /\ pend \in [Tasks -> [Records -> -1 .. MaxVersion]]
  /\ offset \in [Tasks -> Nat]
  /\ seen \in [Tasks -> SUBSET Rows]
  /\ stale \in [Tasks -> SUBSET Rows]
HistoryTypes ==
  /\ base \in [Tasks -> [Records -> 0 .. MaxVersion]]
  /\ moved \in [Tasks -> SUBSET Records]
  /\ shifted \in [Tasks -> BOOLEAN]

TypeOK == EnvironmentTypes /\ StoreTypes /\ TaskTypes /\ HistoryTypes

-----------------------------------------------------------------------------
(* Odoo (external): its users create, write and unlink records.  Its       *)
(* automation calls the webhook for events, registrations and partners,    *)
(* not for tickets and answers; a call may be lost or overtaken.           *)

Live(r)    == odoo[r].live
Current(r) == IF Live(r) THEN odoo[r].ver ELSE Absent

\* A row and the ticket and answers stored in it.
Columns(r) == {r} \cup {d \in Details : OwnerOf[d] = r}

\* A write that Odoo's users can make: an event goes last, a registration needs its event.
CanCreate(r) ==
  /\ odoo[r].ver = 0
  /\ r \in Registrations => Live(EventOf[r])
  /\ r \in Details => Live(OwnerOf[r])
CanUnlink(r) ==
  /\ Live(r)
  /\ r \in Events => \A g \in Registrations : EventOf[g] = r => ~Live(g)

Spend(budget) ==
  /\ left[budget] > 0
  /\ left' = [left EXCEPT ![budget] = @ - 1]

\* Odoo's order of the answers; a write of r moves it, as the date of an event does.
Place(r) == Position[r][odoo[r].ver]
Moves(r) == Live(r) /\ Position[r][odoo[r].ver + 1] # Place(r)
\* Running tasks see rows behind r on earlier pages, or r itself.
Shift(happens) ==
  shifted' = [t \in Tasks |-> shifted[t] \/ (happens /\ pc[t] # "idle")]

\* The automation's call about r, which may get lost.
CallHook(r, unlink) ==
  \/ UNCHANGED hooks
  \/ r \in Rows /\ hooks' = hooks \cup {[id |-> r, unlink |-> unlink]}

OdooWrite(r) ==
  /\ Spend("changes")
  /\ CanCreate(r) \/ (Live(r) /\ odoo[r].ver < MaxVersion)
  /\ odoo' = [odoo EXCEPT ![r] = [ver |-> @.ver + 1, live |-> TRUE]]
  /\ CallHook(r, FALSE)
  /\ Shift(r \in DOMAIN Position /\ Moves(r))
  /\ UNCHANGED <<mirror, conn, taskVars, log, rlog, job, base, moved>>

OdooUnlink(r) ==
  /\ Spend("changes")
  /\ CanUnlink(r)
  /\ odoo' = [x \in Records |->
                IF x \in Columns(r) THEN [odoo[x] EXCEPT !.live = FALSE] ELSE odoo[x]]
  /\ CallHook(r, TRUE)
  /\ Shift(r \in DOMAIN Position)
  /\ UNCHANGED <<mirror, conn, taskVars, log, rlog, job, base, moved>>

-----------------------------------------------------------------------------
(* The connection, as the administrators create and delete it.             *)

\* upsert_connection without a row; an update of the row leaves all that is modelled here.
CreateConnection ==
  /\ ~conn.exists /\ conn.id < MaxConnections
  /\ conn' = [exists |-> TRUE, boot |-> FALSE, id |-> conn.id + 1]
  /\ UNCHANGED <<odoo, hooks, mirror, taskVars, log, rlog, job, left, historyVars>>

\* The mirror's rows stay.
DeleteConnection ==
  /\ conn.exists
  /\ Spend("manual")
  /\ conn' = [conn EXCEPT !.exists = FALSE, !.boot = FALSE]
  /\ UNCHANGED <<odoo, hooks, mirror, taskVars, log, rlog, job, historyVars>>

-----------------------------------------------------------------------------
(* A task's life: begin, open transaction, end.                            *)

NoReads  == [r \in Records |-> Unread]
NoWrites == [r \in Records |-> NoWrite]

\* Read the connection, insert and commit the log row with status "running".
Begin(t, k, r, first) ==
  /\ pc[t] = "idle" /\ conn.exists
  /\ pc' = [pc EXCEPT ![t] = first]
  /\ kind' = [kind EXCEPT ![t] = k]
  /\ target' = [target EXCEPT ![t] = r]
  /\ connOf' = [connOf EXCEPT ![t] = conn.id]
  /\ base' = [base EXCEPT ![t] = [x \in Records |-> Current(x)]]
  /\ IF k = "reconcile"
     THEN /\ rlog' = [rlog EXCEPT ![t] = "running"]
          /\ log' = [log EXCEPT ![t] = "none"]
     ELSE /\ rlog' = [rlog EXCEPT ![t] = "none"]
          /\ log' = [log EXCEPT ![t] = "running"]
  /\ UNCHANGED <<odoo, mirror, conn, got, pend, offset, seen, stale, moved, shifted>>

\* Another task's uncommitted write holds the row (external: PostgreSQL).
LockedBy(r, t) == {u \in Tasks \ {t} : pend[u][r] # NoWrite}

\* The coroutine ends: its session is closed, whatever it did not commit is gone.
End(t) ==
  /\ pc' = [pc EXCEPT ![t] = "idle"]
  /\ kind' = [kind EXCEPT ![t] = "none"]
  /\ target' = [target EXCEPT ![t] = NoRecord]
  /\ connOf' = [connOf EXCEPT ![t] = 0]
  /\ got' = [got EXCEPT ![t] = NoReads]
  /\ pend' = [pend EXCEPT ![t] = NoWrites]
  /\ offset' = [offset EXCEPT ![t] = 0]
  /\ seen' = [seen EXCEPT ![t] = {}]
  /\ stale' = [stale EXCEPT ![t] = {}]
  /\ job' = IF job = t THEN NoTask ELSE job
  /\ base' = [base EXCEPT ![t] = [r \in Records |-> Absent]]
  /\ shifted' = [shifted EXCEPT ![t] = FALSE]

\* COMMIT: the transaction's writes become the mirror's rows.
Written(t) == {r \in Records : pend[t][r] # NoWrite}
\* Mutant: the run's writes replace the table.
CommitOnlyWrites(t) == mirror' = pend[t]
CommitWrites(t) ==
  mirror' = [r \in Records |-> IF r \in Written(t) THEN pend[t][r] ELSE mirror[r]]
MovedBy(t, ended) ==
  moved' = [u \in Tasks |->
              CASE u = t /\ ended -> {}
                [] u # t /\ pc[u] # "idle" -> moved[u] \cup Written(t)
                [] OTHER -> moved[u]]

Goto(t, p) == pc' = [pc EXCEPT ![t] = p]

-----------------------------------------------------------------------------
(* What starts a task.                                                     *)

\* An administrator's start_bootstrap or start_resync; nothing excludes a running sync.
StartBootstrap(t) ==
  Spend("manual") /\ Begin(t, "bootstrap", NoRecord, "auth") /\ UNCHANGED <<hooks, job>>
StartResync(t) ==
  Spend("manual") /\ Begin(t, "reconcile", NoRecord, "auth") /\ UNCHANGED <<hooks, job>>

\* The webhook handler: 404 without a connection, else sync_one after the response.
ReceiveHook(t, h) ==
  /\ h \in hooks
  /\ hooks' = hooks \ {h}
  /\ IF h.unlink
     THEN Begin(t, "unlink", h.id, "delete")
     ELSE Begin(t, "upsert", h.id, "auth")
  /\ UNCHANGED <<job, left>>
RefuseHook(h) ==
  /\ h \in hooks /\ ~conn.exists
  /\ hooks' = hooks \ {h}
  /\ UNCHANGED <<odoo, mirror, conn, taskVars, log, rlog, job, left, historyVars>>

\* Mutant: the nightly job only bootstraps.
NightlyBootstrap(t) ==
  /\ conn.boot /\ job = NoTask
  /\ Begin(t, "bootstrap", NoRecord, "auth")
  /\ job' = t
  /\ UNCHANGED <<hooks, left>>

\* The nightly job reconciles a bootstrapped connection; it never overlaps itself.
NightlyReconcile(t) ==
  /\ conn.boot /\ job = NoTask
  /\ Begin(t, "reconcile", NoRecord, "auth")
  /\ job' = t
  /\ UNCHANGED <<hooks, left>>

-----------------------------------------------------------------------------
(* Remote reads.  Each returns Odoo's state at one moment.                 *)

FullSync(t) == kind[t] \in {"bootstrap", "nested"}
unchangedByRead == <<odoo, hooks, mirror, conn, kind, target, connOf, pend, stale,
                     log, rlog, job, left, historyVars>>

\* Keep the versions Odoo returns for the records asked for.
Read(t, asked) ==
  got' = [got EXCEPT ![t] = [r \in Records |->
            IF r \in asked THEN Current(r) ELSE got[t][r]]]

Authenticate(t) ==
  /\ pc[t] = "auth"
  /\ Goto(t, CASE FullSync(t) -> "events"
               [] kind[t] = "upsert" -> "fetch"
               [] OTHER -> "eventIds")
  /\ UNCHANGED <<unchangedByRead, got, offset, seen>>

\* search_read(limit=batch, offset=offset): a page of the order Odoo has at this moment.
Page(rows, from) ==
  {r \in rows : /\ Live(r)
                /\ LET before == {q \in rows : Live(q) /\ Place(q) < Place(r)}
                   IN  Cardinality(before) \in from .. from + Batch - 1}
\* Mutants: the offset is not advanced; it skips a row.
FetchSamePage(t, here, rows, next) ==
  /\ pc[t] = here
  /\ LET page == Page(rows, offset[t])
     IN  /\ Read(t, page)
         /\ IF Cardinality(page) < Batch THEN Goto(t, next) ELSE UNCHANGED pc
  /\ UNCHANGED <<unchangedByRead, offset, seen>>
FetchSkipping(t, here, rows, next) ==
  /\ pc[t] = here
  /\ LET page == Page(rows, offset[t])
     IN  /\ Read(t, page)
         /\ IF Cardinality(page) < Batch
            THEN Goto(t, next) /\ offset' = [offset EXCEPT ![t] = 0]
            ELSE UNCHANGED pc /\ offset' = [offset EXCEPT ![t] = @ + Batch + 1]
  /\ UNCHANGED <<unchangedByRead, seen>>
FetchPage(t, here, rows, next) ==
  /\ pc[t] = here
  /\ LET page == Page(rows, offset[t])
     IN  /\ Read(t, page)
         /\ IF Cardinality(page) < Batch
            THEN Goto(t, next) /\ offset' = [offset EXCEPT ![t] = 0]
            ELSE UNCHANGED pc /\ offset' = [offset EXCEPT ![t] = @ + Batch]
  /\ UNCHANGED <<unchangedByRead, seen>>
FetchEvents(t)        == FetchPage(t, "events", Events, "putEvents")
FetchRegistrations(t) == FetchPage(t, "regs", Registrations, "tickets")

Fetch(t, here, asked, next) ==
  /\ pc[t] = here
  /\ Read(t, asked)
  /\ Goto(t, next)
  /\ UNCHANGED <<unchangedByRead, offset, seen>>

\* Mutant: the payload of the webhook, as old as the write it was sent for.
TrustPayload(t) ==
  /\ pc[t] = "fetch"
  /\ \E v \in 1 .. odoo[target[t]].ver : got' = [got EXCEPT ![t][target[t]] = v]
  /\ Goto(t, CASE ~Live(target[t])             -> "commit"
               [] target[t] \in Events         -> "putEvents"
               [] target[t] \in Partners       -> "putPartners"
               [] OTHER                        -> "tickets")
  /\ UNCHANGED <<unchangedByRead, offset, seen>>

\* The one record of a webhook; nothing to do when Odoo no longer has it.
FetchOne(t) ==
  Fetch(t, "fetch", {target[t]},
        CASE ~Live(target[t])             -> "commit"
          [] target[t] \in Events         -> "putEvents"
          [] target[t] \in Partners       -> "putPartners"
          [] OTHER                        -> "tickets")

Fetched(t, rows) == {r \in rows : got[t][r] > 0}
FetchTickets(t) ==
  Fetch(t, "tickets", {d \in Tickets : OwnerOf[d] \in Fetched(t, Registrations)}, "partners")
FetchPartners(t) ==
  Fetch(t, "partners", {PartnerOf[g] : g \in Fetched(t, Registrations)}, "putPartners")
FetchAnswers(t) ==
  Fetch(t, "answers", {d \in Answers : OwnerOf[d] \in Fetched(t, Registrations)}, "putRegs")

\* Mutant: the second answer replaces the first.
FetchIdsAnew(t, here, rows, next) ==
  /\ pc[t] = here
  /\ seen' = [seen EXCEPT ![t] = {r \in rows : Live(r)}]
  /\ Goto(t, next)
  /\ UNCHANGED <<unchangedByRead, got, offset>>

\* search_ids has no limit: one answer with every id.
FetchIds(t, here, rows, next) ==
  /\ pc[t] = here
  /\ seen' = [seen EXCEPT ![t] = @ \cup {r \in rows : Live(r)}]
  /\ Goto(t, next)
  /\ UNCHANGED <<unchangedByRead, got, offset>>
FetchEventIds(t)        == FetchIds(t, "eventIds", Events, "regIds")
FetchRegistrationIds(t) == FetchIds(t, "regIds", Registrations, "localEvents")

-----------------------------------------------------------------------------
(* Statements of the task's transaction.                                   *)

unchangedByWrite == <<odoo, hooks, mirror, conn, kind, target, connOf, got, offset,
                      seen, log, rlog, job, left, historyVars>>

PutStage == [putEvents |-> Events, putPartners |-> Partners, putRegs |-> Registrations]
ToPut(t) == IF pc[t] \in DOMAIN PutStage
            THEN {r \in Fetched(t, PutStage[pc[t]]) : pend[t][r] = NoWrite}
            ELSE {}

\* Mutant: ON CONFLICT DO NOTHING.
InsertIfMissing(t, r) ==
  /\ r \in ToPut(t)
  /\ LockedBy(r, t) = {}
  /\ pend' = [pend EXCEPT ![t] = [x \in Records |->
                IF x \notin Columns(r) THEN pend[t][x]
                ELSE IF mirror[r] = Absent THEN got[t][x] ELSE mirror[x]]]
  /\ UNCHANGED <<unchangedByWrite, pc, stale>>

\* INSERT ... ON CONFLICT DO UPDATE of one row: overwrites whatever is committed there.  The
\* rows go in the order they were read, which differs from sync to sync: events go by date in
\* Odoo, partners come in the order of a Python set.
Upsert(t, r) ==
  /\ r \in ToPut(t)
  /\ LockedBy(r, t) = {}
  /\ pend' = [pend EXCEPT ![t] = [x \in Records |->
                IF x \in Columns(r) THEN got[t][x] ELSE pend[t][x]]]
  /\ UNCHANGED <<unchangedByWrite, pc, stale>>

UpsertsDone(t) ==
  /\ pc[t] \in DOMAIN PutStage /\ ToPut(t) = {}
  /\ Goto(t, CASE pc[t] = "putEvents" /\ FullSync(t)                -> "regs"
               [] pc[t] = "putPartners" /\ target[t] \notin Partners -> "answers"
               [] OTHER                                              -> "commit")
  /\ UNCHANGED <<unchangedByWrite, pend, stale>>

\* SELECT odoo_id: the committed rows, for the difference with Odoo's ids.
SelectLocal(t, here, rows, next) ==
  /\ pc[t] = here
  /\ stale' = [stale EXCEPT ![t] =
                 @ \cup ({r \in rows : mirror[r] # Absent} \ seen[t])]
  /\ Goto(t, next)
  /\ UNCHANGED <<unchangedByWrite, pend>>
SelectLocalEvents(t)        == SelectLocal(t, "localEvents", Events, "localRegs")
SelectLocalRegistrations(t) ==
  SelectLocal(t, "localRegs", Registrations, "deleteEvents")

\* DELETE ... WHERE odoo_id IN ids: removes the committed rows, waits for their locks.
Targets(t) == CASE pc[t] = "deleteEvents" -> stale[t] \cap Events
                [] pc[t] = "deleteRegs"   -> stale[t] \cap Registrations
                [] pc[t] = "delete"       -> {target[t]}
                [] OTHER                  -> {}
Doomed(t) == {r \in Targets(t) : mirror[r] # Absent}
Delete(t, here, next) ==
  /\ pc[t] = here
  /\ \A r \in Doomed(t) : LockedBy(r, t) = {}
  /\ pend' = [pend EXCEPT ![t] = [x \in Records |->
                IF \E r \in Doomed(t) : x \in Columns(r) THEN Absent ELSE pend[t][x]]]
  /\ Goto(t, next)
  /\ UNCHANGED <<unchangedByWrite, stale>>
DeleteUnlinked(t)           == Delete(t, "delete", "commitDelete")
DeleteStaleEvents(t)        == Delete(t, "deleteEvents", "deleteRegs")
\* Mutant: the reconciliation deletes events only.
KeepStaleRegistrations(t) ==
  pc[t] = "deleteRegs" /\ Goto(t, "commitDelete") /\ UNCHANGED <<unchangedByWrite, pend, stale>>
DeleteStaleRegistrations(t) == Delete(t, "deleteRegs", "commitDelete")

-----------------------------------------------------------------------------
(* The ends of a sync.                                                     *)

\* Mutant: the connection is looked up again by organisation.
AnyConnection(t) == conn.exists

\* Mark the connection, complete the log row and commit with all the upserts: the UPDATE
\* of the connection needs the very row the task read when it began.
SameConnection(t) == conn.exists /\ conn.id = connOf[t]
CommitSync(t) ==
  /\ pc[t] = "commit" /\ SameConnection(t)
  /\ CommitWrites(t) /\ MovedBy(t, TRUE)
  /\ conn' = [conn EXCEPT !.boot = @ \/ FullSync(t)]
  /\ log' = [log EXCEPT ![t] = "completed"]
  /\ End(t)
  /\ UNCHANGED <<odoo, hooks, rlog, left>>

\* The unlink webhook returns here.
CommitUnlink(t) ==
  /\ pc[t] = "commitDelete" /\ kind[t] = "unlink"
  /\ CommitWrites(t) /\ MovedBy(t, TRUE)
  /\ log' = [log EXCEPT ![t] = "completed"]
  /\ End(t)
  /\ UNCHANGED <<odoo, hooks, conn, rlog, left>>

\* The reconciliation completes its log row, commits its deletes and goes on to a bootstrap.
CommitReconcile(t) ==
  /\ pc[t] = "commitDelete" /\ kind[t] = "reconcile"
  /\ CommitWrites(t) /\ MovedBy(t, FALSE)
  /\ rlog' = [rlog EXCEPT ![t] = "completed"]
  /\ Goto(t, "nested")
  /\ kind' = [kind EXCEPT ![t] = "nested"]
  /\ pend' = [pend EXCEPT ![t] = NoWrites]
  /\ seen' = [seen EXCEPT ![t] = {}]
  /\ stale' = [stale EXCEPT ![t] = {}]
  /\ UNCHANGED <<odoo, hooks, conn, target, connOf, got, offset, log, job, left,
                 base, shifted>>

\* bootstrap_sync(org_id) in a session of its own; it returns at once without a connection.
NestedBootstrap(t) ==
  /\ pc[t] = "nested" /\ conn.exists
  /\ Goto(t, "auth")
  /\ connOf' = [connOf EXCEPT ![t] = conn.id]
  /\ log' = [log EXCEPT ![t] = "running"]
  /\ UNCHANGED <<odoo, hooks, mirror, conn, kind, target, got, pend, offset, seen, stale,
                 rlog, job, left, historyVars>>
NestedWithoutConnection(t) ==
  /\ pc[t] = "nested" /\ ~conn.exists
  /\ End(t) /\ moved' = [moved EXCEPT ![t] = {}]
  /\ UNCHANGED <<odoo, hooks, mirror, conn, log, rlog, left>>

\* At or after its first statement the session is in a transaction, until it commits.
InTransaction(t) ==
  \/ ToPut(t) # {}
  \/ \E r \in Records : pend[t][r] # NoWrite
  \/ pc[t] \in {"localEvents", "localRegs", "deleteEvents", "deleteRegs", "delete",
                "commit", "commitDelete"}

\* _finish_sync_log(error=...): after the rollback of an open transaction log.id is expired
\* and reading it raises, so the row keeps "running"; without one "failed" is written.
FailedLog(t, status) == IF InTransaction(t) THEN status ELSE "failed"

\* Mutant: the session commits what it has before it reports the error.
RaiseKeepingWrites(t) ==
  /\ log' = IF kind[t] = "reconcile" \/ pc[t] = "nested" THEN log
            ELSE [log EXCEPT ![t] = "failed"]
  /\ rlog' = IF kind[t] \in {"reconcile", "nested"} THEN [rlog EXCEPT ![t] = "failed"] ELSE rlog
  /\ CommitWrites(t)
  /\ End(t) /\ moved' = [moved EXCEPT ![t] = {}]
  /\ UNCHANGED <<odoo, hooks, conn>>

\* The except branch: roll back, write the log row, re-raise.  A nested bootstrap raises
\* into the reconciliation, whose own session is in no transaction after its commit.
Raise(t) ==
  /\ log' = IF kind[t] = "reconcile" \/ pc[t] = "nested" THEN log
            ELSE [log EXCEPT ![t] = FailedLog(t, @)]
  /\ rlog' = CASE kind[t] = "reconcile" -> [rlog EXCEPT ![t] = FailedLog(t, @)]
               [] kind[t] = "nested"    -> [rlog EXCEPT ![t] = "failed"]
               [] OTHER                 -> rlog
  /\ End(t) /\ moved' = [moved EXCEPT ![t] = {}]
  /\ UNCHANGED <<odoo, hooks, mirror, conn>>

\* Odoo or the database fails at any await.
Fail(t) == pc[t] # "idle" /\ Spend("faults") /\ Raise(t)

\* The connection was deleted meanwhile: its UPDATE matches no row (StaleDataError).
CommitRefused(t) == pc[t] = "commit" /\ ~SameConnection(t) /\ Raise(t) /\ UNCHANGED left

\* PostgreSQL (external) aborts a transaction in a cycle of lock waits.
WaitsFor(t) ==
  IF /\ ToPut(t) # {}
     /\ \A r \in ToPut(t) : LockedBy(r, t) # {}
  THEN UNION {LockedBy(r, t) : r \in ToPut(t)}
  ELSE UNION {LockedBy(r, t) : r \in Doomed(t)}
Deadlocked(t) ==
  \E S \in SUBSET Tasks : t \in S /\ \A u \in S : WaitsFor(u) \cap S # {}
DeadlockAbort(t) == Deadlocked(t) /\ Raise(t) /\ UNCHANGED left

\* The process ends and starts again: every coroutine is lost.
LoseTasks ==
  /\ Spend("faults")
  /\ pc' = [t \in Tasks |-> "idle"]
  /\ kind' = [t \in Tasks |-> "none"]
  /\ target' = [t \in Tasks |-> NoRecord]
  /\ connOf' = [t \in Tasks |-> 0]
  /\ got' = [t \in Tasks |-> NoReads]
  /\ pend' = [t \in Tasks |-> NoWrites]
  /\ offset' = [t \in Tasks |-> 0]
  /\ seen' = [t \in Tasks |-> {}]
  /\ stale' = [t \in Tasks |-> {}]
  /\ job' = NoTask
  /\ base' = [t \in Tasks |-> [r \in Records |-> Absent]]
  /\ moved' = [t \in Tasks |-> {}]
  /\ shifted' = [t \in Tasks |-> FALSE]
  /\ UNCHANGED <<odoo, hooks, mirror, conn>>

\* Mutant: the start-up fails every log row.
RestartFailingLogs ==
  LoseTasks /\ log' = [t \in Tasks |-> "failed"] /\ rlog' = [t \in Tasks |-> "failed"]
\* The start-up leaves the log rows as they are, "running" ones included.
Restart == LoseTasks /\ UNCHANGED <<log, rlog>>

-----------------------------------------------------------------------------
(* The specification.                                                      *)

\* Odoo may hold records before the connection is made.
Init ==
  /\ \E S \in SUBSET Records :
       /\ \A g \in S \cap Registrations : EventOf[g] \in S
       /\ \A d \in S \cap Details : OwnerOf[d] \in S
       /\ odoo = [r \in Records |-> IF r \in S THEN [ver |-> 1, live |-> TRUE]
                                              ELSE [ver |-> 0, live |-> FALSE]]
  /\ hooks = {}
  /\ mirror = [r \in Records |-> Absent]
  /\ conn = [exists |-> FALSE, boot |-> FALSE, id |-> 0]
  /\ pc = [t \in Tasks |-> "idle"]
  /\ kind = [t \in Tasks |-> "none"]
  /\ target = [t \in Tasks |-> NoRecord]
  /\ connOf = [t \in Tasks |-> 0]
  /\ got = [t \in Tasks |-> NoReads]
  /\ pend = [t \in Tasks |-> NoWrites]
  /\ offset = [t \in Tasks |-> 0]
  /\ seen = [t \in Tasks |-> {}]
  /\ stale = [t \in Tasks |-> {}]
  /\ log = [t \in Tasks |-> "none"]
  /\ rlog = [t \in Tasks |-> "none"]
  /\ job = NoTask
  /\ left = [changes |-> MaxChanges, faults |-> MaxFaults, manual |-> MaxManual]
  /\ base = [t \in Tasks |-> [r \in Records |-> Absent]]
  /\ moved = [t \in Tasks |-> {}]
  /\ shifted = [t \in Tasks |-> FALSE]

\* A step a running task takes by itself.
Advance(t) ==
  \/ Authenticate(t)
  \/ FetchEvents(t) \/ FetchRegistrations(t)
  \/ FetchOne(t) \/ FetchTickets(t) \/ FetchPartners(t) \/ FetchAnswers(t)
  \/ FetchEventIds(t) \/ FetchRegistrationIds(t)
  \/ SelectLocalEvents(t) \/ SelectLocalRegistrations(t)
  \/ \E r \in Rows : Upsert(t, r)
  \/ UpsertsDone(t)
  \/ DeleteUnlinked(t) \/ DeleteStaleEvents(t) \/ DeleteStaleRegistrations(t)
  \/ CommitSync(t) \/ CommitUnlink(t) \/ CommitReconcile(t) \/ CommitRefused(t)
  \/ NestedBootstrap(t) \/ NestedWithoutConnection(t)
  \/ DeadlockAbort(t)

Environment ==
  \/ \E r \in Records : OdooWrite(r) \/ OdooUnlink(r)
  \/ CreateConnection \/ DeleteConnection
  \/ \E h \in hooks : RefuseHook(h)
  \/ Restart

Trigger(t) ==
  \/ StartBootstrap(t) \/ StartResync(t) \/ NightlyReconcile(t)
  \/ \E h \in hooks : ReceiveHook(t, h)

Next ==
  \/ Environment
  \/ \E t \in Tasks : Trigger(t) \/ Advance(t) \/ Fail(t)

Spec == Init /\ [][Next]_vars

\* Remote calls and statements return or raise; PostgreSQL queues the waiters for a row lock,
\* so a task that can get its lock again and again gets it; 03:00 comes every night.
FairSpec ==
  /\ Spec
  /\ \A t \in Tasks : SF_vars(Advance(t))
  /\ WF_vars(\E t \in Tasks : NightlyReconcile(t))

-----------------------------------------------------------------------------
(* Properties.                                                             *)

\* The step in which t's full sync or webhook upsert commits.
Commits(t)       == pc[t] = "commit" /\ log'[t] = "completed"
\* The step in which a reconciliation ends well, its nested bootstrap committed.
ReconcileEnds(t) == Commits(t) /\ kind[t] = "nested"

\* No task holds or stores a version Odoo never had (all of odoo_sync.py: the webhook
\* fetches the record rather than trusting the payload, so a row is always a copy).
Provenance ==
  \A r \in Records :
    /\ mirror[r] <= odoo[r].ver
    /\ \A t \in Tasks : got[t][r] <= odoo[r].ver /\ pend[t][r] <= odoo[r].ver

\* A reconciliation's transaction deletes no row whose record existed in Odoo during the
\* whole run, and an unlink webhook none that still exists, whatever the order in which
\* ids, rows and webhooks were read (reconcile, sync_one).
DeletesJustified ==
  \A t \in Tasks : \A r \in Rows :
    pend[t][r] = Absent =>
      /\ kind[t] \in {"reconcile", "unlink"}
      /\ Live(r) => kind[t] = "reconcile" /\ base[t][r] = Absent

\* A sync is all or nothing: rows change only in the step that completes its log row, and
\* a sync that fails or dies half-way leaves no row behind (single commit at the end).
RowsChangeOnlyAtCompletion ==
  [][mirror' # mirror =>
       \E t \in Tasks :
         /\ \/ log[t] = "running" /\ log'[t] = "completed"
            \/ rlog[t] = "running" /\ rlog'[t] = "completed"
         /\ \A r \in Records \ Written(t) : mirror'[r] = mirror[r]]_vars

\* A full sync misses nothing: an event or registration, with its ticket and answers, that
\* was in Odoo when it began and is still there at its commit is mirrored in a version at
\* least as new as then, unless an unlink or a rewritten date shifted the pages under it
\* (bootstrap_sync).
FullSyncCovers ==
  [][\A t \in Tasks : Commits(t) /\ FullSync(t) /\ ~shifted[t] =>
       \A r \in Records \ Partners :
         base[t][r] # Absent /\ Live(r) => mirror'[r] >= base[t][r]]_vars

\* What a reconciliation promises: every event and registration that Odoo did not change
\* during the run is mirrored exactly at its end; one Odoo did not have is gone unless
\* another sync wrote its row meanwhile (reconcile with its nested bootstrap).
ReconcileExact ==
  [][\A t \in Tasks : ReconcileEnds(t) /\ ~shifted[t] =>
       \A r \in Events \cup Registrations :
         base[t][r] = Current(r) =>
           mirror'[r] = Current(r) \/ (~Live(r) /\ r \in moved[t])]_vars

\* The upserts are blind, so an older snapshot can overwrite a newer row; it does so only
\* over a row that another sync committed while this one was running.
NoRegressionWithoutOverlap ==
  [][\A t \in Tasks : Commits(t) =>
       \A r \in Rows : mirror'[r] < mirror[r] => r \in moved[t]]_vars

\* bootstrap_completed is set by a bootstrap of this very connection and by nothing else,
\* and only the loss of the row clears it: the nightly job relies on it.
BootstrappedByFullSync ==
  [][conn'.boot # conn.boot =>
       \/ ~conn'.exists
       \/ \E t \in Tasks : Commits(t) /\ FullSync(t) /\ connOf[t] = conn.id]_vars

\* A finished log row changes only when a new run takes the slot, or when the bootstrap
\* inside a reconciliation raises and the "completed" of its deletes becomes "failed".
FinishedLogsStay ==
  [][\A t \in Tasks :
       LET begins == pc[t] = "idle" /\ pc'[t] # "idle"
       IN  /\ log[t] \in {"completed", "failed"} /\ log'[t] # log[t] => begins
           /\ rlog[t] \in {"completed", "failed"} /\ rlog'[t] # rlog[t] =>
                \/ begins
                \/ kind[t] = "nested" /\ rlog'[t] = "failed" /\ log'[t] # "completed"]_vars

\* Lock waits and failures notwithstanding, every sync ends.
EverySyncEnds == \A t \in Tasks : []<>(pc[t] = "idle")

\* While a bootstrapped connection stays, the mirror of events and registrations ends up
\* equal to Odoo once Odoo, the administrators and the failures come to rest, whatever
\* webhooks were lost, overtaken or overwritten before (the nightly job).
MirrorExact ==
  \A r \in Events \cup Registrations :
    \A c \in Columns(r) : mirror[c] = Current(c)
Convergence == <>[]conn.boot => <>[]MirrorExact

-----------------------------------------------------------------------------
(* What the code says of itself and does not do.                           *)

\* reconcile's docstring: what it deletes is local and not in Odoo.
ReconcileDeletesOnlyWhatOdooLacks ==
  \A t \in Tasks : \A r \in Rows : pend[t][r] = Absent => ~Live(r)

\* _finish_sync_log's docstring: on an error the log row gets a fresh write, so a sync
\* that raised is not left behind as "running".
NoLogLeftRunning ==
  \A t \in Tasks : pc[t] = "idle" => log[t] # "running" /\ rlog[t] # "running"
=============================================================================
