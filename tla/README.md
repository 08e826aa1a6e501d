# Odoo2BOW: a TLA+ verification project

Odoo2BOW mirrors an organisation's Odoo events, registrations and partners in PostgreSQL, turns
the confirmed registrations of an income year into Belcotax fiches 281.86, and serves the result
as an XML declaration. This directory holds TLA+ modules of its core, TLC configurations that
check them on small instances, and TLAPS proofs for every value of their constants.

Paths below are relative to `src/backend/app/` unless they start with `src/`.

## 1. The system

### Components

| component | state | operations | hard behaviour | makes it correct |
|---|---|---|---|---|
| **Odoo sync** `services/odoo_sync.py` | mirror tables `odoo_events`, `odoo_registrations`, `odoo_partners`; `odoo_sync_logs` | `bootstrap_sync`, `sync_one`, `reconcile` | any number run at once as coroutines; each remote call and SQL statement is an await; blind upserts; one commit at the end; a reconcile commits, then runs a bootstrap in another session | rows are copies of what Odoo had; nothing that lives is deleted without cause; a sync is all or nothing; the mirror converges |
| **Odoo client** `services/odoo_client.py` | none | `authenticate`, paged `search_read`, reads by id | pages by offset over a changing list; a registration is pieced together from several calls | nothing that stays is skipped |
| **Connections, webhooks, nightly job** `services/odoo_connection_service.py`, `api/v1/webhooks.py`, `services/scheduler.py` | `odoo_connections` (URL, key, `bootstrap_completed`) | upsert, delete, test, start bootstrap, start resync; webhook; reconcile at 03:00 | webhooks are lost, late, reordered; the connection is deleted under a running sync | `bootstrap_completed` is honest; the nightly job repairs what webhooks missed |
| **Export service** `services/export_service.py`, `services/export_from_local.py`, `api/v1/exports.py`, `api/v1/me.py` | `exports`, `export_participations` | create (202), background task, status, list, XML | the task is lost with the process; an exception may come from the very commit that would report it | one outcome, told once, whole; no row forgotten |
| **Export pages** `src/frontend/src/app/(user)/me/exports` | react-query caches | open, poll, refetch | polling goes by the data a page has; a failed fetch keeps old data | a page follows an export to its outcome |
| **Aggregation** `services/aggregation.py`, `services/day_classifier.py` | none | group, cluster, at most two periods, totals | spans overlap and enclose; limits; rounding up per period | everything counts once, periods cut at the gaps |
| **Declaration and its preview** `services/xml_generator.py`, `services/export_preview.py` | none | write the file; show what will be in it | two copies of the same logic; rows in another order in each | the file adds up; the preview tells the file |
| **Local export and preview** `services/export_from_local.py`, `services/export_preview.py`, `services/day_classifier.py` | none | rows of the mirror to participations; list of invalid registrations; preview | reads the mirror while syncs commit, the preview in two SELECTs | the preview shows what the export will do |
| **National numbers** `services/rrn_validator.py` | none | check digits, date of birth | two centuries, BIS months | a number is read as it was issued |
| **Management API** `api/v1/{admins,users,tokens,auth,organizations,me_odoo,organizations_odoo}.py`, `api/deps.py`, `services/audit.py` | `admin_users`, `users`, `api_tokens`, `organizations`, `odoo_connections`, `audit_log` | create, update, delete, revoke, log in, each with an audit record | check-then-act in concurrent requests; unique indexes; accounts that vanish under their requests | an administrator is left; the log tells the tables; answers are true |
| **Answer parsing, XSD, read queries, bulk submission, migrations, other pages** | none | parse, validate, list | none of their own | not modelled, see section 10 |

### How they interact

```
 Odoo --webhook--> POST /webhooks/odoo/{org} --BackgroundTask--> sync_one --.
 scheduler 03:00 ------------------------------> reconcile --> bootstrap ---+--> mirror tables
 administrator --> start_bootstrap / start_resync --BackgroundTask----------'        |
                                                                            one SELECT (joins)
 user page / API client --> create export --BackgroundTask--> process_export[_from_local]
        ^                                                           |  request -> aggregate -> XML
        '---- status, list (polled every 2 s) <---- exports row <---'  one commit
```

All tasks are coroutines of one process, without a queue, lock or registry: nothing prevents two
syncs of one organisation, and nothing resumes a task after a restart. PostgreSQL runs at READ
COMMITTED, so a transaction's writes are invisible until it commits and lock their rows.

The repository's tests (763 lines) exercise pure functions: aggregation, mapper, RRN, XML and the
list of invalid registrations. Concurrency, failure and the life of a task have no test. The
hazards that follow from this are in `PROJECT.json`, each at its line; those that no property
covers yet say why.

## 2. Modules and plan

| # | module | contents | state |
|---|---|---|---|
| 1 | `OdooMirror` | sync, client, connection, webhook, nightly job, Odoo itself | done |
|   | `MCOdooMirror`, `OdooMirrorProofs` | instances; theorems | done |
|   | `MirrorCoverageProofs` | theorems about what a sequence of pages covers | done |
| 2 | `ExportPromise` | what the export API promises its clients | done |
|   | `ExportService` | rows, tasks, endpoints, pages; refines `ExportPromise` | done |
|   | `MCExportService`, `ExportServiceProofs` | instances; theorems, with the refinement | done |
| 3 | `Aggregation` | from participations to fiches | done |
|   | `SumProofs`, `AggregationProofs` | lemmas about sums over any finite set; theorems | done |
| 4 | `Participations` | the participation, input of 3 and output of `LocalExport` | done |
|   | `LocalExport` | which mirrored rows become participations, list of invalid ones, `classify_event`; preview against export while the mirror changes | done |
|   | `MCLocalExport`, `LocalExportProofs` | instances; theorems | done |
| 5 | `NationalNumbers` | check digits and dates of birth | done |
|   | `Declaration` | the XML file and its preview; extends 3 with `NationalNumbers` | done |
|   | `MCDeclaration`, `DeclarationProofs` | instances of 3 and 5; theorems | done |
| 6 | `Administration` | the management API: accounts, tokens, organisations, connections, audit log | done |
|   | `MCAdministration`, `AdministrationProofs` | instances; theorems | done |
| 7 | extension of `OdooMirror` | another Odoo database behind an updated connection, several organisations in one nightly run; an abstract mirror it refines | open |

The order follows importance: the mirror feeds everything and is where all the concurrency is; the
export service is what users wait for; the aggregation is what the tax office gets. `LocalExport`
stands between 1 and 3: its input is the mirror's rows, its output are participations, of which
`Participations` has the type that both it and `Aggregation` use. `Declaration` runs the actions of
`Aggregation` twice, for the preview and for the export. `Administration` stands by itself: the other
components read the rows it writes, and only the connection is written by both it and `OdooMirror`,
which looks at other columns of it.

## 3. OdooMirror

**State.** `odoo` is Odoo's database: for every record a version (how often it was written) and
whether it lives. `mirror` is the committed version of every mirrored row. Record contents are
abstracted to versions, since the properties ask only whether a row is present and how old it is.
A registration's row is made of several remote reads, so its ticket and answers are records of
their own (`Details`), stored and deleted with the row (`Columns`). `hooks` are webhook calls
under way. `conn` is the connection's row with an identity, so that a row deleted and created
again is another row. Per task: `pc`, `kind`, `target`, `connOf`, what it has fetched (`got`), the
writes of its open transaction (`pend`), `offset`, `seen`, `stale`; and the two log rows it may own
(`log`, `rlog`: a reconciliation and the bootstrap inside it have one each). `job` is the task the
nightly job awaits. `base`, `moved`, `shifted` are history variables, read by properties only.

**Actions.** One per await of the code:

| code | actions |
|---|---|
| `start_bootstrap`, `start_resync`, webhook handler, scheduler | `StartBootstrap`, `StartResync`, `ReceiveHook`, `RefuseHook`, `NightlyReconcile` |
| `client.authenticate` | `Authenticate` |
| `get_events`, `get_registrations` (a page each) | `FetchEvents`, `FetchRegistrations` |
| reads by id | `FetchOne`, `FetchTickets`, `FetchPartners`, `FetchAnswers` |
| `search_ids` | `FetchEventIds`, `FetchRegistrationIds` |
| `_upsert_*`, a statement per row | `Upsert`, `UpsertsDone` |
| `select(odoo_id)`, `delete(...)` | `SelectLocal*`, `DeleteStale*`, `DeleteUnlinked` |
| commits | `CommitSync`, `CommitUnlink`, `CommitReconcile` |
| `await bootstrap_sync` in `reconcile` | `NestedBootstrap`, `NestedWithoutConnection` |
| `except` branches | `Fail`, `CommitRefused` (StaleDataError), `DeadlockAbort` (PostgreSQL) |
| connection handlers, end of the process, Odoo's users | `CreateConnection`, `DeleteConnection`, `Restart`, `OdooWrite`, `OdooUnlink` |

A webhook's 202, the start of its task, the SELECT of the connection and the commit of the log row
are one step (`Begin`): until then a task has no effect, and a task lost before it is a webhook
lost, which `CallHook` allows. The questions and answer values are read with the answers they
belong to. A nightly run is one organisation's.

`FailedLog` models a detail of `_finish_sync_log`: after the rollback of an open transaction the
log object is expired (`expire_on_commit=False` in `database.py` concerns commits only), and
reading `log.id` then needs I/O outside the greenlet and raises. So the row stays "running" after
a failure in a transaction, and becomes "failed" after one outside.

**Properties.**

- `DeletesJustified`: a reconciliation deletes only what Odoo lacked at some moment of its run
  although ids, local rows and webhooks are read at different times; an unlink webhook only what
  is unlinked.
- `RowsChangeOnlyAtCompletion`: a sync is all or nothing.
- `FullSyncCovers`: a full sync misses nothing that was there when it began and still is, at a
  version at least as new as then, unless an unlink or a rewritten date shifted the pages under it.
  The exception is the code's: paging by offset skips a row when an earlier one disappears or goes
  to the back between two pages. `Position` gives each version its place in Odoo's order (events
  go by date, registrations by id).
- `ReconcileExact`: at the end of a reconciliation every event and registration that Odoo did not
  change meanwhile is mirrored exactly, or gone, unless another sync wrote its row.
- `NoRegressionWithoutOverlap`: an older version replaces a newer one only in a row another sync
  committed while this one ran. It does happen then: nothing compares write dates.
- `BootstrappedByFullSync`: `bootstrap_completed` is set only by the commit of a full sync of this
  very connection row.
- `FinishedLogsStay`: a finished log row is rewritten only when the bootstrap nested in a
  reconciliation raises. The code then turns the "completed" of the deletes into "failed".
- `EverySyncEnds`, `Convergence` (liveness): lock waits and failures notwithstanding every sync
  ends, and once Odoo, the administrators and the failures rest, the nightly job makes the mirror
  of events and registrations equal to Odoo whatever webhooks were lost.

## 4. ExportService and ExportPromise

`ExportPromise` is what a client may rely on: an accepted export is worked on and settles at most
once, and its file and its archived participations appear together with that outcome and only
then. `ExportService` is the code: the committed `exports` row (`status`, `summary`, `xml`,
`parts`, `at`), the request and background task (`task`, `source`, `held`), the list and detail
pages (`list`, `shown`, `detail`).

What a task makes of its data depends on the data's class only: *good*, *badRrn*, *noFiches*,
*raises*, *unstorable*. Between reading its data and its last commit a task has no await other
than the flush, so the outcome is one step: `RejectRrns`, `Refuse`, `Complete`, `StoreFails`.
`DatabaseFails` is a failure under any other statement and `Restart` the end of the process.
`Readable` models `ExportSummary(**summary_json)`, which raises on a summary without counts, and
`ReadList` that one such export makes the whole list a 500.

- `OutcomeConsistent`: XML, participations and counts are there exactly when an export is
  completed.
- `NoExportForgotten`: a task that ended has settled its row, unless it was lost or the database
  refused a statement (`hurt`, a history variable).
- `PromiseKept`: the service implements `ExportPromise`, with `StatusAnswer`, `XmlAnswered` and
  `parts` as the refinement mapping.
- `ExportsSettle`, `DetailFollows`, `ListFollows` (liveness): rows settle, and the pages that poll
  follow them, with the exceptions the code has spelled out in the formulas.

## 5. Aggregation, NationalNumbers and Declaration

**Aggregation.** The two loops of `aggregate` and the loop of `_cluster_periods` are the actions:
`Skip`, `Group`, `OpenCluster`, `AddToCluster`, `MakeFiche`. A participation is its index in the
request, a period the set of indices it sums, so figures are functions of sets (`Amount`, `Days`,
`Start`, `End`). Dates are day numbers. Amounts are whole cents; the code carries euro floats and
rounds each sum to cents, which loses nothing of whole cents below 2^53, and API amounts with
fractions of a cent are left out.

- `ClustersAreTheGaps`: the single pass, which compares only with the last day covered so far,
  cuts exactly where more than 31 days separate everything before from everything after. The
  reference definition (`Unbroken`, `AllApart`) knows no order and no pass.
- `PeriodsTellTheGaps`: period 1 is unbroken and lies over 31 days before period 2; period 2 hides
  a gap exactly when `too_many_periods` is given.
- `EachCountsOnce`: every confirmed participation is in exactly one period of the one fiche of its
  parent and child; nothing else is.

**NationalNumbers** has the two check digit rules, the BIS months and `datetime.date`'s own checks.
A number is a record of its five groups of digits; whatever is not eleven digits is outside
`NationalNumber`. The 2 before a number since 2000 is reduced modulo 97 first, to stay within TLC's
integers, which changes no remainder.

**Declaration** goes through the preview and then the export of one request (`phase`). `Aggregate`
takes a step of `Aggregation`; `ShowPreview` and `MakeXml` write what `preview_export` and
`generate_bow_xml` write, each from operators of its own (`PreviewFiche`, `PreviewTrailer` against
`XmlFiche`, `XmlTrailer`), as the code has them twice; `RefuseExport` is an export without a file.
Neither SELECT has an ORDER BY, so `ShowPreview` puts the rows in another of the `Orders` for the
export (`row` tells which row an index is). Requests with unconfirmed rows go to the export alone,
since only the API sends them. Constants, income year, wording and layout are left out.

- `PreviewTellsXml`: the docstring of `preview_export` promises that it "returns exactly what will be
  in the XML". The export is refused exactly when the preview shows errors, and otherwise fiches,
  periods, trailers, header and summary agree, whatever the order of the rows. Two things are
  allowed to differ because they do: fiches are numbered, and names and address taken, by the order
  the rows come in; and a missing contact, empty in the preview, is the organisation's name in the file.
  An empty preview shows no French or German block, whatever the organisation has.
- `DeclarationAddsUp`: control totals, summary amount, skipped count, and the days up to the
  rounding of half days, agree with the participations archived beside the declaration.
- `BirthDatesAsIssued`: a number is refused exactly when it was issued for no date; none was issued
  for two; and the date of birth in the file is the one it was issued for. `IssuedFor` is the
  reference: all dates of either century that the number may have been given to.

## 6. LocalExport

**State.** `mirror` is what the three mirror tables hold for one organisation: per event its begin
and end, per registration its event, partner, whether it is open, both national numbers and the
price, and which partners have a row. `preview`, `year`, `listed`, `request`, `problem` are a preview
under way, `outcome` and `declared` the last export of each year. `fresh` is a history variable: the
reads since which no sync has committed.

**Actions.** `Commit` is a commit of a sync (any content of `Mirrors` may follow any other);
`ListInvalid` and `BuildPreview` are the two SELECTs of `preview_export`; `Export` is
`process_export_from_local` from its SELECT on, which reads the mirror once. The joins and filters
(`Joined`, `Within`, `Selected`), the skipped rows (`Included`), the participations
(`ParticipationOf`, `HalfDays`), the validators of the schema (`Accepted`) and the reasons
(`Reasons`) are operators over a mirror. Instants are seconds UTC, as Odoo stores them, and the
process is taken to run in UTC, so a camp that ends at 00:30 in Brussels on New Year's Day belongs
to the old year. A begin after its end, which Odoo refuses, is kept, since the code handles it.

- `ListAndRequestAgree`: unless a sync commits between the two SELECTs, every open registration of
  the year is in the fiches, or listed with something missing, never both. The reference, `Due`,
  is written without joins. What it brings out: a registration without a mirrored partner is in
  neither, since both SELECTs join the partner.
- `PreviewForetellsExport`: an undisturbed export is refused exactly when the preview lists one of
  the registrations it shows, and otherwise declares what the preview showed. The preview shows
  fiches even when the export will make none; its `errors` tell.
- `EachYearOnce`: exports of one state of the mirror share no registration and leave none out. It is
  silent about a sync in between, after which an event moved to the next year is declared again.
- `DeclaredDaysFit`: the days declared are at most those of the event, and at least half of them
  when it lasts an hour a day.

## 7. Administration

**State.** All tables are one function `rows` from ids to rows with two columns besides their key:
what a column means depends on the row's kind (the module's header says how). A request names the
row that it inserts. `log` is `audit_log`. Per request: `pc`, the body (`ask`), the object its
session holds (`held`, `goal`), the answer (`status`). `during` is a history variable: the requests
that committed while this one was open.

**Actions.** A request goes through up to four steps, each a stretch between two awaits at which
others may commit:

| step | code | actions |
|---|---|---|
| authentication | `get_current_admin`, `get_current_user`, `get_current_principal` | `Authenticate` |
| checks | the SELECTs and early returns of each handler | one action per handler; `delete_admin` has two (`CountAdmins`, `DeleteAdmin`), log-in too (`LoginAsAdmin`, `LoginAsUser`) |
| flush, audit record, commit | `db.add`, assignment or `db.delete`, `log_action`, `db.commit` | `Insert`, `Update`, `Delete`, `StartSync` |
| `db.refresh` | the six operations that answer with the row | `Refresh` |

`create_user` and `revoke_token` have two SELECTs each in one step of checks: nothing is ever decided
on the pair of them that a commit in between could change, since organisations are never deleted.
Flush and commit are one step, since the row lock or the unique index makes a second writer wait from
the one to the other. What SQLAlchemy and PostgreSQL do is taken from how the code uses them: an
UPDATE names only the columns whose value changes (`Column`); one that matches no row raises
StaleDataError, hence a 500, while a DELETE that matches none only warns, so that two deletions of one
row both answer 204 and are both logged; the row of the caller is in the session already and is not
read again (`ResetAdminPassword`). `create_organization` makes no check of the KBO number and leaves
it to the index, so a taken number is a 500. `Restart` ends the process: open requests get no answer.

- `AdminRemains`: the last administrator can go in one way only, which is that of two deletions one
  commits between the other's count and commit.
- `LogTellsTheRows`: the audit log tells, at any time, which rows exist and which tokens are revoked:
  a change and its record are committed together or not at all.
- `AnswersTellTheTruth`: a success was recorded, a refusal was not; a 500 after the commit means that
  somebody deleted the row before it was read again, and any other 500 has a commit of somebody else
  as its cause, or a taken KBO number.
- `SerialWhenAlone`: a request that no commit falls into is served as if it were alone, by the
  reference `Serves` and `Done`: it succeeds exactly when it should, does what it asks to the row it
  means, and to no other. So whatever is wrong with an answer is a matter of overlap.

`ENCRYPTION_KEY` is taken to be set. Passwords are values, not hashes, and a JWT is the account it
names, with the kind that account had.

## 8. Runs

| run | question | bounds |
|---|---|---|
| `mirror_races` | two concurrent syncs of any kind against changing Odoo | 1 event, 1 registration, 1 partner; 2 tasks; 2 changes in Odoo, 1 manual action |
| `mirror_failures` | failures, restarts, connection deleted and created again under a sync; every sync ends, lock waits and cycles of waits notwithstanding | 2 events, 1 registration, 1 partner; 2 tasks, 1 fault, 2 connections, 3 manual actions |
| `mirror_converges` | the mirror converges under `FairSpec` | 1 event, 1 registration, 1 partner; 2 tasks, 1 change, 1 fault, 1 manual action, page of one row |
| `mirror_paging` | rows that appear, vanish, change or move between pages and between the reads of a row | 2 events, a registration with a ticket and an answer, page of one row, 1 task, 2 changes |
| `export_lifecycle` | the export service with one failure anywhere; refinement; liveness of rows and pages | 2 exports of 2 organisations, one list page, list of 1, 1 fault |
| `declaration` | preview and export of every request of three participations of two families, confirmed or not, and of four of one family; of a small one with national numbers and organisations of every kind | 7 spans that touch, overlap, enclose, and lie 30 to 32 days apart; 3 orders of rows; 43 numbers; 192 organisations |
| `local_export` | preview and exports of two years while a sync changes the mirror | 2 years, 117 mirrors of 2 registrations, 2 events, 1 partner; 1 commit |
| `administration` | three requests of every operation of the management API, in any interleaving, with restarts | 2 administrators, a user, an organisation, a token, a connection; 3 requests |
| `mirror_deletes_live`, `mirror_log_stuck`, `export_page_stuck`, `export_unstorable` | one statement of the repository each, which the code does not keep (section 11) | as small as shows it |

Why the bounds suffice. A version has to go from 1 to 2 for old and new to differ, two changes make
them cross with a webhook on the way, and two tasks are enough for every ordering of one sync's
reads and commit around another's; what a third task adds is one more commit between the same two
steps, which `moved` absorbs. Pages of one row make a second and a third page with one or two rows.
`MaxFaults` = 1 breaks any one step. A list of one export makes a second push the first out. Four
participations give three clusters, the case in which clusters are merged, and a span that encloses
two others. The mirrors of `local_export` vary an event around New Year and the limits of one and
four hours a day, and its registration through every reason; a second registration makes requests in
which one row is fine and the other is not. One commit separates any two reads. In `administration` three
requests are two that overlap and a third whose commit falls between them, or which made the row
they are about; `Together` asks operations of one group at a time, since operations of different
tables meet only in the account that asks, whose deletion is in three of the four groups. All budgets
(`MaxChanges`, `MaxManual`, `MaxFaults`, `MaxConnections`, `MaxVersion`, `Together`) bound the environment,
never a task.

Every run of the mirror and of the export service says `CHECK_DEADLOCK FALSE`: when the budgets are
spent and the tasks are done, the system rests; `Declaration` ends with its file and `Administration`
when every request is answered. Deadlock among
syncs is not hidden by this, since `EverySyncEnds` covers it. Tasks, and requests, are symmetric in
the runs without liveness.

**Fairness.** `OdooMirror!FairSpec` has strong fairness of each task's own steps: remote calls
return or raise, the event loop runs ready coroutines, and PostgreSQL queues the waiters of a row
lock, so a task whose lock is taken and given again and again gets it in the end (weak fairness
would let it starve). The nightly job is weakly fair: 03:00 comes every night. Nothing is assumed
of Odoo, webhooks, administrators or failures. The XML-RPC client sets no timeout, so that a remote
call returns is an assumption about Odoo and the network. `ExportService!FairSpec` has weak
fairness of each task and of the fetches of a page that polls, for pages that stay open.

Each property has a mutant in `PROJECT.json`: a changed form of a definition, written just before
it in the module, that a slip in the code would produce and under which TLC finds the property
violated. They show that a property depends on the code and is not vacuous.

## 9. Proofs

TLAPS checks the following for every value of the constants allowed by the named assumptions
(`ConstantsAssumption`, `KindsDisjoint`, `PositionAssumption`, `FiniteAssumption`;
`ExportAssumption`; `DeclarationAssumption`, `NoneAssumption`; `LocalAssumption`,
`CalendarAssumption`; `AdministrationAssumption`): any finite set of records, any tasks, page size
and budgets; any exports, pages and faults; any request of any length; any mirror and any calendar
of consecutive years; any tables and any number of requests. `FiniteAssumption` says that a database
holds finitely many records, without which no number of pages covers them; `NoneAssumption`, that
Python's `None` is not a period of a preview. Every property of the passing runs that is not
liveness has its theorem.

**OdooMirrorProofs**: `TypeCorrect`, `Invariant`, `ProvenanceHolds`, `DeletesAreJustified`,
`RowsChangeAtCompletion`, `NoRegression`, `BootstrappedHonestly`, `FinishedLogsKept`.
`DeletesJustified` is not inductive: that a delete is justified depends on what the task found in
Odoo several steps earlier. `Inv` therefore says, for each position of a task, what has been read
and what is open: ids Odoo had throughout the run are in `seen` once they were asked for, `stale`
avoids them, pending deletes come from `stale`; an idle task has no pending write; fetched, pending
and committed versions are ones Odoo has had (`Provenance`); and a row that is committed newer than
what a task holds of it is in that task's `moved`. Each action has a lemma that it keeps `Inv`; the
action properties follow from `Inv` and a lemma on the commits. `FinishedLogsKept` needs `LogKindInv`
besides: until its bootstrap begins, a reconciliation owns the log row of its own only.

**MirrorCoverageProofs**: `CoverInvariant`, `FullSyncsCover`, `ReconciliationExact`. `CoverInv` says
for each position of a task what its reads cover so far. `PagesInv`: of the rows that live since the
task began, those whose rank in Odoo's order is below `offset` are fetched at a version no older than
then, unless the pages shifted; once the pages are read, all of them are. `PutInv`: what is fetched
is written before the task goes on. `DeadInv` and `CleanInv`: what Odoo lacks was not listed, and at
the end of the deletes it is in no row, unless another sync wrote it. Two facts about pages carry the
proof. The ranks of n live rows are 0 .. n-1 without a gap (`RanksDiffer`, `EveryRank`), so a page
with fewer rows than asked for is the last one (`ShortPageIsLast`, by cardinality). And as long as
nothing vanishes or moves back, a rank only grows (`RanksGrow`), so a row not yet read cannot slip
below `offset`. `StartInv` and `DetailInv` hold the rest: a task starts at offset 0, and tickets
and answers live with their registration only.

**SumProofs** has no theorem of its own to list: it proves what `SumFunctionOnSet` of the community
modules does on a finite set of any size when the set grows by an element, is a disjoint union, is
renamed, or its function is a sum. The fold is a recursive function, and the library's induction
theorems take a predicate as parameter, so induction is done over a *set* instead (`CountingUp`,
`GrowingUp`), from the well-foundedness of the naturals; `PartialSums` and `SumsAgree` show that
the function the fold chooses exists and has one value.

**ExportServiceProofs**: `ServiceInvariant`, `ServiceTypeCorrect`, `OutcomesConsistent`,
`NoneForgotten`, `ServiceKeepsPromise`. The invariant says that the position of the one task of a
row determines what the row may hold, in particular that an unsettled row has neither XML,
participations nor summary; the refinement maps each step to an accept, a deliver, a refuse or a
stutter.

**AggregationProofs**: `TypesKept`, `Invariant`, `CutsAtTheGaps`, `FichesTellTheGaps`,
`CountedOnce`. `GroupsExact` says what the first loop has grouped. `ClustersExact` is the heart:
the last day covered is the end of a participation of the *last* cluster and no participation ends
later; what is still to do starts no earlier than anything clustered. A start within 31 days of
that day then extends an unbroken set to an unbroken set (`UnbrokenGrows`), and a later one lies
apart from every cluster. `FichesExact` carries this to the fiches; `SkippedExact` and
`WarningsExact` say what is left out and what is warned of. Two lemmas serve the declaration: a set
of participations has one split at its gaps only (`SplitOnce`), and a renaming of rows takes splits to
splits with the same figures (`SplitFound`, `FiguresFound`).

**DeclarationProofs**: `OneCentury` (a number that passes both rules would have 97 divide 2 * 10^9),
`IssuedOnce`, `DeclarationInvariant`, `DeclarationTyped`, `DeclarationCounts`, `DeclarationBirths`,
`DeclarationAdds`, `PreviewInvariant`, `PreviewTells`. The invariant takes `Inv` of the aggregation
through preview and export, of which the second starts anew on a request whose rows are a permutation
of the first's (`Reordered`), and adds that a file is the one generated from the finished aggregation,
of valid numbers only. `DeclarationAdds` then is about sums only: every archived participation is in
one fiche and in one period of it (`PartsAddUp`), so the amounts add up exactly, and rounding adds at
most half a day per period. `PreviewTells` compares two runs of the aggregation on differently ordered
rows, of which the state keeps one. `PreviewInv` therefore keeps of the first what any order of the
rows agrees with (`PreviewFits`): for each fiche shown there is a split of its pair's rows with these
periods and figures (`Tells`), which is as true of the reordered rows (`AllReordered`). At the end
the fiches of the file tell splits too; there is one split of a pair's rows, so each fiche
shown has a twin in the file (`TwinsExist`), and the totals, sums over twins, are equal (`TwinSums`).

**AdministrationProofs**: `AdministrationInvariant`, `AdministrationTyped`, `AdminsRemain`,
`LogIsComplete`, `AnswersAreTrue`, `AloneIsSerial`. None of the properties is inductive; the invariant
adds what a request may rely on at each of its steps. `Shape`: what row it is about, of which kind,
and that its own row is not there before its insert. `LogShape`: a record belongs to a request past its
commit. `Counted`: a deletion past its count knows of two administrators, unless a deletion was
committed meanwhile; finite cardinalities enter only here. `Fresh`: as long as nobody commits, what
a request has read is what there is, and a request past its checks is one that the reference serves.
`Truth` gives an error its cause when it happens and keeps it, since history only grows.

**LocalExportProofs**: `ReadsAreFresh`, `LocalTypeCorrect`, `ListAndRequestAlwaysAgree`,
`PreviewAlwaysForetells`, `EachYearDeclaresOnce`, `DeclaredDaysAlwaysFit`. The invariant `Fresh` says
that what was read since the last commit is what the mirror gives now; with it each property
becomes one about operators: `SkippedIsMissing` (what the request skips is what the list calls
missing), `SelectedIsDue`, `HalfDaysBounded`, `OneYear`, and `SomeYear`, which takes the last year that
has begun from the well-foundedness of the naturals.

**Only model-checked.** Liveness: `EverySyncEnds`, `Convergence`, `ExportsSettle`, `DetailFollows`,
`ListFollows`. They rest on fairness, whose ENABLED the prover does not expand.

## 10. Not modelled

- **Another Odoo database behind a connection**: a changed URL keeps `bootstrap_completed` and the rows
  of the old database. `Administration` updates the row; the mirror has one Odoo database. In the plan.
- **Several organisations in one nightly run**, one after another: in the plan. Rows of different
  organisations never meet, but a call that never returns stops those that follow.
- **HMAC signatures, encryption, hashing, API tokens of external callers, expiry of a JWT**: they only
  let a call through or not.
- **Testing a connection** writes nothing.
- **A partner whose unlink webhook is lost** stays mirrored for good, since `reconcile` compares events
  and registrations only (its docstring, `services/odoo_sync.py:389-390`, makes no exception).
  `Convergence` and `ReconcileExact` therefore speak of these two.
- **Answer parsing** (`services/odoo_mapper.py`): pure functions on strings, which find the answer
  that holds a number.
- **XSD validation** (its warnings are dropped by its callers), **read-only listings, bulk
  submission** (a stub), **migrations, other pages**: no state of their own that an interleaving
  could break.
- **Pages**: the administrators' detail page, leaving a page, and logging out on a 401.

## 11. Where the code and its own words differ

Each is the only property of a run that TLC finds violated.

1. `mirror_deletes_live`: Odoo's ids are read before the local ids, so a record created in between
   and mirrored by its webhook is deleted although it lives. The nested bootstrap puts it back,
   unless it fails.
2. `mirror_log_stuck`: `_finish_sync_log` means to write "failed" after an error; after a rollback it
   raises instead. Deleting the connection during a bootstrap is enough, without any fault.
3. `export_page_stuck`: an export refused for its RRNs stores a summary the response schema rejects,
   so its page, and the whole list it is in, keep showing it as being worked on.
4. `export_unstorable`: an RRN written with dots and dashes passes validation and is too long for
   its column; the `except` branch commits without a rollback and raises again, so the row stays
   "processing".

## 12. Running it

```
tlasany OdooMirror.tla
tlc -workers 2 -config MirrorRaces.cfg MCOdooMirror
tlapm OdooMirrorProofs.tla
```
