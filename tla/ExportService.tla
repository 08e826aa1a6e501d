----------------------------- MODULE ExportService -----------------------------
(***************************************************************************)
(* The life of an export: the request that creates its row, the background *)
(* task that turns a request or the mirror into the XML                    *)
(* (services/export_service.py, services/export_from_local.py), and the    *)
(* pages that poll it (api/v1/exports.py, api/v1/me.py and the frontend).  *)
(*                                                                         *)
(* What a task makes of its data depends only on the data's class:         *)
(*   good        fiches are made, XML and participations can be stored     *)
(*   badRrn      a national number is invalid                              *)
(*   noFiches    no participation is confirmed                             *)
(*   raises      building the request or the XML raises (no registration,  *)
(*               dates reversed, a character XML forbids)                  *)
(*   unstorable  PostgreSQL refuses a participation, as of an RRN written  *)
(*               with dots and dashes in its column of 11 characters       *)
(***************************************************************************)
EXTENDS Integers, FiniteSets

CONSTANTS
  Exports,
  Orgs, OrgOf,      \* the organisation of an export
  Admin,            \* the administrators' page, which lists all organisations
  Viewers,          \* the list pages that may be open
  Window,           \* exports a list answers with (200 in the code)
  MaxFaults         \* bound on failures of the process and the database

ASSUME ExportAssumption ==
  /\ IsFiniteSet(Exports)
  /\ OrgOf \in [Exports -> Orgs]
  /\ Admin \notin Orgs
  /\ Viewers \subseteq Orgs \cup {Admin}
  /\ Window \in Nat \ {0}
  /\ MaxFaults \in Nat

VARIABLES
  status, summary, xml, parts,  \* the export's row and its participations, as committed
  at,        \* created_at: how many exports were there before, -1 without a row
  task,      \* where the request and its background task are
  source,    \* what the task works from: "payload" (API client) or "local" (the mirror)
  held,      \* class of the data the task holds
  list,      \* the list pages: is there data
  shown,     \* the statuses a list page's data has
  detail,    \* the detail pages: closed, loading, error or the status of its data
  left,      \* failures that may still happen
  hurt       \* history: exports whose task was lost, or refused by the database

rowVars  == <<status, summary, xml, parts, at>>
taskVars == <<source, task, held>>
pageVars == <<list, shown, detail>>
vars == <<rowVars, taskVars, pageVars, left, hurt>>

Statuses == {"pending", "processing", "completed", "failed"}
PayloadData == {"good", "badRrn", "noFiches", "raises", "unstorable"}
\* A request built from the mirror has at least one participation, all of them confirmed.
LocalData   == {"good", "badRrn", "raises", "unstorable"}

TypeOK ==
  /\ status \in [Exports -> Statuses \cup {"none"}]
  /\ summary \in [Exports -> {"none", "errors", "full"}]
  /\ xml \in [Exports -> BOOLEAN]
  /\ parts \in [Exports -> BOOLEAN]
  /\ at \in [Exports -> Int]
  /\ source \in [Exports -> {"none", "payload", "local"}]
  /\ task \in [Exports -> {"none", "answering", "queued", "reading", "holding", "ended"}]
  /\ held \in [Exports -> PayloadData \cup {"none"}]
  /\ list \in [Viewers -> {"closed", "loading", "error", "data"}]
  /\ shown \in [Viewers -> [Exports -> Statuses \cup {"absent"}]]
  /\ detail \in [Exports -> Statuses \cup {"closed", "loading", "error"}]
  /\ left \in 0 .. MaxFaults
  /\ hurt \subseteq Exports

-----------------------------------------------------------------------------
(* The request and the background task.                                    *)

\* Insert the row with status "pending" and commit; the task is to follow the response.
Create(e) ==
  /\ status[e] = "none"
  /\ status' = [status EXCEPT ![e] = "pending"]
  /\ at' = [at EXCEPT ![e] = Cardinality({f \in Exports : status[f] # "none"})]
  /\ task' = [task EXCEPT ![e] = "answering"]
  /\ \/ /\ source' = [source EXCEPT ![e] = "payload"]
        /\ \E d \in PayloadData : held' = [held EXCEPT ![e] = d]
     \/ /\ source' = [source EXCEPT ![e] = "local"]
        /\ UNCHANGED held
  /\ UNCHANGED <<summary, xml, parts, pageVars, left, hurt>>

\* The client has its 202 and the background task may run.
Answer(e) ==
  /\ task[e] = "answering"
  /\ task' = [task EXCEPT ![e] = "queued"]
  /\ UNCHANGED <<rowVars, source, held, pageVars, left, hurt>>

\* Mutant: one export at a time.
StartAlone(e) ==
  /\ task[e] = "queued"
  /\ \A f \in Exports : status[f] # "processing"
  /\ status' = [status EXCEPT ![e] = "processing"]
  /\ task' = [task EXCEPT ![e] = IF source[e] = "local" THEN "reading" ELSE "holding"]
  /\ UNCHANGED <<summary, xml, parts, at, source, held, pageVars, left, hurt>>
\* The first commit, outside the try.
Start(e) ==
  /\ task[e] = "queued"
  /\ status' = [status EXCEPT ![e] = "processing"]
  /\ task' = [task EXCEPT ![e] = IF source[e] = "local" THEN "reading" ELSE "holding"]
  /\ UNCHANGED <<summary, xml, parts, at, source, held, pageVars, left, hurt>>

\* One SELECT joins registrations, events and partners as committed at this moment.
ReadLocal(e) ==
  /\ task[e] = "reading"
  /\ \E d \in LocalData : held' = [held EXCEPT ![e] = d]
  /\ task' = [task EXCEPT ![e] = "holding"]
  /\ UNCHANGED <<rowVars, source, pageVars, left, hurt>>

\* The task ends: its request is gone.
EndTask(e) ==
  /\ task' = [task EXCEPT ![e] = "ended"]
  /\ held' = [held EXCEPT ![e] = "none"]
  /\ source' = [source EXCEPT ![e] = "none"]
  /\ UNCHANGED <<at, pageVars, left>>

\* From the data to the last commit there is no await: the outcome is one step.
\* Invalid RRNs: the summary stored has no counts, which ExportSummary requires.
RejectRrns(e) ==
  /\ task[e] = "holding" /\ held[e] = "badRrn"
  /\ status' = [status EXCEPT ![e] = "failed"]
  /\ summary' = [summary EXCEPT ![e] = "errors"]
  /\ EndTask(e)
  /\ UNCHANGED <<xml, parts, hurt>>

\* Mutants: a status the response schema does not know; the commit is forgotten.
RefuseAsError(e) ==
  /\ task[e] = "holding" /\ held[e] \in {"noFiches", "raises"}
  /\ status' = [status EXCEPT ![e] = "error"]
  /\ EndTask(e)
  /\ UNCHANGED <<summary, xml, parts, hurt>>
RefuseSilently(e) ==
  /\ task[e] = "holding" /\ held[e] \in {"noFiches", "raises"}
  /\ EndTask(e)
  /\ UNCHANGED <<status, summary, xml, parts, hurt>>
\* No fiches, or the except branch.
Refuse(e) ==
  /\ task[e] = "holding" /\ held[e] \in {"noFiches", "raises"}
  /\ status' = [status EXCEPT ![e] = "failed"]
  /\ EndTask(e)
  /\ UNCHANGED <<summary, xml, parts, hurt>>

\* Mutants: the participations are committed later; the task is run again.
CompleteWithoutParts(e) ==
  /\ task[e] = "holding" /\ held[e] = "good"
  /\ status' = [status EXCEPT ![e] = "completed"]
  /\ summary' = [summary EXCEPT ![e] = "full"]
  /\ xml' = [xml EXCEPT ![e] = TRUE]
  /\ EndTask(e)
  /\ UNCHANGED <<parts, hurt>>
CompleteAndRetry(e) ==
  /\ task[e] = "holding" /\ held[e] = "good"
  /\ status' = [status EXCEPT ![e] = "completed"]
  /\ summary' = [summary EXCEPT ![e] = "full"]
  /\ xml' = [xml EXCEPT ![e] = TRUE]
  /\ parts' = [parts EXCEPT ![e] = TRUE]
  /\ task' = [task EXCEPT ![e] = "queued"]
  /\ UNCHANGED <<source, held, at, pageVars, left, hurt>>
Complete(e) ==
  /\ task[e] = "holding" /\ held[e] = "good"
  /\ status' = [status EXCEPT ![e] = "completed"]
  /\ summary' = [summary EXCEPT ![e] = "full"]
  /\ xml' = [xml EXCEPT ![e] = TRUE]
  /\ parts' = [parts EXCEPT ![e] = TRUE]
  /\ EndTask(e)
  /\ UNCHANGED hurt

\* The last flush fails.  The except branch commits without a rollback, which raises again
\* (PendingRollbackError): the row keeps "processing".
StoreFails(e) ==
  /\ task[e] = "holding" /\ held[e] = "unstorable"
  /\ EndTask(e)
  /\ hurt' = hurt \cup {e}
  /\ UNCHANGED <<status, summary, xml, parts>>

\* The database fails under any statement of the task: outside the try the task just ends,
\* inside it the except branch fails as above.
DatabaseFails(e) ==
  /\ left > 0 /\ task[e] \in {"queued", "reading", "holding"}
  /\ left' = left - 1
  /\ task' = [task EXCEPT ![e] = "ended"]
  /\ held' = [held EXCEPT ![e] = "none"]
  /\ source' = [source EXCEPT ![e] = "none"]
  /\ hurt' = hurt \cup {e}
  /\ UNCHANGED <<rowVars, pageVars>>

\* The process ends and starts again; nothing looks for unfinished rows.
Restart ==
  /\ left > 0
  /\ left' = left - 1
  /\ LET lost == {e \in Exports : task[e] \notin {"none", "ended"}}
     IN  /\ task' = [e \in Exports |-> IF e \in lost THEN "ended" ELSE task[e]]
         /\ held' = [e \in Exports |-> "none"]
         /\ source' = [e \in Exports |-> "none"]
         /\ hurt' = hurt \cup lost
  /\ UNCHANGED <<rowVars, pageVars>>

-----------------------------------------------------------------------------
(* What the endpoints answer.                                              *)

\* ExportSummary(**summary_json) raises on a summary without counts: 500.
Readable(e) == summary[e] # "errors"
StatusAnswer(e) ==
  CASE status[e] = "none"                   -> "unknown"
    [] ~Readable(e)                         -> "broken"
    [] status[e] \in {"pending", "processing"} -> "working"
    [] status[e] = "completed"              -> "ready"
    [] OTHER                                -> "refused"
XmlAnswered(e) == status[e] = "completed" /\ xml[e]

\* Mutant: the organisation is not filtered.
VisibleToAll(v) == {e \in Exports : status[e] # "none"}
Visible(v) == {e \in Exports : status[e] # "none" /\ (v = Admin \/ OrgOf[e] = v)}
\* ORDER BY created_at DESC LIMIT
Newest(v) ==
  {e \in Visible(v) : Cardinality({f \in Visible(v) : at[f] > at[e]}) < Window}

-----------------------------------------------------------------------------
(* The pages (react-query): a failed fetch keeps the data there is, and    *)
(* polling goes by the data's status.                                      *)

\* Mutant: a page polls until the work begins.
PollsUntilBegun == {"pending"}
Polled == {"pending", "processing"}

OpenList(v) ==
  /\ list[v] = "closed"
  /\ list' = [list EXCEPT ![v] = "loading"]
  /\ UNCHANGED <<rowVars, taskVars, shown, detail, left, hurt>>

\* One unreadable summary makes the whole list a 500.
ReadList(v) ==
  /\ list[v] # "closed"
  /\ IF \A e \in Newest(v) : Readable(e)
     THEN /\ list' = [list EXCEPT ![v] = "data"]
          /\ shown' = [shown EXCEPT ![v] =
                         [e \in Exports |-> IF e \in Newest(v) THEN status[e] ELSE "absent"]]
     ELSE /\ list' = [list EXCEPT ![v] = IF @ = "data" THEN @ ELSE "error"]
          /\ UNCHANGED shown
  /\ UNCHANGED <<rowVars, taskVars, detail, left, hurt>>

\* A user follows the link of a row in the list of the own organisation.
OpenDetail(e) ==
  /\ detail[e] = "closed"
  /\ \E v \in Viewers \ {Admin} : shown[v][e] # "absent"
  /\ detail' = [detail EXCEPT ![e] = "loading"]
  /\ UNCHANGED <<rowVars, taskVars, list, shown, left, hurt>>

ReadDetail(e) ==
  /\ detail[e] # "closed"
  /\ detail' = [detail EXCEPT ![e] =
                  IF Readable(e) THEN status[e]
                  ELSE IF @ \in Statuses THEN @ ELSE "error"]
  /\ UNCHANGED <<rowVars, taskVars, list, shown, left, hurt>>

\* A page with data fetches again every two seconds while this holds; any page may do so
\* when it is mounted or gets the focus.
ListPolls(v)   == list[v] = "loading" \/ \E e \in Exports : shown[v][e] \in Polled
DetailPolls(e) == detail[e] = "loading" \/ detail[e] \in Polled

-----------------------------------------------------------------------------
(* The specification.                                                      *)

Init ==
  /\ status = [e \in Exports |-> "none"]
  /\ summary = [e \in Exports |-> "none"]
  /\ xml = [e \in Exports |-> FALSE]
  /\ parts = [e \in Exports |-> FALSE]
  /\ at = [e \in Exports |-> -1]
  /\ source = [e \in Exports |-> "none"]
  /\ task = [e \in Exports |-> "none"]
  /\ held = [e \in Exports |-> "none"]
  /\ list = [v \in Viewers |-> "closed"]
  /\ shown = [v \in Viewers |-> [e \in Exports |-> "absent"]]
  /\ detail = [e \in Exports |-> "closed"]
  /\ left = MaxFaults
  /\ hurt = {}

\* What a request and its background task do by themselves.
Work(e) ==
  \/ Answer(e) \/ Start(e) \/ ReadLocal(e)
  \/ RejectRrns(e) \/ Refuse(e) \/ Complete(e) \/ StoreFails(e)

Next ==
  \/ \E e \in Exports : Create(e) \/ Work(e) \/ DatabaseFails(e)
  \/ Restart
  \/ \E v \in Viewers : OpenList(v) \/ ReadList(v)
  \/ \E e \in Exports : OpenDetail(e) \/ ReadDetail(e)

Spec == Init /\ [][Next]_vars

\* The event loop runs every ready coroutine; a page that stays open keeps its timer.
FairSpec ==
  /\ Spec
  /\ \A e \in Exports : WF_vars(Work(e)) /\ WF_vars(DetailPolls(e) /\ ReadDetail(e))
  /\ \A v \in Viewers : WF_vars(ListPolls(v) /\ ReadList(v))

-----------------------------------------------------------------------------
(* Properties.                                                             *)

\* Whoever reads the row sees one outcome: XML, participations and counts are there exactly
\* when it is completed, whatever failed or ended half-way (one commit at the end).
OutcomeConsistent ==
  \A e \in Exports :
    /\ status[e] = "completed" <=> xml[e]
    /\ xml[e] <=> parts[e]
    /\ parts[e] <=> summary[e] = "full"
    /\ summary[e] = "errors" => status[e] = "failed"

\* Nobody but its one task settles an export, so a client is never told two outcomes, and
\* what it can download or browse appears with the outcome.
Promise == INSTANCE ExportPromise WITH
  answer   <- [e \in Exports |-> StatusAnswer(e)],
  file     <- {e \in Exports : XmlAnswered(e)},
  archived <- {e \in Exports : parts[e]}
PromiseKept == Promise!Spec

Settled(e) == status[e] \in {"completed", "failed"}

\* No way out of the task forgets the row: a task that ended has settled it, unless it was
\* lost with the process or the database refused a statement.
NoExportForgotten ==
  \A e \in Exports : task[e] = "ended" => Settled(e) \/ e \in hurt

\* An export settles unless its task was lost with the process or the database refused its
\* data: no other path leaves a row "pending" or "processing".
ExportsSettle == \A e \in Exports : status[e] # "none" ~> Settled(e) \/ e \in hurt

\* A page that shows an export as being worked on follows it to its outcome, unless the row
\* never gets one or its answer cannot be read (the list: any answer of the own organisation).
DetailFollows ==
  \A e \in Exports :
    detail[e] \in {"pending", "processing"} ~>
      \/ detail[e] \in {"completed", "failed"} /\ detail[e] = status[e]
      \/ e \in hurt
      \/ StatusAnswer(e) = "broken"
ListFollows ==
  \A v \in Viewers, e \in Exports :
    shown[v][e] \in {"pending", "processing"} ~>
      \/ shown[v][e] \notin {"pending", "processing"}
      \/ e \in hurt
      \/ \E f \in Exports : (v = Admin \/ OrgOf[f] = v) /\ StatusAnswer(f) = "broken"

-----------------------------------------------------------------------------
(* What the code says of itself and does not do.                           *)

\* The detail page: "wordt verwerkt, pagina ververst automatisch", and a failed export is
\* shown as failed.  So a page does not go on showing an export that has failed as worked on.
PageShowsOutcome ==
  \A e \in Exports :
    detail[e] \in {"pending", "processing"} /\ Settled(e) ~> detail[e] = status[e]

\* An RRN may be written as YYMMDD-SSS-CC (rrn_validator), and the except branch means to
\* turn every exception into "failed".  So without a failure of the process or the database
\* every export settles.
EveryExportSettles == \A e \in Exports : status[e] # "none" ~> Settled(e)
=============================================================================
