----------------------------- MODULE ExportPromise -----------------------------
(***************************************************************************)
(* What the export API promises its clients, whatever happens inside: an   *)
(* accepted export is worked on, and settles at most once.  The XML file   *)
(* and the participations of a delivered export appear together, and only  *)
(* then.  ExportService is shown to implement this.                        *)
(***************************************************************************)
CONSTANT Exports

VARIABLES
  answer,    \* what the status endpoint tells of every export
  file,      \* exports whose XML can be downloaded
  archived   \* exports whose participations can be browsed
vars == <<answer, file, archived>>

Init ==
  /\ answer = [e \in Exports |-> "unknown"]
  /\ file = {}
  /\ archived = {}

Accept(e) ==
  /\ answer[e] = "unknown"
  /\ answer' = [answer EXCEPT ![e] = "working"]
  /\ UNCHANGED <<file, archived>>

Deliver(e) ==
  /\ answer[e] = "working"
  /\ answer' = [answer EXCEPT ![e] = "ready"]
  /\ file' = file \cup {e}
  /\ archived' = archived \cup {e}

\* Refused with a reason, or with an answer that cannot be read.
Refuse(e) ==
  /\ answer[e] = "working"
  /\ \E verdict \in {"refused", "broken"} : answer' = [answer EXCEPT ![e] = verdict]
  /\ UNCHANGED <<file, archived>>

Next == \E e \in Exports : Accept(e) \/ Deliver(e) \/ Refuse(e)

Spec == Init /\ [][Next]_vars
=============================================================================
