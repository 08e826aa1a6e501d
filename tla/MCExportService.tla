--------------------------- MODULE MCExportService ---------------------------
(***************************************************************************)
(* Instances of ExportService for TLC: up to two exports, each of its own  *)
(* organisation, and the list page of the first organisation.              *)
(***************************************************************************)
EXTENDS ExportService

CONSTANTS e1, e2, o1, o2

MCOrgOf == [e \in Exports |-> IF e = e1 THEN o1 ELSE o2]
MCViewers == {o1}
=============================================================================
