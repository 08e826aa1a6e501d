---------------------------- MODULE Participations ----------------------------
(***************************************************************************)
(* A participation as the aggregation takes it (schemas/export.py).        *)
(* Dates are day numbers, amounts whole cents.                             *)
(***************************************************************************)
EXTENDS Integers

CONSTANTS
  Pairs,  \* a parent and a child
  None    \* a participation without half_days

\* ParticipationSchema, after its validators.
Participation ==
  [pair : Pairs, confirmed : BOOLEAN, start : Int, end : Int,
   amount : Nat, half : Nat \cup {None}, days : Nat]

\* ceil(half_days / 2)
XmlDays(h) == (h + 1) \div 2
=============================================================================
