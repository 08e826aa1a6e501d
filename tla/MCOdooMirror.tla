---------------------------- MODULE MCOdooMirror ----------------------------
(***************************************************************************)
(* Instances of OdooMirror for TLC: one or two events, partners and        *)
(* registrations.  Registrations keep their order; an event goes behind    *)
(* the other when its date is written.                                     *)
(***************************************************************************)
EXTENDS OdooMirror, TLC

CONSTANTS e1, e2, g1, g2, p1, d1, d2, t1, t2

MCEventOf   == [g \in Registrations |-> e1]
MCPartnerOf == [g \in Registrations |-> p1]
MCOwnerOf   == [d \in Details |-> g1]
MCPosition  == [r \in Events \cup Registrations |->
                 [v \in 1 .. MaxVersion |->
                   CASE r \in Events -> 2 * v + (IF r = e1 THEN 0 ELSE 1)
                     [] r = g1       -> 0
                     [] OTHER        -> 1]]

TaskSymmetry == Permutations(Tasks)
=============================================================================
