---------------------------- MODULE MCLocalExport ----------------------------
(***************************************************************************)
(* Instances of LocalExport for TLC: two years, a camp whose dates vary    *)
(* around New Year, one in the first year, and a registration for each.    *)
(***************************************************************************)
EXTENDS LocalExport

CONSTANTS e1, e2, g1, g2, p1, r1, r2

MCNewYear == [y \in FirstYear .. LastYear + 1 |-> 365 * 86400 * (y - FirstYear)]

\* An hour of a day, counted from the second New Year.
At(day, hour) == NewYear[FirstYear + 1] + 86400 * day + Hours(hour)

\* One to three days; nights count as hours.
Camps ==
  {[begin |-> At(-1, 9),  end |-> At(-1, 9)],      \* without hours
   [begin |-> At(-1, 20), end |-> At(0, 0) - 1],   \* the last second of the year
   [begin |-> At(-1, 20), end |-> At(0, 0)],       \* the first of the next
   [begin |-> At(-1, 16), end |-> At(0, 0) + 1],   \* a second over four hours a day
   [begin |-> At(5, 9),   end |-> At(7, 17)],
   [begin |-> None,       end |-> At(-1, 12)],
   [begin |-> At(0, 9),   end |-> None]}

Registered(event, open, parent, child, price) ==
  [event |-> event, partner |-> p1, open |-> open, parent |-> parent, child |-> child, price |-> price]

First ==
  {Registered(e1, TRUE, r1, r2, 100), Registered(e1, FALSE, r1, r2, 100),
   Registered(e1, TRUE, Bad, r2, 100), Registered(e1, TRUE, r1, Missing, 100),
   Registered(e1, TRUE, r1, r2, -100)}
Second == {None, Registered(e2, TRUE, r1, Bad, 0), Registered(e2, TRUE, r1, r2, 0)}

MCMirrors ==
  {[events |-> [e \in Events |-> IF e = e1 THEN camp ELSE [begin |-> At(-90, 9), end |-> At(-90, 12)]],
    regs |-> [g \in Registrations |-> IF g = g1 THEN first ELSE second],
    partners |-> {p1}] : camp \in Camps, first \in First, second \in Second}
  \cup {[events |-> [e \in Events |-> IF e = e1 THEN None ELSE [begin |-> At(-90, 9), end |-> At(-90, 12)]],
         regs |-> [g \in Registrations |-> IF g = g1 THEN Registered(event, TRUE, Bad, r2, 0) ELSE second],
         partners |-> partners] : event \in Events, second \in Second, partners \in {{}, {p1}}}
=============================================================================
