------------------------------ MODULE LocalExport ------------------------------
(***************************************************************************)
(* From the mirror to a declaration: which mirrored registrations of an    *)
(* income year become participations (services/export_from_local.py), and  *)
(* what the preview tells of them beforehand (services/export_preview.py), *)
(* while syncs commit to the mirror.                                       *)
(*                                                                         *)
(* An export reads the mirror in one SELECT, a preview in two, each of the *)
(* rows committed at that moment; what comes after does not depend on the  *)
(* mirror.  Previews write nothing, so one stands for any number of them.  *)
(* Instants are seconds from a midnight UTC.  A national number is Missing *)
(* (null or empty), Bad (validate_rrn refuses it) or valid.                *)
(***************************************************************************)
EXTENDS Integers

CONSTANTS
  Events, Registrations, Partners,
  Rrns,                \* valid national numbers
  Missing, Bad, None,
  FirstYear, LastYear,
  NewYear,             \* the first second of an income year
  Mirrors,             \* contents the mirror may have
  MaxCommits           \* bound on the commits of syncs

Years == FirstYear .. LastYear

\* A row is None where there is none, and so are a date that is NULL and the
\* partner of a registration without one (id 0).  A price that is NULL is 0.
EventRow == [begin : Int \cup {None}, end : Int \cup {None}]
RegistrationRow ==
  [event : Events, partner : Partners \cup {None}, open : BOOLEAN,
   parent : Rrns \cup {Missing, Bad}, child : Rrns \cup {Missing, Bad}, price : Int]
MirrorContents ==
  [events : [Events -> EventRow \cup {None}],
   regs : [Registrations -> RegistrationRow \cup {None}],
   partners : SUBSET Partners]

ASSUME LocalAssumption ==
  /\ Mirrors \subseteq MirrorContents
  /\ {Missing, Bad} \cap Rrns = {} /\ Missing # Bad
  /\ None \notin Int \cup Partners \cup EventRow \cup RegistrationRow
  /\ MaxCommits \in Nat
ASSUME CalendarAssumption ==
  /\ FirstYear \in Int /\ LastYear \in Int /\ FirstYear <= LastYear
  /\ NewYear \in [FirstYear .. LastYear + 1 -> Int]
  /\ \A y, z \in FirstYear .. LastYear + 1 : y < z => NewYear[y] < NewYear[z]

INSTANCE Participations WITH Pairs <- (Rrns \cup {Bad}) \X (Rrns \cup {Bad})

VARIABLES
  mirror,     \* the committed rows
  commits,    \* how many more syncs may commit
  preview,    \* where the preview is: "none", "listed" or "shown"
  year,       \* the year it is of
  listed,     \* registrations and why they are listed as invalid
  request,    \* registrations its fiches are made of
  problem,    \* its errors: "none", "raises" or "badRrn"
  outcome,    \* of the last export of each year
  declared,   \* and its participations, by registration
  fresh       \* history: what was read, and of which year, since a sync last committed

vars == <<mirror, commits, preview, year, listed, request, problem, outcome, declared, fresh>>

-----------------------------------------------------------------------------
(* Rows and their participations.                                          *)

Event(m, g) == m.events[m.regs[g].event]

\* The inner joins of a registration with its event and its partner.
Joined(m) ==
  {g \in Registrations : m.regs[g] # None /\ Event(m, g) # None /\ m.regs[g].partner \in m.partners}

\* Mutant: the day after the year belongs to it.
WithinOrNext(t, y) == t # None /\ NewYear[y] <= t /\ t <= NewYear[y + 1]
\* The income year is the one the last day of the event is in.
Within(t, y) == t # None /\ NewYear[y] <= t /\ t <= NewYear[y + 1] - 1
Selected(m, y) == {g \in Joined(m) : m.regs[g].open /\ Within(Event(m, g).end, y)}

\* What invalid_reasons_for_row says of a selected row, which has an end.
MissingReasons == {"parent missing", "child missing", "begin missing"}
BadReasons     == {"parent bad", "child bad"}
\* Mutant: a missing begin is no reason.
RrnReasonsOnly(m, g) ==
  {r \in MissingReasons \cup BadReasons :
    \/ r = "parent missing" /\ m.regs[g].parent = Missing
    \/ r = "parent bad"     /\ m.regs[g].parent = Bad
    \/ r = "child missing"  /\ m.regs[g].child = Missing
    \/ r = "child bad"      /\ m.regs[g].child = Bad}
Reasons(m, g) ==
  {r \in MissingReasons \cup BadReasons :
    \/ r = "parent missing" /\ m.regs[g].parent = Missing
    \/ r = "parent bad"     /\ m.regs[g].parent = Bad
    \/ r = "child missing"  /\ m.regs[g].child = Missing
    \/ r = "child bad"      /\ m.regs[g].child = Bad
    \/ r = "begin missing"  /\ Event(m, g).begin = None}

Day(t)  == t \div 86400
Hours(n) == 3600 * n

\* Mutant: a day too many.
HalfDaysOfOneMore(begin, end) ==
  LET days == Day(end) - Day(begin) + 2
  IN  CASE end - begin \in 0 .. Hours(days) - 1           -> 0
        [] end - begin \in Hours(days) .. Hours(4 * days) -> days
        [] OTHER                                          -> 2 * days
\* classify_event, and two a day where it gives nothing because end < begin.
HalfDays(begin, end) ==
  LET days == Day(end) - Day(begin) + 1
  IN  CASE end - begin \in 0 .. Hours(days) - 1           -> 0
        [] end - begin \in Hours(days) .. Hours(4 * days) -> days
        [] OTHER                                          -> 2 * days

\* A registration with a missing number or begin is skipped.
Included(m, y) ==
  {g \in Selected(m, y) :
     /\ m.regs[g].parent # Missing /\ m.regs[g].child # Missing
     /\ Event(m, g).begin # None}
ParticipationOf(m, g) ==
  LET begin == Day(Event(m, g).begin)
      end   == Day(Event(m, g).end)
  IN  [pair |-> <<m.regs[g].parent, m.regs[g].child>>, confirmed |-> TRUE,
       start |-> begin, end |-> end,
       amount |-> m.regs[g].price,
       half |-> HalfDays(Event(m, g).begin, Event(m, g).end),
       days |-> IF end - begin + 1 > 1 THEN end - begin + 1 ELSE 1]

\* The validators of ParticipationSchema; one that raises ends it all.
Accepted(p) == p.amount >= 0 /\ p.half >= 0 /\ p.start <= p.end

\* _build_request_from_local raises: nothing to declare, or a row the schema refuses.
\* Mutant: no validation.
RaisesWhenEmpty(m, y) == Included(m, y) = {}
Raises(m, y) ==
  Included(m, y) = {} \/ \E g \in Included(m, y) : ~Accepted(ParticipationOf(m, g))
\* Mutant: the numbers of the children only.
BadChildRrns(m, y) == \E g \in Included(m, y) : m.regs[g].child = Bad
BadRrns(m, y) == \E g \in Included(m, y) : Bad \in {m.regs[g].parent, m.regs[g].child}

\* What comes of it: a list, a preview, an export.
ListOf(m, y) ==
  {gr \in Selected(m, y) \X (MissingReasons \cup BadReasons) : gr[2] \in Reasons(m, gr[1])}
RequestOf(m, y) == IF Raises(m, y) THEN {} ELSE Included(m, y)
ProblemOf(m, y) ==
  IF Raises(m, y) THEN "raises" ELSE IF BadRrns(m, y) THEN "badRrn" ELSE "none"
OutcomeOf(m, y) == IF ProblemOf(m, y) = "none" THEN "good" ELSE ProblemOf(m, y)
DeclaredOf(m, y) ==
  [g \in IF ProblemOf(m, y) = "none" THEN Included(m, y) ELSE {} |-> ParticipationOf(m, g)]

-----------------------------------------------------------------------------
(* The mirror, the preview and the export.                                 *)

\* A sync commits (CommitSync, CommitUnlink, CommitReconcile of OdooMirror).
Commit ==
  /\ commits > 0
  /\ commits' = commits - 1
  /\ mirror' \in Mirrors
  /\ fresh' = {}
  /\ UNCHANGED <<preview, year, listed, request, problem, outcome, declared>>

\* The first SELECT of a preview.
ListInvalid(y) ==
  /\ preview \in {"none", "shown"}
  /\ preview' = "listed"
  /\ year' = y
  /\ listed' = ListOf(mirror, y)
  /\ request' = {}
  /\ problem' = "none"
  /\ fresh' = (fresh \cap {"export"} \X Years) \cup {<<"list", y>>}
  /\ UNCHANGED <<mirror, commits, outcome, declared>>

\* The second, and the fiches; a ValueError makes it an empty preview.
BuildPreview ==
  /\ preview = "listed"
  /\ preview' = "shown"
  /\ request' = RequestOf(mirror, year)
  /\ problem' = ProblemOf(mirror, year)
  /\ fresh' = fresh \cup {<<"request", year>>}
  /\ UNCHANGED <<mirror, commits, year, listed, outcome, declared>>

\* An export from the mirror, from its SELECT on.
Export(y) ==
  /\ outcome' = [outcome EXCEPT ![y] = OutcomeOf(mirror, y)]
  /\ declared' = [declared EXCEPT ![y] = DeclaredOf(mirror, y)]
  /\ fresh' = fresh \cup {<<"export", y>>}
  /\ UNCHANGED <<mirror, commits, preview, year, listed, request, problem>>

Nothing == [g \in {} |-> None]

Init ==
  /\ mirror \in Mirrors
  /\ commits = MaxCommits
  /\ preview = "none" /\ year = FirstYear
  /\ listed = {} /\ request = {} /\ problem = "none"
  /\ outcome = [y \in Years |-> "none"]
  /\ declared = [y \in Years |-> Nothing]
  /\ fresh = {}

Next ==
  \/ Commit
  \/ \E y \in Years : ListInvalid(y) \/ Export(y)
  \/ BuildPreview

Spec == Init /\ [][Next]_vars

-----------------------------------------------------------------------------
(* Properties.                                                             *)

\* Every variable keeps its type; what is declared passes ParticipationSchema.
TypeOK ==
  /\ mirror \in Mirrors
  /\ commits \in 0 .. MaxCommits
  /\ preview \in {"none", "listed", "shown"}
  /\ year \in Years
  /\ listed \subseteq Registrations \X (MissingReasons \cup BadReasons)
  /\ request \subseteq Registrations
  /\ problem \in {"none", "raises", "badRrn"}
  /\ outcome \in [Years -> {"none", "good", "raises", "badRrn"}]
  /\ DOMAIN declared = Years
  /\ \A y \in Years :
       /\ DOMAIN declared[y] \subseteq Registrations
       /\ \A g \in DOMAIN declared[y] : declared[y][g] \in Participation
  /\ fresh \subseteq {"list", "request", "export"} \X Years

\* Both halves of the preview have read the present mirror, and the second did not raise.
PreviewWhole ==
  /\ preview = "shown" /\ problem # "raises"
  /\ {<<"list", year>>, <<"request", year>>} \subseteq fresh

\* Open in the mirror, for an event that ends in the year.
Due(y) ==
  {g \in Registrations :
     /\ mirror.regs[g] # None /\ mirror.regs[g].open
     /\ Event(mirror, g) # None
     /\ Event(mirror, g).end # None
     /\ NewYear[y] <= Event(mirror, g).end /\ Event(mirror, g).end < NewYear[y + 1]}

\* Unless a sync commits between the two SELECTs of a preview, every open
\* registration of the year is shown in a fiche, or listed with something
\* missing, never both; only one without a mirrored partner is in neither
\* (list_invalid_registrations, _build_request_from_local: an inner join).
ListAndRequestAgree ==
  PreviewWhole =>
    \A g \in Due(year) :
      IF mirror.regs[g].partner \in mirror.partners
      THEN g \in request <=> \A r \in MissingReasons : <<g, r>> \notin listed
      ELSE g \notin request /\ \A r \in MissingReasons \cup BadReasons : <<g, r>> \notin listed

\* Nor between preview and export: the export is refused for its numbers
\* exactly when a registration in the fiches shown is listed, and otherwise
\* declares exactly those registrations (preview_export,
\* process_export_from_local).
PreviewForetellsExport ==
  PreviewWhole /\ <<"export", year>> \in fresh =>
    IF \E g \in request, r \in BadReasons : <<g, r>> \in listed
    THEN outcome[year] = "badRrn"
    ELSE outcome[year] = "good" /\ DOMAIN declared[year] = request

\* Exports of several years of one state of the mirror declare no
\* registration twice, and together all that are mirrored whole, open and of
\* an event that ends in these years (year_start, year_end).
EachYearOnce ==
  LET exported == {y \in Years : <<"export", y>> \in fresh}
  IN  /\ \A y, z \in exported : y # z => DOMAIN declared[y] \cap DOMAIN declared[z] = {}
      /\ exported = Years /\ (\A y \in Years : outcome[y] = "good") =>
           \A g \in Joined(mirror) :
             /\ mirror.regs[g].open
             /\ Missing \notin {mirror.regs[g].parent, mirror.regs[g].child}
             /\ None \notin {Event(mirror, g).begin, Event(mirror, g).end}
             /\ NewYear[FirstYear] <= Event(mirror, g).end
             /\ Event(mirror, g).end < NewYear[LastYear + 1]
             => \E y \in Years : g \in DOMAIN declared[y]

\* A declared participation counts no more days than its event has, and at
\* least half of them if the event lasts an hour a day (classify_event,
\* half_days_to_xml_days).
DeclaredDaysFit ==
  \A y \in Years : <<"export", y>> \in fresh =>
    \A g \in DOMAIN declared[y] :
      LET counted == XmlDays(declared[y][g].half)
          begin == Event(mirror, g).begin
          end   == Event(mirror, g).end
          days  == Day(end) - Day(begin) + 1
      IN  /\ counted <= days
          /\ end - begin >= Hours(days) => 2 * counted >= days
=============================================================================
