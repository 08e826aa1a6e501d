--------------------------- MODULE LocalExportProofs ---------------------------
(***************************************************************************)
(* The properties of LocalExport, for any mirror, years and numbers.       *)
(***************************************************************************)
EXTENDS LocalExport, WellFoundedInduction, TLAPS

-----------------------------------------------------------------------------
(* What the operators give.                                                *)

LEMMA RowsTyped ==
  ASSUME NEW m \in Mirrors
  PROVE  /\ m.partners \subseteq Partners
         /\ \A g \in Registrations : m.regs[g] # None => m.regs[g] \in RegistrationRow
         /\ \A e \in Events : m.events[e] # None => m.events[e] \in EventRow
BY LocalAssumption DEF MirrorContents

LEMMA IncludedTyped ==
  ASSUME NEW m \in Mirrors, NEW y \in Years, NEW g \in Included(m, y)
  PROVE  /\ g \in Registrations
         /\ m.regs[g] \in RegistrationRow
         /\ Event(m, g).begin \in Int /\ Event(m, g).end \in Int
         /\ m.regs[g].parent \in Rrns \cup {Bad} /\ m.regs[g].child \in Rrns \cup {Bad}
         /\ m.regs[g].price \in Int
<1>1. g \in Registrations /\ m.regs[g] # None /\ Event(m, g) # None
  BY DEF Included, Selected, Joined
<1>2. m.regs[g] \in RegistrationRow
  BY <1>1, RowsTyped
<1>3. Event(m, g) \in EventRow
  BY <1>1, <1>2, RowsTyped DEF Event, RegistrationRow
<1>4. Event(m, g).begin # None /\ Event(m, g).end # None
  BY DEF Included, Selected, Within
<1>5. m.regs[g].parent # Missing /\ m.regs[g].child # Missing
  BY DEF Included
<1> QED
  BY <1>1, <1>2, <1>3, <1>4, <1>5 DEF EventRow, RegistrationRow

\* classify_event: no more half days than two a day, at least one a day from an hour a day on.
LEMMA HalfDaysBounded ==
  ASSUME NEW begin \in Int, NEW end \in Int, begin <= end
  PROVE  LET days == Day(end) - Day(begin) + 1
         IN  /\ days \in Nat \ {0}
             /\ HalfDays(begin, end) \in Nat
             /\ HalfDays(begin, end) <= 2 * days
             /\ end - begin >= Hours(days) => HalfDays(begin, end) >= days
<1> DEFINE days == Day(end) - Day(begin) + 1
<1>1. Day(begin) \in Int /\ Day(end) \in Int /\ Day(begin) <= Day(end)
  BY DEF Day
<1>2. days \in Nat \ {0}
  BY <1>1
<1>3. HalfDays(begin, end) = IF end - begin < Hours(days) THEN 0
                             ELSE IF end - begin \in Hours(days) .. Hours(4 * days) THEN days
                             ELSE 2 * days
  BY <1>2 DEF HalfDays, Hours
<1> HIDE DEF days
<1>4. HalfDays(begin, end) \in {0, days, 2 * days}
  BY <1>3
<1>5. end - begin >= Hours(days) => HalfDays(begin, end) \in {days, 2 * days}
  BY <1>2, <1>3 DEF Hours
<1> QED
  BY <1>2, <1>4, <1>5 DEF days

\* A participation the schema accepts has its type.
LEMMA ParticipationsTyped ==
  ASSUME NEW m \in Mirrors, NEW y \in Years, ~Raises(m, y), NEW g \in Included(m, y)
  PROVE  ParticipationOf(m, g) \in Participation
<1> DEFINE p == ParticipationOf(m, g)
<1>1. /\ Event(m, g).begin \in Int /\ Event(m, g).end \in Int
      /\ m.regs[g].parent \in Rrns \cup {Bad} /\ m.regs[g].child \in Rrns \cup {Bad}
      /\ m.regs[g].price \in Int
  BY IncludedTyped
<1>2. Accepted(p)
  BY DEF Raises
<1>3. p.start \in Int /\ p.end \in Int /\ p.days \in Nat
  BY <1>1 DEF ParticipationOf, Day
<1>4. p.half \in Int
  BY <1>1 DEF ParticipationOf, HalfDays, Day
<1>5. p.amount \in Int /\ p.amount >= 0 /\ p.half >= 0
  BY <1>1, <1>2 DEF ParticipationOf, Accepted
<1> QED
  BY <1>1, <1>3, <1>4, <1>5 DEF ParticipationOf, Participation

LEMMA ReadsTyped ==
  ASSUME NEW m \in Mirrors, NEW y \in Years
  PROVE  /\ ListOf(m, y) \subseteq Registrations \X (MissingReasons \cup BadReasons)
         /\ RequestOf(m, y) \subseteq Registrations
         /\ ProblemOf(m, y) \in {"none", "raises", "badRrn"}
         /\ OutcomeOf(m, y) \in {"good", "raises", "badRrn"}
         /\ DOMAIN DeclaredOf(m, y) \subseteq Registrations
         /\ \A g \in DOMAIN DeclaredOf(m, y) : DeclaredOf(m, y)[g] \in Participation
<1>1. Selected(m, y) \subseteq Registrations /\ Included(m, y) \subseteq Registrations
  BY DEF Included, Selected, Joined
<1>2. ListOf(m, y) \subseteq Registrations \X (MissingReasons \cup BadReasons)
  BY <1>1 DEF ListOf
<1>3. RequestOf(m, y) \subseteq Registrations
  BY <1>1 DEF RequestOf
<1>4. ProblemOf(m, y) \in {"none", "raises", "badRrn"} /\ OutcomeOf(m, y) \in {"good", "raises", "badRrn"}
  BY DEF ProblemOf, OutcomeOf
<1>5. ASSUME NEW g \in DOMAIN DeclaredOf(m, y)
      PROVE  g \in Registrations /\ DeclaredOf(m, y)[g] \in Participation
  <2>1. ProblemOf(m, y) = "none" /\ g \in Included(m, y)
        /\ DeclaredOf(m, y)[g] = ParticipationOf(m, g)
    BY DEF DeclaredOf
  <2>2. ~Raises(m, y)
    BY <2>1 DEF ProblemOf
  <2> QED
    BY <1>1, <2>1, <2>2, ParticipationsTyped
<1> QED
  BY <1>2, <1>3, <1>4, <1>5

-----------------------------------------------------------------------------
(* The inductive invariant: what is fresh is what the mirror gives now.    *)

Fresh ==
  /\ \A y \in Years : <<"list", y>> \in fresh =>
       year = y /\ preview # "none" /\ listed = ListOf(mirror, y)
  /\ \A y \in Years : <<"request", y>> \in fresh =>
       /\ year = y /\ preview = "shown"
       /\ request = RequestOf(mirror, y) /\ problem = ProblemOf(mirror, y)
  /\ \A y \in Years : <<"export", y>> \in fresh =>
       outcome[y] = OutcomeOf(mirror, y) /\ declared[y] = DeclaredOf(mirror, y)

LEMMA TypeInit == Init => TypeOK
<1> SUFFICES ASSUME Init PROVE TypeOK
  OBVIOUS
<1>1. FirstYear \in Years
  BY CalendarAssumption DEF Years
<1>2. \A y \in Years : DOMAIN declared[y] = {}
  BY DEF Init, Nothing
<1> QED
  BY <1>1, <1>2, LocalAssumption DEF Init, TypeOK

LEMMA TypeStep ==
  ASSUME TypeOK, [Next]_vars
  PROVE  TypeOK'
<1>1. CASE Commit
  BY <1>1, LocalAssumption DEF TypeOK, Commit
<1>2. ASSUME NEW y \in Years, ListInvalid(y) PROVE TypeOK'
  <2>1. ListOf(mirror, y) \subseteq Registrations \X (MissingReasons \cup BadReasons)
    BY ReadsTyped DEF TypeOK
  <2> QED
    BY <1>2, <2>1 DEF TypeOK, ListInvalid
<1>3. CASE BuildPreview
  <2>1. /\ RequestOf(mirror, year) \subseteq Registrations
        /\ ProblemOf(mirror, year) \in {"none", "raises", "badRrn"}
    BY ReadsTyped DEF TypeOK
  <2> QED
    BY <1>3, <2>1 DEF TypeOK, BuildPreview
<1>4. ASSUME NEW y \in Years, Export(y) PROVE TypeOK'
  <2>1. /\ OutcomeOf(mirror, y) \in {"none", "good", "raises", "badRrn"}
        /\ DOMAIN DeclaredOf(mirror, y) \subseteq Registrations
        /\ \A g \in DOMAIN DeclaredOf(mirror, y) : DeclaredOf(mirror, y)[g] \in Participation
    BY ReadsTyped DEF TypeOK
  <2>2. /\ DOMAIN declared' = Years
        /\ \A z \in Years : declared'[z] = IF z = y THEN DeclaredOf(mirror, y) ELSE declared[z]
    BY <1>4 DEF Export, TypeOK
  <2>3. ASSUME NEW z \in Years
        PROVE  /\ DOMAIN declared'[z] \subseteq Registrations
               /\ \A g \in DOMAIN declared'[z] : declared'[z][g] \in Participation
    BY <2>1, <2>2 DEF TypeOK
  <2>4. outcome' \in [Years -> {"none", "good", "raises", "badRrn"}]
    BY <1>4, <2>1 DEF Export, TypeOK
  <2> QED
    BY <1>4, <2>2, <2>3, <2>4 DEF TypeOK, Export
<1>5. CASE UNCHANGED vars
  BY <1>5 DEF TypeOK, vars
<1> QED
  BY <1>1, <1>2, <1>3, <1>4, <1>5 DEF Next

LEMMA FreshStep ==
  ASSUME TypeOK, Fresh, [Next]_vars
  PROVE  Fresh'
<1>1. CASE Commit
  BY <1>1 DEF Fresh, Commit
<1>2. ASSUME NEW y \in Years, ListInvalid(y) PROVE Fresh'
  <2>1. \A z \in Years : /\ <<"list", z>> \in fresh' => z = y
                         /\ <<"request", z>> \notin fresh'
                         /\ <<"export", z>> \in fresh' => <<"export", z>> \in fresh
    BY <1>2 DEF ListInvalid
  <2>2. /\ year' = y /\ preview' = "listed" /\ listed' = ListOf(mirror, y)
        /\ UNCHANGED <<mirror, outcome, declared>>
    BY <1>2 DEF ListInvalid
  <2> QED
    BY <2>1, <2>2 DEF Fresh
<1>3. CASE BuildPreview
  <2>1. /\ \A z \in Years : <<"list", z>> \in fresh' => <<"list", z>> \in fresh
        /\ \A z \in Years : <<"export", z>> \in fresh' => <<"export", z>> \in fresh
        /\ \A z \in Years : <<"request", z>> \in fresh' => <<"request", z>> \in fresh \/ z = year
    BY <1>3 DEF BuildPreview
  <2>2. /\ preview = "listed" /\ preview' = "shown"
        /\ request' = RequestOf(mirror, year) /\ problem' = ProblemOf(mirror, year)
        /\ UNCHANGED <<mirror, year, listed, outcome, declared>>
    BY <1>3 DEF BuildPreview
  <2>3. \A z \in Years : <<"request", z>> \notin fresh
    BY <2>2 DEF Fresh
  <2> QED
    BY <2>1, <2>2, <2>3 DEF Fresh
<1>4. ASSUME NEW y \in Years, Export(y) PROVE Fresh'
  <2>1. /\ \A z \in Years : <<"list", z>> \in fresh' => <<"list", z>> \in fresh
        /\ \A z \in Years : <<"request", z>> \in fresh' => <<"request", z>> \in fresh
        /\ \A z \in Years : <<"export", z>> \in fresh' => <<"export", z>> \in fresh \/ z = y
    BY <1>4 DEF Export
  <2>2. /\ UNCHANGED <<mirror, year, preview, listed, request, problem>>
        /\ \A z \in Years : outcome'[z] = IF z = y THEN OutcomeOf(mirror, y) ELSE outcome[z]
        /\ \A z \in Years : declared'[z] = IF z = y THEN DeclaredOf(mirror, y) ELSE declared[z]
    BY <1>4 DEF Export, TypeOK
  <2> QED
    BY <2>1, <2>2 DEF Fresh
<1>5. CASE UNCHANGED vars
  BY <1>5 DEF Fresh, vars
<1> QED
  BY <1>1, <1>2, <1>3, <1>4, <1>5 DEF Next

\* What a preview or an export has read since the last commit of a sync is what the mirror
\* gives now: each reads committed rows in one SELECT.
THEOREM ReadsAreFresh == Spec => [](TypeOK /\ Fresh)
<1>1. Init => TypeOK /\ Fresh
  BY TypeInit DEF Init, Fresh
<1>2. TypeOK /\ Fresh /\ [Next]_vars => (TypeOK /\ Fresh)'
  BY TypeStep, FreshStep
<1> QED
  BY <1>1, <1>2, PTL DEF Spec

\* Every variable keeps its type, and what is declared passes ParticipationSchema.
THEOREM LocalTypeCorrect == Spec => []TypeOK
  BY ReadsAreFresh, PTL

-----------------------------------------------------------------------------
(* The preview.                                                            *)

\* What PreviewWhole says of the mirror.
LEMMA WholePreview ==
  ASSUME TypeOK, Fresh, PreviewWhole
  PROVE  /\ mirror \in Mirrors /\ year \in Years
         /\ listed = ListOf(mirror, year)
         /\ request = Included(mirror, year)
         /\ problem = ProblemOf(mirror, year) /\ ~Raises(mirror, year)
<1>1. mirror \in Mirrors /\ year \in Years
  BY DEF TypeOK
<1>2. /\ listed = ListOf(mirror, year)
      /\ request = RequestOf(mirror, year) /\ problem = ProblemOf(mirror, year)
  BY <1>1 DEF Fresh, PreviewWhole
<1>3. ~Raises(mirror, year)
  BY <1>2 DEF PreviewWhole, ProblemOf
<1> QED
  BY <1>1, <1>2, <1>3 DEF RequestOf

\* Of a selected row the list tells each reason there is.
LEMMA ListTells ==
  ASSUME NEW m, NEW y, NEW g, NEW r \in MissingReasons \cup BadReasons
  PROVE  <<g, r>> \in ListOf(m, y) <=> g \in Selected(m, y) /\ r \in Reasons(m, g)
BY DEF ListOf

\* A selected row is skipped exactly when a reason says that something is missing.
LEMMA SkippedIsMissing ==
  ASSUME NEW m, NEW y, NEW g \in Selected(m, y)
  PROVE  g \in Included(m, y) <=> \A r \in MissingReasons : r \notin Reasons(m, g)
<1>1. /\ "parent missing" \in Reasons(m, g) <=> m.regs[g].parent = Missing
      /\ "child missing" \in Reasons(m, g) <=> m.regs[g].child = Missing
      /\ "begin missing" \in Reasons(m, g) <=> Event(m, g).begin = None
  BY DEF Reasons, MissingReasons, BadReasons
<1> QED
  BY <1>1 DEF Included, MissingReasons

LEMMA BadIsListed ==
  ASSUME NEW m, NEW g
  PROVE  Bad \in {m.regs[g].parent, m.regs[g].child} <=> \E r \in BadReasons : r \in Reasons(m, g)
BY DEF Reasons, MissingReasons, BadReasons

\* Due, the reference definition, against the joins and filters of the two SELECTs.
LEMMA SelectedIsDue ==
  ASSUME TypeOK, NEW y \in Years
  PROVE  Selected(mirror, y) = {g \in Due(y) : mirror.regs[g].partner \in mirror.partners}
<1>1. ASSUME NEW g \in Registrations, Event(mirror, g).end # None,
             mirror.regs[g] # None, Event(mirror, g) # None
      PROVE  Event(mirror, g).end \in Int
  <2>1. mirror.regs[g] \in RegistrationRow /\ Event(mirror, g) \in EventRow
    BY <1>1, RowsTyped DEF TypeOK, Event, RegistrationRow
  <2> QED
    BY <1>1, <2>1 DEF EventRow
<1>2. NewYear[y] \in Int /\ NewYear[y + 1] \in Int
  BY CalendarAssumption DEF Years
<1>3. ASSUME NEW g \in Registrations, mirror.regs[g] # None, Event(mirror, g) # None
      PROVE  Within(Event(mirror, g).end, y) <=>
               /\ Event(mirror, g).end # None
               /\ NewYear[y] <= Event(mirror, g).end /\ Event(mirror, g).end < NewYear[y + 1]
  BY <1>1, <1>2, <1>3 DEF Within
<1> QED
  BY <1>3 DEF Selected, Joined, Due

\* Undisturbed, the list and the fiches of a preview account for every open registration of the
\* year that has its partner, each in exactly one way.
THEOREM ListAndRequestAlwaysAgree == Spec => []ListAndRequestAgree
<1>1. TypeOK /\ Fresh => ListAndRequestAgree
  <2> SUFFICES ASSUME TypeOK, Fresh, PreviewWhole, NEW g \in Due(year)
               PROVE  IF mirror.regs[g].partner \in mirror.partners
                      THEN g \in request <=> \A r \in MissingReasons : <<g, r>> \notin listed
                      ELSE /\ g \notin request
                           /\ \A r \in MissingReasons \cup BadReasons : <<g, r>> \notin listed
    BY DEF ListAndRequestAgree
  <2>1. year \in Years /\ listed = ListOf(mirror, year) /\ request = Included(mirror, year)
    BY WholePreview
  <2>2. g \in Selected(mirror, year) <=> mirror.regs[g].partner \in mirror.partners
    BY <2>1, SelectedIsDue
  <2>3. \A r \in MissingReasons \cup BadReasons :
          <<g, r>> \in listed <=> g \in Selected(mirror, year) /\ r \in Reasons(mirror, g)
    BY <2>1, ListTells
  <2>4. CASE g \in Selected(mirror, year)
    BY <2>1, <2>2, <2>3, <2>4, SkippedIsMissing
  <2>5. CASE g \notin Selected(mirror, year)
    BY <2>1, <2>2, <2>3, <2>5 DEF Included
  <2> QED
    BY <2>4, <2>5
<1> QED
  BY <1>1, ReadsAreFresh, PTL

\* Undisturbed, an export does what the preview before it shows.
THEOREM PreviewAlwaysForetells == Spec => []PreviewForetellsExport
<1>1. TypeOK /\ Fresh => PreviewForetellsExport
  <2> SUFFICES ASSUME TypeOK, Fresh, PreviewWhole, <<"export", year>> \in fresh
               PROVE  IF \E g \in request, r \in BadReasons : <<g, r>> \in listed
                      THEN outcome[year] = "badRrn"
                      ELSE outcome[year] = "good" /\ DOMAIN declared[year] = request
    BY DEF PreviewForetellsExport
  <2>1. /\ year \in Years /\ listed = ListOf(mirror, year) /\ request = Included(mirror, year)
        /\ ~Raises(mirror, year)
    BY WholePreview
  <2>2. outcome[year] = OutcomeOf(mirror, year) /\ declared[year] = DeclaredOf(mirror, year)
    BY <2>1 DEF Fresh
  <2>3. ASSUME NEW g \in request
        PROVE  Bad \in {mirror.regs[g].parent, mirror.regs[g].child}
                 <=> \E r \in BadReasons : <<g, r>> \in listed
    <3>1. g \in Selected(mirror, year)
      BY <2>1, <2>3 DEF Included
    <3>2. \A r \in BadReasons : <<g, r>> \in listed <=> r \in Reasons(mirror, g)
      BY <2>1, <3>1, ListTells
    <3> QED
      BY <3>2, BadIsListed
  <2>4. BadRrns(mirror, year) <=> \E g \in request, r \in BadReasons : <<g, r>> \in listed
    BY <2>1, <2>3 DEF BadRrns
  <2>5. CASE BadRrns(mirror, year)
    BY <2>1, <2>2, <2>4, <2>5 DEF OutcomeOf, ProblemOf
  <2>6. CASE ~BadRrns(mirror, year)
    <3>1. outcome[year] = "good"
      BY <2>1, <2>2, <2>6 DEF OutcomeOf, ProblemOf
    <3>2. DOMAIN declared[year] = request
      BY <2>1, <2>2, <2>6 DEF DeclaredOf, ProblemOf
    <3> QED
      BY <2>4, <2>6, <3>1, <3>2
  <2> QED
    BY <2>5, <2>6
<1> QED
  BY <1>1, ReadsAreFresh, PTL

-----------------------------------------------------------------------------
(* The export.                                                             *)

\* A fresh export declares what is included, or nothing.
LEMMA DeclaresIncluded ==
  ASSUME TypeOK, Fresh, NEW y \in Years, <<"export", y>> \in fresh
  PROVE  /\ DOMAIN declared[y] \subseteq Included(mirror, y)
         /\ DOMAIN declared[y] # {} => ~Raises(mirror, y)
         /\ outcome[y] = "good" => DOMAIN declared[y] = Included(mirror, y)
         /\ \A g \in DOMAIN declared[y] : declared[y][g] = ParticipationOf(mirror, g)
<1>1. outcome[y] = OutcomeOf(mirror, y) /\ declared[y] = DeclaredOf(mirror, y)
  BY DEF Fresh
<1>2. DOMAIN declared[y] = IF ProblemOf(mirror, y) = "none" THEN Included(mirror, y) ELSE {}
  BY <1>1 DEF DeclaredOf
<1>3. \A g \in DOMAIN declared[y] : declared[y][g] = ParticipationOf(mirror, g)
  BY <1>1 DEF DeclaredOf
<1>4. outcome[y] = "good" => ProblemOf(mirror, y) = "none"
  BY <1>1 DEF OutcomeOf, ProblemOf
<1>5. ProblemOf(mirror, y) = "none" => ~Raises(mirror, y)
  BY DEF ProblemOf
<1> QED
  BY <1>2, <1>3, <1>4, <1>5

\* Years do not overlap: year_end is a second before the next year_start.
LEMMA OneYear ==
  ASSUME NEW t \in Int, NEW y \in Years, NEW z \in Years, Within(t, y), Within(t, z)
  PROVE  y = z
<1>1. ASSUME NEW a \in Years, NEW b \in Years, Within(t, a), Within(t, b) PROVE ~(a < b)
  <2> SUFFICES ASSUME a < b PROVE FALSE
    OBVIOUS
  <2>1. /\ a \in Int /\ b \in Int
        /\ a + 1 \in FirstYear .. LastYear + 1 /\ b \in FirstYear .. LastYear + 1
    BY CalendarAssumption DEF Years
  <2>2. a + 1 < b => NewYear[a + 1] < NewYear[b]
    BY <2>1, CalendarAssumption
  <2>3. NewYear[a + 1] \in Int /\ NewYear[b] \in Int
    BY <2>1, CalendarAssumption
  <2>4. t <= NewYear[a + 1] - 1 /\ NewYear[b] <= t
    BY <1>1 DEF Within
  <2> QED
    BY <2>1, <2>2, <2>3, <2>4
<1>2. ~(y < z) /\ ~(z < y)
  BY <1>1
<1> QED
  BY <1>2, CalendarAssumption DEF Years

\* The years cover all instants from the first to the last: a last year has begun.
LEMMA SomeYear ==
  ASSUME NEW t \in Int, t # None, NewYear[FirstYear] <= t, t < NewYear[LastYear + 1]
  PROVE  \E y \in Years : Within(t, y)
<1> DEFINE left == {LastYear - y : y \in {z \in Years : NewYear[z] <= t}}
<1> DEFINE less == {ss \in Nat \X Nat : ss[1] < ss[2]}
<1>1. left \subseteq Nat /\ left # {}
  BY CalendarAssumption DEF Years
<1>2. IsWellFoundedOn(less, Nat)
  BY NatLessThanWellFounded DEF OpToRel
<1>3. PICK n \in left : \A k \in left : ~(<<k, n>> \in less)
  BY <1>1, <1>2, WFMin
<1>4. PICK y \in Years : n = LastYear - y /\ NewYear[y] <= t
  BY <1>3
<1>5. y + 1 \in FirstYear .. LastYear + 1 /\ y \in Int
  BY CalendarAssumption DEF Years
<1>6. NewYear[y] \in Int /\ NewYear[y + 1] \in Int
  BY <1>5, CalendarAssumption DEF Years
<1>7. t < NewYear[y + 1]
  <2>1. CASE y = LastYear
    BY <2>1
  <2>2. CASE y # LastYear
    <3>1. y + 1 \in Years
      BY <1>5, <2>2, CalendarAssumption DEF Years
    <3>2. ASSUME NewYear[y + 1] <= t PROVE FALSE
      <4>1. LastYear - (y + 1) \in left
        BY <3>1, <3>2
      <4>2. LastYear - (y + 1) < n /\ n \in Nat /\ LastYear - (y + 1) \in Nat
        BY <1>1, <1>4, <1>5, <4>1, CalendarAssumption
      <4> QED
        BY <1>3, <4>1, <4>2
    <3> QED
      BY <1>6, <3>2
  <2> QED
    BY <2>1, <2>2
<1> QED
  BY <1>4, <1>6, <1>7 DEF Within

\* Undisturbed exports of several years declare no registration twice and, if all are made,
\* leave none out that is open, whole and of an event that ends in these years.
THEOREM EachYearDeclaresOnce == Spec => []EachYearOnce
<1>1. ASSUME TypeOK, NEW y \in Years, NEW g \in Included(mirror, y)
      PROVE  Event(mirror, g).end \in Int /\ Within(Event(mirror, g).end, y)
  BY <1>1, IncludedTyped DEF TypeOK, Included, Selected
<1>2. ASSUME TypeOK, Fresh, NEW y \in Years, NEW z \in Years, y # z,
             <<"export", y>> \in fresh, <<"export", z>> \in fresh
      PROVE  DOMAIN declared[y] \cap DOMAIN declared[z] = {}
  <2>1. /\ DOMAIN declared[y] \subseteq Included(mirror, y)
        /\ DOMAIN declared[z] \subseteq Included(mirror, z)
    BY <1>2, DeclaresIncluded
  <2> QED
    BY <1>1, <1>2, <2>1, OneYear
<1>3. ASSUME TypeOK, Fresh, {y \in Years : <<"export", y>> \in fresh} = Years,
             \A y \in Years : outcome[y] = "good",
             NEW g \in Joined(mirror),
             mirror.regs[g].open,
             Missing \notin {mirror.regs[g].parent, mirror.regs[g].child},
             None \notin {Event(mirror, g).begin, Event(mirror, g).end},
             NewYear[FirstYear] <= Event(mirror, g).end,
             Event(mirror, g).end < NewYear[LastYear + 1]
      PROVE  \E y \in Years : g \in DOMAIN declared[y]
  <2>1. mirror.regs[g] \in RegistrationRow /\ Event(mirror, g) \in EventRow
    BY <1>3, RowsTyped DEF TypeOK, Joined, Event, RegistrationRow
  <2>2. Event(mirror, g).end \in Int /\ Event(mirror, g).end # None
    BY <1>3, <2>1 DEF EventRow
  <2>3. PICK y \in Years : Within(Event(mirror, g).end, y)
    BY <1>3, <2>2, SomeYear
  <2>4. g \in Included(mirror, y)
    BY <1>3, <2>3 DEF Included, Selected
  <2>5. DOMAIN declared[y] = Included(mirror, y)
    BY <1>3, DeclaresIncluded
  <2> QED
    BY <2>4, <2>5
<1>4. TypeOK /\ Fresh => EachYearOnce
  BY <1>2, <1>3 DEF EachYearOnce
<1> QED
  BY <1>4, ReadsAreFresh, PTL

\* A declared participation counts no more days than its event has, nor, of an event of an hour
\* a day or more, less than half of them.
THEOREM DeclaredDaysAlwaysFit == Spec => []DeclaredDaysFit
<1>1. TypeOK /\ Fresh => DeclaredDaysFit
  <2> SUFFICES ASSUME TypeOK, Fresh, NEW y \in Years, <<"export", y>> \in fresh,
                      NEW g \in DOMAIN declared[y],
                      NEW counted, counted = XmlDays(declared[y][g].half),
                      NEW begin, begin = Event(mirror, g).begin,
                      NEW end, end = Event(mirror, g).end,
                      NEW days, days = Day(end) - Day(begin) + 1
               PROVE  counted <= days /\ (end - begin >= Hours(days) => 2 * counted >= days)
    BY DEF DeclaredDaysFit
  <2>1. /\ g \in Included(mirror, y) /\ ~Raises(mirror, y) /\ mirror \in Mirrors
        /\ declared[y][g] = ParticipationOf(mirror, g)
    BY DeclaresIncluded DEF TypeOK
  <2>2. declared[y][g].half = HalfDays(begin, end)
    BY <2>1 DEF ParticipationOf
  <2>3. begin \in Int /\ end \in Int
    BY <2>1, IncludedTyped
  <2>4. CASE begin <= end
    <3>1. /\ days \in Nat \ {0} /\ HalfDays(begin, end) \in Nat
          /\ HalfDays(begin, end) <= 2 * days
          /\ end - begin >= Hours(days) => HalfDays(begin, end) >= days
      BY <2>3, <2>4, HalfDaysBounded
    <3> QED
      BY <2>2, <3>1 DEF XmlDays
  <2>5. CASE end < begin
    <3>1. Day(begin) \in Int /\ Day(end) \in Int
      BY <2>3 DEF Day
    <3>2. Day(begin) <= Day(end) /\ days \in Nat \ {0}
      BY <2>1, <3>1 DEF Raises, Accepted, ParticipationOf
    <3>3. HalfDays(begin, end) = 2 * days
      BY <2>3, <2>5, <3>2 DEF HalfDays, Hours
    <3>4. counted <= days
      BY <2>2, <3>2, <3>3 DEF XmlDays
    <3>5. ~(end - begin >= Hours(days))
      BY <2>3, <2>5, <3>2 DEF Hours
    <3> QED
      BY <3>4, <3>5
  <2> QED
    BY <2>3, <2>4, <2>5
<1> QED
  BY <1>1, ReadsAreFresh, PTL
=============================================================================
