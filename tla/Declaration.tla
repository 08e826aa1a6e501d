------------------------------ MODULE Declaration ------------------------------
(***************************************************************************)
(* From a request to the XML file of a declaration                         *)
(* (services/xml_generator.py), and the preview of that file               *)
(* (services/export_preview.py).  Both validate the national numbers       *)
(* (rrn_validator.py), aggregate the participations (Aggregation) and then *)
(* write headers, fiches and trailers, each with code of its own.          *)
(*                                                                         *)
(* A preview and the export after it read the rows with a SELECT each, and *)
(* neither orders them: the export may meet the same rows in another order.*)
(*                                                                         *)
(* A field that both copy from one place is one of the names, dates or     *)
(* amounts below; constants, the income year and the layout are left out.  *)
(***************************************************************************)
EXTENDS Aggregation, NationalNumbers

CONSTANTS
  HouseholdOf,  \* names and address in a row, by its number
  BlankIn,      \* which of them a household left empty
  Orders,       \* orders in which the rows of a later SELECT may come
  Inputs        \* requests, with the national numbers of the pairs and the organization

Parts == {"name", "street", "city"}
Fields ==
  {"parent_last_name", "parent_address_street", "parent_address_zip", "parent_address_city",
   "child_last_name", "child_address_zip"}

\* None is a field left empty.  fr and de are the parts given of the other names.
Organization ==
  [name : STRING, contact : STRING \cup {None}, phone : STRING \cup {None},
   email : STRING \cup {None}, fr : SUBSET Parts, de : SUBSET Parts,
   validity : SUBSET {"start", "end"}]

ASSUME DeclarationAssumption ==
  /\ \A i \in DOMAIN HouseholdOf : BlankIn[HouseholdOf[i]] \subseteq Fields
  /\ \A o \in Orders : o \in Bijection(DOMAIN o, DOMAIN o)
  /\ \A in \in Inputs :
       /\ IsRequest(in.request) /\ DOMAIN in.request \subseteq DOMAIN HouseholdOf
       /\ DOMAIN in.numbers = Pairs
       /\ in.org \in Organization

\* A period as the preview shows it, which has None for a period 2 that there is not.
PeriodPreview ==
  [start : Int, end : Int, amount : Nat, half : Nat, days : Nat, tariff : Nat]

ASSUME NoneAssumption == None \notin PeriodPreview

VARIABLES
  org, numbers,  \* the organization, the numbers of parent and child of a pair
  row,           \* the row that an index of the request stands for
  phase,         \* "preview", "export", "done" or "refused"
  preview,       \* the preview shown, None if there is none
  xml            \* the file made, None if there is none

inputVars == <<org, numbers>>
declarationVars == <<inputVars, row, phase, preview, xml>>

-----------------------------------------------------------------------------
(* What both tell of a fiche.                                              *)

InvalidNumbers ==
  {n \in UNION {{numbers[request[i].pair].parent, numbers[request[i].pair].child} : i \in Archived} :
    ~IsValid(n)}

\* birth_dates.get(child_rrn, "")
BirthOf(pair) ==
  IF IsValid(numbers[pair].child) THEN BirthDate(numbers[pair].child) ELSE None

\* Names and addresses are those of the pair's first participation.
HouseholdIn(f) == HouseholdOf[row[CHOOSE i \in Items(f) : \A j \in Items(f) : i <= j]]

\* round(a / d), halves to even.
Rounded(a, d) ==
  LET q == a \div d
      twice == 2 * (a % d)
  IN  IF twice < d \/ (twice = d /\ q % 2 = 0) THEN q ELSE q + 1
DailyTariff(S) == IF Days(S) = 0 THEN 0 ELSE Rounded(Amount(S), Days(S))

OverFiches(g(_)) == SumFunction([n \in DOMAIN fiches |-> g(fiches[n])])
FicheNumbers == SumFunction([n \in DOMAIN fiches |-> n])

-----------------------------------------------------------------------------
(* The file.                                                               *)

GivenOr(value, default) == IF value = None THEN default ELSE value

\* _build_org_payload: languages with a block of their own, and who to contact.
Languages == {l \in {"fr", "de"} : org[l] = Parts}
PayloadContact == GivenOr(org.contact, org.name)

\* f86_2059
FicheControl(f) == Amount(f.period1) + Amount(f.period2) + TotalAmount(f)

\* The elements of a period: its first and last day, number of days and daily tariff.
PeriodElements(S) ==
  [start |-> Start(S), end |-> End(S), amount |-> Amount(S), days |-> Days(S),
   tariff |-> DailyTariff(S)]
\* Mutant: the amount of period 2 is the total.
XmlPeriodsWithTotal(f) ==
  IF f.period2 = {} THEN <<PeriodElements(f.period1)>>
  ELSE <<PeriodElements(f.period1),
         [PeriodElements(f.period2) EXCEPT !.amount = TotalAmount(f)]>>
XmlPeriods(f) ==
  IF f.period2 = {} THEN <<PeriodElements(f.period1)>>
  ELSE <<PeriodElements(f.period1), PeriodElements(f.period2)>>

XmlFiche(n) ==
  LET f == fiches[n]
  IN  [volgnummer |-> n, pair |-> f.pair, household |-> HouseholdIn(f),
       birth |-> BirthOf(f.pair), periods |-> XmlPeriods(f), control |-> FicheControl(f),
       total |-> TotalAmount(f), validity |-> org.validity]

\* r8010 to r8012 and r9010 to r9013.  A declaration's records are its header, its fiches
\* and its trailer, those of the file its own two as well.
XmlTrailer ==
  LET n == Len(fiches)
  IN  [r8010 |-> n + 2, r8011 |-> FicheNumbers, r8012 |-> OverFiches(FicheControl),
       r9010 |-> n, r9011 |-> n + 4, r9012 |-> FicheNumbers, r9013 |-> OverFiches(FicheControl)]

GeneratedXml ==
  [header  |-> [name |-> org.name, contact |-> PayloadContact,
                phone |-> GivenOr(org.phone, ""), email |-> GivenOr(org.email, ""),
                languages |-> Languages],
   fiches  |-> [n \in DOMAIN fiches |-> XmlFiche(n)],
   trailer |-> XmlTrailer]

\* ExportSummary
Summary ==
  [fiches |-> Len(fiches), amount |-> OverFiches(TotalAmount), days |-> OverFiches(TotalDays),
   skipped |-> skipped]

-----------------------------------------------------------------------------
(* The preview.                                                            *)

\* _fiche_missing_fields; the numbers are never empty.
MissingFields(f) ==
  BlankIn[HouseholdIn(f)]
  \cup (IF BirthOf(f.pair) = None THEN {"child_birth_date"} ELSE {})
  \cup (IF Days(f.period1) = 0 THEN {"period1_days"} ELSE {})

\* Mutant: the tariff is rounded down.
PreviewPeriodRoundedDown(S) ==
  [start |-> Start(S), end |-> End(S), amount |-> Amount(S), half |-> HalfDaysIn(S),
   days |-> Days(S), tariff |-> IF Days(S) = 0 THEN 0 ELSE Amount(S) \div Days(S)]
PreviewPeriod(S) ==
  [start |-> Start(S), end |-> End(S), amount |-> Amount(S), half |-> HalfDaysIn(S),
   days |-> Days(S), tariff |-> DailyTariff(S)]

PreviewFiche(n) ==
  LET f == fiches[n]
      total == Amount(f.period1) + Amount(f.period2)
  IN  [volgnummer |-> n, pair |-> f.pair, household |-> HouseholdIn(f),
       birth |-> BirthOf(f.pair), period1 |-> PreviewPeriod(f.period1),
       period2 |-> IF f.period2 = {} THEN None ELSE PreviewPeriod(f.period2),
       control |-> Amount(f.period1) + Amount(f.period2) + total, total |-> total,
       missing |-> MissingFields(f),
       warnings |-> {w \in WarningTypes : <<f.pair, w>> \in warnings}]

OrgMissing ==
  {l \in {"fr", "de"} : org[l] # Parts}
  \cup ({"start", "end"} \ org.validity)
  \cup {field \in {"contact", "phone", "email"} : org[field] = None}

\* The trailer of the fiches ps shown.
PreviewTrailer(ps) ==
  LET n == Len(ps)
      controls == SumFunction([k \in DOMAIN ps |-> ps[k].control])
      volgnummers == SumFunction([k \in DOMAIN ps |-> k])
  IN  [r8010 |-> n + 2, r8011 |-> volgnummers, r8012 |-> controls,
       r9010 |-> n, r9011 |-> n + 4, r9012 |-> volgnummers, r9013 |-> controls]

PreviewHeader ==
  [name |-> org.name, contact |-> GivenOr(org.contact, ""),
   phone |-> GivenOr(org.phone, ""), email |-> GivenOr(org.email, ""),
   languages |-> {l \in {"fr", "de"} : org[l] = Parts}]

FullPreview ==
  LET ps == [n \in DOMAIN fiches |-> PreviewFiche(n)]
  IN  [header |-> PreviewHeader, fiches |-> ps, trailer |-> PreviewTrailer(ps),
       missing |-> OrgMissing, summary |-> Summary, errors |-> InvalidNumbers # {}]

\* _empty_preview: no block in another language, whatever the organization has.
EmptyPreview ==
  [header |-> [PreviewHeader EXCEPT !.languages = {}], fiches |-> <<>>,
   trailer |-> [r8010 |-> 2, r8011 |-> 0, r8012 |-> 0,
                r9010 |-> 0, r9011 |-> 4, r9012 |-> 0, r9013 |-> 0],
   missing |-> OrgMissing,
   summary |-> [fiches |-> 0, amount |-> 0, days |-> 0, skipped |-> 0],
   errors |-> TRUE]

-----------------------------------------------------------------------------
(* The specification.                                                      *)

DeclarationInit ==
  /\ \E in \in Inputs : request = in.request /\ numbers = in.numbers /\ org = in.org
  /\ AtStart
  /\ row = [i \in Indices |-> i]
  /\ phase = IF \A i \in Indices : request[i].confirmed THEN "preview" ELSE "export"
  /\ preview = None
  /\ xml = None

\* Only the export stops at an invalid number.
Aggregate ==
  /\ \/ phase = "preview"
     \/ phase = "export" /\ InvalidNumbers = {}
  /\ Next
  /\ UNCHANGED declarationVars

\* The preview is shown; the export that follows reads the rows anew.
ShowPreview ==
  /\ phase = "preview" /\ Finished
  /\ preview' = IF request = <<>> THEN EmptyPreview ELSE FullPreview
  /\ phase' = "export"
  /\ \E o \in Orders :
       /\ DOMAIN o = Indices
       /\ request' = [i \in Indices |-> request[o[i]]]
       /\ row' = [i \in Indices |-> row[o[i]]]
  /\ Reset
  /\ UNCHANGED <<inputVars, xml>>

MakeXml ==
  /\ phase = "export" /\ InvalidNumbers = {}
  /\ Finished /\ fiches # <<>>
  /\ xml' = GeneratedXml
  /\ phase' = "done"
  /\ UNCHANGED <<vars, inputVars, row, preview>>

RefuseExport ==
  /\ phase = "export"
  /\ InvalidNumbers # {} \/ (Finished /\ fiches = <<>>)
  /\ phase' = "refused"
  /\ UNCHANGED <<vars, inputVars, row, preview, xml>>

DeclarationNext == Aggregate \/ ShowPreview \/ MakeXml \/ RefuseExport

DeclarationSpec == DeclarationInit /\ [][DeclarationNext]_<<vars, declarationVars>>

-----------------------------------------------------------------------------
(* Properties.                                                             *)

\* Every variable keeps its type, and the rows are told apart in whatever order they come.
DeclarationTypeOK ==
  /\ TypeOK
  /\ org \in Organization
  /\ DOMAIN numbers = Pairs
  /\ row \in [Indices -> Indices]
  /\ \A i, j \in Indices : row[i] = row[j] => i = j
  /\ phase \in {"preview", "export", "done", "refused"}
  /\ phase # "done" => xml = None
  /\ phase = "preview" => preview = None

\* The same elements in both, but the contact.
SameHeader ==
  /\ preview.header = [xml.header EXCEPT !.contact = preview.header.contact]
  /\ \/ preview.header.contact = xml.header.contact
     \/ "contact" \in preview.missing

\* Same figures; the same household too, unless the rows of the pair differ in it.
Retold(x, y) ==
  /\ y.pair = x.pair /\ y.birth = x.birth
  /\ y.control = x.control /\ y.total = x.total
  /\ x.periods = [k \in 1 .. (IF y.period2 = None THEN 1 ELSE 2) |->
                   LET p == IF k = 1 THEN y.period1 ELSE y.period2
                   IN  [field \in DOMAIN x.periods[k] |-> p[field]]]
  /\ LET households == {HouseholdOf[row[i]] : i \in {k \in Indices : request[k].pair = x.pair}}
     IN  {x.household, y.household} \subseteq households

\* "The preview returns exactly what will be in the XML": the export after a preview is
\* refused exactly when the preview tells errors, and otherwise its file has the
\* figures, trailers and blocks shown, in whatever order the rows come (preview_export,
\* generate_bow_xml).  What the preview calls missing of the organization is what the file
\* lacks, or replaces (the contact); a fiche shown without missing fields has none left
\* empty unless its number or its household comes of another row.
PreviewTellsXml ==
  preview # None =>
    /\ phase \in {"done", "refused"} => (phase = "refused" <=> preview.errors)
    /\ phase = "done" =>
         /\ SameHeader
         /\ xml.header.languages = {"fr", "de"} \ preview.missing
         /\ xml.trailer = preview.trailer
         /\ Summary = preview.summary
         /\ \A x \in Range(xml.fiches) :
              /\ x.validity = {"start", "end"} \ preview.missing
              /\ \E y \in Range(preview.fiches) :
                   /\ Retold(x, y)
                   /\ y.warnings = {w \in WarningTypes : <<x.pair, w>> \in warnings}
                   /\ y.household = x.household => BlankIn[x.household] \subseteq y.missing

\* The file adds up with the participations stored beside it: it counts every cent once, its
\* control totals are those of the elements written and its counts those of the records, and
\* rounding up half days adds less than a day per period.
DeclarationAddsUp ==
  phase = "done" =>
    LET written == xml.fiches
        amountOf(x) == SumFunction([k \in DOMAIN x.periods |-> x.periods[k].amount])
        all(g(_)) == SumFunction([n \in DOMAIN written |-> g(written[n])])
        fichesIn == Cardinality({x.volgnummer : x \in Range(written)})
    IN  /\ all(amountOf) = Amount(Archived)
        /\ \A x \in Range(written) :
             x.total = amountOf(x) /\ x.control = amountOf(x) + x.total
        /\ xml.trailer.r8012 = all(LAMBDA x : x.control) /\ xml.trailer.r9013 = xml.trailer.r8012
        /\ xml.trailer.r8011 = all(LAMBDA x : x.volgnummer) /\ xml.trailer.r9012 = xml.trailer.r8011
        /\ xml.trailer.r9010 = fichesIn
        /\ xml.trailer.r8010 = fichesIn + 2 /\ xml.trailer.r9011 = xml.trailer.r8010 + 2
        /\ Summary.amount = Amount(Archived)
        /\ Summary.skipped = Len(request) - Cardinality(Archived)
        /\ 2 * Summary.days - HalfDaysIn(Archived)
             \in 0 .. all(LAMBDA x : Len(x.periods))

\* The dates a number may have been issued for, by the rules of the validator's
\* documentation: the month may count 20 or 40 more.
IssuedFor(n) ==
  {b \in [year : {1900 + n.yy, 2000 + n.yy}, month : {n.mm, n.mm - 20, n.mm - 40}, day : {n.dd}] :
    /\ IsDate(b)
    /\ IF b.year < 2000 THEN Pre2000(n) ELSE Post2000(n)}

\* A number is refused exactly when it was issued for no date, it never fits two, and the
\* date of birth in the file is the one it was issued for, of whichever century and kind of
\* number (validate_rrn: both check digit rules, BIS months).
BirthDatesAsIssued ==
  /\ \A n \in InvalidNumbers : n \in NationalNumber => IssuedFor(n) = {}
  /\ phase = "done" =>
       \A x \in Range(xml.fiches) : IssuedFor(numbers[x.pair].child) = {x.birth}
=============================================================================
