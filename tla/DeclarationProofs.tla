--------------------------- MODULE DeclarationProofs ---------------------------
(***************************************************************************)
(* Proofs about Declaration and NationalNumbers: what the aggregation      *)
(* keeps holds for the export and its preview, in whatever order the rows  *)
(* come; and for every number of eleven digits, that the two check digit   *)
(* rules exclude each other and that the date of birth is the one the      *)
(* number was issued for.  The file adds up with the rows, and the preview *)
(* tells what is in it.                                                    *)
(***************************************************************************)
EXTENDS Declaration, AggregationProofs

-----------------------------------------------------------------------------
(* National numbers.                                                       *)

LEMMA RemaindersDiffer ==
  ASSUME NEW x \in Nat
  PROVE  x % 97 # (Prefix2 + x) % 97
<1>1. Prefix2 \in 1 .. 96
  BY DEF Prefix2
<1> QED
  BY <1>1

LEMMA First9Nat == ASSUME NEW n \in NationalNumber PROVE First9(n) \in Nat
<1>1. n.yy \in Nat /\ n.mm \in Nat /\ n.dd \in Nat /\ n.serial \in Nat
  BY DEF NationalNumber
<1>2. n.yy * 100 + n.mm \in Nat
  BY <1>1
<1>3. (n.yy * 100 + n.mm) * 100 + n.dd \in Nat
  BY <1>1, <1>2
<1> QED
  BY <1>1, <1>3 DEF First9

\* No number passes both rules: 97 does not divide 2 * 10^9 (post2000, pre2000).
THEOREM OneCentury ==
  ASSUME NEW n \in NationalNumber
  PROVE  ~(Pre2000(n) /\ Post2000(n))
<1>1. First9(n) % 97 # (Prefix2 + First9(n)) % 97
  BY First9Nat, RemaindersDiffer
<1>2. First9(n) % 97 \in Int /\ (Prefix2 + First9(n)) % 97 \in Int
  BY First9Nat DEF Prefix2
<1> QED
  BY <1>1, <1>2 DEF Pre2000, Post2000, CheckDigits

\* Of the months a number may stand for, validate_rrn takes the only one that may exist.
LEMMA OneMonth ==
  ASSUME NEW n \in NationalNumber, NEW m \in {n.mm, n.mm - 20, n.mm - 40}, m \in 1 .. 12
  PROVE  m = Month(n)
  BY DEF NationalNumber, Month

LEMMA IssuedIsBirth ==
  ASSUME NEW n \in NationalNumber, NEW b \in IssuedFor(n)
  PROVE  IsValid(n) /\ b = BirthDate(n)
<1>1. /\ b = [year |-> b.year, month |-> b.month, day |-> b.day]
      /\ b.year \in {1900 + n.yy, 2000 + n.yy} /\ b.day = n.dd
      /\ b.month \in {n.mm, n.mm - 20, n.mm - 40}
      /\ IsDate(b)
      /\ IF b.year < 2000 THEN Pre2000(n) ELSE Post2000(n)
  BY DEF IssuedFor
<1>2. b.month = Month(n)
  <2>1. b.month \in 1 .. 12
    BY <1>1 DEF IsDate
  <2>2. b.month \in {n.mm, n.mm - 20, n.mm - 40}
    BY <1>1
  <2> QED
    BY <2>1, <2>2, OneMonth
<1>3. n.yy \in 0 .. 99
  BY DEF NationalNumber
<1>4. CASE b.year = 1900 + n.yy
  <2>1. b.year < 2000 /\ Pre2000(n) /\ ~Post2000(n)
    BY <1>1, <1>3, <1>4, OneCentury
  <2> QED
    BY <1>1, <1>2, <1>4, <2>1 DEF IsValid, BirthDate
<1>5. CASE b.year = 2000 + n.yy
  <2>1. ~(b.year < 2000) /\ Post2000(n)
    BY <1>1, <1>3, <1>5
  <2> QED
    BY <1>1, <1>2, <1>5, <2>1 DEF IsValid, BirthDate
<1> QED
  BY <1>1, <1>4, <1>5

LEMMA BirthIsIssued ==
  ASSUME NEW n, IsValid(n)
  PROVE  BirthDate(n) \in IssuedFor(n)
<1>1. n \in NationalNumber /\ (Pre2000(n) \/ Post2000(n)) /\ IsDate(BirthDate(n))
  BY DEF IsValid
<1>2. n.yy \in 0 .. 99 /\ n.mm \in 0 .. 99
  BY <1>1 DEF NationalNumber
<1>3. Month(n) \in {n.mm, n.mm - 20, n.mm - 40}
  BY DEF Month
<1>4. BirthDate(n)
        \in [year : {1900 + n.yy, 2000 + n.yy}, month : {n.mm, n.mm - 20, n.mm - 40}, day : {n.dd}]
  BY <1>3 DEF BirthDate
<1>5. CASE Post2000(n)
  <2>1. BirthDate(n).year = 2000 + n.yy
    BY <1>5 DEF BirthDate
  <2> QED
    BY <1>1, <1>2, <1>4, <1>5, <2>1 DEF IssuedFor
<1>6. CASE ~Post2000(n)
  <2>1. BirthDate(n).year = 1900 + n.yy /\ Pre2000(n)
    BY <1>1, <1>6 DEF BirthDate
  <2> QED
    BY <1>1, <1>2, <1>4, <2>1 DEF IssuedFor
<1> QED
  BY <1>5, <1>6

\* A number is valid exactly when it was issued for some date, and then for one only, which
\* is the date of birth that validate_rrn gives.
THEOREM IssuedOnce ==
  ASSUME NEW n \in NationalNumber
  PROVE  IssuedFor(n) = IF IsValid(n) THEN {BirthDate(n)} ELSE {}
  BY IssuedIsBirth, BirthIsIssued

-----------------------------------------------------------------------------
(* The aggregations of the preview and of the export.                      *)

LEMMA IsRequestIsValid ==
  ASSUME IsRequest(request)
  PROVE  ValidRequest
  BY DEF IsRequest, ValidRequest, Indices

\* The rows in another order are a request like any other.
LEMMA Reordered ==
  ASSUME ValidRequest, NEW o \in Orders, DOMAIN o = Indices,
         request' = [i \in Indices |-> request[o[i]]]
  PROVE  /\ o \in [Indices -> Indices]
         /\ \A i, j \in Indices : o[i] = o[j] => i = j
         /\ Indices' = Indices
         /\ ValidRequest'
<1>1. o \in Bijection(DOMAIN o, DOMAIN o)
  BY DeclarationAssumption
<1>2. o \in [Indices -> Indices] /\ \A i, j \in Indices : o[i] = o[j] => i = j
  BY <1>1 DEF Bijection, Injection, IsInjective
<1>3. request \in Seq(Participation) /\ Len(request) \in Nat
  BY DEF ValidRequest
<1>4. \A i \in Indices : request'[i] = request[o[i]] /\ request'[i] \in Participation
  BY <1>2, <1>3 DEF Indices
<1>5. request' \in Seq(Participation) /\ Len(request') = Len(request)
  BY <1>3, <1>4 DEF Indices
<1>6. Indices' = Indices
  BY <1>5 DEF Indices
<1>7. \A i \in Indices : request'[i].start <= request'[i].end
  BY <1>2, <1>4 DEF ValidRequest
<1> QED
  BY <1>2, <1>5, <1>6, <1>7 DEF ValidRequest

LEMMA ResetStarts == ASSUME Reset PROVE AtStart'
  BY DEF Reset, AtStart

\* The file says the same of what has not changed.
LEMMA FileKept ==
  ASSUME UNCHANGED <<request, fiches, row, org, numbers>>
  PROVE  UNCHANGED GeneratedXml
<1>1. Indices' = Indices
  BY DEF Indices
<1>2. \A S : UNCHANGED <<Amount(S), HalfDaysIn(S), Start(S), End(S)>>
  BY <1>1 DEF Amount, HalfDaysIn, HalfDays, Start, End
<1>3. \A S : UNCHANGED Days(S)
  BY <1>2 DEF Days
<1>4. \A S : UNCHANGED PeriodElements(S)
  BY <1>2, <1>3 DEF PeriodElements, DailyTariff
<1>5. \A f : UNCHANGED <<TotalAmount(f), FicheControl(f), XmlPeriods(f), HouseholdIn(f)>>
  BY <1>2, <1>4 DEF TotalAmount, FicheControl, XmlPeriods, HouseholdIn, Items
<1>6. \A p : UNCHANGED BirthOf(p)
  BY DEF BirthOf
<1>7. \A n : UNCHANGED XmlFiche(n)
  BY <1>5, <1>6 DEF XmlFiche
<1>8. UNCHANGED XmlTrailer
  BY <1>5 DEF XmlTrailer, FicheNumbers, OverFiches
<1> QED
  BY <1>7, <1>8 DEF GeneratedXml, Languages, PayloadContact

\* The aggregation is as it should be, and only the export writes the file, of all there is.
DeclarationInv ==
  /\ ValidRequest
  /\ Inv
  /\ org \in Organization
  /\ DOMAIN numbers = Pairs
  /\ row \in [Indices -> Indices]
  /\ \A i, j \in Indices : row[i] = row[j] => i = j
  /\ phase \in {"preview", "export", "done", "refused"}
  /\ phase # "done" => xml = None
  /\ phase = "preview" => preview = None
  /\ phase = "done" => Finished /\ InvalidNumbers = {} /\ xml = GeneratedXml

LEMMA DeclarationStart == DeclarationInit => DeclarationInv
<1> SUFFICES ASSUME DeclarationInit PROVE DeclarationInv
  OBVIOUS
<1>1. PICK in \in Inputs : request = in.request /\ numbers = in.numbers /\ org = in.org
  BY DEF DeclarationInit
<1>2. ValidRequest
  BY <1>1, DeclarationAssumption, IsRequestIsValid
<1>3. Inv
  BY <1>2, InvAtStart DEF DeclarationInit
<1>4. org \in Organization /\ DOMAIN numbers = Pairs
  BY <1>1, DeclarationAssumption
<1>5. row = [i \in Indices |-> i]
  BY DEF DeclarationInit
<1>6. phase \in {"preview", "export"} /\ xml = None /\ preview = None
  BY DEF DeclarationInit
<1> QED
  BY <1>2, <1>3, <1>4, <1>5, <1>6 DEF DeclarationInv

LEMMA RequestKept == ASSUME Next PROVE request' = request
  BY DEF Next, Skip, Group, OpenCluster, AddToCluster, MakeFiche

LEMMA DeclarationStep ==
  ASSUME DeclarationInv, [DeclarationNext]_<<vars, declarationVars>>
  PROVE  DeclarationInv'
<1> USE DEF DeclarationInv
<1>1. CASE Aggregate
  <2>1. request' = request /\ Indices' = Indices /\ ValidRequest'
    BY <1>1, RequestKept DEF Aggregate, Indices, ValidRequest
  <2>2. Inv'
    BY <1>1, InvStep DEF Aggregate
  <2>3. UNCHANGED <<org, numbers, row, phase, preview, xml>> /\ phase # "done"
    BY <1>1 DEF Aggregate, declarationVars, inputVars
  <2> QED
    BY <2>1, <2>2, <2>3
<1>2. CASE ShowPreview
  <2>1. PICK o \in Orders :
          /\ DOMAIN o = Indices
          /\ request' = [i \in Indices |-> request[o[i]]]
          /\ row' = [i \in Indices |-> row[o[i]]]
    BY <1>2 DEF ShowPreview
  <2>2. /\ o \in [Indices -> Indices]
        /\ \A i, j \in Indices : o[i] = o[j] => i = j
        /\ Indices' = Indices
        /\ ValidRequest'
    BY <2>1, Reordered
  <2>3. Inv'
    <3>1. AtStart'
      BY <1>2, ResetStarts DEF ShowPreview
    <3>2. (ValidRequest /\ AtStart => Inv)'
      BY InvAtStart, PTL
    <3> QED
      BY <2>2, <3>1, <3>2
  <2>4. row' \in [Indices -> Indices] /\ \A i, j \in Indices : row'[i] = row'[j] => i = j
    BY <2>1, <2>2
  <2>5. phase' = "export" /\ UNCHANGED <<org, numbers, xml>> /\ xml = None
    BY <1>2 DEF ShowPreview, inputVars
  <2> QED
    BY <2>2, <2>3, <2>4, <2>5
<1>3. ASSUME UNCHANGED vars
      PROVE  /\ UNCHANGED <<request, Indices>> /\ ValidRequest' /\ Inv'
             /\ UNCHANGED <<org, numbers, row>> =>
                  UNCHANGED <<Finished, InvalidNumbers, GeneratedXml>>
  <2>1. UNCHANGED <<request, next, order, fiches>>
    BY <1>3 DEF vars, groupVars, ficheVars
  <2>2. Inv'
    BY <1>3, InvStep
  <2>3. UNCHANGED Finished
    BY <2>1 DEF Finished, Grouped
  <2>4. ASSUME UNCHANGED <<org, numbers, row>>
        PROVE  UNCHANGED <<InvalidNumbers, GeneratedXml>>
    BY <2>1, <2>4, FileKept DEF InvalidNumbers, Archived, Indices
  <2> QED
    BY <2>1, <2>2, <2>3, <2>4 DEF Indices, ValidRequest
<1>4. CASE MakeXml
  <2>1. /\ UNCHANGED vars /\ UNCHANGED <<org, numbers, row, preview>>
        /\ phase = "export" /\ phase' = "done"
        /\ xml' = GeneratedXml /\ InvalidNumbers = {} /\ Finished
    BY <1>4 DEF MakeXml, inputVars
  <2>2. UNCHANGED <<Finished, InvalidNumbers, GeneratedXml>>
    BY <1>3, <2>1
  <2> QED
    BY <1>3, <2>1, <2>2
<1>5. CASE RefuseExport
  <2>1. /\ UNCHANGED vars /\ UNCHANGED <<org, numbers, row, preview, xml>>
        /\ phase = "export" /\ phase' = "refused"
    BY <1>5 DEF RefuseExport, inputVars
  <2> QED
    BY <1>3, <2>1
<1>6. CASE UNCHANGED <<vars, declarationVars>>
  <2>1. UNCHANGED vars /\ UNCHANGED <<org, numbers, row, phase, preview, xml>>
    BY <1>6 DEF declarationVars, inputVars
  <2>2. UNCHANGED <<Finished, InvalidNumbers, GeneratedXml>>
    BY <1>3, <2>1
  <2> QED
    BY <1>3, <2>1, <2>2
<1> QED
  BY <1>1, <1>2, <1>4, <1>5, <1>6 DEF DeclarationNext

\* Whatever the order the rows come in, what the aggregation keeps holds for the preview and
\* for the export after it, and a file is written of valid numbers only.
THEOREM DeclarationInvariant == DeclarationSpec => []DeclarationInv
  BY DeclarationStart, DeclarationStep, PTL DEF DeclarationSpec

\* Every variable keeps its type, and the rows stay apart when they come in another order.
THEOREM DeclarationTyped == DeclarationSpec => []DeclarationTypeOK
<1>1. DeclarationInv => DeclarationTypeOK
  BY DEF DeclarationInv, Inv, Typed, DeclarationTypeOK
<1> QED
  BY <1>1, DeclarationInvariant, PTL

\* Preview and export both cut exactly at the gaps, tell them in their periods, and count
\* every confirmed row once.
THEOREM DeclarationCounts ==
  DeclarationSpec => [](ClustersAreTheGaps /\ PeriodsTellTheGaps /\ EachCountsOnce)
<1>1. DeclarationInv => ClustersAreTheGaps /\ PeriodsTellTheGaps /\ EachCountsOnce
  BY InvCuts, InvTells, InvCounts DEF DeclarationInv
<1> QED
  BY <1>1, DeclarationInvariant, PTL

\* The dates of birth in the file are those the numbers were issued for, and a number is
\* refused only if it was issued for none.
THEOREM DeclarationBirths == DeclarationSpec => []BirthDatesAsIssued
<1>1. DeclarationInv => BirthDatesAsIssued
  <2> SUFFICES ASSUME DeclarationInv PROVE BirthDatesAsIssued
    OBVIOUS
  <2>1. \A n \in InvalidNumbers : n \in NationalNumber => IssuedFor(n) = {}
    BY IssuedOnce DEF InvalidNumbers
  <2>2. ASSUME phase = "done", NEW x \in Range(xml.fiches)
        PROVE  IssuedFor(numbers[x.pair].child) = {x.birth}
    <3>1. /\ ValidRequest /\ Inv /\ Finished
          /\ InvalidNumbers = {} /\ xml = GeneratedXml
      BY <2>2 DEF DeclarationInv
    <3>2. PICK n \in DOMAIN fiches : x = XmlFiche(n)
      BY <2>2, <3>1 DEF GeneratedXml, Range
    <3>3. x.pair = fiches[n].pair /\ x.birth = BirthOf(x.pair)
      BY <3>2 DEF XmlFiche
    <3>4. PICK i \in Archived : request[i].pair = x.pair
      <4>1. /\ Items(fiches[n]) = {i \in Archived : request[i].pair = fiches[n].pair}
            /\ fiches[n].period1 # {}
        BY <3>1, InvCounts DEF EachCountsOnce
      <4> QED
        BY <3>3, <4>1 DEF Items
    <3>5. IsValid(numbers[x.pair].child)
      BY <3>1, <3>4 DEF InvalidNumbers
    <3> QED
      BY <3>3, <3>5, IssuedOnce DEF BirthOf, IsValid
  <2> QED
    BY <2>1, <2>2 DEF BirthDatesAsIssued
<1> QED
  BY <1>1, DeclarationInvariant, PTL

-----------------------------------------------------------------------------
(* The sums of the file.                                                   *)

LEMMA FicheTypes ==
  ASSUME Inv
  PROVE  /\ DOMAIN fiches = 1 .. Len(fiches) /\ Len(fiches) \in Nat
         /\ IsFiniteSet(DOMAIN fiches)
         /\ \A n \in DOMAIN fiches : fiches[n].period1 \subseteq Indices
                                     /\ fiches[n].period2 \subseteq Indices
<1>1. PICK R : /\ \A f \in R : f.period1 \subseteq Indices /\ f.period2 \subseteq Indices
               /\ fiches \in Seq(R)
  <2>1. fiches \in Seq([pair : Pairs, period1 : SUBSET Indices, period2 : SUBSET Indices])
    BY DEF Inv, Typed, TypeOK
  <2> QED
    BY <2>1
<1>2. DOMAIN fiches = 1 .. Len(fiches) /\ Len(fiches) \in Nat
  BY <1>1
<1>3. \A n \in DOMAIN fiches : fiches[n] \in R
  BY <1>1, <1>2
<1>4. IsFiniteSet(1 .. Len(fiches))
  BY <1>2, FS_Interval
<1> QED
  BY <1>1, <1>2, <1>3, <1>4

LEMMA FiguresAreInt ==
  ASSUME ValidRequest
  PROVE  /\ \A S \in SUBSET Indices : Amount(S) \in Int /\ HalfDaysIn(S) \in Int
         /\ Amount({}) = 0 /\ HalfDaysIn({}) = 0
<1>1. request \in Seq(Participation) /\ Indices = 1 .. Len(request)
  BY DEF ValidRequest, Indices
<1>2. \A S \in SUBSET Indices : Amount(S) \in Int /\ HalfDaysIn(S) \in Int
  BY <1>1, FiguresTyped, FiguresHere
<1> QED
  BY <1>2, SumOfEmpty DEF Amount, HalfDaysIn

\* Rounding up adds at most one half day.
LEMMA RoundingUp ==
  ASSUME NEW h \in Int
  PROVE  XmlDays(h) \in Int /\ h <= 2 * XmlDays(h) /\ 2 * XmlDays(h) <= h + 1
  BY DEF XmlDays

\* The amounts written for the periods of a fiche.
AmountWritten(x) == SumFunction([k \in DOMAIN x.periods |-> x.periods[k].amount])

LEMMA AmountsWritten ==
  ASSUME ValidRequest, Inv, NEW n \in DOMAIN fiches
  PROVE  /\ AmountWritten(XmlFiche(n)) = TotalAmount(fiches[n])
         /\ TotalAmount(fiches[n]) \in Int
<1> DEFINE f == fiches[n]
           ps == XmlPeriods(f)
           amounts == [k \in DOMAIN ps |-> ps[k].amount]
<1>1. Amount(f.period1) \in Int /\ Amount(f.period2) \in Int
  BY FicheTypes, FiguresAreInt
<1>2. AmountWritten(XmlFiche(n)) = SumFunctionOnSet(amounts, DOMAIN ps)
  BY DEF AmountWritten, XmlFiche, SumFunction
<1>3. CASE f.period2 = {}
  <2>1. DOMAIN ps = 1 .. 1 /\ ps[1].amount = Amount(f.period1)
    BY <1>3 DEF XmlPeriods, PeriodElements
  <2>2. SumFunctionOnSet(amounts, 1 .. 1) = Amount(f.period1)
    <3>1. amounts[1] = Amount(f.period1)
      BY <2>1
    <3> HIDE DEF amounts
    <3> QED
      BY <1>1, <3>1, SumOverOne
  <2> QED
    BY <1>1, <1>2, <1>3, <2>1, <2>2, FiguresAreInt DEF TotalAmount
<1>4. CASE f.period2 # {}
  <2>1. /\ DOMAIN ps = 1 .. 2
        /\ ps[1].amount = Amount(f.period1) /\ ps[2].amount = Amount(f.period2)
    BY <1>4 DEF XmlPeriods, PeriodElements
  <2>2. SumFunctionOnSet(amounts, 1 .. 2) = Amount(f.period1) + Amount(f.period2)
    <3>1. amounts[1] = Amount(f.period1) /\ amounts[2] = Amount(f.period2)
      BY <2>1
    <3> HIDE DEF amounts
    <3> QED
      BY <1>1, <3>1, SumOverTwo
  <2> QED
    BY <1>1, <1>2, <2>1, <2>2 DEF TotalAmount
<1> QED
  BY <1>3, <1>4

\* Rounding adds less than a day per period.
LEMMA DaysWritten ==
  ASSUME ValidRequest, Inv, NEW n \in DOMAIN fiches,
         NEW f, f = fiches[n], NEW h, h = HalfDaysIn(f.period1) + HalfDaysIn(f.period2)
  PROVE  /\ h \in Int /\ TotalDays(f) \in Int /\ Len(XmlPeriods(f)) \in Int
         /\ h <= 2 * TotalDays(f) /\ 2 * TotalDays(f) <= h + Len(XmlPeriods(f))
<1>1. HalfDaysIn(f.period1) \in Int /\ HalfDaysIn(f.period2) \in Int
  BY FicheTypes, FiguresAreInt
<1>2. PICK a \in Int, b \in Int, c \in Int, d \in Int :
        /\ a = HalfDaysIn(f.period1) /\ b = HalfDaysIn(f.period2)
        /\ c = XmlDays(a) /\ d = XmlDays(b)
  BY <1>1, RoundingUp
<1>3. h = a + b /\ TotalDays(f) = c + d
  BY <1>2 DEF TotalDays, Days
<1>4. a <= 2 * c /\ 2 * c <= a + 1 /\ b <= 2 * d /\ 2 * d <= b + 1
  BY <1>2, RoundingUp
<1>5. CASE f.period2 = {}
  <2>1. Len(XmlPeriods(f)) = 1
    BY <1>5 DEF XmlPeriods
  <2>2. b = 0 /\ d = 0
    BY <1>2, <1>5, FiguresAreInt DEF XmlDays
  <2> QED
    BY <1>2, <1>3, <1>4, <2>1, <2>2
<1>6. CASE f.period2 # {}
  <2>1. Len(XmlPeriods(f)) = 2
    BY <1>6 DEF XmlPeriods
  <2> QED
    BY <1>2, <1>3, <1>4, <2>1
<1> QED
  BY <1>5, <1>6

LEMMA AmountsAddUp ==
  ASSUME ValidRequest, Inv, Finished
  PROVE  OverFiches(TotalAmount) = Amount(Archived)
<1> DEFINE g == [n \in DOMAIN fiches |-> TotalAmount(fiches[n])]
           v == AmountsOf(request)
<1>1. Integral(v, Indices)
  BY FiguresTyped DEF ValidRequest, Indices
<1>2. \A S : Amount(S) = SumFunctionOnSet(v, S)
  BY DEF Amount, AmountsOf, Indices
<1>3. \A n \in DOMAIN fiches : g[n] = SumFunctionOnSet(v, fiches[n].period1)
                                        + SumFunctionOnSet(v, fiches[n].period2)
  BY <1>2 DEF TotalAmount
<1>4. OverFiches(TotalAmount) = SumFunctionOnSet(g, DOMAIN fiches)
  BY DEF OverFiches, SumFunction
<1> HIDE DEF g, v
<1> QED
  BY <1>1, <1>2, <1>3, <1>4, PartsAddUp

LEMMA HalfDaysAddUp ==
  ASSUME ValidRequest, Inv, Finished, NEW h,
         \A n \in DOMAIN fiches : h[n] = HalfDaysIn(fiches[n].period1)
                                           + HalfDaysIn(fiches[n].period2)
  PROVE  SumFunctionOnSet(h, DOMAIN fiches) = HalfDaysIn(Archived)
<1> DEFINE v == HalfDaysOf(request)
<1>1. Integral(v, Indices)
  BY FiguresTyped DEF ValidRequest, Indices
<1>2. \A S : HalfDaysIn(S) = SumFunctionOnSet(v, S)
  BY DEF HalfDaysIn, HalfDays, HalfDaysOf, Indices
<1> HIDE DEF v
<1> QED
  BY <1>1, <1>2, PartsAddUp

LEMMA DaysAddUp ==
  ASSUME ValidRequest, Inv, Finished, NEW periods,
         \A n \in DOMAIN fiches : periods[n] = Len(XmlPeriods(fiches[n]))
  PROVE  2 * OverFiches(TotalDays) - HalfDaysIn(Archived)
           \in 0 .. SumFunctionOnSet(periods, DOMAIN fiches)
<1> DEFINE D == DOMAIN fiches
           days == [n \in D |-> TotalDays(fiches[n])]
           twice == [n \in D |-> days[n] + days[n]]
           half == [n \in D |-> HalfDaysIn(fiches[n].period1) + HalfDaysIn(fiches[n].period2)]
           most == [n \in D |-> half[n] + periods[n]]
<1>1. IsFiniteSet(D)
  BY FicheTypes
<1>2. OverFiches(TotalDays) = SumFunctionOnSet(days, D)
  BY DEF OverFiches, SumFunction
<1>3. SumFunctionOnSet(half, D) = HalfDaysIn(Archived)
  BY HalfDaysAddUp
<1>4. ASSUME NEW n \in D
      PROVE  /\ half[n] \in Int /\ days[n] \in Int /\ periods[n] \in Int
             /\ half[n] <= 2 * days[n] /\ 2 * days[n] <= half[n] + periods[n]
  BY DaysWritten
<1>5. /\ Integral(days, D) /\ Integral(twice, D) /\ Integral(half, D) /\ Integral(periods, D)
      /\ Integral(most, D)
  BY <1>4 DEF Integral
<1>6. /\ \A n \in D : twice[n] = days[n] + days[n] /\ most[n] = half[n] + periods[n]
      /\ \A n \in D : half[n] <= twice[n] /\ twice[n] <= most[n]
  BY <1>4
<1> HIDE DEF D, days, twice, half, most
<1>7. PICK d, h, t, m, p :
        /\ d = SumFunctionOnSet(days, D) /\ h = SumFunctionOnSet(half, D)
        /\ t = SumFunctionOnSet(twice, D) /\ m = SumFunctionOnSet(most, D)
        /\ p = SumFunctionOnSet(periods, D)
  OBVIOUS
<1>8. d \in Int /\ h \in Int /\ p \in Int
  BY <1>1, <1>5, <1>7, SumIsInt
<1>9. t = d + d /\ m = h + p
  <2>1. t = d + d
    BY <1>1, <1>5, <1>6, <1>7, SumPlus
  <2>2. m = h + p
    BY <1>1, <1>5, <1>6, <1>7, SumPlus
  <2> QED
    BY <2>1, <2>2
<1>10. h <= t /\ t <= m
  BY <1>1, <1>5, <1>6, <1>7, SumAtMost
<1>11. 2 * d - h \in 0 .. p
  BY <1>8, <1>9, <1>10
<1> QED
  BY <1>2, <1>3, <1>7, <1>11 DEF D

\* The file adds up with the participations stored beside it: every cent counts once, control
\* totals are those of the elements written, counts those of the records, and rounding up half
\* days adds less than a day per period (generate_bow_xml, _fiche_totaalcontrole).
THEOREM DeclarationAdds == DeclarationSpec => []DeclarationAddsUp
<1>1. DeclarationInv => DeclarationAddsUp
  <2> SUFFICES ASSUME DeclarationInv, phase = "done" PROVE DeclarationAddsUp
    BY DEF DeclarationAddsUp
  <2> DEFINE written == xml.fiches
             D == DOMAIN fiches
             fichesIn == Cardinality({x.volgnummer : x \in Range(written)})
  <2>1. ValidRequest /\ Inv /\ Finished /\ xml = GeneratedXml
    BY DEF DeclarationInv
  <2>2. /\ written = [n \in D |-> XmlFiche(n)] /\ xml.trailer = XmlTrailer
        /\ DOMAIN written = D /\ \A n \in D : written[n] = XmlFiche(n)
    BY <2>1 DEF GeneratedXml
  <2>3. D = 1 .. Len(fiches) /\ Len(fiches) \in Nat
    BY <2>1, FicheTypes
  <2>4. ASSUME NEW n \in D
        PROVE  /\ written[n].volgnummer = n
               /\ written[n].total = TotalAmount(fiches[n])
               /\ written[n].control = FicheControl(fiches[n])
               /\ written[n].periods = XmlPeriods(fiches[n])
               /\ AmountWritten(written[n]) = TotalAmount(fiches[n])
    <3>1. AmountWritten(XmlFiche(n)) = TotalAmount(fiches[n])
      BY <2>1, AmountsWritten
    <3> QED
      BY <2>2, <3>1 DEF XmlFiche
  <2>5. SumFunction([n \in DOMAIN written |-> AmountWritten(written[n])]) = Amount(Archived)
    <3>1. [n \in DOMAIN written |-> AmountWritten(written[n])]
            = [n \in D |-> TotalAmount(fiches[n])]
      BY <2>2, <2>4
    <3> QED
      BY <2>1, <3>1, AmountsAddUp DEF OverFiches
  <2>6. ASSUME NEW x \in Range(written)
        PROVE  x.total = AmountWritten(x) /\ x.control = AmountWritten(x) + x.total
    <3>1. PICK n \in D : x = written[n]
      BY <2>2 DEF Range
    <3> QED
      BY <2>4, <3>1 DEF FicheControl, TotalAmount
  <2>7. SumFunction([n \in DOMAIN written |-> written[n].control]) = OverFiches(FicheControl)
    <3>1. [n \in DOMAIN written |-> written[n].control] = [n \in D |-> FicheControl(fiches[n])]
      BY <2>2, <2>4
    <3> QED
      BY <3>1 DEF OverFiches
  <2>8. SumFunction([n \in DOMAIN written |-> written[n].volgnummer]) = FicheNumbers
    <3>1. [n \in DOMAIN written |-> written[n].volgnummer] = [n \in D |-> n]
      BY <2>2, <2>4
    <3> QED
      BY <3>1 DEF FicheNumbers
  <2>9. fichesIn = Len(fiches)
    <3>1. {x.volgnummer : x \in Range(written)} = 1 .. Len(fiches)
      BY <2>2, <2>3, <2>4 DEF Range
    <3>2. Cardinality(1 .. Len(fiches)) = Len(fiches)
      <4>1. 1 \in Int /\ Len(fiches) \in Int
        BY <2>3
      <4>2. Cardinality(1 .. Len(fiches))
              = IF 1 > Len(fiches) THEN 0 ELSE Len(fiches) - 1 + 1
        BY <4>1, FS_Interval
      <4> QED
        BY <2>3, <4>2
    <3> QED
      BY <3>1, <3>2
  <2>10. /\ xml.trailer.r8010 = Len(fiches) + 2 /\ xml.trailer.r9010 = Len(fiches)
         /\ xml.trailer.r9011 = Len(fiches) + 4
         /\ xml.trailer.r8012 = OverFiches(FicheControl)
         /\ xml.trailer.r9013 = OverFiches(FicheControl)
         /\ xml.trailer.r8011 = FicheNumbers /\ xml.trailer.r9012 = FicheNumbers
    BY <2>2 DEF XmlTrailer
  <2>11. Summary.amount = Amount(Archived)
    BY <2>1, AmountsAddUp DEF Summary
  <2>12. Summary.skipped = Len(request) - Cardinality(Archived)
    BY <2>1, SkippedAddsUp DEF Summary
  <2>13. 2 * Summary.days - HalfDaysIn(Archived)
           \in 0 .. SumFunction([n \in DOMAIN written |-> Len(written[n].periods)])
    <3> DEFINE periods == [n \in D |-> Len(XmlPeriods(fiches[n]))]
    <3>1. [n \in DOMAIN written |-> Len(written[n].periods)] = periods
      BY <2>2, <2>4
    <3>2. SumFunction(periods) = SumFunctionOnSet(periods, D)
      BY DEF SumFunction
    <3>3. \A n \in DOMAIN fiches : periods[n] = Len(XmlPeriods(fiches[n]))
      OBVIOUS
    <3>4. Summary.days = OverFiches(TotalDays)
      BY DEF Summary
    <3>5. 2 * OverFiches(TotalDays) - HalfDaysIn(Archived) \in 0 .. SumFunctionOnSet(periods, D)
      <4> HIDE DEF periods
      <4> QED
        BY <2>1, <3>3, DaysAddUp
    <3> QED
      BY <3>1, <3>2, <3>4, <3>5
  <2>14. xml.trailer.r9011 = xml.trailer.r8010 + 2
    BY <2>3, <2>10
  <2> QED
    BY <2>5, <2>6, <2>7, <2>8, <2>9, <2>10, <2>11, <2>12, <2>13, <2>14
       DEF DeclarationAddsUp, AmountWritten
<1> QED
  BY <1>1, DeclarationInvariant, PTL

-----------------------------------------------------------------------------
(* What a preview tells, in terms that no order of the rows changes.       *)

PeriodTold(p) ==
  [start |-> p.start, end |-> p.end, amount |-> p.amount, half |-> p.half,
   days |-> XmlDays(p.half),
   tariff |-> IF XmlDays(p.half) = 0 THEN 0 ELSE Rounded(p.amount, XmlDays(p.half))]

\* y is the preview's fiche of the rows r, in periods S and T.
TellsSplit(y, r, rows, S, T) ==
  LET p1 == FiguresIn(r, S)
      p2 == FiguresIn(r, T)
  IN  /\ IsSplit(r, y.pair, S, T)
      /\ y.period1 = PeriodTold(p1)
      /\ y.period2 = IF T = {} THEN None ELSE PeriodTold(p2)
      /\ y.total = p1.amount + p2.amount
      /\ y.control = p1.amount + p2.amount + y.total
      /\ y.warnings = WarnedIn(r, S, T)
      /\ \E i \in S \cup T : y.household = HouseholdOf[rows[i]]
      /\ BlankIn[y.household] \subseteq y.missing

Tells(y, r, rows) == \E S, T \in SUBSET (1 .. Len(r)) : TellsSplit(y, r, rows, S, T)

\* The fiches ps shown are those of the pairs of r.
TellAll(ps, r, rows) ==
  /\ Len(ps) \in Nat /\ DOMAIN ps = 1 .. Len(ps)
  /\ \A k \in DOMAIN ps : Tells(ps[k], r, rows)
  /\ \A k, l \in DOMAIN ps : ps[k].pair = ps[l].pair => k = l
  /\ \A i \in 1 .. Len(r) : r[i].confirmed => \E k \in DOMAIN ps : ps[k].pair = r[i].pair

LEMMA TellsReordered ==
  ASSUME NEW o, NEW q, NEW r, NEW y, NEW rows, NEW rowsOf, Reorders(o, q, r),
         Tells(y, r, rows), \A i \in 1 .. Len(q) : rowsOf[i] = rows[o[i]]
  PROVE  Tells(y, q, rowsOf)
<1>1. PICK S \in SUBSET (1 .. Len(r)), T \in SUBSET (1 .. Len(r)) : TellsSplit(y, r, rows, S, T)
  BY DEF Tells
<1>2. PICK U, V : U = Found(o, S) /\ V = Found(o, T)
  OBVIOUS
<1>3. /\ U \in SUBSET (1 .. Len(q)) /\ V \in SUBSET (1 .. Len(q))
      /\ U = {} <=> S = {}
      /\ V = {} <=> T = {}
  BY <1>2, FoundAgain
<1>4. FiguresIn(q, U) = FiguresIn(r, S) /\ FiguresIn(q, V) = FiguresIn(r, T)
  BY <1>2, FiguresFound
<1>5. IsSplit(q, y.pair, U, V)
  BY <1>1, <1>2, SplitFound DEF TellsSplit
<1>6. WarnedIn(q, U, V) = WarnedIn(r, S, T)
  <2>1. UnbrokenIn(q, V) <=> UnbrokenIn(r, T)
    BY <1>2, UnbrokenFound
  <2> QED
    BY <1>3, <1>4, <2>1 DEF WarnedIn
<1>7. \E i \in U \cup V : y.household = HouseholdOf[rowsOf[i]]
  <2>1. PICK k \in S \cup T : y.household = HouseholdOf[rows[k]]
    BY <1>1 DEF TellsSplit
  <2>2. PICK i \in 1 .. Len(q) : o[i] = k
    BY <2>1 DEF Reorders
  <2>3. i \in U \cup V
    BY <1>2, <2>1, <2>2 DEF Found, Reorders
  <2> QED
    BY <2>1, <2>2, <2>3
<1>8. TellsSplit(y, q, rowsOf, U, V)
  BY <1>1, <1>3, <1>4, <1>5, <1>6, <1>7 DEF TellsSplit
<1> QED
  BY <1>3, <1>8 DEF Tells

LEMMA AllReordered ==
  ASSUME NEW o, NEW q, NEW r, NEW ps, NEW rows, NEW rowsOf, Reorders(o, q, r),
         TellAll(ps, r, rows), \A i \in 1 .. Len(q) : rowsOf[i] = rows[o[i]]
  PROVE  TellAll(ps, q, rowsOf)
<1>1. \A k \in DOMAIN ps : Tells(ps[k], q, rowsOf)
  BY TellsReordered DEF TellAll
<1>2. ASSUME NEW i \in 1 .. Len(q), q[i].confirmed
      PROVE  \E k \in DOMAIN ps : ps[k].pair = q[i].pair
  <2>1. o[i] \in 1 .. Len(r) /\ q[i] = r[o[i]]
    BY DEF Reorders
  <2> QED
    BY <1>2, <2>1 DEF TellAll
<1> QED
  BY <1>1, <1>2 DEF TellAll

-----------------------------------------------------------------------------
(* The preview is made.                                                    *)

LEMMA HouseholdOfRow ==
  ASSUME Inv, NEW f, Items(f) \subseteq Indices, Items(f) # {},
         request \in Seq(Participation)
  PROVE  \E i \in Items(f) : HouseholdIn(f) = HouseholdOf[row[i]]
<1> DEFINE S == Items(f)
           v == [i \in S |-> i]
<1>1. S \subseteq Int
  BY DEF Indices
<1>2. IsFiniteSet(S)
  BY FiguresTyped DEF Indices
<1>3. \E i \in S : \A j \in S : i <= j
  <2>1. Integral(v, S)
    BY <1>1 DEF Integral
  <2>2. \E i \in S : \A j \in S : v[i] <= v[j]
    <3> HIDE DEF S, v
    <3>1. S # {}
      BY DEF S
    <3> QED
      BY <1>2, <2>1, <3>1, LeastExists
  <2> QED
    BY <2>2
<1>4. (CHOOSE i \in S : \A j \in S : i <= j) \in S
  BY <1>3
<1> QED
  BY <1>4 DEF HouseholdIn

LEMMA PeriodsTold ==
  \A S : PreviewPeriod(S) = PeriodTold(FiguresIn(request, S))
  BY FiguresHere DEF PreviewPeriod, PeriodTold, DailyTariff

LEMMA FicheTells ==
  ASSUME ValidRequest, Inv, Finished, NEW n \in DOMAIN fiches
  PROVE  Tells(PreviewFiche(n), request, row)
<1> DEFINE f == fiches[n]
           y == PreviewFiche(n)
           S == f.period1
           T == f.period2
<1>1. /\ S \in SUBSET Indices /\ T \in SUBSET Indices
      /\ IsSplit(request, f.pair, S, T)
      /\ WarningsOf(f.pair, warnings) = WarnedIn(request, S, T)
  BY FichesSplit
<1>2. /\ Amount(S) = FiguresIn(request, S).amount
      /\ Amount(T) = FiguresIn(request, T).amount
  BY FiguresHere
<1>3. /\ y.pair = f.pair
      /\ y.period1 = PeriodTold(FiguresIn(request, S))
      /\ y.period2 = IF T = {} THEN None ELSE PeriodTold(FiguresIn(request, T))
      /\ y.total = Amount(S) + Amount(T)
      /\ y.control = Amount(S) + Amount(T) + y.total
      /\ y.warnings = WarningsOf(f.pair, warnings)
      /\ y.household = HouseholdIn(f)
      /\ y.missing = MissingFields(f)
  BY PeriodsTold DEF PreviewFiche, WarningsOf
<1>4. \E i \in S \cup T : y.household = HouseholdOf[row[i]]
  <2>1. Items(f) = S \cup T /\ Items(f) \subseteq Indices /\ Items(f) # {}
    BY <1>1 DEF Items, IsSplit
  <2>2. request \in Seq(Participation)
    BY DEF ValidRequest
  <2> HIDE DEF f
  <2> QED
    BY <1>3, <2>1, <2>2, HouseholdOfRow
<1>5. BlankIn[y.household] \subseteq y.missing
  BY <1>3 DEF MissingFields
<1> HIDE DEF f, y, S, T
<1>6. TellsSplit(y, request, row, S, T)
  BY <1>1, <1>2, <1>3, <1>4, <1>5 DEF TellsSplit
<1> QED
  BY <1>1, <1>6 DEF Tells, Indices, y

LEMMA RoundedNat ==
  ASSUME NEW a \in Nat, NEW d \in Nat \ {0}
  PROVE  Rounded(a, d) \in Nat
<1>1. a \div d \in Nat
  OBVIOUS
<1> QED
  BY <1>1 DEF Rounded

\* A period 2 that is told is not None.
LEMMA ToldIsSome ==
  ASSUME NEW r \in Seq(Participation), NEW S \in SUBSET (1 .. Len(r)), S # {}
  PROVE  PeriodTold(FiguresIn(r, S)) # None
<1> DEFINE p == FiguresIn(r, S)
<1>1. p.amount \in Nat /\ p.half \in Nat /\ p.start \in Int /\ p.end \in Int
  BY FiguresInRange
<1> HIDE DEF p
<1>2. XmlDays(p.half) \in Nat
  BY <1>1 DEF XmlDays
<1>3. (IF XmlDays(p.half) = 0 THEN 0 ELSE Rounded(p.amount, XmlDays(p.half))) \in Nat
  BY <1>1, <1>2, RoundedNat
<1>4. PeriodTold(p) \in PeriodPreview
  BY <1>1, <1>2, <1>3 DEF PeriodTold, PeriodPreview
<1> QED
  BY <1>4, NoneAssumption DEF p

DaysTold(y) == y.period1.days + (IF y.period2 = None THEN 0 ELSE y.period2.days)

\* The days told of a fiche are those the summary counts.
LEMMA DaysAreTold ==
  ASSUME ValidRequest, Inv, Finished, NEW n \in DOMAIN fiches, NEW y,
         NEW S, S = fiches[n].period1, NEW T, T = fiches[n].period2,
         y.period1 = PeriodTold(FiguresIn(request, S)),
         y.period2 = IF T = {} THEN None ELSE PeriodTold(FiguresIn(request, T))
  PROVE  /\ DaysTold(y) = TotalDays(fiches[n])
         /\ y.period2 = None <=> T = {}
<1>1. S \in SUBSET Indices /\ T \in SUBSET Indices
  BY FicheTypes
<1>2. request \in Seq(Participation)
  BY DEF ValidRequest
<1>3. y.period1.days = Days(S)
  BY FiguresHere DEF PeriodTold
<1>4. CASE T = {}
  <2>1. Days(T) = 0
    BY <1>4, FiguresAreInt DEF Days, XmlDays
  <2>2. Days(S) \in Int
    BY <1>1, FiguresAreInt DEF Days, XmlDays
  <2> QED
    BY <1>3, <1>4, <2>1, <2>2 DEF DaysTold, TotalDays
<1>5. CASE T # {}
  <2>1. y.period2 # None
    BY <1>1, <1>2, <1>5, ToldIsSome DEF Indices
  <2>2. y.period2.days = Days(T)
    BY <1>5, FiguresHere DEF PeriodTold
  <2> QED
    BY <1>3, <1>5, <2>1, <2>2 DEF DaysTold, TotalDays
<1> QED
  BY <1>4, <1>5

\* What a preview tells keeps fitting the request it was made of, and its numbers, whatever the
\* order of the rows.
PreviewFits ==
  /\ \A i \in Indices : request[i].confirmed
  /\ preview.errors = (InvalidNumbers # {} \/ request = <<>>)
  /\ request # <<>> =>
       /\ preview.header = PreviewHeader /\ preview.missing = OrgMissing
       /\ preview.trailer = PreviewTrailer(preview.fiches)
       /\ preview.summary =
            [fiches  |-> Len(preview.fiches), amount |-> Amount(Archived),
             days    |-> SumFunction([k \in DOMAIN preview.fiches |-> DaysTold(preview.fiches[k])]),
             skipped |-> 0]
       /\ TellAll(preview.fiches, request, row)
       /\ \A k \in DOMAIN preview.fiches :
            preview.fiches[k].birth = BirthOf(preview.fiches[k].pair)

LEMMA NoneSkipped ==
  ASSUME ValidRequest, Inv, Finished, \A i \in Indices : request[i].confirmed
  PROVE  skipped = 0 /\ Archived = Indices
<1>1. Archived = Indices
  BY DEF Archived
<1>2. Len(request) \in Nat /\ Indices = 1 .. Len(request)
  BY DEF ValidRequest, Indices
<1>3. Cardinality(1 .. Len(request)) = Len(request)
  <2>1. 1 \in Int /\ Len(request) \in Int
    BY <1>2
  <2>2. Cardinality(1 .. Len(request))
          = IF 1 > Len(request) THEN 0 ELSE Len(request) - 1 + 1
    BY <2>1, FS_Interval
  <2> QED
    BY <1>2, <2>2
<1>4. skipped = Len(request) - Cardinality(Archived)
  BY SkippedAddsUp
<1> QED
  BY <1>1, <1>2, <1>3, <1>4

\* The preview tells all of the rows it is made of.
LEMMA PreviewTellsAll ==
  ASSUME ValidRequest, Inv, Finished, \A i \in Indices : request[i].confirmed
  PROVE  LET ps == FullPreview.fiches
         IN  /\ TellAll(ps, request, row)
             /\ \A k \in DOMAIN ps : ps[k].birth = BirthOf(ps[k].pair)
             /\ SumFunction([k \in DOMAIN ps |-> DaysTold(ps[k])]) = OverFiches(TotalDays)
             /\ Len(ps) = Len(fiches)
<1> DEFINE ps == FullPreview.fiches
<1>1. ps = [n \in DOMAIN fiches |-> PreviewFiche(n)]
  BY DEF FullPreview
<1>2. DOMAIN fiches = 1 .. Len(fiches) /\ Len(fiches) \in Nat
  BY FicheTypes
<1>3. DOMAIN ps = 1 .. Len(fiches) /\ \A k \in DOMAIN ps : ps[k] = PreviewFiche(k)
  BY <1>1, <1>2
<1>4. Len(ps) = Len(fiches)
  BY <1>2, <1>3
<1>5. \A k \in DOMAIN ps : Tells(ps[k], request, row)
  BY <1>2, <1>3, FicheTells
<1>6. \A k \in DOMAIN ps : ps[k].pair = fiches[k].pair /\ ps[k].birth = BirthOf(ps[k].pair)
  <2>1. \A k : /\ PreviewFiche(k).pair = fiches[k].pair
               /\ PreviewFiche(k).birth = BirthOf(fiches[k].pair)
    BY DEF PreviewFiche
  <2> HIDE DEF ps
  <2> QED
    BY <1>3, <2>1
<1>7. \A k, l \in DOMAIN ps : ps[k].pair = ps[l].pair => k = l
  BY <1>2, <1>3, <1>6, InvCounts DEF EachCountsOnce
<1>8. \A i \in 1 .. Len(request) : request[i].confirmed
      => \E k \in DOMAIN ps : ps[k].pair = request[i].pair
  <2>1. \A i \in Archived : \E n \in DOMAIN fiches : fiches[n].pair = request[i].pair
    BY InvCounts DEF EachCountsOnce
  <2> QED
    BY <1>2, <1>3, <1>6, <2>1 DEF Archived, Indices
<1>9. TellAll(ps, request, row)
  BY <1>2, <1>3, <1>4, <1>5, <1>7, <1>8 DEF TellAll
<1>10. \A n \in DOMAIN fiches : DaysTold(ps[n]) = TotalDays(fiches[n])
  <2> SUFFICES ASSUME NEW n \in DOMAIN fiches PROVE DaysTold(ps[n]) = TotalDays(fiches[n])
    OBVIOUS
  <2>1. /\ ps[n].period1 = PeriodTold(FiguresIn(request, fiches[n].period1))
        /\ ps[n].period2 = IF fiches[n].period2 = {} THEN None
                           ELSE PeriodTold(FiguresIn(request, fiches[n].period2))
    <3>1. /\ PreviewFiche(n).period1 = PeriodTold(FiguresIn(request, fiches[n].period1))
          /\ PreviewFiche(n).period2 = IF fiches[n].period2 = {} THEN None
                                       ELSE PeriodTold(FiguresIn(request, fiches[n].period2))
      BY PeriodsTold DEF PreviewFiche
    <3> HIDE DEF ps
    <3> QED
      BY <1>2, <1>3, <3>1
  <2> HIDE DEF ps
  <2> QED
    BY <2>1, DaysAreTold
<1>11. SumFunction([k \in DOMAIN ps |-> DaysTold(ps[k])]) = OverFiches(TotalDays)
  <2>1. [k \in DOMAIN ps |-> DaysTold(ps[k])] = [n \in DOMAIN fiches |-> TotalDays(fiches[n])]
    BY <1>2, <1>3, <1>10
  <2> QED
    BY <2>1 DEF OverFiches
<1> QED
  BY <1>4, <1>6, <1>9, <1>11

LEMMA ReorderedRows ==
  ASSUME ValidRequest, NEW o \in Orders, DOMAIN o = Indices,
         request' = [i \in Indices |-> request[o[i]]]
  PROVE  /\ Reorders(o, request', request)
         /\ request' = <<>> <=> request = <<>>
<1>1. /\ o \in [Indices -> Indices]
      /\ \A i, j \in Indices : o[i] = o[j] => i = j
      /\ Indices' = Indices
      /\ ValidRequest'
  BY Reordered
<1>2. \A k \in Indices : \E i \in Indices : o[i] = k
  <2>1. o \in Bijection(DOMAIN o, DOMAIN o)
    BY DeclarationAssumption
  <2> QED
    BY <2>1 DEF Bijection, Surjection
<1>3. request \in Seq(Participation) /\ request' \in Seq(Participation)
  BY <1>1 DEF ValidRequest
<1>4. Indices = 1 .. Len(request) /\ Indices = 1 .. Len(request')
  BY <1>1 DEF Indices
<1>5. Reorders(o, request', request)
  BY <1>1, <1>2, <1>3, <1>4 DEF Reorders
<1>6. Len(request') = Len(request)
  BY <1>3, <1>4
<1>7. \A s \in Seq(Participation) : s = <<>> <=> Len(s) = 0
  OBVIOUS
<1> QED
  BY <1>3, <1>5, <1>6, <1>7

LEMMA ShownFits ==
  ASSUME DeclarationInv, \A i \in Indices : request[i].confirmed, ShowPreview
  PROVE  PreviewFits'
<1>1. ValidRequest /\ Inv /\ Finished
  BY DEF DeclarationInv, ShowPreview
<1>2. PICK o \in Orders :
        /\ DOMAIN o = Indices
        /\ request' = [i \in Indices |-> request[o[i]]]
        /\ row' = [i \in Indices |-> row[o[i]]]
  BY DEF ShowPreview
<1>3. /\ Reorders(o, request', request) /\ (request' = <<>> <=> request = <<>>)
      /\ Indices' = Indices /\ Indices = 1 .. Len(request) /\ Indices = 1 .. Len(request')
  BY <1>1, <1>2, Reordered, ReorderedRows DEF Indices
<1>4. /\ o \in [Indices -> Indices]
      /\ \A k \in Indices : \E i \in Indices : o[i] = k
      /\ \A i \in Indices : request'[i] = request[o[i]] /\ row'[i] = row[o[i]]
  BY <1>2, <1>3 DEF Reorders
<1>5. \A i \in Indices' : request'[i].confirmed
  BY <1>3, <1>4
<1>6. UNCHANGED <<org, numbers>>
  BY DEF ShowPreview, inputVars
<1>7. Archived = Indices /\ Archived' = Indices
  BY <1>3, <1>5 DEF Archived
<1>8. UNCHANGED InvalidNumbers
  BY <1>4, <1>6, <1>7 DEF InvalidNumbers
<1>9. UNCHANGED Amount(Archived)
  <2>1. Renamed(o, Indices) = Indices
    BY <1>4 DEF Renamed
  <2>2. FiguresIn(request', Indices) = FiguresIn(request, Indices)
    BY <1>3, <2>1, FiguresReordered
  <2>3. Amount(Archived) = FiguresIn(request, Indices).amount
    BY <1>7, FiguresHere
  <2>4. Amount(Archived)' = SumFunctionOnSet(AmountsOf(request'), Indices)
    BY <1>3, <1>7 DEF Amount, AmountsOf
  <2>5. FiguresIn(request', Indices).amount = SumFunctionOnSet(AmountsOf(request'), Indices)
    BY DEF FiguresIn
  <2> QED
    BY <2>2, <2>3, <2>4, <2>5
<1>10. UNCHANGED <<PreviewHeader, OrgMissing>> /\ \A p : UNCHANGED BirthOf(p)
  BY <1>6 DEF PreviewHeader, OrgMissing, BirthOf
<1>11. CASE request = <<>>
  <2>1. preview' = EmptyPreview
    BY <1>11 DEF ShowPreview
  <2>2. preview'.errors = TRUE
    BY <2>1 DEF EmptyPreview
  <2> QED
    BY <1>3, <1>5, <1>11, <2>2 DEF PreviewFits
<1>12. CASE request # <<>>
  <2>1. preview' = FullPreview
    BY <1>12 DEF ShowPreview
  <2> DEFINE ps == FullPreview.fiches
  <2>2. /\ preview'.header = PreviewHeader /\ preview'.missing = OrgMissing
        /\ preview'.fiches = ps /\ preview'.trailer = PreviewTrailer(ps)
        /\ preview'.summary = Summary /\ preview'.errors = (InvalidNumbers # {})
    BY <2>1 DEF FullPreview
  <2>3. /\ TellAll(ps, request, row)
        /\ \A k \in DOMAIN ps : ps[k].birth = BirthOf(ps[k].pair)
        /\ SumFunction([k \in DOMAIN ps |-> DaysTold(ps[k])]) = OverFiches(TotalDays)
        /\ Len(ps) = Len(fiches)
    BY <1>1, PreviewTellsAll
  <2> HIDE DEF ps
  <2>4. TellAll(ps, request', row')
    BY <1>3, <1>4, <2>3, AllReordered
  <2>5. Summary = [fiches |-> Len(ps), amount |-> Amount(Archived),
                   days |-> SumFunction([k \in DOMAIN ps |-> DaysTold(ps[k])]), skipped |-> 0]
    BY <1>1, <2>3, AmountsAddUp, NoneSkipped DEF Summary
  <2>6. preview'.errors = (InvalidNumbers' # {} \/ request' = <<>>)
    BY <1>3, <1>8, <1>12, <2>2
  <2> QED
    BY <1>5, <1>9, <1>10, <2>2, <2>3, <2>4, <2>5, <2>6 DEF PreviewFits
<1> QED
  BY <1>11, <1>12

PreviewInv ==
  /\ DeclarationInv
  /\ phase = "preview" => \A i \in Indices : request[i].confirmed
  /\ phase = "refused" => InvalidNumbers # {} \/ (Finished /\ fiches = <<>>)
  /\ phase = "done" => fiches # <<>>
  /\ preview # None => PreviewFits

LEMMA PreviewStart == DeclarationInit => PreviewInv
<1> SUFFICES ASSUME DeclarationInit PROVE PreviewInv
  OBVIOUS
<1>1. DeclarationInv
  BY DeclarationStart
<1>2. phase \in {"preview", "export"} /\ preview = None
  BY DEF DeclarationInit
<1>3. phase = "preview" => \A i \in Indices : request[i].confirmed
  BY DEF DeclarationInit
<1> QED
  BY <1>1, <1>2, <1>3 DEF PreviewInv

\* The preview keeps telling what it tells of rows, numbers and organization that stay.
LEMMA PreviewStays ==
  ASSUME UNCHANGED <<request, row, org, numbers, preview>>, preview # None => PreviewFits
  PROVE  preview' # None => PreviewFits'
<1> SUFFICES ASSUME PreviewFits PROVE PreviewFits'
  OBVIOUS
<1>1. UNCHANGED Indices
  BY DEF Indices
<1>2. UNCHANGED <<InvalidNumbers, Archived>>
  BY <1>1 DEF InvalidNumbers, Archived
<1>3. UNCHANGED Amount(Archived)
  BY <1>1, <1>2 DEF Amount
<1>4. UNCHANGED <<PreviewHeader, OrgMissing>> /\ \A p : UNCHANGED BirthOf(p)
  BY DEF PreviewHeader, OrgMissing, BirthOf
<1> QED
  BY <1>1, <1>2, <1>3, <1>4 DEF PreviewFits

LEMMA PreviewStep ==
  ASSUME PreviewInv, [DeclarationNext]_<<vars, declarationVars>>
  PROVE  PreviewInv'
<1>1. DeclarationInv'
  BY DeclarationStep DEF PreviewInv
<1>2. CASE Aggregate
  <2>1. UNCHANGED <<request, row, org, numbers, preview, phase>> /\ phase \in {"preview", "export"}
    BY <1>2, RequestKept DEF Aggregate, declarationVars, inputVars
  <2>2. phase' = "preview" => \A i \in Indices' : request'[i].confirmed
    BY <2>1 DEF PreviewInv, Indices
  <2> QED
    BY <1>1, <2>1, <2>2, PreviewStays DEF PreviewInv
<1>3. CASE ShowPreview
  <2>1. \A i \in Indices : request[i].confirmed
    BY <1>3 DEF PreviewInv, ShowPreview
  <2>2. PreviewFits'
    BY <1>3, <2>1, ShownFits DEF PreviewInv
  <2>3. phase' = "export"
    BY <1>3 DEF ShowPreview
  <2> QED
    BY <1>1, <2>2, <2>3 DEF PreviewInv
<1>4. CASE MakeXml
  <2>1. /\ UNCHANGED <<request, fiches, row, org, numbers, preview>>
        /\ phase' = "done" /\ fiches # <<>>
    BY <1>4 DEF MakeXml, vars, inputVars, ficheVars
  <2> QED
    BY <1>1, <2>1, PreviewStays DEF PreviewInv
<1>5. CASE RefuseExport
  <2>1. /\ UNCHANGED <<request, next, order, fiches, row, org, numbers, preview>>
        /\ phase' = "refused"
        /\ InvalidNumbers # {} \/ (Finished /\ fiches = <<>>)
    BY <1>5 DEF RefuseExport, vars, inputVars, groupVars, ficheVars
  <2>2. UNCHANGED <<InvalidNumbers, Finished>>
    BY <2>1 DEF InvalidNumbers, Archived, Indices, Finished, Grouped
  <2> QED
    BY <1>1, <2>1, <2>2, PreviewStays DEF PreviewInv
<1>6. CASE UNCHANGED <<vars, declarationVars>>
  <2>1. UNCHANGED <<request, next, order, fiches, row, org, numbers, preview, phase>>
    BY <1>6 DEF vars, declarationVars, inputVars, groupVars, ficheVars
  <2>2. UNCHANGED <<InvalidNumbers, Finished, Indices>>
    BY <2>1 DEF InvalidNumbers, Archived, Indices, Finished, Grouped
  <2> QED
    BY <1>1, <2>1, <2>2, PreviewStays DEF PreviewInv
<1> QED
  BY <1>2, <1>3, <1>4, <1>5, <1>6 DEF DeclarationNext

\* What a preview tells fits the rows in whatever order they come, until the export ends.
THEOREM PreviewInvariant == DeclarationSpec => []PreviewInv
  BY PreviewStart, PreviewStep, PTL DEF DeclarationSpec

-----------------------------------------------------------------------------
(* The preview and the file.                                               *)

\* h finds among the fiches ps of the preview those of the export.
Twins(h, ps) ==
  /\ h \in [DOMAIN fiches -> DOMAIN ps]
  /\ \A m, n \in DOMAIN fiches : h[m] = h[n] => m = n
  /\ \A k \in DOMAIN ps : \E n \in DOMAIN fiches : h[n] = k
  /\ \A n \in DOMAIN fiches :
       /\ ps[h[n]].pair = fiches[n].pair
       /\ TellsSplit(ps[h[n]], request, row, fiches[n].period1, fiches[n].period2)

LEMMA TwinsExist ==
  ASSUME ValidRequest, Inv, Finished, NEW ps, TellAll(ps, request, row)
  PROVE  \E h : Twins(h, ps)
<1> DEFINE D == DOMAIN fiches
           h == [n \in D |-> CHOOSE k \in DOMAIN ps : ps[k].pair = fiches[n].pair]
<1>1. request \in Seq(Participation) /\ \A i \in 1 .. Len(request) : request[i].start <= request[i].end
  BY DEF ValidRequest, Indices
<1>2. ASSUME NEW n \in D
      PROVE  \E i \in Archived : request[i].pair = fiches[n].pair
  <2>1. IsSplit(request, fiches[n].pair, fiches[n].period1, fiches[n].period2)
    BY FichesSplit
  <2>2. PICK i : i \in fiches[n].period1
    BY <2>1 DEF IsSplit
  <2> QED
    BY <2>1, <2>2 DEF IsSplit, Archived, Indices
<1>3. ASSUME NEW n \in D
      PROVE  h[n] \in DOMAIN ps /\ ps[h[n]].pair = fiches[n].pair
  <2>1. PICK i \in Archived : request[i].pair = fiches[n].pair
    BY <1>2
  <2>2. \E k \in DOMAIN ps : ps[k].pair = fiches[n].pair
    BY <2>1 DEF TellAll, Archived, Indices
  <2> QED
    BY <2>2
<1>4. \A m, n \in D : fiches[m].pair = fiches[n].pair => m = n
  BY InvCounts DEF EachCountsOnce
<1>5. ASSUME NEW k \in DOMAIN ps
      PROVE  \E n \in D : h[n] = k
  <2>1. PICK S, T : TellsSplit(ps[k], request, row, S, T)
    BY DEF TellAll, Tells
  <2>2. IsSplit(request, ps[k].pair, S, T)
    BY <2>1 DEF TellsSplit
  <2>3. PICK i : i \in S
    BY <2>2 DEF IsSplit
  <2>4. i \in Archived /\ request[i].pair = ps[k].pair
    BY <2>2, <2>3 DEF IsSplit, Archived, Indices
  <2>5. PICK n \in D : fiches[n].pair = ps[k].pair
    BY <2>4, InvCounts DEF EachCountsOnce
  <2>6. h[n] \in DOMAIN ps /\ ps[h[n]].pair = ps[k].pair
    BY <1>3, <2>5
  <2>7. h[n] = k
    BY <2>6 DEF TellAll
  <2> QED
    BY <2>7
<1>6. ASSUME NEW n \in D
      PROVE  TellsSplit(ps[h[n]], request, row, fiches[n].period1, fiches[n].period2)
  <2>1. PICK S, T : TellsSplit(ps[h[n]], request, row, S, T)
    BY <1>3 DEF TellAll, Tells
  <2>2. IsSplit(request, fiches[n].pair, S, T)
    BY <1>3, <2>1 DEF TellsSplit
  <2>3. IsSplit(request, fiches[n].pair, fiches[n].period1, fiches[n].period2)
    BY FichesSplit
  <2>4. S = fiches[n].period1 /\ T = fiches[n].period2
    BY <1>1, <2>2, <2>3, SplitOnce
  <2> QED
    BY <2>1, <2>4
<1>7. h \in [D -> DOMAIN ps] /\ \A m, n \in D : h[m] = h[n] => m = n
  <2>1. h \in [D -> DOMAIN ps]
    BY <1>3
  <2>2. \A m, n \in D : h[m] = h[n] => m = n
    BY <1>3, <1>4
  <2> QED
    BY <2>1, <2>2
<1> HIDE DEF h
<1>8. Twins(h, ps)
  BY <1>3, <1>5, <1>6, <1>7 DEF Twins
<1> QED
  BY <1>8

LEMMA TwinSums ==
  ASSUME NEW h, NEW ps, NEW f, NEW g, Inv, Twins(h, ps), Integral(f, DOMAIN fiches),
         \A n \in DOMAIN fiches : g[h[n]] = f[n]
  PROVE  SumFunctionOnSet(g, DOMAIN ps) = SumFunctionOnSet(f, DOMAIN fiches)
<1>1. Renamed(h, DOMAIN fiches) = DOMAIN ps
  <2>1. \A n \in DOMAIN fiches : h[n] \in DOMAIN ps
    BY DEF Twins
  <2>2. \A k \in DOMAIN ps : \E n \in DOMAIN fiches : h[n] = k
    BY DEF Twins
  <2> QED
    BY <2>1, <2>2 DEF Renamed
<1>2. Renames(h, DOMAIN fiches, f, g)
  BY DEF Twins, Renames
<1>3. IsFiniteSet(DOMAIN fiches)
  BY FicheTypes
<1> QED
  BY <1>1, <1>2, <1>3, SumRenamed

LEMMA TwinLengths ==
  ASSUME Inv, NEW h, NEW ps, Twins(h, ps), Len(ps) \in Nat, DOMAIN ps = 1 .. Len(ps)
  PROVE  Len(ps) = Len(fiches)
<1>1. IsFiniteSet(DOMAIN fiches) /\ DOMAIN fiches = 1 .. Len(fiches) /\ Len(fiches) \in Nat
  BY FicheTypes
<1>2. h \in Bijection(DOMAIN fiches, DOMAIN ps)
  BY DEF Twins, Bijection, Injection, Surjection, IsInjective
<1>3. Cardinality(DOMAIN ps) = Cardinality(DOMAIN fiches)
  BY <1>1, <1>2, FS_Bijection DEF ExistsBijection
<1>4. \A n \in Nat : Cardinality(1 .. n) = n
  <2> SUFFICES ASSUME NEW n \in Nat PROVE Cardinality(1 .. n) = n
    OBVIOUS
  <2>1. 1 \in Int /\ n \in Int
    OBVIOUS
  <2>2. Cardinality(1 .. n) = IF 1 > n THEN 0 ELSE n - 1 + 1
    BY <2>1, FS_Interval
  <2> QED
    BY <2>2
<1> QED
  BY <1>1, <1>3, <1>4

LEMMA TrailersTwin ==
  ASSUME ValidRequest, Inv, Finished, NEW h, NEW ps, Twins(h, ps),
         Len(ps) \in Nat, DOMAIN ps = 1 .. Len(ps)
  PROVE  /\ PreviewTrailer(ps) = XmlTrailer
         /\ SumFunction([k \in DOMAIN ps |-> DaysTold(ps[k])]) = OverFiches(TotalDays)
<1> DEFINE D == DOMAIN fiches
           control == [n \in D |-> FicheControl(fiches[n])]
           days == [n \in D |-> TotalDays(fiches[n])]
           controlOf == [k \in DOMAIN ps |-> ps[k].control]
           daysOf == [k \in DOMAIN ps |-> DaysTold(ps[k])]
<1>1. Len(ps) = Len(fiches) /\ DOMAIN ps = D
  BY FicheTypes, TwinLengths
<1>2. ASSUME NEW n \in D
      PROVE  /\ controlOf[h[n]] = control[n] /\ control[n] \in Int
             /\ daysOf[h[n]] = days[n] /\ days[n] \in Int
  <2>1. h[n] \in DOMAIN ps
    BY DEF Twins
  <2>2. TellsSplit(ps[h[n]], request, row, fiches[n].period1, fiches[n].period2)
    BY DEF Twins
  <2>3. /\ Amount(fiches[n].period1) \in Int /\ Amount(fiches[n].period2) \in Int
        /\ TotalDays(fiches[n]) \in Int
    BY FicheTypes, FiguresAreInt, DaysWritten
  <2>4. ps[h[n]].control = FicheControl(fiches[n])
    BY <2>2, FiguresHere DEF TellsSplit, FicheControl, TotalAmount
  <2>5. DaysTold(ps[h[n]]) = TotalDays(fiches[n])
    BY <2>2, DaysAreTold DEF TellsSplit
  <2>6. FicheControl(fiches[n]) \in Int
    BY <2>3 DEF FicheControl, TotalAmount
  <2> QED
    BY <2>1, <2>3, <2>4, <2>5, <2>6
<1>3. Integral(control, D) /\ Integral(days, D)
  BY <1>2 DEF Integral
<1>4. /\ SumFunction(controlOf) = SumFunctionOnSet(controlOf, DOMAIN ps)
      /\ SumFunction(daysOf) = SumFunctionOnSet(daysOf, DOMAIN ps)
      /\ OverFiches(FicheControl) = SumFunctionOnSet(control, D)
      /\ OverFiches(TotalDays) = SumFunctionOnSet(days, D)
  BY DEF SumFunction, OverFiches
<1>5. SumFunction([k \in DOMAIN ps |-> k]) = FicheNumbers
  BY <1>1 DEF FicheNumbers
<1>6. SumFunction(controlOf) = OverFiches(FicheControl) /\ SumFunction(daysOf) = OverFiches(TotalDays)
  <2> HIDE DEF control, days, controlOf, daysOf
  <2>1. SumFunctionOnSet(controlOf, DOMAIN ps) = SumFunctionOnSet(control, D)
    BY <1>2, <1>3, TwinSums
  <2>2. SumFunctionOnSet(daysOf, DOMAIN ps) = SumFunctionOnSet(days, D)
    BY <1>2, <1>3, TwinSums
  <2> QED
    BY <1>4, <2>1, <2>2
<1>7. PreviewTrailer(ps) = XmlTrailer
  BY <1>1, <1>5, <1>6 DEF PreviewTrailer, XmlTrailer
<1> QED
  BY <1>6, <1>7

LEMMA HeadersTwin ==
  ASSUME phase = "done", xml.header = GeneratedXml.header,
         preview.header = PreviewHeader, preview.missing = OrgMissing
  PROVE  SameHeader /\ xml.header.languages = {"fr", "de"} \ preview.missing
<1>1. xml.header = [name |-> org.name, contact |-> PayloadContact,
                    phone |-> GivenOr(org.phone, ""), email |-> GivenOr(org.email, ""),
                    languages |-> Languages]
  BY DEF GeneratedXml
<1>2. preview.header = [name |-> org.name, contact |-> GivenOr(org.contact, ""),
                        phone |-> GivenOr(org.phone, ""), email |-> GivenOr(org.email, ""),
                        languages |-> Languages]
  BY DEF PreviewHeader, Languages
<1>3. /\ preview.header = [xml.header EXCEPT !.contact = preview.header.contact]
      /\ xml.header.languages = Languages
  <2>1. PICK name, contact, shown, phone, email, languages :
          /\ languages = Languages
          /\ xml.header = [name |-> name, contact |-> contact, phone |-> phone, email |-> email,
                           languages |-> languages]
          /\ preview.header = [name |-> name, contact |-> shown, phone |-> phone,
                               email |-> email, languages |-> languages]
    BY <1>1, <1>2, Zenon
  <2>2. preview.header.contact = shown /\ xml.header.languages = languages
    BY <2>1
  <2> QED
    BY <2>1, <2>2
<1>4. \/ preview.header.contact = xml.header.contact
      \/ "contact" \in preview.missing
  <2>1. CASE org.contact = None
    BY <2>1 DEF OrgMissing
  <2>2. CASE org.contact # None
    BY <1>1, <1>2, <2>2 DEF PayloadContact, GivenOr
  <2> QED
    BY <2>1, <2>2
<1>5. SameHeader
  BY <1>3, <1>4 DEF SameHeader
<1>6. Languages = {"fr", "de"} \ OrgMissing
  <2>1. \A l \in {"fr", "de"} : l \in OrgMissing <=> org[l] # Parts
    BY DEF OrgMissing
  <2> QED
    BY <2>1 DEF Languages
<1> QED
  <2>1. preview.missing = OrgMissing
    OBVIOUS
  <2> QED
    BY <1>3, <1>5, <1>6, <2>1, Zenon

LEMMA FichesRetold ==
  ASSUME ValidRequest, Inv, Finished, NEW n \in DOMAIN fiches, NEW y, y.pair = fiches[n].pair,
         TellsSplit(y, request, row, fiches[n].period1, fiches[n].period2),
         y.birth = BirthOf(y.pair)
  PROVE  LET x == XmlFiche(n)
         IN  /\ Retold(x, y)
             /\ y.warnings = WarningsOf(x.pair, warnings)
             /\ y.household = x.household => BlankIn[x.household] \subseteq y.missing
<1> DEFINE x == XmlFiche(n)
           S == fiches[n].period1
           T == fiches[n].period2
<1>1. /\ S \in SUBSET Indices /\ T \in SUBSET Indices
      /\ IsSplit(request, fiches[n].pair, S, T)
      /\ WarningsOf(fiches[n].pair, warnings) = WarnedIn(request, S, T)
  BY FichesSplit
<1>2. /\ x.pair = fiches[n].pair /\ x.birth = BirthOf(fiches[n].pair)
      /\ x.control = FicheControl(fiches[n]) /\ x.total = TotalAmount(fiches[n])
      /\ x.periods = XmlPeriods(fiches[n]) /\ x.household = HouseholdIn(fiches[n])
  BY DEF XmlFiche
<1>3. /\ y.period1 = PeriodTold(FiguresIn(request, S))
      /\ y.period2 = IF T = {} THEN None ELSE PeriodTold(FiguresIn(request, T))
      /\ y.total = Amount(S) + Amount(T)
      /\ y.control = Amount(S) + Amount(T) + y.total
      /\ y.warnings = WarnedIn(request, S, T)
      /\ \E i \in S \cup T : y.household = HouseholdOf[row[i]]
      /\ BlankIn[y.household] \subseteq y.missing
  BY FiguresHere DEF TellsSplit
<1>4. y.control = x.control /\ y.total = x.total
  BY <1>2, <1>3 DEF FicheControl, TotalAmount
<1>5. y.period2 = None <=> T = {}
  BY <1>3, DaysAreTold
<1>6. \A U : [field \in DOMAIN PeriodElements(U) |-> PeriodTold(FiguresIn(request, U))[field]]
               = PeriodElements(U)
  <2> SUFFICES ASSUME NEW U
               PROVE  [field \in DOMAIN PeriodElements(U) |->
                        PeriodTold(FiguresIn(request, U))[field]] = PeriodElements(U)
    OBVIOUS
  <2> DEFINE p == PeriodTold(FiguresIn(request, U))
  <2>1. p = PreviewPeriod(U)
    BY PeriodsTold
  <2>2. /\ p["start"] = Start(U) /\ p["end"] = End(U) /\ p["amount"] = Amount(U)
        /\ p["days"] = Days(U) /\ p["tariff"] = DailyTariff(U)
    BY <2>1 DEF PreviewPeriod
  <2> HIDE DEF p
  <2>3. [field \in DOMAIN PeriodElements(U) |-> p[field]] = PeriodElements(U)
    BY <2>2 DEF PeriodElements
  <2> QED
    BY <2>3 DEF p
<1>7. x.periods = [k \in 1 .. (IF y.period2 = None THEN 1 ELSE 2) |->
                    LET p == IF k = 1 THEN y.period1 ELSE y.period2
                    IN  [field \in DOMAIN x.periods[k] |-> p[field]]]
  <2>1. CASE T = {}
    <3>1. x.periods = <<PeriodElements(S)>>
      BY <1>2, <2>1 DEF XmlPeriods
    <3>2. y.period2 = None
      BY <1>5, <2>1
    <3>3. x.periods = [k \in 1 .. 1 |-> PeriodElements(S)]
      BY <3>1
    <3> HIDE DEF x, S, T
    <3> QED
      BY <1>3, <1>6, <3>2, <3>3
  <2>2. CASE T # {}
    <3>1. x.periods = <<PeriodElements(S), PeriodElements(T)>>
      BY <1>2, <2>2 DEF XmlPeriods
    <3>2. y.period2 # None /\ y.period2 = PeriodTold(FiguresIn(request, T))
      BY <1>3, <1>5, <2>2
    <3>3. x.periods = [k \in 1 .. 2 |-> IF k = 1 THEN PeriodElements(S) ELSE PeriodElements(T)]
      BY <3>1
    <3> HIDE DEF x, S, T
    <3> QED
      BY <1>3, <1>6, <3>2, <3>3
  <2> QED
    BY <2>1, <2>2
<1>8. {x.household, y.household}
        \subseteq {HouseholdOf[row[i]] : i \in {k \in Indices : request[k].pair = x.pair}}
  <2>1. \A i \in S \cup T : i \in Indices /\ request[i].pair = x.pair
    BY <1>1, <1>2 DEF IsSplit, Indices
  <2>2. \E i \in S \cup T : x.household = HouseholdOf[row[i]]
    <3>1. Items(fiches[n]) = S \cup T /\ Items(fiches[n]) # {} /\ Items(fiches[n]) \subseteq Indices
      BY <1>1 DEF Items, IsSplit
    <3>2. request \in Seq(Participation)
      BY DEF ValidRequest
    <3> QED
      BY <1>2, <3>1, <3>2, HouseholdOfRow
  <2> QED
    BY <1>3, <2>1, <2>2
<1>9. y.warnings = WarningsOf(x.pair, warnings)
  BY <1>1, <1>2, <1>3
<1>10. y.pair = x.pair /\ y.birth = x.birth
  BY <1>2
<1> HIDE DEF x
<1>11. Retold(x, y)
  BY <1>4, <1>7, <1>8, <1>10 DEF Retold
<1> QED
  BY <1>3, <1>9, <1>11 DEF x

LEMMA RefusedAsTold ==
  ASSUME PreviewInv, preview # None, phase \in {"done", "refused"}
  PROVE  phase = "refused" <=> preview.errors
<1>1. /\ ValidRequest /\ Inv
      /\ \A i \in Indices : request[i].confirmed
      /\ preview.errors = (InvalidNumbers # {} \/ request = <<>>)
  BY DEF PreviewInv, PreviewFits, DeclarationInv
<1>2. Archived = Indices
  BY <1>1 DEF Archived
<1>3. ASSUME Finished PROVE fiches = <<>> <=> request = <<>>
  <2>1. /\ \A i \in Archived : \E n \in DOMAIN fiches : fiches[n].pair = request[i].pair
        /\ \A n \in DOMAIN fiches : /\ Items(fiches[n]) \subseteq Archived
                                    /\ Items(fiches[n]) # {}
    BY <1>1, <1>3, InvCounts DEF EachCountsOnce, Items
  <2>2. Indices = {} <=> DOMAIN fiches = {}
    BY <1>2, <2>1
  <2>3. request = <<>> <=> Indices = {}
    <3>1. request \in Seq(Participation) /\ Len(request) \in Nat
      BY <1>1 DEF ValidRequest
    <3>2. request = <<>> <=> Len(request) = 0
      BY <3>1
    <3>3. \A n \in Nat : n = 0 <=> 1 .. n = {}
      OBVIOUS
    <3> QED
      BY <3>1, <3>2, <3>3 DEF Indices
  <2>4. fiches = <<>> <=> DOMAIN fiches = {}
    <3>1. DOMAIN fiches = 1 .. Len(fiches) /\ Len(fiches) \in Nat
      BY <1>1, FicheTypes
    <3>2. PICK R : fiches \in Seq(R)
      BY <1>1 DEF Inv, Typed, TypeOK
    <3>3. fiches = <<>> <=> Len(fiches) = 0
      BY <3>2
    <3> QED
      BY <3>1, <3>3
  <2> QED
    BY <2>2, <2>3, <2>4
<1>4. CASE phase = "done"
  <2>1. Finished /\ InvalidNumbers = {} /\ fiches # <<>>
    BY <1>4 DEF PreviewInv, DeclarationInv
  <2> QED
    BY <1>1, <1>3, <1>4, <2>1
<1>5. CASE phase = "refused"
  <2>1. InvalidNumbers # {} \/ (Finished /\ fiches = <<>>)
    BY <1>5 DEF PreviewInv
  <2> QED
    BY <1>1, <1>3, <1>5, <2>1
<1> QED
  BY <1>4, <1>5

\* "The preview returns exactly what will be in the XML" (preview_export, generate_bow_xml),
\* whatever the order in which the export meets the rows: the fiches shown and the fiches
\* written are the same ones, with the same figures, because there is only one way to split
\* the rows of a pair at its first gap.
THEOREM PreviewTells == DeclarationSpec => []PreviewTellsXml
<1>1. PreviewInv => PreviewTellsXml
  <2> SUFFICES ASSUME PreviewInv, preview # None PROVE PreviewTellsXml
    BY DEF PreviewTellsXml
  <2>1. phase \in {"done", "refused"} => (phase = "refused" <=> preview.errors)
    BY RefusedAsTold
  <2>2. ASSUME phase = "done"
        PROVE  /\ SameHeader
               /\ xml.header.languages = {"fr", "de"} \ preview.missing
               /\ xml.trailer = preview.trailer
               /\ Summary = preview.summary
               /\ \A x \in Range(xml.fiches) :
                    /\ x.validity = {"start", "end"} \ preview.missing
                    /\ \E y \in Range(preview.fiches) :
                         /\ Retold(x, y)
                         /\ y.warnings = {w \in WarningTypes : <<x.pair, w>> \in warnings}
                         /\ y.household = x.household => BlankIn[x.household] \subseteq y.missing
    <3> DEFINE ps == preview.fiches
    <3>1. /\ ValidRequest /\ Inv /\ Finished /\ xml = GeneratedXml /\ org \in Organization
          /\ fiches # <<>> /\ PreviewFits
      BY <2>2 DEF PreviewInv, DeclarationInv
    <3>2. request # <<>>
      <4>1. ~preview.errors
        BY <2>1, <2>2
      <4> QED
        BY <3>1, <4>1 DEF PreviewFits
    <3>3. /\ \A i \in Indices : request[i].confirmed
          /\ preview.header = PreviewHeader /\ preview.missing = OrgMissing
          /\ preview.trailer = PreviewTrailer(ps)
          /\ preview.summary =
               [fiches  |-> Len(ps), amount |-> Amount(Archived),
                days    |-> SumFunction([k \in DOMAIN ps |-> DaysTold(ps[k])]), skipped |-> 0]
          /\ TellAll(ps, request, row)
          /\ \A k \in DOMAIN ps : ps[k].birth = BirthOf(ps[k].pair)
      BY <3>1, <3>2 DEF PreviewFits
    <3> HIDE DEF ps
    <3>4. PICK h : Twins(h, ps)
      BY <3>1, <3>3, TwinsExist
    <3>5. Len(ps) \in Nat /\ DOMAIN ps = 1 .. Len(ps)
      BY <3>3 DEF TellAll
    <3>6. Len(ps) = Len(fiches)
      BY <3>1, <3>4, <3>5, TwinLengths
    <3>7. /\ PreviewTrailer(ps) = XmlTrailer
          /\ SumFunction([k \in DOMAIN ps |-> DaysTold(ps[k])]) = OverFiches(TotalDays)
      BY <3>1, <3>4, <3>5, TrailersTwin
    <3>8. xml.trailer = XmlTrailer /\ xml.fiches = [n \in DOMAIN fiches |-> XmlFiche(n)]
      BY <3>1 DEF GeneratedXml
    <3>9. SameHeader /\ xml.header.languages = {"fr", "de"} \ preview.missing
      BY <2>2, <3>1, <3>3, HeadersTwin
    <3>10. Summary = preview.summary
      BY <3>1, <3>3, <3>6, <3>7, AmountsAddUp, NoneSkipped DEF Summary
    <3>11. ASSUME NEW x \in Range(xml.fiches)
           PROVE  /\ x.validity = {"start", "end"} \ preview.missing
                  /\ \E y \in Range(ps) :
                       /\ Retold(x, y)
                       /\ y.warnings = {w \in WarningTypes : <<x.pair, w>> \in warnings}
                       /\ y.household = x.household => BlankIn[x.household] \subseteq y.missing
      <4>1. PICK n \in DOMAIN fiches : x = XmlFiche(n)
        BY <3>8 DEF Range
      <4>2. x.validity = {"start", "end"} \ preview.missing
        <5>1. x.validity = org.validity
          BY <4>1 DEF XmlFiche
        <5>2. org.validity \subseteq {"start", "end"}
          BY <3>1 DEF Organization
        <5>3. \A v \in {"start", "end"} : v \in OrgMissing <=> v \notin org.validity
          BY DEF OrgMissing
        <5> QED
          BY <3>3, <5>1, <5>2, <5>3
      <4>3. /\ h[n] \in DOMAIN ps /\ ps[h[n]].pair = fiches[n].pair
            /\ TellsSplit(ps[h[n]], request, row, fiches[n].period1, fiches[n].period2)
        BY <3>4 DEF Twins
      <4>4. ps[h[n]].birth = BirthOf(ps[h[n]].pair)
        BY <3>3, <4>3
      <4>5. PICK y : y = ps[h[n]]
        OBVIOUS
      <4>6. /\ Retold(x, y)
            /\ y.warnings = WarningsOf(x.pair, warnings)
            /\ y.household = x.household => BlankIn[x.household] \subseteq y.missing
        BY <3>1, <4>1, <4>3, <4>4, <4>5, FichesRetold
      <4>7. y \in Range(ps)
        BY <4>3, <4>5 DEF Range
      <4> QED
        BY <4>2, <4>6, <4>7 DEF WarningsOf
    <3> QED
      BY <3>3, <3>7, <3>8, <3>9, <3>10, <3>11 DEF ps
  <2> QED
    BY <2>1, <2>2 DEF PreviewTellsXml
<1> QED
  BY <1>1, PreviewInvariant, PTL
=============================================================================
