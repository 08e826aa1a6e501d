------------------------------ MODULE Aggregation ------------------------------
(***************************************************************************)
(* From the participations of a request to the fiches of a declaration     *)
(* (services/aggregation.py): group the confirmed ones by parent and       *)
(* child, split a group in periods at every gap of more than 31 days, and  *)
(* keep two periods at most.  The loops are actions; a participation is    *)
(* its index in the request, a period the set of indices it sums up.       *)
(*                                                                         *)
(* Dates are day numbers and amounts whole cents: the code carries amounts *)
(* as floats in euro and rounds sums to cents, which loses nothing of      *)
(* whole cents below 2^53.                                                 *)
(***************************************************************************)
EXTENDS Participations, Sequences, FiniteSetsExt

CONSTANT Requests  \* the requests to aggregate

IsRequest(r) ==
  r \in Seq(Participation) /\ \A i \in DOMAIN r : r[i].start <= r[i].end

ASSUME RequestAssumption == \A r \in Requests : IsRequest(r)

VARIABLES
  request,     \* the participations
  next,        \* the first participation not yet grouped
  skipped,     \* participations that are not confirmed
  groups,      \* the participations of every pair
  order,       \* the pairs, as first met
  todo,        \* of the current pair: the participations not yet in a cluster,
  clusters,    \* the clusters so far
  clusterEnd,  \* and the last day any of them covers
  fiches,      \* the fiches made, one per pair in order
  warnings     \* pairs and what they are warned of

groupVars   == <<next, skipped, groups, order>>
clusterVars == <<todo, clusters, clusterEnd>>
ficheVars   == <<fiches, warnings>>
vars == <<request, groupVars, clusterVars, ficheVars>>

Indices == 1 .. Len(request)
WarningTypes ==
  {"too_many_periods", "high_daily_rate", "high_total_amount", "long_period", "zero_hours"}

TypeOK ==
  /\ request \in Seq(Participation)
  /\ next \in 1 .. Len(request) + 1
  /\ skipped \in 0 .. next - 1
  /\ groups \in [Pairs -> SUBSET Indices]
  /\ order \in Seq(Pairs)
  /\ todo \subseteq Indices
  /\ clusters \in Seq(SUBSET Indices)
  /\ clusterEnd \in Int
  /\ fiches \in Seq([pair : Pairs, period1 : SUBSET Indices, period2 : SUBSET Indices])
  /\ Len(fiches) <= Len(order)
  /\ warnings \subseteq Pairs \X WarningTypes

-----------------------------------------------------------------------------
(* Figures of a set of participations.                                     *)

HalfDays(i) == IF request[i].half = None THEN request[i].days * 2 ELSE request[i].half

\* PeriodData; no period 2 is the empty set, with figures 0.
Amount(S) == SumFunctionOnSet([i \in Indices |-> request[i].amount], S)
HalfDaysIn(S) == SumFunctionOnSet([i \in Indices |-> HalfDays(i)], S)
Days(S)   == XmlDays(HalfDaysIn(S))
Start(S)  == CHOOSE d \in {request[i].start : i \in S} : \A i \in S : d <= request[i].start
End(S)    == CHOOSE d \in {request[i].end : i \in S} : \A i \in S : d >= request[i].end

Items(f)       == f.period1 \cup f.period2
TotalAmount(f) == Amount(f.period1) + Amount(f.period2)
TotalDays(f)   == Days(f.period1) + Days(f.period2)

-----------------------------------------------------------------------------
(* Grouping.                                                               *)

\* Mutant: the loop does not go on.
SkipAgain ==
  /\ next <= Len(request) /\ ~request[next].confirmed
  /\ skipped' = skipped + 1
  /\ UNCHANGED <<request, next, groups, order, clusterVars, ficheVars>>
Skip ==
  /\ next <= Len(request) /\ ~request[next].confirmed
  /\ skipped' = skipped + 1
  /\ next' = next + 1
  /\ UNCHANGED <<request, groups, order, clusterVars, ficheVars>>

Group ==
  /\ next <= Len(request) /\ request[next].confirmed
  /\ LET p == request[next].pair
     IN  /\ groups' = [groups EXCEPT ![p] = @ \cup {next}]
         /\ order' = IF groups[p] = {} THEN Append(order, p) ELSE order
  /\ next' = next + 1
  /\ UNCHANGED <<request, skipped, clusterVars, ficheVars>>

-----------------------------------------------------------------------------
(* Clustering the group of the next pair, in the order of start dates.     *)

ClusterGapDays == 31

Grouped == next > Len(request)

\* sorted() is stable: of equal start dates the earlier index comes first.
Earliest(i, S) ==
  /\ i \in S
  /\ \A j \in S \ {i} :
       \/ request[i].start < request[j].start
       \/ request[i].start = request[j].start /\ i < j

OpenCluster ==
  /\ Grouped /\ clusters = <<>> /\ Len(fiches) < Len(order)
  /\ LET group == groups[order[Len(fiches) + 1]]
     IN  \E i \in group :
           /\ Earliest(i, group)
           /\ todo' = group \ {i}
           /\ clusters' = <<{i}>>
           /\ clusterEnd' = request[i].end
  /\ UNCHANGED <<request, groupVars, ficheVars>>

\* Mutant: the gap is counted from the end of the previous participation.
AddAfterPrevious ==
  \E i \in todo :
    /\ Earliest(i, todo)
    /\ clusters' = IF request[i].start - clusterEnd > ClusterGapDays
                   THEN Append(clusters, {i})
                   ELSE [clusters EXCEPT ![Len(clusters)] = @ \cup {i}]
    /\ clusterEnd' = request[i].end
    /\ todo' = todo \ {i}
    /\ UNCHANGED <<request, groupVars, ficheVars>>
AddToCluster ==
  \E i \in todo :
    /\ Earliest(i, todo)
    /\ clusters' = IF request[i].start - clusterEnd > ClusterGapDays
                   THEN Append(clusters, {i})
                   ELSE [clusters EXCEPT ![Len(clusters)] = @ \cup {i}]
    /\ clusterEnd' = IF request[i].end > clusterEnd THEN request[i].end ELSE clusterEnd
    /\ todo' = todo \ {i}
    /\ UNCHANGED <<request, groupVars, ficheVars>>

-----------------------------------------------------------------------------
(* A fiche of the clusters of a pair.                                      *)

HighDailyRateCents == 5000
MaxAmountCents == 1000000
MaxPeriodDays == 365

\* Mutant: three clusters are not too many.
MoreThanThree(n) == n > 3
TooMany(n) == n > 2

\* The warnings of a fiche made of n clusters.
Warned(f, n) ==
  LET days == TotalDays(f)
      last == IF f.period2 = {} THEN f.period1 ELSE f.period2
  IN  {w \in WarningTypes :
        \/ w = "too_many_periods" /\ TooMany(n)
        \/ w = "high_daily_rate" /\ days > 0 /\ TotalAmount(f) \div days > HighDailyRateCents
        \/ w = "high_total_amount" /\ TotalAmount(f) > MaxAmountCents
        \/ w = "long_period" /\ End(last) - Start(f.period1) > MaxPeriodDays
        \/ w = "zero_hours" /\ days = 0}

\* Mutant: what follows the second cluster is dropped.
SecondCluster(cs) == IF Len(cs) < 2 THEN {} ELSE cs[2]
\* Period 2 takes every cluster after the first.
LaterClusters(cs) == UNION {cs[k] : k \in 2 .. Len(cs)}

MakeFiche ==
  /\ clusters # <<>> /\ todo = {}
  /\ LET pair == order[Len(fiches) + 1]
         f == [pair |-> pair, period1 |-> clusters[1], period2 |-> LaterClusters(clusters)]
     IN  /\ fiches' = Append(fiches, f)
         /\ warnings' = warnings \cup ({pair} \X Warned(f, Len(clusters)))
  /\ clusters' = <<>>
  /\ UNCHANGED <<request, groupVars, todo, clusterEnd>>

Finished == Grouped /\ Len(fiches) = Len(order)

\* The participations that make fiches, and that an export stores.
Archived == {i \in Indices : request[i].confirmed}

-----------------------------------------------------------------------------
(* The specification.                                                      *)

AtStart ==
  /\ next = 1
  /\ skipped = 0
  /\ groups = [p \in Pairs |-> {}]
  /\ order = <<>>
  /\ todo = {}
  /\ clusters = <<>>
  /\ clusterEnd = 0
  /\ fiches = <<>>
  /\ warnings = {}

\* aggregate is called with another request.
Reset ==
  /\ next' = 1
  /\ skipped' = 0
  /\ groups' = [p \in Pairs |-> {}]
  /\ order' = <<>>
  /\ todo' = {}
  /\ clusters' = <<>>
  /\ clusterEnd' = 0
  /\ fiches' = <<>>
  /\ warnings' = {}

Init == request \in Requests /\ AtStart

Next == Skip \/ Group \/ OpenCluster \/ AddToCluster \/ MakeFiche

Spec == Init /\ [][Next]_vars

-----------------------------------------------------------------------------
(* Properties.                                                             *)

\* More than 31 days between the end of one participation and the start of the other.
Apart(i, j) ==
  \/ request[j].start - request[i].end > ClusterGapDays
  \/ request[i].start - request[j].end > ClusterGapDays
AllApart(S, T) == \A i \in S, j \in T : Apart(i, j)
Before(S, T) == \A i \in S, j \in T : request[j].start - request[i].end > ClusterGapDays
\* No gap of more than 31 days cuts S in two.
Unbroken(S) == \A T \in (SUBSET S) \ {{}, S} : ~AllApart(T, S \ T)

\* One pass over the sorted participations, looking only at the last day covered so far,
\* cuts exactly at the gaps: clusters lie more than 31 days apart, and none of them could be
\* cut again, whatever spans overlap or enclose each other.
ClustersAreTheGaps ==
  /\ \A k, l \in DOMAIN clusters : k # l => AllApart(clusters[k], clusters[l])
  /\ \A k \in DOMAIN clusters : Unbroken(clusters[k])

\* The periods of a fiche as the tax form means them: period 1 unbroken and over 31 days
\* before all of period 2; a period 2 that hides a gap is exactly what too_many_periods says.
TellsTheGaps(f) ==
  /\ Unbroken(f.period1)
  /\ Before(f.period1, f.period2)
  /\ Unbroken(f.period2) <=> <<f.pair, "too_many_periods">> \notin warnings
PeriodsTellTheGaps == \A n \in DOMAIN fiches : TellsTheGaps(fiches[n])

\* Every confirmed participation counts once, in the one fiche of its parent and child, and
\* nothing else counts, whatever the order of the rows and the number of gaps.
EachCountsOnce ==
  Finished =>
    /\ \A n \in DOMAIN fiches :
         /\ Items(fiches[n]) = {i \in Archived : request[i].pair = fiches[n].pair}
         /\ fiches[n].period1 # {}
         /\ fiches[n].period1 \cap fiches[n].period2 = {}
    /\ \A i \in Archived : \E n \in DOMAIN fiches : fiches[n].pair = request[i].pair
    /\ \A m, n \in DOMAIN fiches : m # n => fiches[m].pair # fiches[n].pair
=============================================================================
