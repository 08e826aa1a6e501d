--------------------------- MODULE AggregationProofs ---------------------------
(***************************************************************************)
(* Proofs about Aggregation, for every request of any length: its types,   *)
(* that the clustering pass cuts exactly at the gaps, that the periods of  *)
(* a fiche tell them, and that every confirmed participation counts once.  *)
(* The figures of a period are sums (SumProofs) and bounds of dates: no    *)
(* order of the request makes a difference to them, nor to where a fiche   *)
(* is cut.                                                                 *)
(***************************************************************************)
EXTENDS Aggregation, SumProofs

-----------------------------------------------------------------------------
(* The request and its type.                                               *)

\* The request does not change, so it keeps what the schema's validators checked.
ValidRequest ==
  /\ request \in Seq(Participation)
  /\ \A i \in Indices : request[i].start <= request[i].end

LEMMA Participations ==
  ASSUME request \in Seq(Participation), NEW i \in Indices
  PROVE  /\ request[i] \in Participation
         /\ request[i].pair \in Pairs
         /\ request[i].confirmed \in BOOLEAN
         /\ request[i].start \in Int
         /\ request[i].end \in Int
<1>1. request[i] \in Participation
  BY DEF Indices
<1> QED
  BY <1>1 DEF Participation

LEMMA RequestValid == Spec => []ValidRequest
<1>1. Init => ValidRequest
  BY RequestAssumption DEF IsRequest, Init, ValidRequest, Indices
<1>2. ValidRequest /\ [Next]_vars => ValidRequest'
  <2> SUFFICES ASSUME ValidRequest, [Next]_vars PROVE ValidRequest'
    OBVIOUS
  <2>1. request' = request
    BY DEF Next, Skip, Group, OpenCluster, AddToCluster, MakeFiche, vars
  <2> QED
    BY <2>1 DEF ValidRequest, Indices
<1> QED
  BY <1>1, <1>2, PTL DEF Spec

-----------------------------------------------------------------------------
(* Gaps.                                                                   *)

LEMMA ApartSymmetric ==
  ASSUME NEW i, NEW j, Apart(i, j)
  PROVE  Apart(j, i)
  BY DEF Apart

LEMMA SingletonUnbroken ==
  ASSUME NEW x
  PROVE  Unbroken({x})
  BY DEF Unbroken

LEMMA EmptyUnbroken == Unbroken({})
  BY DEF Unbroken

\* A participation near one of an unbroken set leaves it unbroken.
LEMMA UnbrokenGrows ==
  ASSUME NEW S, Unbroken(S), NEW x, NEW m \in S, ~Apart(m, x)
  PROVE  Unbroken(S \cup {x})
<1>1. CASE x \in S
  BY <1>1, S \cup {x} = S
<1>2. CASE x \notin S
  <2> SUFFICES ASSUME NEW T \in (SUBSET (S \cup {x})) \ {{}, S \cup {x}},
                      AllApart(T, (S \cup {x}) \ T)
               PROVE  FALSE
    BY DEF Unbroken
  <2> DEFINE U == T \ {x}
  <2>1. CASE U = {}
    <3>1. T = {x} /\ m \in (S \cup {x}) \ T
      BY <2>1, <1>2
    <3> QED
      BY <3>1, ApartSymmetric DEF AllApart
  <2>2. CASE U = S
    <3>1. x \notin T /\ m \in T /\ x \in (S \cup {x}) \ T
      BY <2>2
    <3> QED
      BY <3>1 DEF AllApart
  <2>3. CASE U # {} /\ U # S
    <3>1. U \in (SUBSET S) \ {{}, S}
      BY <2>3
    <3>2. U \subseteq T /\ S \ U \subseteq (S \cup {x}) \ T
      BY <1>2
    <3>3. AllApart(U, S \ U)
      BY <3>2 DEF AllApart
    <3> QED
      BY <3>1, <3>3 DEF Unbroken
  <2> QED
    BY <2>1, <2>2, <2>3
<1> QED
  BY <1>1, <1>2

-----------------------------------------------------------------------------
(* Types, with what the loops keep of their positions.                     *)

Progress ==
  /\ clusters = <<>> => todo = {}
  /\ clusters # <<>> => Len(fiches) < Len(order)
  /\ clusters # <<>> \/ fiches # <<>> => Grouped

Typed == TypeOK /\ Progress

LEMMA TypedInit == ValidRequest /\ AtStart => Typed
  BY DEF AtStart, ValidRequest, Typed, TypeOK, Progress, Indices

LEMMA TypedStep ==
  ASSUME ValidRequest, Typed, [Next]_vars
  PROVE  Typed'
<1> USE DEF Typed, TypeOK, Progress, Indices, Grouped
<1>1. CASE Skip
  BY <1>1 DEF Skip, clusterVars, ficheVars
<1>2. CASE Group
  <2>1. request[next].pair \in Pairs
    BY <1>2, Participations DEF Group
  <2> QED
    BY <1>2, <2>1 DEF Group, clusterVars, ficheVars
<1>3. CASE OpenCluster
  <2> DEFINE group == groups[order[Len(fiches) + 1]]
  <2>1. /\ Grouped /\ Len(fiches) < Len(order)
        /\ UNCHANGED <<request, groupVars, ficheVars>>
        /\ order[Len(fiches) + 1] \in Pairs
    BY <1>3 DEF OpenCluster
  <2>2. PICK i \in group :
          todo' = group \ {i} /\ clusters' = <<{i}>> /\ clusterEnd' = request[i].end
    BY <1>3 DEF OpenCluster
  <2>3. group \subseteq Indices /\ i \in Indices
    BY <2>1
  <2>4. clusterEnd' \in Int
    BY <2>2, <2>3, Participations DEF ValidRequest
  <2>5. clusters' \in Seq(SUBSET Indices) /\ clusters' # <<>> /\ todo' \subseteq Indices
    BY <2>2, <2>3
  <2> QED
    BY <2>1, <2>4, <2>5 DEF groupVars, ficheVars
<1>4. CASE AddToCluster
  <2>1. PICK i \in todo :
          /\ clusters' = IF request[i].start - clusterEnd > ClusterGapDays
                         THEN Append(clusters, {i})
                         ELSE [clusters EXCEPT ![Len(clusters)] = @ \cup {i}]
          /\ clusterEnd' = IF request[i].end > clusterEnd THEN request[i].end ELSE clusterEnd
          /\ todo' = todo \ {i}
          /\ UNCHANGED <<request, groupVars, ficheVars>>
    BY <1>4 DEF AddToCluster
  <2>2. clusterEnd' \in Int
    BY <2>1, Participations DEF ValidRequest
  <2>3. clusters # <<>> /\ {i} \in SUBSET Indices
    BY <2>1
  <2>4. clusters' \in Seq(SUBSET Indices) /\ clusters' # <<>>
    <3>1. CASE clusters' = Append(clusters, {i})
      BY <3>1, <2>3
    <3>2. CASE clusters' = [clusters EXCEPT ![Len(clusters)] = @ \cup {i}]
      <4>1. Len(clusters) \in DOMAIN clusters
        BY <2>3
      <4>2. clusters[Len(clusters)] \cup {i} \in SUBSET Indices
        BY <4>1, <2>3
      <4> QED
        BY <3>2, <4>1, <4>2
    <3> QED
      BY <2>1, <3>1, <3>2
  <2> QED
    BY <2>1, <2>2, <2>3, <2>4 DEF groupVars, ficheVars
<1>5. CASE MakeFiche
  <2> DEFINE pair == order[Len(fiches) + 1]
             f == [pair |-> pair, period1 |-> clusters[1], period2 |-> LaterClusters(clusters)]
  <2>1. /\ fiches' = Append(fiches, f)
        /\ warnings' = warnings \cup ({pair} \X Warned(f, Len(clusters)))
        /\ clusters' = <<>> /\ clusters # <<>> /\ todo = {}
        /\ UNCHANGED <<request, groupVars, todo, clusterEnd>>
    BY <1>5 DEF MakeFiche
  <2>2. pair \in Pairs /\ Len(fiches) < Len(order)
    BY <2>1
  <2>3. clusters[1] \subseteq Indices /\ LaterClusters(clusters) \subseteq Indices
    BY <2>1 DEF LaterClusters
  <2>4. Warned(f, Len(clusters)) \subseteq WarningTypes
    BY DEF Warned
  <2>5. warnings' \subseteq Pairs \X WarningTypes
    BY <2>1, <2>2, <2>4
  <2>6. /\ fiches' \in Seq([pair : Pairs, period1 : SUBSET Indices, period2 : SUBSET Indices])
        /\ Len(fiches') = Len(fiches) + 1
    BY <2>1, <2>2, <2>3
  <2> QED
    BY <2>1, <2>2, <2>5, <2>6 DEF groupVars
<1>6. CASE UNCHANGED vars
  BY <1>6 DEF vars, groupVars, clusterVars, ficheVars
<1> QED
  BY <1>1, <1>2, <1>3, <1>4, <1>5, <1>6 DEF Next

LEMMA AlwaysTyped == Spec => []Typed
<1>1. ValidRequest /\ Init => Typed
  BY TypedInit DEF Init
<1>2. ValidRequest /\ Typed /\ [Next]_vars => Typed'
  BY TypedStep
<1> QED
  BY <1>1, <1>2, RequestValid, PTL DEF Spec

\* Every variable keeps its type: no position runs past its sequence, every period is a set
\* of the request's participations and every warning one the summary knows.
THEOREM TypesKept == Spec => []TypeOK
  BY AlwaysTyped, PTL DEF Typed

-----------------------------------------------------------------------------
(* The figures of some participations of a request: no order of the        *)
(* request makes a difference to them.                                     *)

LeastOf(D)    == CHOOSE d \in D : \A e \in D : d <= e
GreatestOf(D) == CHOOSE d \in D : \A e \in D : d >= e

AmountsOf(r)  == [i \in 1 .. Len(r) |-> r[i].amount]
HalfDaysOf(r) == [i \in 1 .. Len(r) |-> IF r[i].half = None THEN r[i].days * 2 ELSE r[i].half]

FiguresIn(r, S) ==
  [start |-> LeastOf({r[i].start : i \in S}), end |-> GreatestOf({r[i].end : i \in S}),
   amount |-> SumFunctionOnSet(AmountsOf(r), S), half |-> SumFunctionOnSet(HalfDaysOf(r), S)]

LEMMA FiguresHere ==
  \A S : /\ Start(S) = FiguresIn(request, S).start
         /\ End(S) = FiguresIn(request, S).end
         /\ Amount(S) = FiguresIn(request, S).amount
         /\ HalfDaysIn(S) = FiguresIn(request, S).half
         /\ Days(S) = XmlDays(FiguresIn(request, S).half)
<1> TAKE S
<1>1. Start(S) = LeastOf({request[i].start : i \in S})
  BY DEF Start, LeastOf
<1>2. End(S) = GreatestOf({request[i].end : i \in S})
  BY DEF End, GreatestOf
<1>3. Amount(S) = SumFunctionOnSet(AmountsOf(request), S)
  BY DEF Amount, AmountsOf, Indices
<1>4. HalfDaysIn(S) = SumFunctionOnSet(HalfDaysOf(request), S)
  BY DEF HalfDaysIn, HalfDays, HalfDaysOf, Indices
<1> QED
  BY <1>1, <1>2, <1>3, <1>4 DEF FiguresIn, Days

LEMMA FiguresTyped ==
  ASSUME NEW r \in Seq(Participation)
  PROVE  /\ \A S \in SUBSET (1 .. Len(r)) : IsFiniteSet(S)
         /\ Integral(AmountsOf(r), 1 .. Len(r)) /\ Integral(HalfDaysOf(r), 1 .. Len(r))
         /\ \A S \in SUBSET (1 .. Len(r)) :
              FiguresIn(r, S).amount \in Int /\ FiguresIn(r, S).half \in Int
<1>1. Len(r) \in Nat /\ \A i \in 1 .. Len(r) : r[i] \in Participation
  OBVIOUS
<1>2. IsFiniteSet(1 .. Len(r))
  BY <1>1, FS_Interval
<1>3. \A S \in SUBSET (1 .. Len(r)) : IsFiniteSet(S)
  BY <1>2, FS_Subset
<1>4. Integral(AmountsOf(r), 1 .. Len(r))
  BY <1>1 DEF Integral, AmountsOf, Participation
<1>5. Integral(HalfDaysOf(r), 1 .. Len(r))
  BY <1>1 DEF Integral, HalfDaysOf, Participation
<1>6. ASSUME NEW S \in SUBSET (1 .. Len(r))
      PROVE  FiguresIn(r, S).amount \in Int /\ FiguresIn(r, S).half \in Int
  <2>1. Integral(AmountsOf(r), S) /\ Integral(HalfDaysOf(r), S)
    BY <1>4, <1>5 DEF Integral
  <2> QED
    BY <1>3, <2>1, SumIsInt DEF FiguresIn
<1> QED
  BY <1>3, <1>4, <1>5, <1>6

LEMMA LeastExists ==
  ASSUME NEW S, NEW v, IsFiniteSet(S), S # {}, Integral(v, S)
  PROVE  \E i \in S : \A j \in S : v[i] <= v[j]
<1> DEFINE F == {T \in SUBSET S : T # {} => \E i \in T : \A j \in T : v[i] <= v[j]}
<1>1. {} \in F
  OBVIOUS
<1>2. ASSUME NEW T \in F, NEW x \in S \ T PROVE T \cup {x} \in F
  <2>1. CASE T = {}
    BY <2>1 DEF Integral
  <2>2. CASE T # {}
    <3>1. PICK i \in T : \A j \in T : v[i] <= v[j]
      BY <2>2
    <3>2. v[i] \in Int /\ v[x] \in Int /\ \A j \in T : v[j] \in Int
      BY DEF Integral
    <3>3. CASE v[x] <= v[i]
      <4>1. \A j \in T \cup {x} : v[x] <= v[j]
        BY <3>1, <3>2, <3>3
      <4> QED
        BY <4>1
    <3>4. CASE v[i] <= v[x]
      <4>1. \A j \in T \cup {x} : v[i] <= v[j]
        BY <3>1, <3>2, <3>4
      <4> QED
        BY <4>1
    <3> QED
      BY <3>2, <3>3, <3>4
  <2> QED
    BY <2>1, <2>2
<1>3. S \in F
  <2> HIDE DEF F
  <2>1. F \in SUBSET SUBSET S
    BY DEF F
  <2> QED
    BY <1>1, <1>2, <2>1, GrowingUp
<1> QED
  BY <1>3

LEMMA FiguresInRange ==
  ASSUME NEW r \in Seq(Participation), NEW S \in SUBSET (1 .. Len(r))
  PROVE  /\ FiguresIn(r, S).amount \in Nat /\ FiguresIn(r, S).half \in Nat
         /\ S # {} => FiguresIn(r, S).start \in Int /\ FiguresIn(r, S).end \in Int
<1>1. IsFiniteSet(S)
  BY FiguresTyped
<1>2. ASSUME NEW i \in S
      PROVE  /\ AmountsOf(r)[i] \in Nat /\ HalfDaysOf(r)[i] \in Nat
             /\ r[i].start \in Int /\ r[i].end \in Int
  <2>1. r[i] \in Participation
    OBVIOUS
  <2>2. /\ r[i].amount \in Nat /\ r[i].half \in Nat \cup {None} /\ r[i].days \in Nat
        /\ r[i].start \in Int /\ r[i].end \in Int
    BY <2>1 DEF Participation
  <2>3. AmountsOf(r)[i] = r[i].amount
    BY DEF AmountsOf
  <2>4. HalfDaysOf(r)[i] = IF r[i].half = None THEN r[i].days * 2 ELSE r[i].half
    BY DEF HalfDaysOf
  <2> QED
    BY <2>2, <2>3, <2>4
<1>3. SumFunctionOnSet(AmountsOf(r), S) \in Nat /\ SumFunctionOnSet(HalfDaysOf(r), S) \in Nat
  BY <1>1, <1>2, SumIsNat
<1>4. ASSUME S # {}
      PROVE  /\ LeastOf({r[i].start : i \in S}) \in Int
             /\ GreatestOf({r[i].end : i \in S}) \in Int
  <2> DEFINE first == [i \in S |-> r[i].start]
             last == [i \in S |-> -r[i].end]
  <2>1. Integral(first, S) /\ Integral(last, S)
    <3>1. \A i \in S : first[i] = r[i].start /\ last[i] = -r[i].end
      OBVIOUS
    <3>2. \A i \in S : r[i].start \in Int /\ -r[i].end \in Int
      BY <1>2
    <3> HIDE DEF first, last
    <3> QED
      BY <3>1, <3>2 DEF Integral
  <2>2. (\E i \in S : \A j \in S : first[i] <= first[j])
        /\ \E i \in S : \A j \in S : last[i] <= last[j]
    <3> HIDE DEF first, last
    <3> QED
      BY <1>1, <1>4, <2>1, LeastExists
  <2>3. \E d \in {r[i].start : i \in S} : \A e \in {r[i].start : i \in S} : d <= e
    BY <1>2, <2>2
  <2>4. \E d \in {r[i].end : i \in S} : \A e \in {r[i].end : i \in S} : d >= e
    <3>1. PICK i \in S : \A j \in S : last[i] <= last[j]
      BY <2>2
    <3>2. \A j \in S : r[i].end >= r[j].end
      BY <1>2, <3>1
    <3> QED
      BY <3>2
  <2>5. /\ LeastOf({r[i].start : i \in S}) \in {r[i].start : i \in S}
        /\ GreatestOf({r[i].end : i \in S}) \in {r[i].end : i \in S}
    BY <2>3, <2>4 DEF LeastOf, GreatestOf
  <2> QED
    BY <1>2, <2>5
<1> QED
  BY <1>3, <1>4 DEF FiguresIn

\* q has the rows of r, in the order o.
Reorders(o, q, r) ==
  /\ r \in Seq(Participation) /\ q \in Seq(Participation)
  /\ o \in [1 .. Len(q) -> 1 .. Len(r)]
  /\ \A i, j \in 1 .. Len(q) : o[i] = o[j] => i = j
  /\ \A k \in 1 .. Len(r) : \E i \in 1 .. Len(q) : o[i] = k
  /\ \A i \in 1 .. Len(q) : q[i] = r[o[i]]

LEMMA FiguresReordered ==
  ASSUME NEW o, NEW q, NEW r, Reorders(o, q, r), NEW S \in SUBSET (1 .. Len(q))
  PROVE  FiguresIn(q, S) = FiguresIn(r, Renamed(o, S))
<1>0. /\ \A i \in S : q[i] = r[o[i]] /\ i \in 1 .. Len(q) /\ o[i] \in 1 .. Len(r)
      /\ \A i, j \in S : o[i] = o[j] => i = j
  BY DEF Reorders
<1>1. /\ {q[i].start : i \in S} = {r[k].start : k \in Renamed(o, S)}
      /\ {q[i].end : i \in S} = {r[k].end : k \in Renamed(o, S)}
  <2>1. \A i \in S : o[i] \in Renamed(o, S)
    BY DEF Renamed
  <2>2. \A k \in Renamed(o, S) : \E i \in S : k = o[i]
    BY DEF Renamed
  <2> HIDE DEF Renamed
  <2> QED
    BY <1>0, <2>1, <2>2
<1>2. IsFiniteSet(S) /\ Integral(AmountsOf(q), S) /\ Integral(HalfDaysOf(q), S)
  BY FiguresTyped DEF Integral, Reorders
<1>3. \A i \in S : AmountsOf(q)[i] = AmountsOf(r)[o[i]] /\ HalfDaysOf(q)[i] = HalfDaysOf(r)[o[i]]
  BY <1>0 DEF AmountsOf, HalfDaysOf
<1>4. /\ Renames(o, S, AmountsOf(q), AmountsOf(r))
      /\ Renames(o, S, HalfDaysOf(q), HalfDaysOf(r))
  BY <1>0, <1>3 DEF Renames
<1>5. SumFunctionOnSet(AmountsOf(r), Renamed(o, S)) = SumFunctionOnSet(AmountsOf(q), S)
  BY <1>2, <1>4, SumRenamed
<1>6. SumFunctionOnSet(HalfDaysOf(r), Renamed(o, S)) = SumFunctionOnSet(HalfDaysOf(q), S)
  BY <1>2, <1>4, SumRenamed
<1> QED
  BY <1>1, <1>5, <1>6 DEF FiguresIn

-----------------------------------------------------------------------------
(* How a request's gaps split the group of a pair, in whatever order.      *)

ApartIn(r, i, j) ==
  \/ r[j].start - r[i].end > ClusterGapDays
  \/ r[i].start - r[j].end > ClusterGapDays
UnbrokenIn(r, S) ==
  \A T \in (SUBSET S) \ {{}, S} : ~(\A i \in T, j \in S \ T : ApartIn(r, i, j))
BeforeIn(r, S, T) == \A i \in S, j \in T : r[j].start - r[i].end > ClusterGapDays

IsSplit(r, pair, S, T) ==
  /\ S \cup T = {i \in 1 .. Len(r) : r[i].confirmed /\ r[i].pair = pair}
  /\ S # {} /\ S \cap T = {}
  /\ UnbrokenIn(r, S)
  /\ BeforeIn(r, S, T)

LEMMA GapsHere ==
  /\ \A S : Unbroken(S) <=> UnbrokenIn(request, S)
  /\ \A S, T : Before(S, T) <=> BeforeIn(request, S, T)
  BY DEF Unbroken, UnbrokenIn, AllApart, Apart, ApartIn, Before, BeforeIn

LEMMA SplitWithin ==
  ASSUME NEW r \in Seq(Participation), \A i \in 1 .. Len(r) : r[i].start <= r[i].end,
         NEW pair, NEW S, NEW T, NEW U, NEW V, IsSplit(r, pair, S, T), IsSplit(r, pair, U, V)
  PROVE  S \subseteq U
<1>1. /\ S \cup T = U \cup V /\ S \cup T \subseteq 1 .. Len(r)
      /\ S # {} /\ U # {} /\ U \cap V = {}
      /\ UnbrokenIn(r, S) /\ BeforeIn(r, S, T) /\ BeforeIn(r, U, V)
  BY DEF IsSplit
<1>2. ASSUME NEW i \in 1 .. Len(r)
      PROVE  r[i].start \in Int /\ r[i].end \in Int /\ r[i].start <= r[i].end
  <2>1. r[i] \in Participation
    OBVIOUS
  <2> QED
    BY <2>1 DEF Participation
<1>3. \A i \in S \cap U, j \in S \ (S \cap U) : ApartIn(r, i, j)
  BY <1>1 DEF BeforeIn, ApartIn
<1>4. S \cap U = {} \/ S \cap U = S
  BY <1>1, <1>3 DEF UnbrokenIn
<1>5. S \cap U # {}
  <2> SUFFICES ASSUME S \cap U = {} PROVE FALSE
    OBVIOUS
  <2>1. PICK i \in S, j \in U : i \in V /\ j \in T
    BY <1>1
  <2>2. r[i].start - r[j].end > 31 /\ r[j].start - r[i].end > 31
    BY <1>1, <2>1 DEF BeforeIn, ClusterGapDays
  <2>3. /\ r[i].start \in Int /\ r[i].end \in Int /\ r[i].start <= r[i].end
        /\ r[j].start \in Int /\ r[j].end \in Int /\ r[j].start <= r[j].end
    BY <1>1, <1>2
  <2> QED
    BY <2>2, <2>3
<1> QED
  BY <1>4, <1>5

\* There is one way to split a group in an unbroken period and what lies over 31 days later.
LEMMA SplitOnce ==
  ASSUME NEW r \in Seq(Participation), \A i \in 1 .. Len(r) : r[i].start <= r[i].end,
         NEW pair, NEW S, NEW T, NEW U, NEW V, IsSplit(r, pair, S, T), IsSplit(r, pair, U, V)
  PROVE  S = U /\ T = V
<1>1. S \subseteq U /\ U \subseteq S
  BY SplitWithin
<1>2. S \cup T = U \cup V /\ S \cap T = {} /\ U \cap V = {}
  BY DEF IsSplit
<1> QED
  BY <1>1, <1>2

\* What the fiche of periods S and T is warned of.
WarnedIn(r, S, T) ==
  LET p1 == FiguresIn(r, S)
      p2 == FiguresIn(r, T)
      last == IF T = {} THEN p1 ELSE p2
      days == XmlDays(p1.half) + XmlDays(p2.half)
      total == p1.amount + p2.amount
  IN  {w \in WarningTypes :
        \/ w = "too_many_periods" /\ ~UnbrokenIn(r, T)
        \/ w = "high_daily_rate" /\ days > 0 /\ total \div days > HighDailyRateCents
        \/ w = "high_total_amount" /\ total > MaxAmountCents
        \/ w = "long_period" /\ last.end - p1.start > MaxPeriodDays
        \/ w = "zero_hours" /\ days = 0}

LEMMA WarnedHere ==
  ASSUME NEW f, NEW n, TooMany(n) <=> ~UnbrokenIn(request, f.period2)
  PROVE  Warned(f, n) = WarnedIn(request, f.period1, f.period2)
<1>1. TotalDays(f) = XmlDays(FiguresIn(request, f.period1).half)
                     + XmlDays(FiguresIn(request, f.period2).half)
  BY FiguresHere DEF TotalDays
<1>2. TotalAmount(f) = FiguresIn(request, f.period1).amount + FiguresIn(request, f.period2).amount
  BY FiguresHere DEF TotalAmount
<1>3. /\ Start(f.period1) = FiguresIn(request, f.period1).start
      /\ End(IF f.period2 = {} THEN f.period1 ELSE f.period2)
           = (IF f.period2 = {} THEN FiguresIn(request, f.period1)
                                ELSE FiguresIn(request, f.period2)).end
  BY FiguresHere
<1> QED
  BY <1>1, <1>2, <1>3 DEF Warned, WarnedIn

\* Where the elements of S are in the new order.
Found(o, S) == {i \in DOMAIN o : o[i] \in S}

LEMMA FoundAgain ==
  ASSUME NEW o, NEW q, NEW r, Reorders(o, q, r), NEW S \in SUBSET (1 .. Len(r))
  PROVE  /\ Found(o, S) \in SUBSET (1 .. Len(q))
         /\ Renamed(o, Found(o, S)) = S
         /\ Found(o, S) = {} <=> S = {}
<1>1. /\ Found(o, S) \in SUBSET (1 .. Len(q))
      /\ \A i \in Found(o, S) : o[i] \in S
      /\ \A k \in S : \E i \in Found(o, S) : o[i] = k
  BY DEF Reorders, Found
<1>2. Renamed(o, Found(o, S)) = S
  BY <1>1 DEF Renamed
<1> QED
  BY <1>1, <1>2

LEMMA FiguresFound ==
  ASSUME NEW o, NEW q, NEW r, Reorders(o, q, r), NEW S \in SUBSET (1 .. Len(r))
  PROVE  FiguresIn(q, Found(o, S)) = FiguresIn(r, S)
<1>1. Found(o, S) \in SUBSET (1 .. Len(q)) /\ Renamed(o, Found(o, S)) = S
  BY FoundAgain
<1> QED
  BY <1>1, FiguresReordered

LEMMA UnbrokenFound ==
  ASSUME NEW o, NEW q, NEW r, Reorders(o, q, r), NEW S \in SUBSET (1 .. Len(r))
  PROVE  UnbrokenIn(q, Found(o, S)) <=> UnbrokenIn(r, S)
<1> DEFINE Q == Found(o, S)
<1>1. /\ \A i \in Q : i \in 1 .. Len(q) /\ o[i] \in S /\ q[i] = r[o[i]]
      /\ \A k \in S : \E i \in Q : o[i] = k
      /\ \A i, j \in Q : o[i] = o[j] => i = j
  BY DEF Reorders, Found
<1>2. ASSUME UnbrokenIn(r, S), NEW T \in (SUBSET Q) \ {{}, Q},
             \A i \in T, j \in Q \ T : ApartIn(q, i, j)
      PROVE  FALSE
  <2> DEFINE U == {o[i] : i \in T}
  <2>1. U \in (SUBSET S) \ {{}, S}
    <3>1. U \subseteq S /\ U # {}
      BY <1>1
    <3>2. PICK i \in Q : i \notin T
      BY <1>2
    <3>3. o[i] \in S /\ o[i] \notin U
      BY <1>1, <3>2
    <3> QED
      BY <3>1, <3>3
  <2>2. ASSUME NEW k \in U, NEW l \in S \ U PROVE ApartIn(r, k, l)
    <3>1. PICK i \in T : k = o[i]
      OBVIOUS
    <3>2. PICK j \in Q : l = o[j]
      BY <1>1
    <3>3. j \notin T
      BY <3>2
    <3>4. ApartIn(q, i, j) /\ q[i] = r[k] /\ q[j] = r[l]
      BY <1>1, <1>2, <3>1, <3>2, <3>3
    <3> QED
      BY <3>4 DEF ApartIn
  <2> HIDE DEF U
  <2> QED
    BY <1>2, <2>1, <2>2 DEF UnbrokenIn
<1>3. ASSUME UnbrokenIn(q, Q), NEW U \in (SUBSET S) \ {{}, S},
             \A k \in U, l \in S \ U : ApartIn(r, k, l)
      PROVE  FALSE
  <2> DEFINE T == {i \in Q : o[i] \in U}
  <2>1. T \in (SUBSET Q) \ {{}, Q}
    <3>1. PICK k \in U : k \in S
      BY <1>3
    <3>2. PICK l \in S : l \notin U
      BY <1>3
    <3>3. PICK i \in Q, j \in Q : o[i] = k /\ o[j] = l
      BY <1>1, <3>1, <3>2
    <3>4. i \in T /\ j \notin T
      BY <3>1, <3>2, <3>3
    <3> QED
      BY <3>3, <3>4
  <2>2. ASSUME NEW i \in T, NEW j \in Q \ T PROVE ApartIn(q, i, j)
    <3>1. o[i] \in U /\ o[j] \in S \ U /\ q[i] = r[o[i]] /\ q[j] = r[o[j]]
      BY <1>1
    <3>2. ApartIn(r, o[i], o[j])
      BY <1>3, <3>1
    <3> QED
      BY <3>1, <3>2 DEF ApartIn
  <2> HIDE DEF T
  <2> QED
    BY <1>3, <2>1, <2>2 DEF UnbrokenIn
<1> HIDE DEF Q
<1>4. UnbrokenIn(r, S) => UnbrokenIn(q, Q)
  BY <1>2 DEF UnbrokenIn
<1>5. UnbrokenIn(q, Q) => UnbrokenIn(r, S)
  BY <1>3 DEF UnbrokenIn
<1> QED
  BY <1>4, <1>5 DEF Q

LEMMA SplitFound ==
  ASSUME NEW o, NEW q, NEW r, Reorders(o, q, r), NEW pair, NEW S, NEW T, IsSplit(r, pair, S, T)
  PROVE  IsSplit(q, pair, Found(o, S), Found(o, T))
<1>1. S \in SUBSET (1 .. Len(r)) /\ T \in SUBSET (1 .. Len(r))
  BY DEF IsSplit
<1>2. Found(o, S) \cup Found(o, T) = {i \in 1 .. Len(q) : q[i].confirmed /\ q[i].pair = pair}
  <2>1. S \cup T = {i \in 1 .. Len(r) : r[i].confirmed /\ r[i].pair = pair}
    BY DEF IsSplit
  <2>2. DOMAIN o = 1 .. Len(q) /\ \A i \in 1 .. Len(q) : o[i] \in 1 .. Len(r) /\ q[i] = r[o[i]]
    BY DEF Reorders
  <2> QED
    BY <2>1, <2>2 DEF Found
<1>3. Found(o, S) # {} /\ Found(o, S) \cap Found(o, T) = {}
  <2>1. S # {} /\ S \cap T = {}
    BY DEF IsSplit
  <2> QED
    BY <1>1, <2>1, FoundAgain DEF Found
<1>4. UnbrokenIn(q, Found(o, S))
  BY <1>1, UnbrokenFound DEF IsSplit
<1>5. BeforeIn(q, Found(o, S), Found(o, T))
  <2>1. \A i \in Found(o, S) : o[i] \in S /\ q[i] = r[o[i]]
    BY DEF Reorders, Found
  <2>2. \A i \in Found(o, T) : o[i] \in T /\ q[i] = r[o[i]]
    BY DEF Reorders, Found
  <2>3. BeforeIn(r, S, T)
    BY DEF IsSplit
  <2> QED
    BY <2>1, <2>2, <2>3 DEF BeforeIn
<1> QED
  BY <1>2, <1>3, <1>4, <1>5 DEF IsSplit

-----------------------------------------------------------------------------
(* Groups: what the first loop has sorted so far.                          *)

GroupsExact ==
  /\ \A p \in Pairs :
       groups[p] = {i \in 1 .. next - 1 : request[i].confirmed /\ request[i].pair = p}
  /\ \A p \in Pairs : groups[p] # {} <=> \E n \in DOMAIN order : order[n] = p
  /\ \A m, n \in DOMAIN order : m # n => order[m] # order[n]

LEMMA GroupsInit == AtStart => GroupsExact
  BY DEF AtStart, GroupsExact

LEMMA GroupsStep ==
  ASSUME ValidRequest, Typed, GroupsExact, [Next]_vars
  PROVE  GroupsExact'
<1> USE DEF Typed, TypeOK
<1>1. CASE Skip
  <2>1. next \in Indices /\ ~request[next].confirmed /\ next' = next + 1
        /\ UNCHANGED <<request, groups, order>>
    BY <1>1 DEF Skip, Indices
  <2>2. ASSUME NEW p \in Pairs
        PROVE  groups'[p] = {i \in 1 .. next' - 1 : request'[i].confirmed /\ request'[i].pair = p}
    <3>1. groups[p] = {i \in 1 .. next - 1 : request[i].confirmed /\ request[i].pair = p}
      BY DEF GroupsExact
    <3>2. 1 .. next' - 1 = (1 .. next - 1) \cup {next}
      BY <2>1 DEF Indices
    <3> QED
      BY <2>1, <3>1, <3>2
  <2>3. /\ \A p \in Pairs : groups'[p] # {} <=> \E n \in DOMAIN order' : order'[n] = p
        /\ \A m, n \in DOMAIN order' : m # n => order'[m] # order'[n]
    BY <2>1 DEF GroupsExact
  <2> QED
    BY <2>2, <2>3 DEF GroupsExact
<1>2. CASE Group
  <2> DEFINE q == request[next].pair
  <2>1. /\ next \in Indices /\ request[next].confirmed /\ next' = next + 1
        /\ groups' = [groups EXCEPT ![q] = @ \cup {next}]
        /\ order' = IF groups[q] = {} THEN Append(order, q) ELSE order
        /\ request' = request
    BY <1>2 DEF Group, Indices
  <2>2. q \in Pairs
    BY <2>1, Participations
  <2>3. ASSUME NEW p \in Pairs
        PROVE  groups'[p] = {i \in 1 .. next' - 1 : request'[i].confirmed /\ request'[i].pair = p}
    <3>1. groups[p] = {i \in 1 .. next - 1 : request[i].confirmed /\ request[i].pair = p}
      BY DEF GroupsExact
    <3>2. groups'[p] = IF p = q THEN groups[p] \cup {next} ELSE groups[p]
      BY <2>1, <2>2
    <3>3. 1 .. next' - 1 = (1 .. next - 1) \cup {next}
      BY <2>1 DEF Indices
    <3> QED
      BY <2>1, <3>1, <3>2, <3>3
  <2>4. ASSUME NEW p \in Pairs
        PROVE  groups'[p] # {} <=> \E n \in DOMAIN order' : order'[n] = p
    <3>1. groups'[p] # {} <=> p = q \/ groups[p] # {}
      BY <2>1, <2>2
    <3>2. (\E n \in DOMAIN order' : order'[n] = p)
            <=> p = q \/ \E n \in DOMAIN order : order[n] = p
      <4>1. CASE groups[q] = {}
        <5>1. order' = Append(order, q)
          BY <2>1, <4>1
        <5>2. /\ DOMAIN order' = (DOMAIN order) \cup {Len(order) + 1}
              /\ order'[Len(order) + 1] = q
              /\ \A n \in DOMAIN order : order'[n] = order[n]
          BY <5>1, <2>2
        <5> QED
          BY <5>2
      <4>2. CASE groups[q] # {}
        <5>1. order' = order /\ \E n \in DOMAIN order : order[n] = q
          BY <2>1, <2>2, <4>2 DEF GroupsExact
        <5> QED
          BY <5>1
      <4> QED
        BY <4>1, <4>2
    <3> QED
      BY <3>1, <3>2 DEF GroupsExact
  <2>5. ASSUME NEW m \in DOMAIN order', NEW n \in DOMAIN order', m # n
        PROVE  order'[m] # order'[n]
    <3>1. CASE groups[q] = {}
      <4>1. \A k \in DOMAIN order : order[k] # q
        BY <2>2, <3>1 DEF GroupsExact
      <4>2. order' = Append(order, q)
        BY <2>1, <3>1
      <4>3. /\ DOMAIN order' = (DOMAIN order) \cup {Len(order) + 1}
            /\ order'[Len(order) + 1] = q
            /\ \A k \in DOMAIN order : order'[k] = order[k]
        BY <4>2, <2>2
      <4> QED
        BY <4>1, <4>3, <2>5 DEF GroupsExact
    <3>2. CASE groups[q] # {}
      BY <3>2, <2>1, <2>5 DEF GroupsExact
    <3> QED
      BY <3>1, <3>2
  <2> QED
    BY <2>3, <2>4, <2>5 DEF GroupsExact
<1>3. CASE OpenCluster \/ AddToCluster \/ MakeFiche \/ UNCHANGED vars
  <2>1. UNCHANGED <<request, groupVars>>
    BY <1>3 DEF OpenCluster, AddToCluster, MakeFiche, vars
  <2> QED
    BY <2>1 DEF GroupsExact, groupVars
<1> QED
  BY <1>1, <1>2, <1>3 DEF Next

-----------------------------------------------------------------------------
(* Clusters: what the sorted pass has cut so far.  The last day covered is *)
(* in the last cluster, which makes looking at it alone enough.            *)

ClustersExact ==
  clusters # <<>> =>
    /\ todo \cup UNION {clusters[k] : k \in DOMAIN clusters} = groups[order[Len(fiches) + 1]]
    /\ \A k \in DOMAIN clusters : clusters[k] # {} /\ Unbroken(clusters[k])
    /\ \A k, l \in DOMAIN clusters : k < l => Before(clusters[k], clusters[l])
    /\ \A k \in DOMAIN clusters : \A i \in clusters[k] :
         /\ i \notin todo
         /\ request[i].end <= clusterEnd
         /\ \A j \in todo : request[i].start <= request[j].start
    /\ \E i \in clusters[Len(clusters)] : request[i].end = clusterEnd

LEMMA ClustersInit == AtStart => ClustersExact
  BY DEF AtStart, ClustersExact

LEMMA EarliestStarts ==
  ASSUME request \in Seq(Participation), NEW S \in SUBSET Indices, NEW i, Earliest(i, S)
  PROVE  \A j \in S : request[i].start <= request[j].start
<1> SUFFICES ASSUME NEW j \in S PROVE request[i].start <= request[j].start
  OBVIOUS
<1>1. request[i].start \in Int /\ request[j].start \in Int
  BY Participations DEF Earliest
<1>2. CASE j = i
  BY <1>1, <1>2
<1>3. CASE j # i
  <2>1. request[i].start < request[j].start \/ request[i].start = request[j].start
    BY <1>3 DEF Earliest
  <2> QED
    BY <1>1, <2>1
<1> QED
  BY <1>2, <1>3

LEMMA OpenClusterExact ==
  ASSUME ValidRequest, Typed, OpenCluster
  PROVE  ClustersExact'
<1> USE DEF Typed, TypeOK
<1> DEFINE group == groups[order[Len(fiches) + 1]]
<1>1. /\ order[Len(fiches) + 1] \in Pairs
      /\ UNCHANGED <<request, groupVars, ficheVars>>
  BY DEF OpenCluster
<1>2. PICK i \in group :
        /\ Earliest(i, group)
        /\ todo' = group \ {i}
        /\ clusters' = <<{i}>>
        /\ clusterEnd' = request[i].end
  BY DEF OpenCluster
<1>3. group \subseteq Indices /\ i \in Indices
  BY <1>1
<1>4. \A j \in group : request[i].start <= request[j].start
  BY <1>2, <1>3, EarliestStarts
<1>5. request[i].end \in Int
  BY <1>3, Participations
<1>6. DOMAIN clusters' = {1} /\ Len(clusters') = 1 /\ clusters'[1] = {i}
  BY <1>2
<1>7. group' = group
  BY <1>1 DEF groupVars, ficheVars
<1>8. Unbroken({i})'
  BY SingletonUnbroken DEF Unbroken
<1>9. todo' \cup UNION {clusters'[k] : k \in DOMAIN clusters'} = group'
  BY <1>2, <1>6, <1>7
<1>10. \A k \in DOMAIN clusters' : clusters'[k] # {} /\ Unbroken(clusters[k])'
  BY <1>6, <1>8
<1>11. \A k \in DOMAIN clusters' : \A h \in clusters'[k] :
         /\ h \notin todo'
         /\ request'[h].end <= clusterEnd'
         /\ \A j \in todo' : request'[h].start <= request'[j].start
  BY <1>1, <1>2, <1>4, <1>5, <1>6
<1>12. /\ \A k, l \in DOMAIN clusters' : ~(k < l)
       /\ \E h \in clusters'[Len(clusters')] : request'[h].end = clusterEnd'
  BY <1>1, <1>2, <1>6
<1> HIDE DEF Typed, TypeOK
<1> QED
  BY <1>9, <1>10, <1>11, <1>12 DEF ClustersExact

LEMMA AddToClusterExact ==
  ASSUME ValidRequest, Typed, ClustersExact, AddToCluster
  PROVE  ClustersExact'
<1> DEFINE last == Len(clusters)
           current == groups[order[Len(fiches) + 1]]
           covered == UNION {clusters[k] : k \in DOMAIN clusters}
<1>1. PICK i \in todo :
        /\ Earliest(i, todo)
        /\ clusters' = IF request[i].start - clusterEnd > ClusterGapDays
                       THEN Append(clusters, {i})
                       ELSE [clusters EXCEPT ![last] = @ \cup {i}]
        /\ clusterEnd' = IF request[i].end > clusterEnd THEN request[i].end ELSE clusterEnd
        /\ todo' = todo \ {i}
        /\ UNCHANGED <<request, groupVars, ficheVars>>
  BY DEF AddToCluster
<1>2. /\ request \in Seq(Participation)
      /\ clusters \in Seq(SUBSET Indices) /\ clusters # <<>>
      /\ todo \subseteq Indices /\ i \in Indices
      /\ clusterEnd \in Int
  BY <1>1 DEF Typed, TypeOK, Progress
<1>3. last \in DOMAIN clusters /\ DOMAIN clusters = 1 .. last /\ last \in Nat
  BY <1>2
<1>4. /\ \A j \in Indices : request[j].start \in Int /\ request[j].end \in Int
      /\ \A j \in Indices : request[j].start <= request[j].end
      /\ \A k \in DOMAIN clusters : clusters[k] \subseteq Indices
  BY <1>2, Participations DEF ValidRequest
<1>5. \A j \in todo : request[i].start <= request[j].start
  BY <1>1, <1>2, EarliestStarts
<1>6. /\ todo \cup covered = current
      /\ \A k \in DOMAIN clusters : clusters[k] # {} /\ Unbroken(clusters[k])
      /\ \A k, l \in DOMAIN clusters : k < l => Before(clusters[k], clusters[l])
      /\ \A k \in DOMAIN clusters : \A h \in clusters[k] :
           /\ h \notin todo
           /\ request[h].end <= clusterEnd
           /\ \A j \in todo : request[h].start <= request[j].start
      /\ \E h \in clusters[last] : request[h].end = clusterEnd
  BY <1>2 DEF ClustersExact
<1>7. current' = current /\ request' = request
  BY <1>1 DEF groupVars, ficheVars
<1>8. ClusterGapDays = 31
  BY DEF ClusterGapDays
<1>9. ASSUME NEW S, Unbroken(S) PROVE Unbroken(S)'
  BY <1>7, <1>9 DEF Unbroken, AllApart, Apart
<1>10. ASSUME NEW S, NEW T, Before(S, T) PROVE Before(S, T)'
  BY <1>7, <1>10 DEF Before
<1>11. CASE request[i].start - clusterEnd > ClusterGapDays
  <2>1. clusters' = Append(clusters, {i})
    BY <1>1, <1>11
  <2>2. /\ DOMAIN clusters' = (DOMAIN clusters) \cup {last + 1} /\ Len(clusters') = last + 1
        /\ clusters'[last + 1] = {i}
        /\ \A k \in DOMAIN clusters : clusters'[k] = clusters[k]
    BY <2>1, <1>2, <1>3
  <2>3. clusterEnd' = request[i].end
    BY <1>1, <1>2, <1>4, <1>8, <1>11
  <2>4. (todo \cup covered)' = current'
    <3>1. covered' = covered \cup {i}
      BY <2>2
    <3> HIDE DEF covered, current
    <3> QED
      BY <3>1, <1>1, <1>6, <1>7
  <2>5. \A k \in DOMAIN clusters' : clusters'[k] # {} /\ Unbroken(clusters'[k])
    <3> SUFFICES ASSUME NEW k \in DOMAIN clusters'
                 PROVE  clusters'[k] # {} /\ Unbroken(clusters'[k])
      OBVIOUS
    <3>1. CASE k = last + 1
      BY <3>1, <2>2, SingletonUnbroken
    <3>2. CASE k \in DOMAIN clusters
      BY <3>2, <2>2, <1>6
    <3> QED
      BY <3>1, <3>2, <2>2
  <2>6. \A k, l \in DOMAIN clusters' : k < l => Before(clusters'[k], clusters'[l])
    <3>1. ASSUME NEW k \in DOMAIN clusters PROVE Before(clusters[k], {i})
      BY <1>2, <1>4, <1>6, <1>8, <1>11 DEF Before
    <3>2. ASSUME NEW k \in DOMAIN clusters', NEW l \in DOMAIN clusters', k < l
          PROVE  k \in DOMAIN clusters /\ (l = last + 1 \/ l \in DOMAIN clusters)
      BY <3>2, <2>2, <1>3
    <3> SUFFICES ASSUME NEW k \in DOMAIN clusters', NEW l \in DOMAIN clusters', k < l
                 PROVE  Before(clusters'[k], clusters'[l])
      OBVIOUS
    <3>3. CASE l = last + 1
      BY <3>1, <3>2, <3>3, <2>2
    <3>4. CASE l \in DOMAIN clusters
      BY <3>2, <3>4, <2>2, <1>6
    <3> QED
      BY <3>2, <3>3, <3>4
  <2>7. ASSUME NEW k \in DOMAIN clusters', NEW h \in clusters'[k]
        PROVE  /\ h \notin todo'
               /\ request[h].end <= clusterEnd'
               /\ \A j \in todo' : request[h].start <= request[j].start
    <3>1. CASE k = last + 1
      BY <3>1, <2>2, <2>3, <1>1, <1>2, <1>4, <1>5
    <3>2. CASE k \in DOMAIN clusters
      <4>1. h \in clusters[k] /\ h \in Indices
        BY <3>2, <2>2, <1>4
      <4>2. clusterEnd <= clusterEnd'
        BY <2>3, <1>2, <1>4, <1>8, <1>11
      <4> QED
        BY <3>2, <4>1, <4>2, <2>3, <1>1, <1>2, <1>4, <1>6
    <3> QED
      BY <3>1, <3>2, <2>2
  <2>8. \E h \in clusters'[Len(clusters')] : request[h].end = clusterEnd'
    BY <2>2, <2>3
  <2>9. /\ \A k \in DOMAIN clusters' : Unbroken(clusters[k])'
        /\ \A k, l \in DOMAIN clusters' : k < l => Before(clusters[k], clusters[l])'
    BY <2>5, <2>6, <1>9, <1>10
  <2> QED
    BY <2>4, <2>5, <2>7, <2>8, <2>9, <1>7 DEF ClustersExact
<1>12. CASE ~(request[i].start - clusterEnd > ClusterGapDays)
  <2>1. clusters' = [clusters EXCEPT ![last] = @ \cup {i}]
    BY <1>1, <1>12
  <2>2. /\ DOMAIN clusters' = DOMAIN clusters /\ Len(clusters') = last
        /\ clusters'[last] = clusters[last] \cup {i}
        /\ \A k \in DOMAIN clusters : k # last => clusters'[k] = clusters[k]
    BY <2>1, <1>2, <1>3
  <2>3. clusterEnd' \in Int /\ clusterEnd <= clusterEnd' /\ request[i].end <= clusterEnd'
        /\ (clusterEnd' = clusterEnd \/ clusterEnd' = request[i].end)
    BY <1>1, <1>2, <1>4
  <2>4. (todo \cup covered)' = current'
    <3>1. covered' = covered \cup {i}
      BY <2>2, <1>3
    <3> HIDE DEF covered, current
    <3> QED
      BY <3>1, <1>1, <1>6, <1>7
  <2>5. \A k \in DOMAIN clusters' : clusters'[k] # {} /\ Unbroken(clusters'[k])
    <3>1. PICK m \in clusters[last] : request[m].end = clusterEnd
      BY <1>6
    <3>2. ~Apart(m, i)
      <4>1. m \in Indices /\ request[m].start <= request[i].start
        BY <1>3, <1>4, <1>6
      <4>2. request[i].start - request[m].end <= 31
        BY <3>1, <4>1, <1>2, <1>4, <1>8, <1>12
      <4>3. request[m].start - request[i].end <= 0
        BY <4>1, <1>2, <1>4
      <4> QED
        BY <4>1, <4>2, <4>3, <1>2, <1>4, <1>8 DEF Apart
    <3>3. Unbroken(clusters[last] \cup {i})
      BY <3>2, <1>3, <1>6, UnbrokenGrows
    <3> QED
      BY <3>3, <2>2, <1>3, <1>6
  <2>6. \A k, l \in DOMAIN clusters' : k < l => Before(clusters'[k], clusters'[l])
    <3>1. ASSUME NEW k \in DOMAIN clusters, k < last
          PROVE  Before(clusters[k], clusters[last] \cup {i})
      <4>1. Before(clusters[k], clusters[last])
        BY <3>1, <1>3, <1>6
      <4>2. PICK s \in clusters[last] : s \in Indices /\ request[s].start <= request[i].start
        BY <1>3, <1>4, <1>6
      <4>3. ASSUME NEW h \in clusters[k]
            PROVE  request[i].start - request[h].end > ClusterGapDays
        <5>1. request[s].start - request[h].end > ClusterGapDays /\ h \in Indices
          BY <4>1, <1>4 DEF Before
        <5> QED
          BY <5>1, <4>2, <1>2, <1>4, <1>8
      <4> QED
        BY <4>1, <4>3 DEF Before
    <3>2. ASSUME NEW k \in DOMAIN clusters, NEW l \in DOMAIN clusters, k < l
          PROVE  k # last /\ (l = last => k < last)
      BY <3>2, <1>3
    <3> SUFFICES ASSUME NEW k \in DOMAIN clusters, NEW l \in DOMAIN clusters, k < l
                 PROVE  Before(clusters'[k], clusters'[l])
      BY <2>2
    <3>3. CASE l = last
      BY <3>1, <3>2, <3>3, <2>2
    <3>4. CASE l # last
      BY <3>2, <3>4, <2>2, <1>6
    <3> QED
      BY <3>3, <3>4
  <2>7. ASSUME NEW k \in DOMAIN clusters', NEW h \in clusters'[k]
        PROVE  /\ h \notin todo'
               /\ request[h].end <= clusterEnd'
               /\ \A j \in todo' : request[h].start <= request[j].start
    <3>1. CASE h = i
      BY <3>1, <2>3, <1>1, <1>5
    <3>2. CASE h # i
      <4>1. h \in clusters[k] /\ k \in DOMAIN clusters /\ h \in Indices
        BY <3>2, <2>2, <1>4
      <4>2. request[h].end <= clusterEnd'
        BY <4>1, <2>3, <1>2, <1>4, <1>6
      <4> QED
        BY <4>1, <4>2, <1>1, <1>6
    <3> QED
      BY <3>1, <3>2
  <2>8. \E h \in clusters'[Len(clusters')] : request[h].end = clusterEnd'
    BY <2>2, <2>3, <1>6
  <2>9. /\ \A k \in DOMAIN clusters' : Unbroken(clusters[k])'
        /\ \A k, l \in DOMAIN clusters' : k < l => Before(clusters[k], clusters[l])'
    BY <2>5, <2>6, <1>9, <1>10
  <2> QED
    BY <2>4, <2>5, <2>7, <2>8, <2>9, <1>7 DEF ClustersExact
<1> QED
  BY <1>11, <1>12

LEMMA ClustersStep ==
  ASSUME ValidRequest, Typed, ClustersExact, [Next]_vars
  PROVE  ClustersExact'
<1>1. CASE Skip \/ Group
  <2>1. clusters' = <<>>
    BY <1>1 DEF Skip, Group, clusterVars, Typed, Progress, Grouped, TypeOK
  <2> QED
    BY <2>1 DEF ClustersExact
<1>2. CASE OpenCluster
  BY <1>2, OpenClusterExact
<1>3. CASE AddToCluster
  BY <1>3, AddToClusterExact
<1>4. CASE MakeFiche
  BY <1>4 DEF MakeFiche, ClustersExact
<1>5. CASE UNCHANGED vars
  BY <1>5 DEF vars, groupVars, clusterVars, ficheVars, ClustersExact, Unbroken, AllApart,
              Apart, Before
<1> QED
  BY <1>1, <1>2, <1>3, <1>4, <1>5 DEF Next

-----------------------------------------------------------------------------
(* Fiches.                                                                 *)

FicheExact(n) ==
  /\ fiches[n].pair = order[n]
  /\ Items(fiches[n]) = groups[order[n]]
  /\ fiches[n].period1 # {}
  /\ fiches[n].period1 \cap fiches[n].period2 = {}
  /\ TellsTheGaps(fiches[n])

FichesExact ==
  /\ \A n \in DOMAIN fiches : FicheExact(n)
  /\ \A w \in warnings : \E n \in DOMAIN fiches : w[1] = order[n]

LEMMA FichesInit == AtStart => FichesExact
  BY DEF AtStart, FichesExact

\* What the second period takes of the clusters: unbroken exactly when they are at most two.
LEMMA LaterClustersBroken ==
  ASSUME ValidRequest, Typed, ClustersExact, clusters # <<>>
  PROVE  /\ Before(clusters[1], LaterClusters(clusters))
         /\ clusters[1] \cap LaterClusters(clusters) = {}
         /\ clusters[1] \cup LaterClusters(clusters) = UNION {clusters[k] : k \in DOMAIN clusters}
         /\ Unbroken(LaterClusters(clusters)) <=> ~TooMany(Len(clusters))
<1> DEFINE later == LaterClusters(clusters)
<1>1. /\ clusters \in Seq(SUBSET Indices) /\ request \in Seq(Participation)
      /\ Len(clusters) \in Nat /\ Len(clusters) >= 1 /\ DOMAIN clusters = 1 .. Len(clusters)
  BY DEF Typed, TypeOK
<1>2. /\ \A k \in DOMAIN clusters : clusters[k] # {} /\ Unbroken(clusters[k])
      /\ \A k, l \in DOMAIN clusters : k < l => Before(clusters[k], clusters[l])
  BY DEF ClustersExact
<1>3. \A k \in DOMAIN clusters : clusters[k] \subseteq Indices
  BY <1>1
<1>4. later = UNION {clusters[k] : k \in 2 .. Len(clusters)}
  BY DEF LaterClusters
<1>5. ASSUME NEW S \in SUBSET Indices, NEW T \in SUBSET Indices, Before(S, T)
      PROVE  S \cap T = {} /\ AllApart(S, T)
  <2>1. ASSUME NEW i \in S, i \in T PROVE FALSE
    <3>1. /\ request[i].start \in Int /\ request[i].end \in Int
          /\ request[i].start <= request[i].end
          /\ request[i].start - request[i].end > 31
      BY <1>1, <1>5, <2>1, Participations DEF ValidRequest, Before, ClusterGapDays
    <3> QED
      BY <3>1
  <2> QED
    BY <2>1, <1>5 DEF AllApart, Apart, Before
<1>6. Before(clusters[1], later)
  <2>1. ASSUME NEW k \in 2 .. Len(clusters) PROVE Before(clusters[1], clusters[k])
    BY <1>1, <1>2
  <2> QED
    BY <2>1, <1>4 DEF Before
<1>7. later \subseteq Indices /\ clusters[1] \subseteq Indices
  BY <1>1, <1>3, <1>4
<1>8. clusters[1] \cup later = UNION {clusters[k] : k \in DOMAIN clusters}
  <2>1. DOMAIN clusters = {1} \cup 2 .. Len(clusters)
    BY <1>1
  <2> QED
    BY <2>1, <1>4
<1>9. Unbroken(later) <=> ~TooMany(Len(clusters))
  <2>1. CASE Len(clusters) = 1
    <3>1. later = {}
      BY <2>1, <1>4
    <3> QED
      BY <3>1, <2>1, EmptyUnbroken DEF TooMany
  <2>2. CASE Len(clusters) = 2
    <3>1. 2 .. Len(clusters) = {2}
      BY <2>2
    <3>2. later = clusters[2]
      BY <3>1, <1>4
    <3> QED
      BY <3>2, <2>2, <1>1, <1>2 DEF TooMany
  <2>3. CASE Len(clusters) >= 3
    <3>1. 2 \in DOMAIN clusters /\ 3 \in DOMAIN clusters
      BY <2>3, <1>1
    <3>2. clusters[2] \subseteq later /\ clusters[3] \subseteq later
      BY <2>3, <1>1, <1>4
    <3>3. clusters[2] # {} /\ clusters[2] # later
      <4>1. clusters[2] \cap clusters[3] = {}
        BY <3>1, <1>2, <1>3, <1>5
      <4> QED
        BY <4>1, <3>1, <3>2, <1>2
    <3>4. AllApart(clusters[2], later \ clusters[2])
      <4>1. ASSUME NEW j \in later \ clusters[2]
            PROVE  \E k \in 3 .. Len(clusters) : j \in clusters[k]
        <5>1. PICK k \in 2 .. Len(clusters) : j \in clusters[k]
          BY <1>4
        <5>2. k # 2
          BY <5>1
        <5> QED
          BY <5>1, <5>2, <1>1
      <4>2. ASSUME NEW k \in 3 .. Len(clusters) PROVE AllApart(clusters[2], clusters[k])
        BY <3>1, <1>1, <1>2, <1>3, <1>5
      <4> QED
        BY <4>1, <4>2 DEF AllApart
    <3>5. ~Unbroken(later)
      BY <3>2, <3>3, <3>4 DEF Unbroken
    <3> QED
      BY <3>5, <2>3, <1>1 DEF TooMany
  <2> QED
    BY <2>1, <2>2, <2>3, <1>1
<1> QED
  BY <1>3, <1>5, <1>6, <1>7, <1>8, <1>9

LEMMA MakeFicheExact ==
  ASSUME ValidRequest, Typed, GroupsExact, ClustersExact, FichesExact, MakeFiche
  PROVE  FichesExact'
<1>1. PICK new, pair, f :
        /\ new = Len(fiches) + 1
        /\ pair = order[new]
        /\ f = [pair |-> pair, period1 |-> clusters[1], period2 |-> LaterClusters(clusters)]
  OBVIOUS
<1>2. /\ clusters # <<>> /\ todo = {}
      /\ fiches' = Append(fiches, f)
      /\ warnings' = warnings \cup ({pair} \X Warned(f, Len(clusters)))
      /\ UNCHANGED <<request, groups, order>>
  BY <1>1 DEF MakeFiche, groupVars
<1>3. /\ fiches \in Seq([pair : Pairs, period1 : SUBSET Indices, period2 : SUBSET Indices])
      /\ order \in Seq(Pairs) /\ Len(fiches) < Len(order)
      /\ 1 \in DOMAIN clusters
  BY <1>2 DEF Typed, TypeOK, Progress
<1>4. /\ DOMAIN fiches' = (DOMAIN fiches) \cup {new} /\ new \notin DOMAIN fiches
      /\ fiches'[new] = f
      /\ \A n \in DOMAIN fiches : fiches'[n] = fiches[n]
  BY <1>1, <1>2, <1>3
<1>5. \A n \in DOMAIN fiches : order[n] # pair
  <2>1. new \in DOMAIN order /\ DOMAIN fiches \subseteq DOMAIN order
    BY <1>1, <1>3
  <2> QED
    BY <2>1, <1>1, <1>4 DEF GroupsExact
<1>6. ASSUME NEW S, NEW T
      PROVE  (Unbroken(S)' <=> Unbroken(S)) /\ (Before(S, T)' <=> Before(S, T))
  BY <1>2 DEF Unbroken, AllApart, Apart, Before
<1>7. ASSUME NEW n \in DOMAIN fiches PROVE FicheExact(n)'
  <2>1. FicheExact(n) /\ fiches[n].pair # pair
    BY <1>5 DEF FichesExact, FicheExact
  <2>2. <<fiches[n].pair, "too_many_periods">> \in warnings'
          <=> <<fiches[n].pair, "too_many_periods">> \in warnings
    BY <2>1, <1>2
  <2> QED
    BY <2>1, <2>2, <1>2, <1>4, <1>6 DEF FicheExact, TellsTheGaps, Items
<1>8. FicheExact(new)'
  <2>1. /\ f.pair = pair /\ f.period1 = clusters[1] /\ f.period2 = LaterClusters(clusters)
    BY <1>1
  <2>2. Items(f) = groups[pair]
    BY <1>1, <1>2, <2>1, LaterClustersBroken DEF Items, ClustersExact
  <2>3. <<pair, "too_many_periods">> \notin warnings
    BY <1>5 DEF FichesExact
  <2>4. <<pair, "too_many_periods">> \in warnings' <=> TooMany(Len(clusters))
    BY <2>3, <1>2 DEF Warned, WarningTypes
  <2>5. f.period1 # {} /\ Unbroken(f.period1)
    BY <1>2, <1>3, <2>1 DEF ClustersExact
  <2>6. /\ Before(f.period1, f.period2)
        /\ f.period1 \cap f.period2 = {}
        /\ Unbroken(f.period2) <=> ~TooMany(Len(clusters))
    BY <1>2, <2>1, LaterClustersBroken
  <2>7. TellsTheGaps(f)'
    BY <2>1, <2>4, <2>5, <2>6, <1>6 DEF TellsTheGaps
  <2> QED
    BY <2>1, <2>2, <2>5, <2>6, <2>7, <1>1, <1>2, <1>4 DEF FicheExact, Items
<1>9. ASSUME NEW w \in warnings' PROVE \E n \in DOMAIN fiches' : w[1] = order'[n]
  BY <1>1, <1>2, <1>4 DEF FichesExact
<1>10. \A n \in DOMAIN fiches' : FicheExact(n)'
  BY <1>4, <1>7, <1>8
<1> QED
  BY <1>9, <1>10 DEF FichesExact

LEMMA FichesStep ==
  ASSUME ValidRequest, Typed, GroupsExact, ClustersExact, FichesExact, [Next]_vars
  PROVE  FichesExact'
<1>1. CASE Skip \/ Group
  <2>1. fiches = <<>> /\ fiches' = <<>> /\ warnings' = warnings
    BY <1>1 DEF Skip, Group, ficheVars, Typed, Progress, Grouped, TypeOK
  <2>2. warnings = {}
    BY <2>1 DEF FichesExact
  <2> QED
    BY <2>1, <2>2 DEF FichesExact
<1>2. CASE MakeFiche
  BY <1>2, MakeFicheExact
<1>3. CASE OpenCluster \/ AddToCluster \/ UNCHANGED vars
  <2>1. UNCHANGED <<request, groups, order, fiches, warnings>>
    BY <1>3 DEF OpenCluster, AddToCluster, vars, groupVars, ficheVars
  <2> QED
    BY <2>1 DEF FichesExact, FicheExact, TellsTheGaps, Items, Unbroken, AllApart, Apart, Before
<1> QED
  BY <1>1, <1>2, <1>3 DEF Next

-----------------------------------------------------------------------------
(* What is skipped, and what fiches are warned of.                         *)

SkippedExact == skipped = Cardinality({i \in 1 .. next - 1 : ~request[i].confirmed})

LEMMA SkippedInit == AtStart => SkippedExact
<1>1. {i \in 1 .. 0 : ~request[i].confirmed} = {}
  OBVIOUS
<1> QED
  BY <1>1, FS_EmptySet DEF AtStart, SkippedExact

LEMMA SkippedStep ==
  ASSUME ValidRequest, Typed, SkippedExact, [Next]_vars
  PROVE  SkippedExact'
<1> DEFINE S == {i \in 1 .. next - 1 : ~request[i].confirmed}
<1>1. next \in 1 .. Len(request) + 1 /\ Len(request) \in Nat /\ IsFiniteSet(1 .. next - 1)
  <2>1. next \in 1 .. Len(request) + 1 /\ Len(request) \in Nat
    BY DEF Typed, TypeOK
  <2>2. IsFiniteSet(1 .. next - 1)
    BY <2>1, FS_Interval
  <2> QED
    BY <2>1, <2>2
<1>2. IsFiniteSet(S)
  BY <1>1, FS_Subset
<1>3. CASE Skip
  <2>1. ~request[next].confirmed /\ skipped' = skipped + 1 /\ next' = next + 1
        /\ request' = request
    BY <1>3 DEF Skip
  <2>2. S' = S \cup {next} /\ next \notin S
    BY <1>1, <2>1
  <2>3. Cardinality(S \cup {next}) = Cardinality(S) + 1
    BY <1>2, <2>2, FS_AddElement
  <2> QED
    BY <2>1, <2>2, <2>3 DEF SkippedExact
<1>4. CASE Group
  <2>1. request[next].confirmed /\ skipped' = skipped /\ next' = next + 1 /\ request' = request
    BY <1>4 DEF Group
  <2>2. S' = S
    BY <1>1, <2>1
  <2> QED
    BY <2>1, <2>2 DEF SkippedExact
<1>5. CASE OpenCluster \/ AddToCluster \/ MakeFiche \/ UNCHANGED vars
  <2>1. UNCHANGED <<request, next, skipped>>
    BY <1>5 DEF OpenCluster, AddToCluster, MakeFiche, vars, groupVars
  <2> QED
    BY <2>1 DEF SkippedExact
<1> QED
  BY <1>3, <1>4, <1>5 DEF Next

WarningsOf(pair, told) == {w \in WarningTypes : <<pair, w>> \in told}

WarningsExact ==
  \A n \in DOMAIN fiches :
    LET f == fiches[n]
    IN  WarningsOf(f.pair, warnings) = WarnedIn(request, f.period1, f.period2)

LEMMA WarningsInit == AtStart => WarningsExact
  BY DEF AtStart, WarningsExact

LEMMA WarningsStep ==
  ASSUME ValidRequest, Typed, GroupsExact, ClustersExact, FichesExact, WarningsExact, [Next]_vars
  PROVE  WarningsExact'
<1>1. CASE Skip \/ Group
  <2>1. fiches' = <<>>
    BY <1>1 DEF Skip, Group, ficheVars, Typed, Progress, Grouped, TypeOK
  <2> QED
    BY <2>1 DEF WarningsExact
<1>2. CASE MakeFiche
  <2>1. PICK new, pair, f :
          /\ new = Len(fiches) + 1
          /\ pair = order[new]
          /\ f = [pair |-> pair, period1 |-> clusters[1], period2 |-> LaterClusters(clusters)]
    OBVIOUS
  <2>2. /\ clusters # <<>>
        /\ fiches' = Append(fiches, f)
        /\ warnings' = warnings \cup ({pair} \X Warned(f, Len(clusters)))
        /\ request' = request
    BY <1>2, <2>1 DEF MakeFiche
  <2>3. /\ fiches \in Seq([pair : Pairs, period1 : SUBSET Indices, period2 : SUBSET Indices])
        /\ order \in Seq(Pairs) /\ Len(fiches) < Len(order)
    BY <2>2 DEF Typed, TypeOK, Progress
  <2>4. /\ DOMAIN fiches' = (DOMAIN fiches) \cup {new} /\ new \notin DOMAIN fiches
        /\ fiches'[new] = f
        /\ \A n \in DOMAIN fiches : fiches'[n] = fiches[n]
    BY <2>1, <2>2, <2>3
  <2>5. \A n \in DOMAIN fiches : fiches[n].pair # pair
    <3>1. new \in DOMAIN order /\ DOMAIN fiches \subseteq DOMAIN order
      BY <2>1, <2>3
    <3>2. \A n \in DOMAIN fiches : fiches[n].pair = order[n]
      BY DEF FichesExact, FicheExact
    <3> QED
      BY <3>1, <3>2, <2>1, <2>4 DEF GroupsExact
  <2>6. ASSUME NEW n \in DOMAIN fiches
        PROVE  WarningsOf(fiches[n].pair, warnings') = WarningsOf(fiches[n].pair, warnings)
    <3>1. fiches'[n] = fiches[n] /\ fiches[n].pair # pair
      BY <2>4, <2>5
    <3> QED
      BY <3>1, <2>2 DEF WarningsOf
  <2>7. WarningsOf(pair, warnings') = Warned(f, Len(clusters))
    <3>1. \A w : <<pair, w>> \notin warnings
      <4> SUFFICES ASSUME NEW w, <<pair, w>> \in warnings PROVE FALSE
        OBVIOUS
      <4>1. PICK n \in DOMAIN fiches : <<pair, w>>[1] = order[n]
        BY DEF FichesExact
      <4>2. pair = order[n] /\ fiches[n].pair = order[n]
        BY <4>1 DEF FichesExact, FicheExact
      <4> QED
        BY <4>2, <2>5
    <3>2. PICK W : W = Warned(f, Len(clusters)) /\ W \subseteq WarningTypes
      BY DEF Warned
    <3>3. \A w : <<pair, w>> \in warnings' <=> w \in W
      BY <2>2, <3>1, <3>2
    <3> QED
      BY <3>2, <3>3 DEF WarningsOf
  <2>8. TooMany(Len(clusters)) <=> ~UnbrokenIn(request, f.period2)
    BY <2>1, <2>2, LaterClustersBroken, GapsHere
  <2>9. Warned(f, Len(clusters)) = WarnedIn(request, f.period1, f.period2)
    BY <2>8, WarnedHere
  <2>10. ASSUME NEW n \in DOMAIN fiches'
         PROVE  WarningsOf(fiches'[n].pair, warnings')
                  = WarnedIn(request, fiches'[n].period1, fiches'[n].period2)
    <3>1. CASE n = new
      <4>1. fiches'[n] = f /\ f.pair = pair
        BY <3>1, <2>1, <2>4
      <4> QED
        BY <4>1, <2>7, <2>9
    <3>2. CASE n \in DOMAIN fiches
      BY <3>2, <2>4, <2>6 DEF WarningsExact
    <3> QED
      BY <3>1, <3>2, <2>4
  <2> QED
    BY <2>2, <2>10 DEF WarningsExact
<1>3. CASE OpenCluster \/ AddToCluster \/ UNCHANGED vars
  <2>1. UNCHANGED <<request, fiches, warnings>>
    BY <1>3 DEF OpenCluster, AddToCluster, vars, ficheVars
  <2> QED
    BY <2>1 DEF WarningsExact
<1> QED
  BY <1>1, <1>2, <1>3 DEF Next

-----------------------------------------------------------------------------
(* The inductive invariant and what follows from it.                       *)

Inv ==
  Typed /\ GroupsExact /\ ClustersExact /\ FichesExact /\ SkippedExact /\ WarningsExact

LEMMA InvAtStart == ValidRequest /\ AtStart => Inv
  BY TypedInit, GroupsInit, ClustersInit, FichesInit, SkippedInit, WarningsInit DEF Inv

LEMMA InvStep == ValidRequest /\ Inv /\ [Next]_vars => Inv'
  BY TypedStep, GroupsStep, ClustersStep, FichesStep, SkippedStep, WarningsStep DEF Inv

\* The two loops keep: groups are what has been read, clusters are cut at the gaps of what has
\* been taken in order, and fiches are the clusters of their groups.
THEOREM Invariant == Spec => []Inv
<1>1. ValidRequest /\ Init => Inv
  BY InvAtStart DEF Init
<1>2. ValidRequest /\ Inv /\ [Next]_vars => Inv'
  BY InvStep
<1> QED
  BY <1>1, <1>2, RequestValid, PTL DEF Spec

LEMMA InvCuts ==
  ASSUME ValidRequest, Inv
  PROVE  ClustersAreTheGaps
<1> SUFFICES ASSUME clusters # <<>> PROVE ClustersAreTheGaps
  BY DEF ClustersAreTheGaps
<1>1. ASSUME NEW k \in DOMAIN clusters, NEW l \in DOMAIN clusters, k # l
      PROVE  AllApart(clusters[k], clusters[l])
  <2>1. k < l \/ l < k
    BY <1>1 DEF Inv, Typed, TypeOK
  <2>2. Before(clusters[k], clusters[l]) \/ Before(clusters[l], clusters[k])
    BY <2>1 DEF Inv, ClustersExact
  <2> QED
    BY <2>2 DEF Before, AllApart, Apart
<1> QED
  BY <1>1 DEF ClustersAreTheGaps, Inv, ClustersExact

LEMMA InvTells ==
  ASSUME Inv
  PROVE  PeriodsTellTheGaps
  BY DEF Inv, FichesExact, FicheExact, PeriodsTellTheGaps

LEMMA InvCounts ==
  ASSUME ValidRequest, Inv
  PROVE  EachCountsOnce
<1> SUFFICES ASSUME Finished PROVE EachCountsOnce
  BY DEF EachCountsOnce
<1>1. /\ request \in Seq(Participation) /\ order \in Seq(Pairs)
      /\ next = Len(request) + 1 /\ DOMAIN fiches = DOMAIN order
  BY DEF Inv, Typed, TypeOK, Finished, Grouped
<1>2. ASSUME NEW p \in Pairs
      PROVE  groups[p] = {i \in Archived : request[i].pair = p}
  <2>1. 1 .. next - 1 = Indices
    BY <1>1 DEF Indices
  <2> QED
    BY <2>1 DEF Inv, GroupsExact, Archived
<1>3. ASSUME NEW n \in DOMAIN fiches
      PROVE  /\ Items(fiches[n]) = {i \in Archived : request[i].pair = fiches[n].pair}
             /\ fiches[n].period1 # {}
             /\ fiches[n].period1 \cap fiches[n].period2 = {}
  <2>1. FicheExact(n) /\ order[n] \in Pairs
    BY <1>1 DEF Inv, FichesExact
  <2> QED
    BY <2>1, <1>2 DEF FicheExact
<1>4. ASSUME NEW i \in Archived
      PROVE  \E n \in DOMAIN fiches : fiches[n].pair = request[i].pair
  <2>1. i \in Indices /\ request[i].pair \in Pairs
    BY <1>1, Participations DEF Archived
  <2>2. groups[request[i].pair] # {}
    BY <2>1, <1>2
  <2>3. PICK n \in DOMAIN order : order[n] = request[i].pair
    BY <2>1, <2>2 DEF Inv, GroupsExact
  <2> QED
    BY <2>3, <1>1 DEF Inv, FichesExact, FicheExact
<1>5. \A m, n \in DOMAIN fiches : m # n => fiches[m].pair # fiches[n].pair
  <2>1. \A n \in DOMAIN fiches : fiches[n].pair = order[n]
    BY DEF Inv, FichesExact, FicheExact
  <2>2. \A m, n \in DOMAIN order : m # n => order[m] # order[n]
    BY DEF Inv, GroupsExact
  <2> QED
    BY <1>1, <2>1, <2>2
<1> QED
  BY <1>3, <1>4, <1>5 DEF EachCountsOnce

\* What a finished aggregation tells of a pair depends on the request alone.
LEMMA FichesSplit ==
  ASSUME ValidRequest, Inv, Finished, NEW n \in DOMAIN fiches
  PROVE  LET f == fiches[n]
         IN  /\ f.period1 \in SUBSET Indices /\ f.period2 \in SUBSET Indices
             /\ IsSplit(request, f.pair, f.period1, f.period2)
             /\ WarningsOf(f.pair, warnings) = WarnedIn(request, f.period1, f.period2)
<1> DEFINE f == fiches[n]
<1>1. f.period1 \in SUBSET Indices /\ f.period2 \in SUBSET Indices
  <2>1. PICK R : /\ R = [pair : Pairs, period1 : SUBSET Indices, period2 : SUBSET Indices]
                 /\ fiches \in Seq(R)
    BY DEF Inv, Typed, TypeOK
  <2>2. fiches[n] \in R
    <3>1. n \in 1 .. Len(fiches) /\ fiches \in Seq(R)
      BY <2>1
    <3> QED
      BY <3>1
  <2> QED
    BY <2>1, <2>2
<1>2. /\ f.period1 \cup f.period2 = {i \in 1 .. Len(request) : request[i].confirmed
                                                               /\ request[i].pair = f.pair}
      /\ f.period1 # {} /\ f.period1 \cap f.period2 = {}
  <2>1. /\ Items(f) = {i \in Archived : request[i].pair = f.pair}
        /\ f.period1 # {} /\ f.period1 \cap f.period2 = {}
    BY InvCounts DEF EachCountsOnce
  <2> QED
    BY <2>1 DEF Items, Archived, Indices
<1>3. Unbroken(f.period1) /\ Before(f.period1, f.period2)
  BY InvTells DEF PeriodsTellTheGaps, TellsTheGaps
<1>4. UnbrokenIn(request, f.period1) /\ BeforeIn(request, f.period1, f.period2)
  BY <1>3, GapsHere
<1>5. IsSplit(request, f.pair, f.period1, f.period2)
  BY <1>2, <1>4 DEF IsSplit
<1>6. WarningsOf(f.pair, warnings) = WarnedIn(request, f.period1, f.period2)
  BY DEF Inv, WarningsExact
<1> QED
  BY <1>1, <1>5, <1>6

\* A figure summed up over periods and then over fiches is summed up over the confirmed
\* participations.
LEMMA PartsAddUp ==
  ASSUME ValidRequest, Inv, Finished, NEW v, NEW g, Integral(v, Indices),
         \A n \in DOMAIN fiches : g[n] = SumFunctionOnSet(v, fiches[n].period1)
                                         + SumFunctionOnSet(v, fiches[n].period2)
  PROVE  SumFunctionOnSet(g, DOMAIN fiches) = SumFunctionOnSet(v, Archived)
<1>1. PICK items : items = [n \in DOMAIN fiches |-> Items(fiches[n])]
  OBVIOUS
<1>2. IsFiniteSet(DOMAIN fiches)
  <2>1. DOMAIN fiches = 1 .. Len(fiches) /\ Len(fiches) \in Nat
    BY DEF Inv, Typed, TypeOK
  <2> QED
    BY <2>1, FS_Interval
<1>3. /\ \A n \in DOMAIN fiches :
           /\ Items(fiches[n]) = {i \in Archived : request[i].pair = fiches[n].pair}
           /\ fiches[n].period1 \cap fiches[n].period2 = {}
      /\ \A i \in Archived : \E n \in DOMAIN fiches : fiches[n].pair = request[i].pair
      /\ \A m, n \in DOMAIN fiches : m # n => fiches[m].pair # fiches[n].pair
  BY InvCounts DEF EachCountsOnce
<1>4. ASSUME NEW n \in DOMAIN fiches
      PROVE  /\ IsFiniteSet(items[n]) /\ Integral(v, items[n])
             /\ g[n] = SumFunctionOnSet(v, items[n])
  <2>1. PICK S, T : /\ S = fiches[n].period1 /\ T = fiches[n].period2
                    /\ S \in SUBSET Indices /\ T \in SUBSET Indices
    BY FichesSplit
  <2>2. IsFiniteSet(S) /\ IsFiniteSet(T)
    BY <2>1, FiguresTyped DEF Indices, ValidRequest
  <2>3. S \cap T = {} /\ items[n] = S \cup T
    BY <1>1, <1>3, <2>1 DEF Items
  <2>4. Integral(v, S \cup T)
    BY <2>1 DEF Integral
  <2>5. SumFunctionOnSet(v, S \cup T) = SumFunctionOnSet(v, S) + SumFunctionOnSet(v, T)
    BY <2>2, <2>3, <2>4, SumDisjoint
  <2>6. IsFiniteSet(S \cup T)
    BY <2>2, FS_Union
  <2> QED
    BY <2>1, <2>3, <2>4, <2>5, <2>6
<1>5. \A m, n \in DOMAIN fiches : m # n => items[m] \cap items[n] = {}
  BY <1>1, <1>3
<1>6. UNION {items[n] : n \in DOMAIN fiches} = Archived
  <2>1. \A n \in DOMAIN fiches : items[n] \subseteq Archived
    BY <1>1, <1>3
  <2>2. \A i \in Archived : \E n \in DOMAIN fiches : i \in items[n]
    BY <1>1, <1>3
  <2> QED
    BY <2>1, <2>2
<1>7. SumFunctionOnSet(g, DOMAIN fiches)
        = SumFunctionOnSet(v, UNION {items[n] : n \in DOMAIN fiches})
  BY <1>2, <1>4, <1>5, SumOfSums
<1> QED
  BY <1>6, <1>7

LEMMA SkippedAddsUp ==
  ASSUME ValidRequest, Inv, Finished
  PROVE  skipped = Len(request) - Cardinality(Archived)
<1>1. next = Len(request) + 1 /\ Len(request) \in Nat
  <2>1. request \in Seq(Participation) /\ next \in 1 .. Len(request) + 1 /\ next > Len(request)
    BY DEF Finished, Grouped, Inv, Typed, TypeOK
  <2> QED
    BY <2>1
<1>2. IsFiniteSet(Indices) /\ Cardinality(Indices) = Len(request)
  <2>1. PICK k \in Nat : k = Len(request)
    BY <1>1
  <2>2. IsFiniteSet(1 .. k) /\ Cardinality(1 .. k) = IF 1 > k THEN 0 ELSE k - 1 + 1
    BY FS_Interval
  <2>3. Cardinality(1 .. k) = k
    BY <2>2
  <2> QED
    BY <2>1, <2>2, <2>3 DEF Indices
<1>3. {i \in 1 .. next - 1 : ~request[i].confirmed} = Indices \ Archived
  BY <1>1 DEF Indices, Archived
<1>4. Indices \cap Archived = Archived
  BY DEF Archived
<1>5. Cardinality(Indices \ Archived) = Cardinality(Indices) - Cardinality(Indices \cap Archived)
  BY <1>2, FS_Difference
<1> QED
  BY <1>2, <1>3, <1>4, <1>5 DEF Inv, SkippedExact

\* The single pass of _cluster_periods cuts exactly at the gaps of more than 31 days.
THEOREM CutsAtTheGaps == Spec => []ClustersAreTheGaps
  BY InvCuts, Invariant, RequestValid, PTL

\* A fiche's periods tell the gaps, and a second period that hides one is warned of.
THEOREM FichesTellTheGaps == Spec => []PeriodsTellTheGaps
  BY InvTells, Invariant, PTL

\* Every confirmed participation is in one period of the one fiche of its pair.
THEOREM CountedOnce == Spec => []EachCountsOnce
  BY InvCounts, Invariant, RequestValid, PTL
=============================================================================
