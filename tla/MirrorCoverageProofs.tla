------------------------- MODULE MirrorCoverageProofs -------------------------
(***************************************************************************)
(* What a full sync and a reconciliation cover, for any set of records,    *)
(* any number of tasks and any page size: FullSyncCovers and               *)
(* ReconcileExact of OdooMirror.  The pages a sync reads are counted with  *)
(* finite cardinalities: a short page is the last one.                     *)
(***************************************************************************)
EXTENDS OdooMirrorProofs, FiniteSetTheorems

-----------------------------------------------------------------------------
(***************************************************************************)
(* The inductive invariant, for one task at a time.                        *)
(***************************************************************************)
\* Live rows before r in Odoo's order.
Rank(rows, r) == Cardinality({q \in rows : Live(q) /\ Place(q) < Place(r)})

AnswersRead   == {"putRegs", "commit"}
TicketsRead   == {"partners", "putPartners", "answers"} \cup AnswersRead
RegsRead      == {"tickets"} \cup TicketsRead
EventsPut     == {"regs"} \cup RegsRead
EventsRead    == {"putEvents"} \cup EventsPut

\* Where a task starts, and the reads that only a webhook's sync does.
StartInv(t) ==
  /\ pc[t] \notin {"events", "regs"} => offset[t] = 0
  /\ pc[t] = "idle" => seen[t] = {} /\ kind[t] = "none"
  /\ pc[t] = "fetch" => kind[t] = "upsert"
  /\ kind[t] \in {"bootstrap", "nested", "reconcile"} => target[t] = NoRecord

\* What t has fetched of the records that were in Odoo since it began is no older than that.
Holds(t, rows) == \A r \in rows : Lasting(t, r) => got[t][r] >= base[t][r]
HoldsPages(t, rows) ==
  \A r \in rows : Lasting(t, r) /\ Rank(rows, r) < offset[t] => got[t][r] >= base[t][r]

PagesInv(t) ==
  FullSync(t) /\ ~shifted[t] =>
    /\ pc[t] = "events" => HoldsPages(t, Events)
    /\ pc[t] \in EventsRead => Holds(t, Events)
    /\ pc[t] = "regs" => HoldsPages(t, Registrations)
    /\ pc[t] \in RegsRead => Holds(t, Registrations)
    /\ pc[t] \in TicketsRead => Holds(t, Tickets)
    /\ pc[t] \in AnswersRead => Holds(t, Answers)

\* A full sync writes what it has fetched, all of it before it goes on; a reconciliation only
\* deletes.
PutInv(t) ==
  /\ FullSync(t) =>
       /\ \A r \in Events : pend[t][r] # NoWrite =>
            pc[t] \in EventsRead /\ got[t][r] > 0 /\ pend[t][r] = got[t][r]
       /\ \A r \in Registrations : pend[t][r] # NoWrite =>
            /\ pc[t] \in AnswersRead /\ got[t][r] > 0
            /\ \A x \in Columns(r) : pend[t][x] = got[t][x]
       /\ pc[t] \in EventsPut => \A r \in Events : got[t][r] > 0 => pend[t][r] # NoWrite
       /\ pc[t] = "commit" => \A r \in Registrations : got[t][r] > 0 => pend[t][r] # NoWrite
  /\ kind[t] = "reconcile" =>
       \A r \in Events \cup Registrations : pend[t][r] \in {NoWrite, Absent}

\* Unless rows vanished from Odoo's pages, what is not there now was not there all the time.
DeadInv(t) ==
  pc[t] # "idle" /\ ~shifted[t] =>
    \A r \in Events \cup Registrations :
      ~Live(r) => base[t][r] = Absent /\ got[t][r] <= 0 /\ r \notin seen[t]

\* How far a reconciliation has come with a row that Odoo lacks.
CleanInv(t) ==
  ~shifted[t] =>
    \A r \in Events \cup Registrations : ~Live(r) /\ r \notin moved[t] =>
      /\ r \in Events /\ pc[t] \in {"localRegs", "deleteEvents"} =>
           mirror[r] = Absent \/ r \in stale[t]
      /\ r \in Registrations /\ pc[t] \in {"deleteEvents", "deleteRegs"} =>
           mirror[r] = Absent \/ r \in stale[t]
      /\ r \in Events /\ pc[t] = "deleteRegs" =>
           mirror[r] = Absent \/ pend[t][r] = Absent
      /\ pc[t] = "commitDelete" /\ kind[t] = "reconcile" =>
           mirror[r] = Absent \/ pend[t][r] = Absent
      /\ kind[t] = "nested" => mirror[r] = Absent

TaskInv(t) == StartInv(t) /\ PagesInv(t) /\ PutInv(t) /\ DeadInv(t) /\ CleanInv(t)

\* Tickets and answers exist with their registration only.
DetailInv ==
  /\ \A d \in Details : Live(d) => Live(OwnerOf[d])
  /\ \A t \in Tasks, d \in Details : base[t][d] # Absent => base[t][OwnerOf[d]] # Absent

CoverInv == DetailInv /\ \A t \in Tasks : TaskInv(t)

-----------------------------------------------------------------------------
(***************************************************************************)
(* Pages.                                                                  *)
(***************************************************************************)
LEMMA RowsFinite ==
  ASSUME NEW rows \in {Events, Registrations}, NEW S \in SUBSET rows
  PROVE  IsFiniteSet(S) /\ Cardinality(S) \in Nat
<1>1. S \in SUBSET Records
  BY DEF Records, Rows
<1> QED
  BY <1>1, FiniteAssumption, FS_Subset, FS_CardinalityType

LEMMA PlacesDiffer ==
  ASSUME TypeOK, OdooInv, NEW rows \in {Events, Registrations},
         NEW q \in rows, NEW r \in rows, Live(q), Live(r), q # r
  PROVE  Place(q) \in Nat /\ Place(r) \in Nat /\ Place(q) # Place(r)
<1>1. q \in Records /\ r \in Records
  BY DEF Records, Rows
<1>2. odoo[q].ver \in 1 .. MaxVersion /\ odoo[r].ver \in 1 .. MaxVersion
  BY <1>1, ConstantsAssumption DEF TypeOK, EnvironmentTypes, OdooInv, Live
<1>3. q \in DOMAIN Position /\ r \in DOMAIN Position /\ (q \in Events <=> r \in Events)
  BY PositionAssumption, KindsDisjoint
<1> QED
  BY <1>2, <1>3, PositionAssumption DEF Place

\* Live rows have different ranks, all below their number.
LEMMA RanksDiffer ==
  ASSUME TypeOK, OdooInv, NEW rows \in {Events, Registrations},
         NEW q \in rows, NEW r \in rows, Live(q), Live(r), q # r
  PROVE  Rank(rows, q) # Rank(rows, r)
<1> DEFINE before(x) == {y \in rows : Live(y) /\ Place(y) < Place(x)}
<1>1. /\ IsFiniteSet(before(q)) /\ IsFiniteSet(before(r))
      /\ Cardinality(before(q)) \in Nat /\ Cardinality(before(r)) \in Nat
  BY RowsFinite
<1>2. \A x \in rows : Live(x) => Place(x) \in Nat
  <2> SUFFICES ASSUME NEW x \in rows, Live(x) PROVE Place(x) \in Nat
    OBVIOUS
  <2> QED
    BY PlacesDiffer
<1>3. CASE Place(q) < Place(r)
  <2>1. before(q) \subseteq before(r)
    BY <1>2, <1>3
  <2>2. q \in before(r) /\ q \notin before(q)
    BY <1>2, <1>3
  <2> QED
    BY <1>1, <2>1, <2>2, FS_Subset DEF Rank
<1>4. CASE Place(r) < Place(q)
  <2>1. before(r) \subseteq before(q)
    BY <1>2, <1>4
  <2>2. r \in before(q) /\ r \notin before(r)
    BY <1>2, <1>4
  <2> QED
    BY <1>1, <2>1, <2>2, FS_Subset DEF Rank
<1> QED
  BY <1>3, <1>4, PlacesDiffer

LEMMA RankBelow ==
  ASSUME TypeOK, OdooInv, NEW rows \in {Events, Registrations}, NEW r \in rows, Live(r)
  PROVE  Rank(rows, r) \in 0 .. Cardinality({q \in rows : Live(q)}) - 1
<1> DEFINE live   == {q \in rows : Live(q)}
           before == {q \in rows : Live(q) /\ Place(q) < Place(r)}
<1>1. /\ IsFiniteSet(live) /\ Cardinality(live) \in Nat
      /\ IsFiniteSet(before) /\ Cardinality(before) \in Nat
  BY RowsFinite
<1>2. r \in live /\ r \notin before
  <2>1. Place(r) \in Nat
    <3>1. r \in Records /\ r \in DOMAIN Position
      BY PositionAssumption DEF Records, Rows
    <3>2. odoo[r].ver \in 1 .. MaxVersion
      BY <3>1, ConstantsAssumption DEF TypeOK, EnvironmentTypes, OdooInv, Live
    <3> QED
      BY <3>1, <3>2, PositionAssumption DEF Place
  <2> QED
    BY <2>1
<1>3. before \subseteq live /\ before # live
  BY <1>2
<1>4. Cardinality(before) <= Cardinality(live) /\ Cardinality(before) # Cardinality(live)
  BY <1>1, <1>3, FS_Subset
<1> QED
  BY <1>1, <1>4 DEF Rank

\* No rank is left out.
LEMMA EveryRank ==
  ASSUME TypeOK, OdooInv, NEW rows \in {Events, Registrations},
         NEW n \in 0 .. Cardinality({q \in rows : Live(q)}) - 1
  PROVE  \E r \in rows : Live(r) /\ Rank(rows, r) = n
<1> DEFINE live  == {q \in rows : Live(q)}
           ranks == 0 .. Cardinality(live) - 1
           rank  == [q \in live |-> Rank(rows, q)]
<1>1. IsFiniteSet(live) /\ Cardinality(live) \in Nat
  BY RowsFinite
<1>2. IsFiniteSet(ranks) /\ Cardinality(ranks) = Cardinality(live)
  BY <1>1, FS_Interval
<1>3. rank \in [live -> ranks]
  BY RankBelow
<1>4. \A q, r \in live : rank[q] = rank[r] => q = r
  BY RanksDiffer
<1>5. rank \in Injection(live, ranks)
  BY <1>3, <1>4 DEF Injection, IsInjective
<1>6. rank \in Surjection(live, ranks)
  BY <1>2, <1>5, FS_Injection
<1>7. PICK q \in live : rank[q] = n
  BY <1>6 DEF Surjection
<1> QED
  BY <1>7

\* A page that a live row lies behind is full.
LEMMA ShortPageIsLast ==
  ASSUME TypeOK, OdooInv, NEW rows \in {Events, Registrations}, NEW from \in Nat,
         Cardinality(Page(rows, from)) < Batch,
         NEW r \in rows, Live(r)
  PROVE  Rank(rows, r) < from + Batch
<1> SUFFICES ASSUME ~(Rank(rows, r) < from + Batch) PROVE FALSE
  OBVIOUS
<1> DEFINE live == {q \in rows : Live(q)}
           page == Page(rows, from)
           asked == from .. from + Batch - 1
           rank == [q \in page |-> Rank(rows, q)]
<1>1. Batch \in Nat /\ Batch > 0
  BY ConstantsAssumption
<1>2. IsFiniteSet(live) /\ Cardinality(live) \in Nat
  BY RowsFinite
<1>3. Rank(rows, r) \in 0 .. Cardinality(live) - 1
  BY RankBelow
<1>4. asked \subseteq 0 .. Cardinality(live) - 1
  BY <1>1, <1>2, <1>3
<1>5. page = {q \in rows : Live(q) /\ Rank(rows, q) \in asked}
  BY DEF Page, Rank
<1>6. IsFiniteSet(page) /\ Cardinality(page) \in Nat
  BY <1>5, RowsFinite
<1>7. rank \in Surjection(page, asked)
  <2>1. rank \in [page -> asked]
    BY <1>5
  <2>2. \A n \in asked : \E q \in page : rank[q] = n
    <3> SUFFICES ASSUME NEW n \in asked PROVE \E q \in page : rank[q] = n
      OBVIOUS
    <3>1. PICK q \in rows : Live(q) /\ Rank(rows, q) = n
      BY <1>4, EveryRank
    <3> QED
      BY <1>5, <3>1
  <2> QED
    BY <2>1, <2>2 DEF Surjection
<1>8. Cardinality(asked) <= Cardinality(page)
  BY <1>6, <1>7, FS_Surjection
<1>9. Cardinality(asked) = Batch
  <2>1. from + Batch - 1 \in Int /\ ~(from > from + Batch - 1)
    BY <1>1
  <2>2. Cardinality(asked) = (from + Batch - 1) - from + 1
    BY <2>1, FS_Interval
  <2> QED
    BY <1>1, <2>2
<1> QED
  BY <1>1, <1>6, <1>8, <1>9

-----------------------------------------------------------------------------
(***************************************************************************)
(* Odoo's changes.                                                         *)
(***************************************************************************)
LEMMA Disjoint ==
  /\ \A r \in Events \cup Registrations :
       r \in Records /\ r \in Rows /\ r \in DOMAIN Position /\ r \notin Details
  /\ \A d \in Details : d \in Records /\ d \notin Rows /\ OwnerOf[d] \in Registrations
  /\ \A r \in Records \ Registrations : Columns(r) = {r}
BY KindsDisjoint, ConstantsAssumption, PositionAssumption DEF Records, Rows, Columns, Details

\* As long as no page has shifted for t, live rows stay, and stay at their place.
LEMMA RowsStay ==
  ASSUME TypeOK, NEW x \in Records, OdooWrite(x) \/ OdooUnlink(x),
         NEW t \in Tasks, pc[t] # "idle", ~shifted'[t],
         NEW q \in Events \cup Registrations, Live(q)
  PROVE  Live(q)' /\ Place(q)' = Place(q)
<1>1. q \in Records /\ q \in DOMAIN Position /\ q \notin Details
  BY Disjoint
<1>2. CASE OdooWrite(x)
  <2>1. odoo' = [odoo EXCEPT ![x] = [ver |-> odoo[x].ver + 1, live |-> TRUE]]
    BY <1>2 DEF OdooWrite
  <2>2. CASE q = x
    <3>1. ~Moves(q)
      BY <1>1, <1>2, <2>2 DEF OdooWrite, Shift
    <3>2. odoo'[q] = [ver |-> odoo[q].ver + 1, live |-> TRUE]
      BY <1>1, <2>1, <2>2 DEF TypeOK, EnvironmentTypes
    <3> QED
      BY <3>1, <3>2 DEF Moves, Live, Place
  <2>3. CASE q # x
    BY <1>1, <2>1, <2>3 DEF Live, Place, TypeOK, EnvironmentTypes
  <2> QED
    BY <2>2, <2>3
<1>3. CASE OdooUnlink(x)
  <2>1. x \notin DOMAIN Position
    BY <1>3 DEF OdooUnlink, Shift
  <2>2. q \notin Columns(x)
    BY <1>1, <2>1 DEF Columns
  <2>3. odoo'[q] = odoo[q]
    BY <1>1, <1>3, <2>2 DEF OdooUnlink
  <2> QED
    BY <2>3 DEF Live, Place
<1> QED
  BY <1>2, <1>3

LEMMA RanksGrow ==
  ASSUME TypeOK, NEW x \in Records, OdooWrite(x) \/ OdooUnlink(x),
         NEW t \in Tasks, pc[t] # "idle", ~shifted'[t],
         NEW rows \in {Events, Registrations}, NEW r \in rows, Live(r)
  PROVE  Rank(rows, r) \in Nat /\ Rank(rows, r)' \in Nat /\ Rank(rows, r) <= Rank(rows, r)'
<1> DEFINE before == {q \in rows : Live(q) /\ Place(q) < Place(r)}
           after  == {q \in rows : Live(q)' /\ Place(q)' < Place(r)'}
<1>1. before \subseteq after
  <2> SUFFICES ASSUME NEW q \in rows, Live(q), Place(q) < Place(r)
               PROVE  Live(q)' /\ Place(q)' < Place(r)'
    OBVIOUS
  <2> QED
    BY RowsStay
<1>2. /\ IsFiniteSet(after) /\ Cardinality(after) \in Nat
      /\ IsFiniteSet(before) /\ Cardinality(before) \in Nat
  BY RowsFinite
<1>3. Rank(rows, r) = Cardinality(before) /\ Rank(rows, r)' = Cardinality(after)
  BY DEF Rank
<1> QED
  BY <1>1, <1>2, <1>3, FS_Subset

LEMMA DetailsFollow ==
  ASSUME TypeOK, DetailInv, NEW x \in Records, OdooWrite(x) \/ OdooUnlink(x)
  PROVE  DetailInv'
<1>1. UNCHANGED base
  BY DEF OdooWrite, OdooUnlink
<1> SUFFICES ASSUME NEW d \in Details, Live(d)' PROVE Live(OwnerOf[d])'
  BY <1>1 DEF DetailInv
<1>2. d \in Records /\ OwnerOf[d] \in Registrations /\ OwnerOf[d] \in Records
  BY Disjoint
<1>3. CASE OdooWrite(x)
  <2>1. \A y \in Records : Live(y)' <=> Live(y) \/ y = x
    BY <1>3 DEF OdooWrite, Live, TypeOK, EnvironmentTypes
  <2>2. Live(OwnerOf[d])
    BY <1>2, <1>3, <2>1 DEF OdooWrite, CanCreate, DetailInv
  <2> QED
    BY <1>2, <2>1, <2>2
<1>4. CASE OdooUnlink(x)
  <2>1. \A y \in Records : Live(y)' <=> Live(y) /\ y \notin Columns(x)
    BY <1>4 DEF OdooUnlink, Live, TypeOK, EnvironmentTypes
  <2>2. Live(d) /\ d \notin Columns(x)
    BY <1>2, <2>1
  <2>3. OwnerOf[d] # x
    BY <2>2 DEF Columns
  <2>4. OwnerOf[d] \notin Columns(x)
    BY <1>2, <2>3, Disjoint DEF Columns
  <2> QED
    BY <1>2, <2>1, <2>2, <2>4 DEF DetailInv
<1> QED
  BY <1>3, <1>4

LEMMA OdooChangeCovers ==
  ASSUME TypeOK, Inv, CoverInv, NEW x \in Records, OdooWrite(x) \/ OdooUnlink(x)
  PROVE  CoverInv'
<1>1. DetailInv'
  BY DetailsFollow DEF CoverInv
<1> SUFFICES ASSUME NEW t \in Tasks PROVE TaskInv(t)'
  BY <1>1 DEF CoverInv
<1>2. TaskInv(t)
  BY DEF CoverInv
<1>3. UNCHANGED <<mirror, pc, kind, target, got, pend, offset, seen, stale, base, moved>>
  BY DEF OdooWrite, OdooUnlink, taskVars
<1>4. shifted[t] => shifted'[t]
  BY DEF OdooWrite, OdooUnlink, Shift
<1>5. ASSUME NEW r \in Records, Lasting(t, r)' PROVE Lasting(t, r)
  BY <1>3, <1>5, OdooGrows, ConstantsAssumption
  DEF Inv, BaseInv, Lasting, Live, Absent, TypeOK, EnvironmentTypes, HistoryTypes
<1>6. StartInv(t)' /\ PutInv(t)'
  BY <1>2, <1>3 DEF TaskInv, StartInv, PutInv, FullSync
<1>7. PagesInv(t)'
  <2> SUFFICES ASSUME FullSync(t), ~shifted'[t], pc[t] # "idle" PROVE PagesInv(t)'
    BY <1>3 DEF PagesInv, FullSync, EventsRead, EventsPut, RegsRead, TicketsRead, AnswersRead
  <2>1. ASSUME NEW rows \in SUBSET Records, Holds(t, rows) PROVE Holds(t, rows)'
    BY <1>3, <1>5, <2>1 DEF Holds
  <2>2. ASSUME NEW rows \in {Events, Registrations}, HoldsPages(t, rows)
        PROVE  HoldsPages(t, rows)'
    <3> SUFFICES ASSUME NEW r \in rows, Lasting(t, r)', Rank(rows, r)' < offset[t]
                 PROVE  got[t][r] >= base[t][r]
      BY <1>3 DEF HoldsPages
    <3>1. Lasting(t, r)
      BY <1>5, Disjoint
    <3>2. Rank(rows, r) < offset[t]
      <4>1. Rank(rows, r) \in Nat /\ Rank(rows, r)' \in Nat /\ Rank(rows, r) <= Rank(rows, r)'
        BY <3>1, RanksGrow DEF Lasting
      <4> QED
        BY <4>1 DEF TypeOK, TaskTypes
    <3> QED
      BY <2>2, <3>1, <3>2 DEF HoldsPages
  <2>3. {Events, Registrations, Tickets, Answers} \subseteq SUBSET Records
    BY DEF Records, Rows, Details
  <2> QED
    BY <1>2, <1>3, <1>4, <2>1, <2>2, <2>3 DEF TaskInv, PagesInv, FullSync
<1>8. ASSUME pc[t] # "idle", ~shifted'[t], NEW r \in Events \cup Registrations, ~Live(r)'
      PROVE  ~Live(r)
  BY <1>8, RowsStay
<1>9. DeadInv(t)'
  BY <1>2, <1>3, <1>4, <1>8 DEF TaskInv, DeadInv
<1>10. CleanInv(t)'
  <2>1. CASE pc[t] = "idle"
    BY <1>2, <1>3, <2>1 DEF TaskInv, StartInv, CleanInv
  <2>2. CASE pc[t] # "idle"
    BY <1>2, <1>3, <1>4, <1>8, <2>2 DEF TaskInv, CleanInv
  <2> QED
    BY <2>1, <2>2
<1> QED
  BY <1>6, <1>7, <1>9, <1>10 DEF TaskInv

-----------------------------------------------------------------------------
(***************************************************************************)
(* Steps of the tasks.  A step of t leaves the other tasks alone, but for  *)
(* rows that its commit moves.                                             *)
(***************************************************************************)
Kept(u) ==
  /\ pc'[u] = pc[u] /\ kind'[u] = kind[u] /\ target'[u] = target[u]
  /\ got'[u] = got[u] /\ pend'[u] = pend[u] /\ offset'[u] = offset[u]
  /\ seen'[u] = seen[u] /\ stale'[u] = stale[u]
  /\ base'[u] = base[u] /\ shifted'[u] = shifted[u]
RowsKept(u) ==
  pc[u] # "idle" =>
    /\ moved[u] \subseteq moved'[u]
    /\ \A r \in Rows \ moved'[u] : mirror'[r] = mirror[r]

LEMMA KeptCovers ==
  ASSUME TypeOK, NEW u \in Tasks, TaskInv(u), UNCHANGED odoo, Kept(u), RowsKept(u)
  PROVE  TaskInv(u)'
<1>1. StartInv(u)' /\ PutInv(u)'
  BY DEF Kept, TaskInv, StartInv, PutInv, FullSync
<1>2. \A r : Live(r)' = Live(r) /\ Place(r)' = Place(r)
  BY DEF Live, Place
<1>3. \A rows \in {Events, Registrations} : \A r : Rank(rows, r)' = Rank(rows, r)
  BY <1>2 DEF Rank
<1>4. PagesInv(u)'
  BY <1>2, <1>3 DEF Kept, TaskInv, PagesInv, FullSync, Holds, HoldsPages, Lasting
<1>5. DeadInv(u)'
  BY <1>2 DEF Kept, TaskInv, DeadInv
<1>6. CleanInv(u)'
  <2>1. CASE pc[u] = "idle"
    BY <2>1 DEF Kept, TaskInv, StartInv, CleanInv
  <2>2. CASE pc[u] # "idle"
    <3>1. \A r \in Events \cup Registrations : r \in Rows
      BY Disjoint
    <3> QED
      BY <1>2, <2>2, <3>1 DEF Kept, RowsKept, TaskInv, CleanInv
  <2> QED
    BY <2>1, <2>2
<1> QED
  BY <1>1, <1>4, <1>5, <1>6 DEF TaskInv

\* A step of t that leaves Odoo alone: what is left to show is about t.
LEMMA StepCovers ==
  ASSUME TypeOK, CoverInv, NEW t \in Tasks, UNCHANGED odoo,
         \A u \in Tasks \ {t} : Kept(u) /\ RowsKept(u),
         base'[t] = base[t] \/ \A d \in Details : base'[t][d] # Absent => base'[t][OwnerOf[d]] # Absent,
         TaskInv(t)'
  PROVE  CoverInv'
<1>1. \A u \in Tasks : TaskInv(u)'
  BY KeptCovers DEF CoverInv
<1>2. DetailInv'
  <2>1. \A d \in Details : Live(d)' => Live(OwnerOf[d])'
    BY DEF CoverInv, DetailInv, Live
  <2>2. ASSUME NEW u \in Tasks, NEW d \in Details, base'[u][d] # Absent
        PROVE  base'[u][OwnerOf[d]] # Absent
    BY <2>2 DEF CoverInv, DetailInv, Kept
  <2> QED
    BY <2>1, <2>2 DEF DetailInv
<1> QED
  BY <1>1, <1>2 DEF CoverInv

LEMMA BeginCovers ==
  ASSUME TypeOK, Inv, CoverInv, NEW t \in Tasks, NEW k, NEW r, NEW p, Begin(t, k, r, p),
         \/ k \in {"bootstrap", "reconcile"} /\ p = "auth" /\ r = NoRecord
         \/ k = "upsert" /\ p = "auth"
         \/ k = "unlink" /\ p = "delete"
  PROVE  CoverInv'
<1>1. /\ UNCHANGED <<odoo, mirror, got, pend, offset, seen, stale, moved, shifted>>
      /\ pc[t] = "idle" /\ pc'[t] = p /\ kind'[t] = k /\ target'[t] = r
      /\ base'[t] = [x \in Records |-> Current(x)]
  BY DEF Begin, TypeOK, TaskTypes, HistoryTypes
<1>2. \A u \in Tasks \ {t} : Kept(u) /\ RowsKept(u)
  BY DEF Begin, Kept, RowsKept, TypeOK, TaskTypes, HistoryTypes
<1>3. TaskInv(t) /\ DetailInv
  BY DEF CoverInv
<1>4. got[t] = NoReads /\ pend[t] = NoWrites
  BY <1>1 DEF Inv, IdleInv
<1>5. \A x \in Records : got[t][x] = Unread /\ pend[t][x] = NoWrite
  BY <1>4 DEF NoReads, NoWrites
<1>6. StartInv(t)'
  BY <1>1, <1>3 DEF TaskInv, StartInv
<1>7. PagesInv(t)'
  BY <1>1 DEF PagesInv, EventsRead, EventsPut, RegsRead, TicketsRead, AnswersRead
<1>8. PutInv(t)'
  BY <1>1, <1>5, Disjoint DEF PutInv, EventsPut, RegsRead, TicketsRead, AnswersRead
<1>9. DeadInv(t)'
  <2> SUFFICES ASSUME NEW x \in Events \cup Registrations, ~Live(x)
               PROVE  base'[t][x] = Absent /\ got[t][x] <= 0 /\ x \notin seen[t]
    BY <1>1 DEF DeadInv, Live
  <2>1. base'[t][x] = Absent
    BY <1>1, Disjoint DEF Current
  <2>2. got[t][x] <= 0
    BY <1>5, Disjoint DEF Unread
  <2> QED
    BY <1>1, <1>3, <2>1, <2>2 DEF TaskInv, StartInv
<1>10. CleanInv(t)'
  BY <1>1 DEF CleanInv
<1>11. ASSUME NEW d \in Details, base'[t][d] # Absent PROVE base'[t][OwnerOf[d]] # Absent
  <2>1. d \in Records /\ OwnerOf[d] \in Records
    BY Disjoint
  <2>2. Live(d)
    BY <1>1, <1>11, <2>1 DEF Current
  <2>3. Live(OwnerOf[d]) /\ odoo[OwnerOf[d]].ver > 0
    BY <1>3, <2>1, <2>2 DEF DetailInv, Inv, OdooInv
  <2> QED
    BY <1>1, <2>1, <2>3 DEF Current, Absent
<1> QED
  BY <1>1, <1>2, <1>6, <1>7, <1>8, <1>9, <1>10, <1>11, StepCovers DEF TaskInv

LEMMA TriggerCovers == ASSUME TypeOK, Inv, CoverInv, NEW t \in Tasks, Trigger(t) PROVE CoverInv'
BY BeginCovers DEF Trigger, StartBootstrap, StartResync, NightlyReconcile, ReceiveHook

\* A task at rest holds nothing.
LEMMA IdleCovers ==
  ASSUME NEW t \in Tasks, pc'[t] = "idle", kind'[t] = "none", offset'[t] = 0, seen'[t] = {}
  PROVE  TaskInv(t)'
BY DEF TaskInv, StartInv, PagesInv, PutInv, DeadInv, CleanInv, FullSync

LEMMA EndCovers ==
  ASSUME TypeOK, Inv, CoverInv, NEW t \in Tasks, End(t), UNCHANGED odoo,
         \A u \in Tasks \ {t} : RowsKept(u)
  PROVE  CoverInv'
<1>1. \A u \in Tasks \ {t} : Kept(u)
  BY DEF End, Kept, TypeOK, TaskTypes, HistoryTypes
<1>2. pc'[t] = "idle" /\ kind'[t] = "none" /\ offset'[t] = 0 /\ seen'[t] = {}
  BY DEF End, TypeOK, TaskTypes
<1>3. \A d \in Details : base'[t][d] = Absent
  BY Disjoint DEF End, TypeOK, HistoryTypes
<1> QED
  BY <1>1, <1>2, <1>3, IdleCovers, StepCovers

LEMMA RaiseCovers == ASSUME TypeOK, Inv, CoverInv, NEW t \in Tasks, Raise(t) PROVE CoverInv'
<1>1. \A u \in Tasks \ {t} : RowsKept(u)
  BY DEF Raise, RowsKept, TypeOK, HistoryTypes
<1> QED
  BY <1>1, EndCovers DEF Raise

LEMMA FinalsCover ==
  ASSUME TypeOK, Inv, CoverInv, NEW t \in Tasks,
         CommitSync(t) \/ CommitUnlink(t) \/ NestedWithoutConnection(t)
  PROVE  CoverInv'
<1>1. CASE CommitSync(t) \/ CommitUnlink(t)
  <2>1. CommitWrites(t) /\ MovedBy(t, TRUE) /\ End(t) /\ UNCHANGED odoo
    BY <1>1 DEF CommitSync, CommitUnlink
  <2>2. \A u \in Tasks \ {t} : RowsKept(u)
    BY <2>1, CommitFacts DEF RowsKept
  <2> QED
    BY <2>1, <2>2, EndCovers
<1>2. CASE NestedWithoutConnection(t)
  <2>1. \A u \in Tasks \ {t} : RowsKept(u)
    BY <1>2 DEF NestedWithoutConnection, RowsKept, TypeOK, HistoryTypes
  <2> QED
    BY <1>2, <2>1, EndCovers DEF NestedWithoutConnection
<1> QED
  BY <1>1, <1>2

LEMMA RestartCovers == ASSUME TypeOK, CoverInv, Restart PROVE CoverInv'
<1>1. \A t \in Tasks : pc'[t] = "idle" /\ kind'[t] = "none" /\ offset'[t] = 0 /\ seen'[t] = {}
  BY DEF Restart, LoseTasks
<1>2. DetailInv'
  <2>1. \A t \in Tasks, d \in Details : base'[t][d] = Absent
    BY Disjoint DEF Restart, LoseTasks
  <2>2. UNCHANGED odoo
    BY DEF Restart, LoseTasks
  <2> QED
    BY <2>1, <2>2 DEF CoverInv, DetailInv, Live
<1> QED
  BY <1>1, <1>2, IdleCovers DEF CoverInv

LEMMA OtherEnvironmentCovers ==
  ASSUME TypeOK, CoverInv,
         \/ CreateConnection \/ DeleteConnection
         \/ \E h \in hooks : RefuseHook(h)
         \/ UNCHANGED vars
  PROVE  CoverInv'
<1>1. UNCHANGED <<odoo, mirror, taskVars, historyVars>>
  BY DEF CreateConnection, DeleteConnection, RefuseHook, vars
<1>2. \A u \in Tasks : Kept(u) /\ RowsKept(u)
  BY <1>1 DEF Kept, RowsKept, taskVars, historyVars
<1>3. \A u \in Tasks : TaskInv(u)'
  BY <1>1, <1>2, KeptCovers DEF CoverInv
<1>4. DetailInv'
  BY <1>1 DEF CoverInv, DetailInv, Live, historyVars
<1> QED
  BY <1>3, <1>4 DEF CoverInv

-----------------------------------------------------------------------------
(***************************************************************************)
(* The reads.                                                              *)
(***************************************************************************)
\* A read of a full sync or of a webhook's record: what is left is about the pages read and
\* the rows written.
LEMMA ReadCovers ==
  ASSUME TypeOK, Inv, CoverInv, NEW t \in Tasks, UNCHANGED <<unchangedByRead, seen>>,
         NEW asked, Read(t, asked), NEW p \in SyncSteps \ {"fetch"},
         pc' = [pc EXCEPT ![t] = p], pc[t] \in SyncSteps,
         \A u \in Tasks \ {t} : offset'[u] = offset[u],
         p \notin {"events", "regs"} => offset'[t] = 0,
         PagesInv(t)', PutInv(t)'
  PROVE  CoverInv'
<1>1. UNCHANGED <<odoo, mirror, kind, target, pend, stale, seen, base, moved, shifted>>
  BY DEF unchangedByRead, historyVars
<1>2. /\ \A r \in Records : got'[t][r] = got[t][r] \/ got'[t][r] = Current(r)
      /\ \A u \in Tasks \ {t} : got'[u] = got[u]
  BY ReadFetches
<1>3. pc'[t] = p /\ \A u \in Tasks \ {t} : pc'[u] = pc[u]
  BY DEF TypeOK, TaskTypes
<1>4. \A u \in Tasks \ {t} : Kept(u) /\ RowsKept(u)
  BY <1>1, <1>2, <1>3 DEF Kept, RowsKept
<1>5. TaskInv(t)
  BY DEF CoverInv
<1>6. StartInv(t)'
  BY <1>1, <1>3, <1>5 DEF TaskInv, StartInv, SyncSteps
<1>7. DeadInv(t)'
  <2>1. pc[t] # "idle"
    BY DEF SyncSteps
  <2>2. ASSUME NEW r \in Events \cup Registrations, ~Live(r), got[t][r] <= 0
        PROVE  got'[t][r] <= 0
    BY <1>2, <2>2, Disjoint DEF Current, Absent
  <2> QED
    BY <1>1, <1>5, <2>1, <2>2 DEF TaskInv, DeadInv, Live
<1>8. CleanInv(t)'
  BY <1>1, <1>3, <1>5 DEF TaskInv, CleanInv, SyncSteps, Live
<1>9. TaskInv(t)'
  BY <1>6, <1>7, <1>8 DEF TaskInv
<1> QED
  BY <1>1, <1>4, <1>9, StepCovers

\* What a read returns of a record that was there all along is as new as the start.
LEMMA ReadIsFresh ==
  ASSUME TypeOK, Inv, NEW t \in Tasks, NEW asked, Read(t, asked),
         NEW r \in Records, Lasting(t, r)
  PROVE  /\ r \in asked => got'[t][r] >= base[t][r]
         /\ r \notin asked => got'[t][r] = got[t][r]
<1>1. base[t][r] <= odoo[r].ver /\ Current(r) = odoo[r].ver
  BY DEF Lasting, Current, Inv, BaseInv
<1>2. got'[t][r] = IF r \in asked THEN Current(r) ELSE got[t][r]
  BY DEF Read, TypeOK, TaskTypes
<1>3. base[t][r] \in Int /\ odoo[r].ver \in Int
  BY ConstantsAssumption DEF TypeOK, EnvironmentTypes, HistoryTypes
<1> QED
  BY <1>1, <1>2, <1>3

LEMMA PageCovers ==
  ASSUME TypeOK, Inv, NEW t \in Tasks, NEW rows \in {Events, Registrations},
         Read(t, Page(rows, offset[t])), HoldsPages(t, rows), NEW r \in rows, Lasting(t, r)
  PROVE  /\ Rank(rows, r) < offset[t] + Batch => got'[t][r] >= base[t][r]
         /\ Cardinality(Page(rows, offset[t])) < Batch => Rank(rows, r) < offset[t] + Batch
<1>1. offset[t] \in Nat /\ Batch \in Nat
  BY ConstantsAssumption DEF TypeOK, TaskTypes
<1>2. r \in Records /\ Live(r)
  BY Disjoint DEF Lasting
<1>3. Rank(rows, r) \in Nat
  BY RowsFinite DEF Rank
<1>4. ASSUME Rank(rows, r) < offset[t] + Batch PROVE got'[t][r] >= base[t][r]
  <2>1. CASE r \in Page(rows, offset[t])
    BY <1>2, <2>1, ReadIsFresh
  <2>2. CASE r \notin Page(rows, offset[t])
    <3>1. Rank(rows, r) \notin offset[t] .. offset[t] + Batch - 1
      BY <1>2, <2>2 DEF Page, Rank
    <3>2. Rank(rows, r) < offset[t]
      BY <1>1, <1>3, <1>4, <3>1
    <3> QED
      BY <1>2, <2>2, <3>2, ReadIsFresh DEF HoldsPages
  <2> QED
    BY <2>1, <2>2
<1> QED
  BY <1>1, <1>2, <1>4, ShortPageIsLast DEF Inv

LEMMA FetchPageFacts ==
  ASSUME TypeOK, Inv, NEW t \in Tasks, NEW rows \in {Events, Registrations},
         NEW here, NEW next, FetchPage(t, here, rows, next), HoldsPages(t, rows)
  PROVE  /\ pc'[t] = here /\ here # next => HoldsPages(t, rows)'
         /\ pc'[t] = next /\ here # next => Holds(t, rows)' /\ offset'[t] = 0
<1>1. /\ UNCHANGED unchangedByRead /\ pc[t] = here /\ Read(t, Page(rows, offset[t]))
      /\ IF Cardinality(Page(rows, offset[t])) < Batch
         THEN Goto(t, next) /\ offset' = [offset EXCEPT ![t] = 0]
         ELSE UNCHANGED pc /\ offset' = [offset EXCEPT ![t] = @ + Batch]
  BY DEF FetchPage
<1>2. \A r : /\ Lasting(t, r)' = Lasting(t, r) /\ Rank(rows, r)' = Rank(rows, r)
             /\ base' = base
  BY <1>1 DEF unchangedByRead, historyVars, Lasting, Rank, Live, Place
<1>3. \A r \in rows : Lasting(t, r) =>
        /\ Rank(rows, r) < offset[t] + Batch => got'[t][r] >= base[t][r]
        /\ Cardinality(Page(rows, offset[t])) < Batch => Rank(rows, r) < offset[t] + Batch
  BY <1>1, PageCovers
<1>4. CASE Cardinality(Page(rows, offset[t])) < Batch
  <2>1. pc'[t] = next /\ offset'[t] = 0
    BY <1>1, <1>4 DEF Goto, TypeOK, TaskTypes
  <2>2. Holds(t, rows)'
    BY <1>2, <1>3, <1>4 DEF Holds
  <2> QED
    BY <2>1, <2>2
<1>5. CASE ~(Cardinality(Page(rows, offset[t])) < Batch)
  <2>1. pc'[t] = here /\ offset'[t] = offset[t] + Batch
    BY <1>1, <1>5 DEF TypeOK, TaskTypes
  <2>2. HoldsPages(t, rows)'
    BY <1>2, <1>3, <2>1 DEF HoldsPages
  <2> QED
    BY <2>1, <2>2
<1> QED
  BY <1>4, <1>5

LEMMA FetchEventsCovers == ASSUME TypeOK, Inv, CoverInv, NEW t \in Tasks, FetchEvents(t) PROVE CoverInv'
<1>1. /\ FetchPage(t, "events", Events, "putEvents") /\ pc[t] = "events"
      /\ UNCHANGED <<unchangedByRead, seen>> /\ Read(t, Page(Events, offset[t]))
  BY DEF FetchEvents, FetchPage
<1>2. PICK p \in {"events", "putEvents"} : pc' = [pc EXCEPT ![t] = p]
  BY <1>1 DEF FetchPage, Goto, TypeOK, TaskTypes
<1>3. pc'[t] = p
  BY <1>2 DEF TypeOK, TaskTypes
<1>4. UNCHANGED <<kind, pend, base, shifted, odoo>> /\ TaskInv(t)
  BY <1>1 DEF unchangedByRead, historyVars, CoverInv
<1>5. PagesInv(t)'
  <2> SUFFICES ASSUME FullSync(t), ~shifted[t] PROVE PagesInv(t)'
    BY <1>4 DEF PagesInv, FullSync
  <2>1. HoldsPages(t, Events)
    BY <1>1, <1>4 DEF TaskInv, PagesInv
  <2>2. /\ p = "events" => HoldsPages(t, Events)'
        /\ p = "putEvents" => Holds(t, Events)'
    BY <1>1, <1>3, <2>1, FetchPageFacts
  <2> QED
    BY <1>3, <2>2 DEF PagesInv, EventsRead, EventsPut, RegsRead, TicketsRead, AnswersRead
<1>6. PutInv(t)'
  BY <1>1, <1>3, <1>4
  DEF TaskInv, PutInv, FullSync, EventsRead, EventsPut, RegsRead, TicketsRead, AnswersRead
<1>7. \A u \in Tasks \ {t} : offset'[u] = offset[u]
  BY <1>1 DEF FetchPage, TypeOK, TaskTypes
<1>8. p \notin {"events", "regs"} => offset'[t] = 0
  BY <1>1, <1>2, <1>3 DEF FetchPage, TypeOK, TaskTypes
<1> QED
  BY <1>1, <1>2, <1>5, <1>6, <1>7, <1>8, ReadCovers DEF SyncSteps

LEMMA FetchRegistrationsCovers ==
  ASSUME TypeOK, Inv, CoverInv, NEW t \in Tasks, FetchRegistrations(t)
  PROVE  CoverInv'
<1>1. /\ FetchPage(t, "regs", Registrations, "tickets") /\ pc[t] = "regs"
      /\ UNCHANGED <<unchangedByRead, seen>> /\ Read(t, Page(Registrations, offset[t]))
  BY DEF FetchRegistrations, FetchPage
<1>2. PICK p \in {"regs", "tickets"} : pc' = [pc EXCEPT ![t] = p]
  BY <1>1 DEF FetchPage, Goto, TypeOK, TaskTypes
<1>3. pc'[t] = p
  BY <1>2 DEF TypeOK, TaskTypes
<1>4. UNCHANGED <<kind, pend, base, shifted, odoo>> /\ TaskInv(t)
  BY <1>1 DEF unchangedByRead, historyVars, CoverInv
<1>5. \A r \in Events : got'[t][r] = got[t][r]
  <2>1. \A r \in Events : r \in Records /\ r \notin Page(Registrations, offset[t])
    BY KindsDisjoint DEF Page, Records, Rows
  <2> QED
    BY <1>1, <2>1 DEF Read, TypeOK, TaskTypes
<1>6. PagesInv(t)'
  <2> SUFFICES ASSUME FullSync(t), ~shifted[t] PROVE PagesInv(t)'
    BY <1>4 DEF PagesInv, FullSync
  <2>1. HoldsPages(t, Registrations) /\ Holds(t, Events)
    BY <1>1, <1>4 DEF TaskInv, PagesInv, EventsRead, EventsPut
  <2>2. /\ p = "regs" => HoldsPages(t, Registrations)'
        /\ p = "tickets" => Holds(t, Registrations)'
    BY <1>1, <1>3, <2>1, FetchPageFacts
  <2>3. Holds(t, Events)'
    BY <1>4, <1>5, <2>1 DEF Holds, Lasting, Live
  <2> QED
    BY <1>3, <2>2, <2>3 DEF PagesInv, RegsRead, TicketsRead, AnswersRead
<1>7. PutInv(t)'
  BY <1>1, <1>3, <1>4, <1>5
  DEF TaskInv, PutInv, FullSync, EventsRead, EventsPut, RegsRead, TicketsRead, AnswersRead
<1>8. \A u \in Tasks \ {t} : offset'[u] = offset[u]
  BY <1>1 DEF FetchPage, TypeOK, TaskTypes
<1>9. p \notin {"events", "regs"} => offset'[t] = 0
  BY <1>1, <1>2, <1>3 DEF FetchPage, TypeOK, TaskTypes
<1> QED
  BY <1>1, <1>2, <1>6, <1>7, <1>8, <1>9, ReadCovers DEF SyncSteps

\* A read that is not a page.
LEMMA FetchCovers ==
  ASSUME TypeOK, Inv, CoverInv, NEW t \in Tasks, NEW here \in SyncSteps, NEW asked,
         NEW next \in SyncSteps \ {"fetch", "events", "regs"}, Fetch(t, here, asked, next),
         PagesInv(t)', PutInv(t)',
         here \notin {"events", "regs"}
  PROVE  CoverInv'
<1>1. offset[t] = 0
  BY DEF CoverInv, TaskInv, StartInv, Fetch
<1> QED
  BY <1>1, ReadCovers DEF Fetch, Goto

LEMMA FetchOneCovers == ASSUME TypeOK, Inv, CoverInv, NEW t \in Tasks, FetchOne(t) PROVE CoverInv'
<1>1. PICK next \in {"commit", "putEvents", "putPartners", "tickets"} :
        Fetch(t, "fetch", {target[t]}, next)
  BY DEF FetchOne
<1>2. kind'[t] = "upsert"
  BY <1>1 DEF CoverInv, TaskInv, StartInv, Fetch, unchangedByRead
<1>3. PagesInv(t)' /\ PutInv(t)'
  BY <1>2 DEF PagesInv, PutInv, FullSync
<1> QED
  BY <1>1, <1>3, FetchCovers DEF SyncSteps

\* The tickets or answers of all registrations fetched: those of the lasting ones among them.
LEMMA DetailsFetched ==
  ASSUME TypeOK, Inv, DetailInv, NEW t \in Tasks, NEW details \in {Tickets, Answers},
         Holds(t, Registrations), NEW d \in details, Lasting(t, d)
  PROVE  d \in Records /\ OwnerOf[d] \in Fetched(t, Registrations)
<1>1. d \in Details /\ d \in Records /\ OwnerOf[d] \in Registrations /\ OwnerOf[d] \in Records
  BY Disjoint DEF Details
<1>2. Lasting(t, OwnerOf[d])
  BY <1>1 DEF DetailInv, Lasting
<1>3. got[t][OwnerOf[d]] >= base[t][OwnerOf[d]]
  BY <1>1, <1>2 DEF Holds
<1>4. base[t][OwnerOf[d]] > 0 /\ got[t][OwnerOf[d]] \in Int /\ base[t][OwnerOf[d]] \in Int
  BY <1>1, <1>2, ConstantsAssumption DEF Lasting, Absent, TypeOK, TaskTypes, HistoryTypes
<1> QED
  BY <1>1, <1>3, <1>4 DEF Fetched

\* What a read of other records leaves of what the task holds.
LEMMA HoldsKept ==
  ASSUME TypeOK, NEW t \in Tasks, NEW asked, Read(t, asked), UNCHANGED <<odoo, base>>,
         NEW rows \in SUBSET Records, rows \cap asked = {}
  PROVE  /\ \A r \in rows : got'[t][r] = got[t][r]
         /\ Holds(t, rows) => Holds(t, rows)'
<1>1. \A r \in rows : got'[t][r] = got[t][r]
  BY DEF Read, TypeOK, TaskTypes
<1> QED
  BY <1>1 DEF Holds, Lasting, Live

LEMMA FetchDetailsCovers ==
  ASSUME TypeOK, Inv, CoverInv, NEW t \in Tasks,
         FetchTickets(t) \/ FetchPartners(t) \/ FetchAnswers(t)
  PROVE  CoverInv'
<1> DEFINE fetched == Fetched(t, Registrations)
<1>1. PICK here, asked, next :
        /\ Fetch(t, here, asked, next)
        /\ \/ /\ here = "tickets" /\ next = "partners"
              /\ asked = {d \in Tickets : OwnerOf[d] \in fetched}
           \/ /\ here = "partners" /\ next = "putPartners"
              /\ asked = {PartnerOf[g] : g \in fetched}
           \/ /\ here = "answers" /\ next = "putRegs"
              /\ asked = {d \in Answers : OwnerOf[d] \in fetched}
  BY DEF FetchTickets, FetchPartners, FetchAnswers
<1>2. /\ pc[t] = here /\ Read(t, asked) /\ pc'[t] = next
      /\ UNCHANGED <<odoo, base, kind, pend, shifted>> /\ TaskInv(t) /\ DetailInv
  <2>1. Fetch(t, here, asked, next)
    BY <1>1
  <2>2. pc[t] = here /\ Read(t, asked) /\ pc'[t] = next
    BY <2>1 DEF Fetch, Goto, TypeOK, TaskTypes
  <2>3. UNCHANGED <<odoo, base, kind, pend, shifted>>
    BY <2>1 DEF Fetch, unchangedByRead, historyVars
  <2> QED
    BY <2>2, <2>3 DEF CoverInv
<1>3. {Events, Registrations, Tickets, Answers} \subseteq SUBSET Records
  BY DEF Records, Rows, Details
<1>4. /\ here # "tickets" => Tickets \cap asked = {}
      /\ here # "answers" => Answers \cap asked = {}
      /\ (Events \cup Registrations) \cap asked = {}
  <2>1. fetched \subseteq Registrations
    BY DEF Fetched
  <2>2. \A g \in fetched : PartnerOf[g] \in Partners
    BY <2>1, ConstantsAssumption
  <2> QED
    BY <1>1, <2>2, KindsDisjoint DEF Details, Rows
<1>5. \A r \in Events \cup Registrations : got'[t][r] = got[t][r]
  BY <1>2, <1>3, <1>4, HoldsKept
<1>6. PagesInv(t)'
  <2> SUFFICES ASSUME FullSync(t), ~shifted[t] PROVE PagesInv(t)'
    BY <1>2 DEF PagesInv, FullSync
  <2>1. /\ Holds(t, Events) /\ Holds(t, Registrations)
        /\ here # "tickets" => Holds(t, Tickets)
    BY <1>1, <1>2 DEF TaskInv, PagesInv, EventsRead, EventsPut, RegsRead, TicketsRead
  <2>2. Events \cap asked = {} /\ Registrations \cap asked = {}
    BY <1>4
  <2>3. Holds(t, Events)' /\ Holds(t, Registrations)' /\ (here # "tickets" => Holds(t, Tickets)')
    BY <1>2, <1>3, <1>4, <2>1, <2>2, HoldsKept
  <2>4. ASSUME NEW details \in {Tickets, Answers},
               asked = {d \in details : OwnerOf[d] \in fetched}
        PROVE  Holds(t, details)'
    <3> SUFFICES ASSUME NEW d \in details, Lasting(t, d) PROVE got'[t][d] >= base[t][d]
      BY <1>2 DEF Holds, Lasting, Live
    <3>1. d \in Records /\ OwnerOf[d] \in fetched
      BY <1>2, <2>1, DetailsFetched
    <3>2. d \in asked
      BY <2>4, <3>1
    <3> QED
      BY <1>2, <3>1, <3>2, ReadIsFresh
  <2>5. (here = "tickets" => Holds(t, Tickets)') /\ (here = "answers" => Holds(t, Answers)')
    BY <1>1, <2>4
  <2> QED
    BY <1>1, <1>2, <2>3, <2>5 DEF PagesInv, EventsRead, EventsPut, RegsRead, TicketsRead, AnswersRead
<1>7. PutInv(t)'
  BY <1>1, <1>2, <1>5
  DEF TaskInv, PutInv, FullSync, EventsRead, EventsPut, RegsRead, TicketsRead, AnswersRead
<1>8. /\ here \in SyncSteps \ {"events", "regs"}
      /\ next \in SyncSteps \ {"fetch", "events", "regs"}
  BY <1>1 DEF SyncSteps
<1> QED
  BY <1>1, <1>6, <1>7, <1>8, FetchCovers

LEMMA FetchIdsCovers ==
  ASSUME TypeOK, Inv, CoverInv, NEW t \in Tasks, FetchEventIds(t) \/ FetchRegistrationIds(t)
  PROVE  CoverInv'
<1>1. PICK rows \in {Events, Registrations}, here \in {"eventIds", "regIds"},
           next \in {"regIds", "localEvents"} : FetchIds(t, here, rows, next)
  BY DEF FetchEventIds, FetchRegistrationIds
<1>2. /\ UNCHANGED <<odoo, mirror, kind, target, got, pend, offset, stale, historyVars>>
      /\ pc[t] = here /\ pc'[t] = next
      /\ seen'[t] = seen[t] \cup {r \in rows : Live(r)}
      /\ \A u \in Tasks \ {t} : pc'[u] = pc[u] /\ seen'[u] = seen[u]
  BY <1>1 DEF FetchIds, Goto, unchangedByRead, TypeOK, TaskTypes
<1>3. UNCHANGED <<base, moved, shifted>>
  BY <1>2 DEF historyVars
<1>4. TaskInv(t) /\ kind[t] = "reconcile"
  BY <1>2 DEF CoverInv, Inv, KindInv, ReconcileSteps
<1>5. StartInv(t)' /\ PagesInv(t)' /\ PutInv(t)'
  BY <1>2, <1>3, <1>4 DEF TaskInv, StartInv, PagesInv, PutInv, FullSync
<1>6. DeadInv(t)'
  BY <1>2, <1>3, <1>4 DEF TaskInv, DeadInv, Live
<1>7. CleanInv(t)'
  BY <1>2, <1>4 DEF CleanInv
<1>8. \A u \in Tasks \ {t} : Kept(u) /\ RowsKept(u)
  BY <1>2, <1>3 DEF Kept, RowsKept
<1>9. TaskInv(t)'
  BY <1>5, <1>6, <1>7 DEF TaskInv
<1> QED
  BY <1>2, <1>3, <1>8, <1>9, StepCovers

LEMMA AuthenticateCovers == ASSUME TypeOK, Inv, CoverInv, NEW t \in Tasks, Authenticate(t) PROVE CoverInv'
<1>1. PICK p \in {"events", "fetch", "eventIds"} :
        /\ pc' = [pc EXCEPT ![t] = p]
        /\ p = "events" <=> FullSync(t)
        /\ p = "fetch" => kind[t] = "upsert"
  BY DEF Authenticate, Goto, FullSync
<1>2. /\ UNCHANGED <<odoo, mirror, kind, target, got, pend, offset, seen, stale, base, moved,
                     shifted>>
      /\ pc[t] = "auth" /\ pc'[t] = p /\ \A u \in Tasks \ {t} : pc'[u] = pc[u]
  BY <1>1 DEF Authenticate, unchangedByRead, historyVars, TypeOK, TaskTypes
<1>3. TaskInv(t) /\ offset[t] = 0
  BY <1>2 DEF CoverInv, TaskInv, StartInv
<1>4. StartInv(t)'
  BY <1>1, <1>2, <1>3 DEF TaskInv, StartInv
<1>5. PagesInv(t)'
  <2>1. \A r \in Events : Rank(Events, r)' \in Nat
    BY RowsFinite DEF Rank
  <2>2. HoldsPages(t, Events)'
    BY <1>2, <1>3, <2>1 DEF HoldsPages
  <2> QED
    BY <1>1, <1>2, <2>2
    DEF PagesInv, FullSync, EventsRead, EventsPut, RegsRead, TicketsRead, AnswersRead
<1>6. PutInv(t)'
  BY <1>1, <1>2, <1>3
  DEF TaskInv, PutInv, FullSync, EventsRead, EventsPut, RegsRead, TicketsRead, AnswersRead
<1>7. DeadInv(t)' /\ CleanInv(t)'
  BY <1>1, <1>2, <1>3 DEF TaskInv, DeadInv, CleanInv, Live
<1>8. \A u \in Tasks \ {t} : Kept(u) /\ RowsKept(u)
  BY <1>2 DEF Kept, RowsKept
<1>9. TaskInv(t)'
  BY <1>4, <1>5, <1>6, <1>7 DEF TaskInv
<1> QED
  BY <1>2, <1>8, <1>9, StepCovers

-----------------------------------------------------------------------------
(***************************************************************************)
(* The statements and the commit of a reconciliation.                      *)
(***************************************************************************)
LEMMA SelectLocalCovers ==
  ASSUME TypeOK, Inv, CoverInv, NEW t \in Tasks, SelectLocalEvents(t) \/ SelectLocalRegistrations(t)
  PROVE  CoverInv'
<1>1. PICK rows, here, next :
        /\ SelectLocal(t, here, rows, next)
        /\ \/ here = "localEvents" /\ rows = Events /\ next = "localRegs"
           \/ here = "localRegs" /\ rows = Registrations /\ next = "deleteEvents"
  BY DEF SelectLocalEvents, SelectLocalRegistrations
<1>2. /\ UNCHANGED <<odoo, mirror, kind, target, got, pend, offset, seen, base, moved, shifted>>
      /\ pc[t] = here /\ pc'[t] = next
      /\ stale'[t] = stale[t] \cup ({r \in rows : mirror[r] # Absent} \ seen[t])
      /\ \A u \in Tasks \ {t} : pc'[u] = pc[u] /\ stale'[u] = stale[u]
  BY <1>1 DEF SelectLocal, Goto, unchangedByWrite, historyVars, TypeOK, TaskTypes
<1>3. TaskInv(t) /\ kind[t] = "reconcile"
  BY <1>1, <1>2 DEF CoverInv, Inv, KindInv, ReconcileSteps
<1>4. StartInv(t)' /\ PagesInv(t)' /\ PutInv(t)'
  BY <1>1, <1>2, <1>3 DEF TaskInv, StartInv, PagesInv, PutInv, FullSync
<1>5. DeadInv(t)'
  BY <1>1, <1>2, <1>3 DEF TaskInv, DeadInv, Live
<1>6. CleanInv(t)'
  <2> SUFFICES ASSUME ~shifted[t], NEW r \in Events \cup Registrations, ~Live(r), r \notin moved[t]
               PROVE  /\ r \in Events => mirror[r] = Absent \/ r \in stale'[t]
                      /\ r \in Registrations /\ next = "deleteEvents" =>
                           mirror[r] = Absent \/ r \in stale'[t]
    BY <1>1, <1>2, <1>3 DEF CleanInv, Live
  <2>1. r \notin seen[t]
    BY <1>1, <1>2, <1>3 DEF TaskInv, DeadInv
  <2>2. r \in rows => mirror[r] = Absent \/ r \in stale'[t]
    BY <1>2, <2>1
  <2>3. r \in Events /\ here = "localRegs" => mirror[r] = Absent \/ r \in stale[t]
    BY <1>2, <1>3 DEF TaskInv, CleanInv
  <2> QED
    BY <1>1, <1>2, <2>2, <2>3
<1>7. \A u \in Tasks \ {t} : Kept(u) /\ RowsKept(u)
  BY <1>2 DEF Kept, RowsKept
<1>8. TaskInv(t)'
  BY <1>4, <1>5, <1>6 DEF TaskInv
<1> QED
  BY <1>2, <1>7, <1>8, StepCovers

LEMMA ColumnsApart ==
  ASSUME NEW q \in Rows, NEW r \in Rows, q # r PROVE Columns(q) \cap Columns(r) = {}
BY KindsDisjoint DEF Columns

LEMMA UpsertCovers ==
  ASSUME TypeOK, Inv, CoverInv, NEW t \in Tasks, NEW r \in Rows, Upsert(t, r)
  PROVE  CoverInv'
<1>1. /\ UNCHANGED <<odoo, mirror, pc, kind, target, got, offset, seen, stale, base, moved,
                     shifted>>
      /\ \A x \in Records : pend'[t][x] = IF x \in Columns(r) THEN got[t][x] ELSE pend[t][x]
      /\ \A u \in Tasks \ {t} : pend'[u] = pend[u]
  BY DEF Upsert, unchangedByWrite, historyVars, TypeOK, TaskTypes
<1>2. /\ got[t][r] > 0
      /\ \/ pc[t] = "putEvents" /\ r \in Events
         \/ pc[t] = "putPartners" /\ r \in Partners
         \/ pc[t] = "putRegs" /\ r \in Registrations
  BY DEF Upsert, ToPut, PutStage, Fetched
<1>3. TaskInv(t) /\ kind[t] \in {"bootstrap", "nested", "upsert"}
  BY <1>2 DEF CoverInv, Inv, KindInv, SyncSteps
<1>4. /\ \A x \in Columns(r) \cap Records : pend'[t][x] = got[t][x]
      /\ \A q \in Rows \ {r} : \A x \in Columns(q) \cap Records : pend'[t][x] = pend[t][x]
  BY <1>1, ColumnsApart
<1>5. /\ \A q \in Rows : q \in Columns(q) /\ Columns(q) \subseteq Records
      /\ Events \cup Registrations \subseteq Rows
  BY DEF Columns, Rows, Records
<1>6. StartInv(t)' /\ PagesInv(t)' /\ DeadInv(t)'
  BY <1>1, <1>3
  DEF TaskInv, StartInv, PagesInv, DeadInv, FullSync, Holds, HoldsPages, Lasting, Rank, Place, Live
<1>7. CleanInv(t)'
  BY <1>1, <1>2, <1>3 DEF TaskInv, CleanInv, Live
<1>8. PutInv(t)'
  <2> SUFFICES ASSUME FullSync(t) PROVE PutInv(t)'
    BY <1>1, <1>3 DEF PutInv, FullSync
  <2>1. ASSUME NEW q \in Events
        PROVE  /\ pend'[t][q] # NoWrite =>
                    pc[t] \in EventsRead /\ got[t][q] > 0 /\ pend'[t][q] = got[t][q]
               /\ pend[t][q] # NoWrite => pend'[t][q] # NoWrite
    <3>1. q \in Rows /\ q \in Columns(q) \cap Records
      BY <1>5
    <3>2. CASE q = r
      BY <1>2, <1>4, <3>1, <3>2, KindsDisjoint DEF EventsRead, NoWrite
    <3>3. CASE q # r
      BY <1>3, <1>4, <3>1, <3>3 DEF TaskInv, PutInv
    <3> QED
      BY <3>2, <3>3
  <2>2. ASSUME NEW q \in Registrations, pend'[t][q] # NoWrite
        PROVE  /\ pc[t] \in AnswersRead /\ got[t][q] > 0
               /\ \A x \in Columns(q) : pend'[t][x] = got[t][x]
    <3>1. q \in Rows /\ q \in Columns(q) /\ Columns(q) \subseteq Records
      BY <1>5
    <3>2. CASE q = r
      BY <1>2, <1>4, <3>1, <3>2, KindsDisjoint DEF AnswersRead
    <3>3. CASE q # r
      BY <1>3, <1>4, <2>2, <3>1, <3>3 DEF TaskInv, PutInv
    <3> QED
      BY <3>2, <3>3
  <2>3. pc[t] \in EventsPut => \A q \in Events : got[t][q] > 0 => pend'[t][q] # NoWrite
    BY <1>3, <2>1 DEF TaskInv, PutInv
  <2>4. pc[t] # "commit" /\ kind[t] # "reconcile"
    BY <1>2, <1>3
  <2> QED
    BY <1>1, <2>1, <2>2, <2>3, <2>4 DEF PutInv, FullSync
<1>9. \A u \in Tasks \ {t} : Kept(u) /\ RowsKept(u)
  BY <1>1 DEF Kept, RowsKept
<1>10. TaskInv(t)'
  BY <1>6, <1>7, <1>8 DEF TaskInv
<1> QED
  BY <1>1, <1>9, <1>10, StepCovers

LEMMA UpsertsDoneCovers == ASSUME TypeOK, Inv, CoverInv, NEW t \in Tasks, UpsertsDone(t) PROVE CoverInv'
<1>1. PICK p : /\ pc' = [pc EXCEPT ![t] = p]
               /\ \/ p = "regs" /\ pc[t] = "putEvents" /\ FullSync(t)
                  \/ p = "answers" /\ pc[t] = "putPartners"
                  \/ /\ p = "commit" /\ pc[t] \in {"putEvents", "putPartners", "putRegs"}
                     /\ pc[t] = "putEvents" => ~FullSync(t)
                     /\ pc[t] = "putPartners" => target[t] \in Partners
  BY DEF UpsertsDone, Goto, PutStage
<1>2. /\ UNCHANGED <<odoo, mirror, kind, target, got, pend, offset, seen, stale, base, moved,
                     shifted>>
      /\ pc'[t] = p /\ \A u \in Tasks \ {t} : pc'[u] = pc[u]
  BY <1>1 DEF UpsertsDone, unchangedByWrite, historyVars, TypeOK, TaskTypes
<1>3. TaskInv(t) /\ kind[t] \in {"bootstrap", "nested", "upsert"} /\ offset[t] = 0
  BY <1>1 DEF CoverInv, TaskInv, StartInv, Inv, KindInv, SyncSteps
<1>4. FullSync(t) /\ p = "commit" => pc[t] = "putRegs"
  BY <1>1, <1>3, ConstantsAssumption DEF TaskInv, StartInv, FullSync, Records, Rows
<1>5. /\ pc[t] = "putEvents" => \A r \in Events : got[t][r] > 0 => pend[t][r] # NoWrite
      /\ pc[t] = "putRegs" => \A r \in Registrations : got[t][r] > 0 => pend[t][r] # NoWrite
  BY DEF UpsertsDone, ToPut, PutStage, Fetched
<1>6. StartInv(t)' /\ DeadInv(t)' /\ CleanInv(t)'
  BY <1>1, <1>2, <1>3 DEF TaskInv, StartInv, DeadInv, CleanInv, Live
<1>7. PagesInv(t)'
  <2> SUFFICES ASSUME FullSync(t), ~shifted[t] PROVE PagesInv(t)'
    BY <1>2 DEF PagesInv, FullSync
  <2>1. ASSUME NEW rows PROVE Holds(t, rows) => Holds(t, rows)'
    BY <1>2 DEF Holds, Lasting, Live
  <2>2. HoldsPages(t, Registrations)'
    <3>1. \A r \in Registrations : Rank(Registrations, r)' \in Nat
      BY RowsFinite DEF Rank
    <3> QED
      BY <1>2, <1>3, <3>1 DEF HoldsPages
  <2> QED
    BY <1>1, <1>2, <1>3, <1>4, <2>1, <2>2
    DEF TaskInv, PagesInv, EventsRead, EventsPut, RegsRead, TicketsRead, AnswersRead
<1>8. PutInv(t)'
  BY <1>1, <1>2, <1>3, <1>4, <1>5
  DEF TaskInv, PutInv, FullSync, EventsRead, EventsPut, RegsRead, TicketsRead, AnswersRead
<1>9. \A u \in Tasks \ {t} : Kept(u) /\ RowsKept(u)
  BY <1>2 DEF Kept, RowsKept
<1>10. TaskInv(t)'
  BY <1>6, <1>7, <1>8 DEF TaskInv
<1> QED
  BY <1>2, <1>9, <1>10, StepCovers

LEMMA DeleteCovers ==
  ASSUME TypeOK, Inv, CoverInv, NEW t \in Tasks,
         DeleteUnlinked(t) \/ DeleteStaleEvents(t) \/ DeleteStaleRegistrations(t)
  PROVE  CoverInv'
<1>1. PICK here, next :
        /\ Delete(t, here, next)
        /\ \/ here = "delete" /\ next = "commitDelete"
           \/ here = "deleteEvents" /\ next = "deleteRegs"
           \/ here = "deleteRegs" /\ next = "commitDelete"
  BY DEF DeleteUnlinked, DeleteStaleEvents, DeleteStaleRegistrations
<1>2. /\ UNCHANGED <<odoo, mirror, kind, target, got, offset, seen, stale, base, moved, shifted>>
      /\ pc[t] = here /\ pc'[t] = next
      /\ \A u \in Tasks \ {t} : pc'[u] = pc[u] /\ pend'[u] = pend[u]
      /\ \A x \in Records :
           pend'[t][x] = IF \E r \in Doomed(t) : x \in Columns(r) THEN Absent ELSE pend[t][x]
  BY <1>1 DEF Delete, Goto, unchangedByWrite, historyVars, TypeOK, TaskTypes
<1>3. TaskInv(t) /\ kind[t] = IF here = "delete" THEN "unlink" ELSE "reconcile"
  BY <1>1, <1>2 DEF CoverInv, Inv, KindInv, ReconcileSteps
<1>4. StartInv(t)' /\ PagesInv(t)' /\ DeadInv(t)'
  BY <1>1, <1>2, <1>3 DEF TaskInv, StartInv, PagesInv, DeadInv, FullSync, Live
<1>5. \A r \in Events \cup Registrations : r \in Records /\ pend'[t][r] \in {pend[t][r], Absent}
  BY <1>2, Disjoint
<1>6. PutInv(t)'
  BY <1>2, <1>3, <1>5 DEF TaskInv, PutInv, FullSync
<1>7. CleanInv(t)'
  <2> SUFFICES ASSUME ~shifted[t], NEW r \in Events \cup Registrations, ~Live(r), r \notin moved[t],
                      kind[t] = "reconcile"
               PROVE  /\ r \in Registrations /\ next = "deleteRegs" =>
                           mirror[r] = Absent \/ r \in stale[t]
                      /\ r \in Events \/ next = "commitDelete" =>
                           mirror[r] = Absent \/ pend'[t][r] = Absent
    BY <1>1, <1>2, <1>3 DEF CleanInv, Live
  <2>1. CASE r \in Events /\ here = "deleteRegs"
    BY <1>2, <1>3, <1>5, <2>1 DEF TaskInv, CleanInv
  <2>2. CASE \/ r \in Events /\ here = "deleteEvents"
             \/ r \in Registrations /\ here = "deleteRegs"
    <3>1. mirror[r] = Absent \/ r \in stale[t]
      BY <1>2, <1>3, <2>2 DEF TaskInv, CleanInv
    <3>2. r \in stale[t] /\ mirror[r] # Absent => r \in Doomed(t)
      BY <1>2, <2>2 DEF Doomed, Targets
    <3>3. r \in Columns(r) /\ r \in Records
      BY <1>5 DEF Columns
    <3>4. mirror[r] = Absent \/ pend'[t][r] = Absent
      BY <1>2, <3>1, <3>2, <3>3
    <3> QED
      BY <1>1, <2>2, <3>4, KindsDisjoint
  <2>3. CASE r \in Registrations /\ here = "deleteEvents"
    BY <1>1, <1>2, <1>3, <2>3, KindsDisjoint DEF TaskInv, CleanInv
  <2> QED
    BY <1>1, <1>3, <2>1, <2>2, <2>3
<1>8. \A u \in Tasks \ {t} : Kept(u) /\ RowsKept(u)
  BY <1>2 DEF Kept, RowsKept
<1>9. TaskInv(t)'
  BY <1>4, <1>6, <1>7 DEF TaskInv
<1> QED
  BY <1>2, <1>8, <1>9, StepCovers

LEMMA CommitReconcileCovers ==
  ASSUME TypeOK, Inv, CoverInv, NEW t \in Tasks, CommitReconcile(t) PROVE CoverInv'
<1>1. /\ UNCHANGED <<odoo, target, got, offset, base, shifted>>
      /\ CommitWrites(t) /\ MovedBy(t, FALSE)
      /\ pc[t] = "commitDelete" /\ kind[t] = "reconcile"
  BY DEF CommitReconcile
<1>2. /\ pc'[t] = "nested" /\ kind'[t] = "nested" /\ pend'[t] = NoWrites /\ seen'[t] = {}
      /\ \A u \in Tasks \ {t} :
           /\ pc'[u] = pc[u] /\ kind'[u] = kind[u] /\ pend'[u] = pend[u]
           /\ seen'[u] = seen[u] /\ stale'[u] = stale[u]
  BY DEF CommitReconcile, Goto, TypeOK, TaskTypes
<1>3. moved'[t] = moved[t]
  BY <1>1 DEF MovedBy
<1>4. TaskInv(t)
  BY DEF CoverInv
<1>5. \A u \in Tasks \ {t} : Kept(u) /\ RowsKept(u)
  <2>1. \A u \in Tasks \ {t} : RowsKept(u)
    BY <1>1, CommitFacts DEF RowsKept
  <2> QED
    BY <1>1, <1>2, <2>1 DEF Kept
<1>6. StartInv(t)'
  BY <1>1, <1>2, <1>4 DEF TaskInv, StartInv
<1>7. PagesInv(t)'
  BY <1>2 DEF PagesInv, EventsRead, EventsPut, RegsRead, TicketsRead, AnswersRead
<1>8. PutInv(t)'
  BY <1>2, Disjoint
  DEF PutInv, NoWrites, EventsPut, RegsRead, TicketsRead, AnswersRead
<1>9. DeadInv(t)'
  BY <1>1, <1>2, <1>4 DEF TaskInv, DeadInv, Live
<1>10. CleanInv(t)'
  <2> SUFFICES ASSUME ~shifted[t], NEW r \in Events \cup Registrations, ~Live(r), r \notin moved[t]
               PROVE  mirror'[r] = Absent
    BY <1>1, <1>2, <1>3 DEF CleanInv, Live
  <2>1. mirror[r] = Absent \/ pend[t][r] = Absent
    BY <1>1, <1>4 DEF TaskInv, CleanInv
  <2>2. pend[t][r] \in {NoWrite, Absent}
    BY <1>1, <1>4 DEF TaskInv, PutInv
  <2>3. mirror'[r] = IF pend[t][r] # NoWrite THEN pend[t][r] ELSE mirror[r]
    BY <1>1, Disjoint DEF CommitWrites, Written
  <2> QED
    BY <2>1, <2>2, <2>3 DEF Absent, NoWrite
<1>11. TaskInv(t)'
  BY <1>6, <1>7, <1>8, <1>9, <1>10 DEF TaskInv
<1> QED
  BY <1>1, <1>5, <1>11, StepCovers

LEMMA NestedBootstrapCovers ==
  ASSUME TypeOK, Inv, CoverInv, NEW t \in Tasks, NestedBootstrap(t) PROVE CoverInv'
<1>1. /\ UNCHANGED <<odoo, mirror, kind, target, got, pend, offset, seen, stale, base, moved,
                     shifted>>
      /\ pc[t] = "nested" /\ pc'[t] = "auth" /\ \A u \in Tasks \ {t} : pc'[u] = pc[u]
  BY DEF NestedBootstrap, Goto, historyVars, TypeOK, TaskTypes
<1>2. TaskInv(t) /\ kind[t] = "nested"
  BY <1>1 DEF CoverInv, Inv, KindInv
<1>3. StartInv(t)' /\ DeadInv(t)' /\ CleanInv(t)'
  BY <1>1, <1>2 DEF TaskInv, StartInv, DeadInv, CleanInv, Live
<1>4. PagesInv(t)'
  BY <1>1 DEF PagesInv, EventsRead, EventsPut, RegsRead, TicketsRead, AnswersRead
<1>5. PutInv(t)'
  BY <1>1, <1>2
  DEF TaskInv, PutInv, FullSync, EventsRead, EventsPut, RegsRead, TicketsRead, AnswersRead
<1>6. \A u \in Tasks \ {t} : Kept(u) /\ RowsKept(u)
  BY <1>1 DEF Kept, RowsKept
<1>7. TaskInv(t)'
  BY <1>3, <1>4, <1>5 DEF TaskInv
<1> QED
  BY <1>1, <1>6, <1>7, StepCovers

-----------------------------------------------------------------------------
LEMMA AdvanceCovers == ASSUME TypeOK, Inv, CoverInv, NEW t \in Tasks, Advance(t) PROVE CoverInv'
<1>1. CASE CommitRefused(t) \/ DeadlockAbort(t)
  BY <1>1, RaiseCovers DEF CommitRefused, DeadlockAbort
<1> QED
  BY <1>1, AuthenticateCovers, FetchEventsCovers, FetchRegistrationsCovers, FetchOneCovers,
     FetchDetailsCovers, FetchIdsCovers, SelectLocalCovers, UpsertCovers, UpsertsDoneCovers,
     DeleteCovers, FinalsCover, CommitReconcileCovers, NestedBootstrapCovers
  DEF Advance

LEMMA NextCovers == TypeOK /\ Inv /\ CoverInv /\ [Next]_vars => CoverInv'
<1> SUFFICES ASSUME TypeOK, Inv, CoverInv, [Next]_vars PROVE CoverInv'
  OBVIOUS
<1>1. CASE Environment \/ UNCHANGED vars
  BY <1>1, OdooChangeCovers, OtherEnvironmentCovers, RestartCovers DEF Environment
<1>2. ASSUME NEW t \in Tasks, Trigger(t) \/ Advance(t) \/ Fail(t) PROVE CoverInv'
  BY <1>2, TriggerCovers, AdvanceCovers, RaiseCovers DEF Fail
<1> QED
  BY <1>1, <1>2 DEF Next

LEMMA InitCovers == Init => CoverInv
<1> SUFFICES ASSUME Init PROVE CoverInv
  OBVIOUS
<1>1. \A t \in Tasks : TaskInv(t)
  BY DEF Init, TaskInv, StartInv, PagesInv, PutInv, DeadInv, CleanInv, FullSync
<1>2. DetailInv
  <2>1. PICK S \in SUBSET Records :
          /\ \A d \in S \cap Details : OwnerOf[d] \in S
          /\ odoo = [r \in Records |-> IF r \in S THEN [ver |-> 1, live |-> TRUE]
                                                 ELSE [ver |-> 0, live |-> FALSE]]
    BY DEF Init
  <2>2. \A d \in Details : Live(d) => Live(OwnerOf[d])
    BY <2>1, Disjoint DEF Live, Records, Rows
  <2> QED
    BY <2>2, Disjoint DEF Init, DetailInv
<1> QED
  BY <1>1, <1>2 DEF CoverInv

\* What the running syncs have read, written and deleted so far agrees with Odoo as far as
\* their later steps need it, in every reachable state.
THEOREM CoverInvariant == Spec => [](TypeOK /\ Inv /\ CoverInv)
<1>1. Init => TypeOK /\ Inv /\ CoverInv
  BY InitTyped, InitInv, InitCovers
<1>2. TypeOK /\ Inv /\ CoverInv /\ [Next]_vars => (TypeOK /\ Inv /\ CoverInv)'
  BY NextTyped, NextInv, NextCovers
<1> QED
  BY <1>1, <1>2, PTL DEF Spec

-----------------------------------------------------------------------------
(***************************************************************************)
(* The commits.                                                            *)
(***************************************************************************)
LEMMA CommitsCommit ==
  ASSUME TypeOK, Inv, [Next]_vars, NEW t \in Tasks, Commits(t)
  PROVE  CommitSync(t)
<1>1. log[t] = "running" /\ log'[t] = "completed" /\ pc[t] = "commit"
  BY DEF Commits, Inv, KindInv, LogInv, SyncSteps
<1>2. ASSUME NEW u \in Tasks, Trigger(u) PROVE log'[t] \in {log[t], "none", "running"}
  BY <1>2 DEF Trigger, StartBootstrap, StartResync, NightlyReconcile, ReceiveHook, Begin,
              TypeOK, StoreTypes
<1>3. ASSUME NEW u \in Tasks,
             \/ CommitReconcile(u) \/ NestedBootstrap(u) \/ NestedWithoutConnection(u) \/ Raise(u)
      PROVE  log'[t] \in {log[t], "running", "failed"}
  BY <1>3 DEF CommitReconcile, NestedBootstrap, NestedWithoutConnection, Raise, FailedLog,
              TypeOK, StoreTypes
<1>4. ASSUME NEW u \in Tasks, CommitSync(u) \/ CommitUnlink(u) PROVE u = t /\ CommitSync(t)
  BY <1>1, <1>4 DEF CommitSync, CommitUnlink, TypeOK, StoreTypes
<1>5. ~Restart
  BY <1>1 DEF Restart
<1> QED
  BY <1>1, <1>2, <1>3, <1>4, <1>5, LogStep

\* What a full sync commits of a record that was there all along.
LEMMA CommitCovers ==
  ASSUME TypeOK, Inv, CoverInv, NEW t \in Tasks, CommitSync(t), FullSync(t), ~shifted[t],
         NEW r \in Records \ Partners, Lasting(t, r)
  PROVE  mirror'[r] = got[t][r] /\ mirror'[r] >= base[t][r]
<1>1. /\ pc[t] = "commit" /\ TaskInv(t) /\ DetailInv
      /\ \A x \in Records : mirror'[x] = IF pend[t][x] # NoWrite THEN pend[t][x] ELSE mirror[x]
  BY DEF CommitSync, CommitWrites, Written, CoverInv
<1>2. Holds(t, Events) /\ Holds(t, Registrations) /\ Holds(t, Tickets) /\ Holds(t, Answers)
  BY <1>1
  DEF TaskInv, PagesInv, EventsRead, EventsPut, RegsRead, TicketsRead, AnswersRead
<1>3. ASSUME NEW x \in Records, Lasting(t, x), got[t][x] >= base[t][x] PROVE got[t][x] > 0
  BY <1>3, ConstantsAssumption DEF Lasting, Absent, TypeOK, TaskTypes, HistoryTypes
<1>4. r \in Events \/ r \in Registrations \/ r \in Details
  BY DEF Records, Rows
<1>5. got[t][r] >= base[t][r]
  BY <1>2, <1>4 DEF Holds, Details
<1>6. got[t][r] > 0
  BY <1>3, <1>5
<1>7. pend[t][r] = got[t][r]
  <2>1. CASE r \in Events
    BY <1>1, <1>6, <2>1
    DEF TaskInv, PutInv, EventsPut, RegsRead, TicketsRead, AnswersRead
  <2>2. ASSUME NEW g \in Registrations, Lasting(t, g), r \in Columns(g)
        PROVE  pend[t][r] = got[t][r]
    <3>1. g \in Records /\ got[t][g] > 0
      BY <1>2, <1>3, <2>2, Disjoint DEF Holds
    <3>2. pend[t][g] # NoWrite
      BY <1>1, <3>1 DEF TaskInv, PutInv
    <3> QED
      BY <1>1, <2>2, <3>2 DEF TaskInv, PutInv
  <2>3. CASE r \in Registrations
    <3>1. r \in Columns(r)
      BY DEF Columns
    <3> QED
      BY <2>2, <2>3, <3>1
  <2>4. CASE r \in Details
    <3>1. OwnerOf[r] \in Registrations /\ r \in Columns(OwnerOf[r]) /\ Lasting(t, OwnerOf[r])
      BY <1>1, <2>4, Disjoint DEF Columns, DetailInv, Lasting
    <3> QED
      BY <2>2, <3>1
  <2> QED
    BY <1>4, <2>1, <2>3, <2>4
<1> QED
  BY <1>1, <1>5, <1>6, <1>7 DEF NoWrite

LEMMA FullSyncStep ==
  ASSUME TypeOK, Inv, CoverInv, [Next]_vars
  PROVE  \A t \in Tasks : Commits(t) /\ FullSync(t) /\ ~shifted[t] =>
           \A r \in Records \ Partners :
             base[t][r] # Absent /\ Live(r) => mirror'[r] >= base[t][r]
BY CommitsCommit, CommitCovers DEF Lasting

\* A full sync whose pages did not shift misses nothing: whatever the number of records and
\* the page size, and whatever else runs, every event, registration, ticket and answer that
\* was in Odoo from its beginning to its commit is mirrored no older than at its beginning.
THEOREM FullSyncsCover == Spec => FullSyncCovers
BY FullSyncStep, CoverInvariant, PTL DEF Spec, FullSyncCovers

LEMMA ReconcileStep ==
  ASSUME TypeOK, Inv, CoverInv, [Next]_vars
  PROVE  \A t \in Tasks : ReconcileEnds(t) /\ ~shifted[t] =>
           \A r \in Events \cup Registrations :
             base[t][r] = Current(r) =>
               mirror'[r] = Current(r) \/ (~Live(r) /\ r \in moved[t])
<1> SUFFICES ASSUME NEW t \in Tasks, Commits(t), kind[t] = "nested", ~shifted[t],
                    NEW r \in Events \cup Registrations, base[t][r] = Current(r)
             PROVE  mirror'[r] = Current(r) \/ (~Live(r) /\ r \in moved[t])
  BY DEF ReconcileEnds
<1>1. CommitSync(t) /\ FullSync(t) /\ TaskInv(t) /\ pc[t] = "commit"
  BY CommitsCommit DEF FullSync, CoverInv, Commits
<1>2. r \in Records \ Partners
  BY Disjoint, KindsDisjoint
<1>3. mirror'[r] = IF pend[t][r] # NoWrite THEN pend[t][r] ELSE mirror[r]
  BY <1>1, <1>2 DEF CommitSync, CommitWrites, Written
<1>4. CASE Live(r)
  <2>1. Current(r) = odoo[r].ver /\ odoo[r].ver > 0
    BY <1>2, <1>4 DEF Current, Inv, OdooInv
  <2>2. Lasting(t, r)
    BY <1>2, <1>4, <2>1 DEF Lasting, Absent
  <2>3. mirror'[r] = got[t][r] /\ mirror'[r] >= base[t][r]
    BY <1>1, <1>2, <2>2, CommitCovers
  <2>4. got[t][r] <= odoo[r].ver
    BY <1>2 DEF Inv, Provenance
  <2>5. got[t][r] \in Int /\ odoo[r].ver \in Int
    BY <1>2, ConstantsAssumption DEF TypeOK, EnvironmentTypes, TaskTypes
  <2> QED
    BY <2>1, <2>3, <2>4, <2>5
<1>5. CASE ~Live(r) /\ r \notin moved[t]
  <2>1. got[t][r] <= 0 /\ mirror[r] = Absent
    BY <1>1, <1>5 DEF TaskInv, DeadInv, CleanInv
  <2>2. pend[t][r] = NoWrite
    <3>1. r \in Events => (pend[t][r] # NoWrite => got[t][r] > 0)
      BY <1>1 DEF TaskInv, PutInv
    <3>2. r \in Registrations => (pend[t][r] # NoWrite => got[t][r] > 0)
      BY <1>1 DEF TaskInv, PutInv
    <3>3. got[t][r] \in Int
      BY <1>2, ConstantsAssumption DEF TypeOK, TaskTypes
    <3> QED
      BY <2>1, <3>1, <3>2, <3>3
  <2> QED
    BY <1>3, <1>5, <2>1, <2>2 DEF Current
<1> QED
  BY <1>4, <1>5

\* A reconciliation that ends well leaves every event and registration that Odoo did not
\* change during the run mirrored exactly; one that Odoo lacked is gone, unless another sync
\* wrote its row meanwhile.
THEOREM ReconciliationExact == Spec => ReconcileExact
BY ReconcileStep, CoverInvariant, PTL DEF Spec, ReconcileExact
=============================================================================
