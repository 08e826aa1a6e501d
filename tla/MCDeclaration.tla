------------------------------ MODULE MCDeclaration ------------------------------
(***************************************************************************)
(* Instances of Declaration for TLC: every request of three participations *)
(* of two families and every confirmed one of four of a single family; and *)
(* for a small one, national numbers and organizations of every kind.      *)
(***************************************************************************)
EXTENDS Declaration, TLC

CONSTANTS f1, f2, h1, h2

\* First and last day: gaps of 30 to 32 days around 0, 32 and 64, a span that encloses
\* others, and one more than a year later.
Spans == {<<0, 0>>, <<0, 70>>, <<31, 32>>, <<32, 32>>, <<63, 63>>, <<64, 64>>, <<430, 431>>}

\* Every sum of amounts tells which participations it adds.  Daily rates and totals lie on
\* both sides of, and at, the limits of 5,000 and 1,000,000 cents.
Amounts == <<5000, 10001, 989999, 7>>
Halves == <<None, 1, 0, 3>>

RequestOf(pairs, confirmed, spans) ==
  [i \in DOMAIN spans |->
    [pair |-> pairs[i], confirmed |-> confirmed[i], start |-> spans[i][1],
     end |-> spans[i][2], amount |-> Amounts[i], half |-> Halves[i], days |-> 1]]

BothFamilies == RequestOf(<<f1, f2, f1>>, <<TRUE, TRUE, TRUE>>, <<<<0, 0>>, <<0, 0>>, <<64, 64>>>>)
Requests3 ==
  {RequestOf(p, c, s) : p \in [1 .. 3 -> {f1, f2}], c \in [1 .. 3 -> BOOLEAN],
                        s \in [1 .. 3 -> Spans]}
Requests4 ==
  {RequestOf([i \in 1 .. 4 |-> f1], [i \in 1 .. 4 |-> TRUE], s) : s \in [1 .. 4 -> Spans]}
MCRequests == {<<>>} \cup Requests3 \cup Requests4

\* The rows of a family may differ in names and address.
MCHouseholdOf == <<h1, h2, h2, h1>>
MCBlankIn == (h1 :> {} @@ h2 :> {"parent_last_name", "child_address_zip"})

\* As they came, backwards, and the first one last.
MCOrders ==
  {[i \in 1 .. n |-> i] : n \in 0 .. 4}
  \cup {[i \in 1 .. n |-> n + 1 - i] : n \in 2 .. 4}
  \cup {[i \in 1 .. n |-> (i % n) + 1] : n \in 3 .. 4}

\* The number of a date of birth, as the 20th or 21st century issues it.
Issued(year, month, day, serial) ==
  LET n == [yy |-> year % 100, mm |-> month, dd |-> day, serial |-> serial, check |-> 0]
      prefix == IF year < 2000 THEN 0 ELSE Prefix2
  IN  [n EXCEPT !.check = CheckDigits(prefix + First9(n))]

Parent == Issued(1970, 5, 17, 33)
Child == Issued(2015, 10, 3, 2)
NumbersOf(parent, child) ==
  [p \in Pairs |-> IF p = f1 THEN [parent |-> parent, child |-> child]
                             ELSE [parent |-> Issued(1980, 2, 29, 1), child |-> Child]]

\* Leap days and days that are none, both sides of 2000, months of BIS numbers.
ManyNumbers ==
  {Issued(d[1], d[2] + shift, d[3], 998) :
     d \in {<<1999, 12, 31>>, <<2000, 1, 1>>, <<2000, 2, 29>>, <<1900, 2, 29>>, <<1904, 2, 29>>,
            <<2023, 2, 29>>, <<2023, 4, 31>>, <<2023, 0, 1>>, <<2023, 13, 1>>, <<2023, 1, 0>>},
     shift \in {0, 20, 40, 60}}
  \cup {[Child EXCEPT !.check = @ + 1], [Child EXCEPT !.serial = 3], None}

Complete ==
  [name |-> "org", contact |-> "someone", phone |-> "1", email |-> "a@b", fr |-> Parts,
   de |-> Parts, validity |-> {"start", "end"}]
ManyOrganizations ==
  {[Complete EXCEPT !.contact = c, !.phone = t, !.email = e, !.fr = fr, !.de = de, !.validity = v] :
     c \in {None, "someone"}, t \in {None, "1"}, e \in {None, "a@b"},
     fr \in {{}, Parts \ {"city"}, Parts}, de \in {{}, Parts}, v \in SUBSET {"start", "end"}}

MCInputs ==
  {[request |-> r, numbers |-> NumbersOf(Parent, Child), org |-> Complete] : r \in MCRequests}
  \cup {[request |-> BothFamilies, numbers |-> NumbersOf(p, c), org |-> Complete] :
          p \in {Parent, None}, c \in ManyNumbers}
  \cup {[request |-> r, numbers |-> NumbersOf(Parent, Child), org |-> o] :
          r \in {<<>>, BothFamilies}, o \in ManyOrganizations}
=============================================================================
