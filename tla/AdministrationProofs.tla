------------------------ MODULE AdministrationProofs ------------------------
(***************************************************************************)
(* Theorems about Administration.                                          *)
(***************************************************************************)
EXTENDS Administration, FiniteSetTheorems, TLAPS

TypeInv ==
    /\ rows \in [Ids -> Row]
    /\ \A e \in log : e.request \in Requests /\ e.op \in Ops \ Unaudited
    /\ pc \in [Requests -> Open \cup {"free", "answered"}]
    /\ ask \in [Requests -> Asks \cup {None}]
    /\ held \in [Requests -> Row]
    /\ goal \in [Requests -> Ids \cup {None}]
    /\ status \in [Requests -> Statuses]
    /\ during \in [Requests -> SUBSET Requests]
    /\ \A r \in Requests :
           /\ pc[r] # "free" => ask[r] \in Asks
           /\ pc[r] \in Open => goal[r] \in Ids

UniqueKeys == \A i, j \in Ids : SameKey(rows[i], rows[j]) => i = j

LEMMA IdsTyped == /\ Requests \subseteq Ids /\ None \notin Ids
                  /\ Ids \cup {None} \subseteq Values
                  /\ NoRow \in Row
                  /\ \A r \in Requests : r \notin DOMAIN FirstRows
BY AdministrationAssumption DEF Ids, NoRow, Row, Kinds

\* What an ask of Asks is made of.
LEMMA AskTyped ==
    ASSUME NEW w \in Asks
    PROVE  /\ w.op \in Ops /\ w.actor \in Ids \cup {None}
           /\ w.target \in Ids \cup {None} /\ w.key \in Values
           /\ w.one \in Values /\ w.two \in Values /\ w.valid \in BOOLEAN
BY AdministrationAssumption DEF Ask

\* The steps of the handlers before the commit change no table: a request goes
\* on, or is refused.
GoesOn(r) ==
    \/ \E p \in Open \ {"committed"}, i \in Ids : KeepOn(r, p, i) \/ Proceed(r, p, i)
    \/ \E s \in {"400", "401", "403", "404", "409"} : Refuse(r, s)

LEMMA ChecksGoOn ==
    ASSUME TypeInv, NEW r \in Requests, Checks(r)
    PROVE  GoesOn(r) /\ UNCHANGED ask
<1> USE DEF GoesOn
<1>p. {"authenticated", "counted", "notAdmin", "checked"} \subseteq Open \ {"committed"}
  BY DEF Open
<1>r. r \in Ids
  BY IdsTyped
<1>g. pc[r] \in Open => goal[r] \in Ids
  BY DEF TypeInv
<1>0. UNCHANGED ask
  BY DEF Checks
<1>1. CASE CreateAdmin(r)
  BY <1>1, <1>0, <1>p, <1>r DEF CreateAdmin
<1>2. CASE CountAdmins(r)
  BY <1>2, <1>0, <1>p, <1>g DEF CountAdmins, Asked
<1>3. CASE DeleteAdmin(r)
  BY <1>3, <1>0, <1>p DEF DeleteAdmin, Exists, Live
<1>4. CASE ResetAdminPassword(r)
  BY <1>4, <1>0, <1>p, <1>g DEF ResetAdminPassword, Asked, Exists, Live
<1>5. CASE CreateUser(r)
  BY <1>5, <1>0, <1>p, <1>r DEF CreateUser
<1>6. CASE DeleteUser(r)
  BY <1>6, <1>0, <1>p DEF DeleteUser, Exists, Live
<1>7. CASE ResetUserPassword(r)
  BY <1>7, <1>0, <1>p DEF ResetUserPassword, Exists, Live
<1>8. CASE CreateToken(r)
  BY <1>8, <1>0, <1>p, <1>r DEF CreateToken
<1>9. CASE RevokeToken(r)
  BY <1>9, <1>0, <1>p DEF RevokeToken, Exists, Live
<1>10. CASE CreateOrganization(r)
  BY <1>10, <1>0, <1>p, <1>r DEF CreateOrganization
<1>11. CASE UpdateOrganization(r)
  BY <1>11, <1>0, <1>p DEF UpdateOrganization, Exists, Live
<1>12. CASE UpsertConnection(r)
  BY <1>12, <1>0, <1>p, <1>r DEF UpsertConnection, ConnectionOf, Live
<1>13. CASE FindConnection(r)
  BY <1>13, <1>0, <1>p DEF FindConnection, ConnectionOf, Live
<1>14. CASE ChangeOwnPassword(r)
  BY <1>14, <1>0, <1>p, <1>g DEF ChangeOwnPassword, Asked
<1>15. CASE LoginAsAdmin(r)
  BY <1>15, <1>0, <1>p, <1>r DEF LoginAsAdmin, Matching, Live
<1>16. CASE LoginAsUser(r)
  BY <1>16, <1>0, <1>p DEF LoginAsUser, Matching, Live
<1> QED
  BY <1>1, <1>2, <1>3, <1>4, <1>5, <1>6, <1>7, <1>8, <1>9, <1>10, <1>11, <1>12,
     <1>13, <1>14, <1>15, <1>16 DEF Checks

LEMMA AuthenticateGoesOn ==
    ASSUME TypeInv, NEW r \in Requests, NEW w \in Asks, Authenticate(r, w)
    PROVE  GoesOn(r) /\ ask' = [ask EXCEPT ![r] = w] /\ pc[r] = "free"
<1>p. "authenticated" \in Open \ {"committed"}
  BY DEF Open
<1>r. r \in Ids
  BY IdsTyped
<1>a. w.op # "login" => w.actor \in Ids
  BY DEF Authenticate, Accounts
<1> QED
  BY <1>p, <1>r, <1>a DEF Authenticate, GoesOn

\* The row that an INSERT makes, and the row that an UPDATE leaves.
LEMMA NewRowTyped ==
    ASSUME TypeInv, NEW r \in Requests, pc[r] = "checked"
    PROVE  NewRow(r) \in Row /\ NewRow(r).live /\ NewRow(r).kind \in Kinds
<1>1. ask[r] \in Asks /\ held[r] \in Row
  BY DEF TypeInv
<1>2. OrgOf(r) \in Values
  BY <1>1, AskTyped, IdsTyped DEF OrgOf, Row
<1> QED
  BY <1>1, <1>2, AskTyped, IdsTyped DEF NewRow, Row, Kinds

LEMMA UpdatedRowTyped ==
    ASSUME TypeInv, NEW r \in Requests, pc[r] = "checked"
    PROVE  /\ UpdatedRow(r) \in Row
           /\ UpdatedRow(r).live = rows[goal[r]].live
           /\ UpdatedRow(r).kind = rows[goal[r]].kind
           /\ UpdatedRow(r).key = rows[goal[r]].key
           /\ UpdatedRow(r).one = Column(Assigned(r).one, held[r].one, rows[goal[r]].one)
           /\ UpdatedRow(r).two = Column(Assigned(r).two, held[r].two, rows[goal[r]].two)
<1>1. ask[r] \in Asks /\ goal[r] \in Ids /\ rows[goal[r]] \in Row
  BY DEF TypeInv, Open
<1>2. Assigned(r).one \in Values /\ Assigned(r).two \in Values
  BY <1>1, AskTyped, IdsTyped DEF Assigned
<1>3. Column(Assigned(r).one, held[r].one, rows[goal[r]].one) \in Values
  BY <1>1, <1>2 DEF Column, Row
<1>4. Column(Assigned(r).two, held[r].two, rows[goal[r]].two) \in Values
  BY <1>1, <1>2 DEF Column, Row
<1> HIDE DEF Column, Assigned
<1> QED
  BY <1>1, <1>3, <1>4 DEF UpdatedRow, Row

\* What every commit does besides its row.
LEMMA CommittedTyped ==
    ASSUME TypeInv, NEW r \in Requests, pc[r] = "checked", Committed(r)
    PROVE  /\ pc' \in [Requests -> Open \cup {"free", "answered"}]
           /\ ask' \in [Requests -> Asks \cup {None}]
           /\ held' \in [Requests -> Row]
           /\ goal' \in [Requests -> Ids \cup {None}]
           /\ status' \in [Requests -> Statuses]
           /\ during' \in [Requests -> SUBSET Requests]
           /\ \A e \in log' : e.request \in Requests /\ e.op \in Ops \ Unaudited
           /\ \A q \in Requests :
                  /\ pc'[q] # "free" => ask'[q] \in Asks
                  /\ pc'[q] \in Open => goal'[q] \in Ids
<1>1. UNCHANGED <<ask, held, goal>>
  BY DEF Committed
<1>2. during' \in [Requests -> SUBSET Requests]
  BY DEF Committed, SeenByOthers, TypeInv
<1>3. /\ pc' \in [Requests -> Open \cup {"free", "answered"}]
      /\ status' \in [Requests -> Statuses]
      /\ \A q \in Requests : q # r => pc'[q] = pc[q]
  BY DEF Committed, Answers, TypeInv, Open, Statuses
<1>4. ask[r] \in Asks /\ goal[r] \in Ids
  BY DEF TypeInv, Open
<1>5. \A e \in log' : e.request \in Requests /\ e.op \in Ops \ Unaudited
  BY <1>4, AskTyped DEF Committed, LogAction, Op, TypeInv
<1> QED
  BY <1>1, <1>2, <1>3, <1>4, <1>5 DEF TypeInv

LEMMA TypeStep == TypeInv /\ [Next]_vars => TypeInv'
<1> SUFFICES ASSUME TypeInv, [Next]_vars PROVE TypeInv'
  OBVIOUS
<1>g. ASSUME NEW r \in Requests, GoesOn(r), NEW w \in Asks,
             ask' = [ask EXCEPT ![r] = w]
      PROVE  TypeInv'
  <2>1. ask' \in [Requests -> Asks \cup {None}]
    BY <1>g DEF TypeInv
  <2>2. \A q \in Requests : q # r => pc'[q] = pc[q] /\ goal'[q] = goal[q] /\ ask'[q] = ask[q]
    BY <1>g DEF TypeInv, GoesOn, KeepOn, Proceed, GoOn, Refuse, Answers
  <2>3. ask'[r] \in Asks
    BY <1>g DEF TypeInv
  <2>4. UNCHANGED <<rows, log, during>>
    BY <1>g DEF GoesOn, KeepOn, Proceed, GoOn, Refuse
  <2>5. /\ pc' \in [Requests -> Open \cup {"free", "answered"}]
        /\ held' \in [Requests -> Row]
        /\ goal' \in [Requests -> Ids \cup {None}]
        /\ status' \in [Requests -> Statuses]
        /\ pc'[r] \in Open => goal'[r] \in Ids
    <3>1. ASSUME NEW p \in Open \ {"committed"}, NEW i \in Ids, KeepOn(r, p, i) \/ Proceed(r, p, i)
          PROVE  <2>5!:
      BY <3>1 DEF TypeInv, KeepOn, Proceed, GoOn
    <3>2. ASSUME NEW s \in {"400", "401", "403", "404", "409"}, Refuse(r, s)
          PROVE  <2>5!:
      BY <3>2 DEF TypeInv, Refuse, Answers, Statuses, Open
    <3> QED
      BY <1>g, <3>1, <3>2 DEF GoesOn
  <2> QED
    BY <2>1, <2>2, <2>3, <2>4, <2>5 DEF TypeInv
<1>1. ASSUME NEW r \in Requests, NEW w \in Asks, Authenticate(r, w) PROVE TypeInv'
  <2>1. GoesOn(r) /\ ask' = [ask EXCEPT ![r] = w]
    BY <1>1, AuthenticateGoesOn
  <2> QED
    BY <1>g, <2>1
<1>2. ASSUME NEW r \in Requests, Checks(r) PROVE TypeInv'
  <2>1. GoesOn(r) /\ ask' = ask
    BY <1>2, ChecksGoOn
  <2>2. pc[r] # "free"
    BY <1>2 DEF Checks, Asked, CreateAdmin, CountAdmins, DeleteAdmin, ResetAdminPassword,
       CreateUser, DeleteUser, ResetUserPassword, CreateToken, RevokeToken,
       CreateOrganization, UpdateOrganization, UpsertConnection, FindConnection,
       ChangeOwnPassword, LoginAsAdmin, LoginAsUser
  <2>3. ask[r] \in Asks /\ ask' = [ask EXCEPT ![r] = ask[r]]
    BY <2>1, <2>2 DEF TypeInv
  <2> QED
    BY <1>g, <2>1, <2>3
<1>f. ASSUME NEW r \in Requests, pc[r] = "checked", Fails(r) PROVE TypeInv'
  BY <1>f DEF Fails, Refuse, Answers, TypeInv, Statuses, Open
<1>3. ASSUME NEW r \in Requests, Insert(r) PROVE TypeInv'
  <2>1. CASE Fails(r)
    BY <1>3, <1>f, <2>1 DEF Insert
  <2>2. CASE rows' = [rows EXCEPT ![r] = NewRow(r)] /\ Committed(r)
    <3>1. rows' \in [Ids -> Row]
      BY <1>3, <2>2, NewRowTyped, IdsTyped DEF Insert, TypeInv
    <3> QED
      BY <1>3, <2>2, <3>1, CommittedTyped DEF Insert, TypeInv
  <2> QED
    BY <1>3, <2>1, <2>2 DEF Insert
<1>4. ASSUME NEW r \in Requests, Update(r) PROVE TypeInv'
  <2>1. CASE Fails(r)
    BY <1>4, <1>f, <2>1 DEF Update
  <2>2. CASE rows' = [rows EXCEPT ![goal[r]] = UpdatedRow(r)] /\ Committed(r)
    <3>1. rows' \in [Ids -> Row]
      BY <1>4, <2>2, UpdatedRowTyped DEF Update, TypeInv
    <3> QED
      BY <1>4, <2>2, <3>1, CommittedTyped DEF Update, TypeInv
  <2> QED
    BY <1>4, <2>1, <2>2 DEF Update
<1>5. ASSUME NEW r \in Requests, Delete(r) PROVE TypeInv'
  <2>i. goal[r] \in Ids /\ rows[goal[r]] \in Row
    BY <1>5 DEF Delete, TypeInv, Open
  <2>r. [rows[goal[r]] EXCEPT !.live = FALSE] \in Row
    BY <2>i DEF Row
  <2>1. rows' \in [Ids -> Row]
    BY <1>5, <2>i, <2>r DEF Delete, TypeInv
  <2> QED
    BY <1>5, <2>1, CommittedTyped DEF Delete, TypeInv
<1>6. ASSUME NEW r \in Requests, StartSync(r) PROVE TypeInv'
  BY <1>6, CommittedTyped DEF StartSync, TypeInv
<1>7. ASSUME NEW r \in Requests, Refresh(r) PROVE TypeInv'
  BY <1>7 DEF Refresh, Answers, TypeInv, Statuses, Open
<1>8. ASSUME Restart PROVE TypeInv'
  BY <1>8 DEF Restart, TypeInv, Statuses, Open
<1>9. ASSUME UNCHANGED vars PROVE TypeInv'
  BY <1>9 DEF vars, TypeInv
<1> QED
  BY <1>1, <1>2, <1>3, <1>4, <1>5, <1>6, <1>7, <1>8, <1>9 DEF Next, Writes

LEMMA InitTyped == Init => TypeInv
<1> SUFFICES ASSUME Init PROVE TypeInv
  OBVIOUS
<1>1. \A i \in Ids : i \notin Requests => i \in DOMAIN FirstRows /\ FirstRows[i] \in Row
  BY AdministrationAssumption DEF Ids
<1>2. rows \in [Ids -> Row]
  BY <1>1, IdsTyped DEF Init
<1> QED
  BY <1>2, IdsTyped DEF Init, TypeInv, Open, Statuses

-----------------------------------------------------------------------------
(* What a request is about. *)

Early == {"authenticated", "counted", "notAdmin", "checked"}

\* The table that an operation on an existing row is about.
KindsOf(op) ==
    CASE op \in {"delete_admin", "reset_admin_password"} -> {"admin"}
      [] op \in {"delete_user", "reset_user_password"} -> {"user"}
      [] op = "revoke_token" -> {"token"}
      [] op = "update_organization" -> {"organization"}
      [] op \in {"upsert_connection", "delete_connection", "start_sync"} -> {"connection"}
      [] op \in {"change_own_password", "login"} -> {"admin", "user"}
      [] OTHER -> {}

Shape(r) ==
    /\ (pc[r] = "authenticated" /\ Op(r) # "login") =>
           /\ goal[r] = ask[r].actor /\ rows[goal[r]].kind \in {"admin", "user"}
           /\ Op(r) \in AdminOps => rows[goal[r]].kind = "admin"
    /\ pc[r] = "counted" => Op(r) = "delete_admin" /\ ask[r].target # ask[r].actor
    /\ pc[r] = "notAdmin" => Op(r) = "login"
    /\ pc[r] = "checked" =>
           /\ IF goal[r] = r THEN Op(r) \in Creating
              ELSE rows[goal[r]].kind \in KindsOf(Op(r))
           /\ Op(r) = "delete_admin" =>
                  goal[r] = ask[r].target /\ ask[r].target # ask[r].actor
           /\ Op(r) = "revoke_token" => held[r].one = None

\* Each record is that of a request which is past its commit, on a row that is
\* there; a request that is not has no row yet.
LogShape ==
    \A e \in log :
        /\ e.row \in Ids /\ rows[e.row].kind # "none"
        /\ e.op = Op(e.request) /\ e.row = goal[e.request]
        /\ pc[e.request] \in {"committed", "answered"}

NoRowYet == \A r \in Requests : pc[r] \in {"free"} \cup Early => rows[r] = NoRow

ShapeInv == LogShape /\ NoRowYet /\ \A r \in Requests : Shape(r)

LEMMA NoneIsNoKind == \A op : "none" \notin KindsOf(op)
BY DEF KindsOf

LEMMA ChecksShape ==
    ASSUME TypeInv, ShapeInv, NEW r \in Requests, Checks(r)
    PROVE  Shape(r)' /\ pc[r] \in Early /\ pc'[r] \in Early \cup {"answered"}
<1> USE DEF Early, Op, Asked
<1>0. UNCHANGED <<ask, rows>> /\ pc \in [Requests -> Open \cup {"free", "answered"}]
      /\ goal \in [Requests -> Ids \cup {None}] /\ r \in Ids
  BY ChecksGoOn, IdsTyped DEF GoesOn, KeepOn, Proceed, GoOn, Refuse, TypeInv
<1>s. Shape(r) /\ (pc[r] \in {"free"} \cup Early => rows[r] = NoRow)
  BY DEF ShapeInv, NoRowYet
<1>r. ASSUME NEW s \in Statuses, Refuse(r, s) PROVE Shape(r)' /\ pc'[r] = "answered"
  BY <1>0, <1>r DEF Refuse, Answers, Shape
<1>k. ASSUME NEW p \in Early, NEW i \in Ids \cup {None}, KeepOn(r, p, i) \/ Proceed(r, p, i)
      PROVE  pc'[r] = p /\ goal'[r] = i /\ (Proceed(r, p, i) => held'[r] = rows[i])
  BY <1>0, <1>k DEF KeepOn, Proceed, GoOn, TypeInv
<1>c. ASSUME KeepOn(r, "checked", r), Op(r) \in Creating
      PROVE  Shape(r)' /\ pc'[r] = "checked"
  BY <1>0, <1>c, <1>k DEF Shape, Creating
<1>t. ASSUME NEW i \in Ids, Proceed(r, "checked", i), rows[i].kind \in KindsOf(Op(r)),
             Op(r) = "delete_admin" => i = ask[r].target /\ i # ask[r].actor,
             Op(r) = "revoke_token" => rows[i].one = None
      PROVE  Shape(r)' /\ pc'[r] = "checked"
  <2>1. pc'[r] = "checked" /\ goal'[r] = i /\ held'[r] = rows[i]
    BY <1>t, <1>k
  <2>2. i = r => Op(r) \in Creating
    <3>1. CASE pc[r] \in {"free"} \cup Early
      BY <3>1, <1>s, <1>t DEF KindsOf, NoRow
    <3>2. CASE pc[r] \notin {"free"} \cup Early
      BY <3>2 DEF Checks, CreateAdmin, CountAdmins, DeleteAdmin, ResetAdminPassword,
         CreateUser, DeleteUser, ResetUserPassword, CreateToken, RevokeToken,
         CreateOrganization, UpdateOrganization, UpsertConnection, FindConnection,
         ChangeOwnPassword, LoginAsAdmin, LoginAsUser
    <3> QED
      BY <3>1, <3>2
  <2> QED
    BY <1>0, <1>t, <2>1, <2>2 DEF Shape
<1>1. CASE CreateAdmin(r)
  BY <1>1, <1>r, <1>c DEF CreateAdmin, Creating, Statuses
<1>2. CASE CountAdmins(r)
  BY <1>2, <1>0, <1>r, <1>k DEF CountAdmins, Statuses, Shape
<1>3. CASE DeleteAdmin(r)
  BY <1>3, <1>s, <1>r, <1>t DEF DeleteAdmin, Statuses, Shape, KindsOf, Exists, Live
<1>4. CASE ResetAdminPassword(r)
  <2>1. CASE KeepOn(r, "checked", goal[r])
    BY <1>4, <2>1, <1>0, <1>s, <1>k DEF ResetAdminPassword, Shape, KindsOf, AdminOps, NoRow
  <2> QED
    BY <1>4, <2>1, <1>r, <1>t DEF ResetAdminPassword, Statuses, KindsOf, Exists, Live
<1>5. CASE CreateUser(r)
  BY <1>5, <1>r, <1>c DEF CreateUser, Creating, Statuses
<1>6. CASE DeleteUser(r)
  BY <1>6, <1>r, <1>t DEF DeleteUser, Statuses, KindsOf, Exists, Live
<1>7. CASE ResetUserPassword(r)
  BY <1>7, <1>r, <1>t DEF ResetUserPassword, Statuses, KindsOf, Exists, Live
<1>8. CASE CreateToken(r)
  BY <1>8, <1>r, <1>c DEF CreateToken, Creating, Statuses
<1>9. CASE RevokeToken(r)
  BY <1>9, <1>r, <1>t DEF RevokeToken, Statuses, KindsOf, Exists, Live
<1>10. CASE CreateOrganization(r)
  BY <1>10, <1>c DEF CreateOrganization, Creating
<1>11. CASE UpdateOrganization(r)
  BY <1>11, <1>r, <1>t DEF UpdateOrganization, Statuses, KindsOf, Exists, Live
<1>12. CASE UpsertConnection(r)
  BY <1>12, <1>r, <1>c, <1>t DEF UpsertConnection, Statuses, KindsOf, ConnectionOf, Live, Creating
<1>13. CASE FindConnection(r)
  BY <1>13, <1>r, <1>t DEF FindConnection, Statuses, KindsOf, ConnectionOf, Live
<1>14. CASE ChangeOwnPassword(r)
  <2>1. CASE KeepOn(r, "checked", goal[r])
    BY <1>14, <2>1, <1>0, <1>s, <1>k DEF ChangeOwnPassword, Shape, KindsOf, NoRow
  <2> QED
    BY <1>14, <2>1, <1>r DEF ChangeOwnPassword, Statuses
<1>15. CASE LoginAsAdmin(r)
  <2>1. CASE KeepOn(r, "notAdmin", r)
    BY <1>15, <2>1, <1>0, <1>k DEF LoginAsAdmin, Shape
  <2> QED
    BY <1>15, <2>1, <1>t DEF LoginAsAdmin, KindsOf, Matching, Live
<1>16. CASE LoginAsUser(r)
  BY <1>16, <1>r, <1>t DEF LoginAsUser, Statuses, KindsOf, Matching, Live
<1> QED
  BY <1>1, <1>2, <1>3, <1>4, <1>5, <1>6, <1>7, <1>8, <1>9, <1>10, <1>11, <1>12,
     <1>13, <1>14, <1>15, <1>16 DEF Checks

LEMMA AuthenticateShape ==
    ASSUME TypeInv, ShapeInv, NEW r \in Requests, NEW w \in Asks, Authenticate(r, w)
    PROVE  Shape(r)' /\ pc[r] = "free" /\ pc'[r] \in {"authenticated", "answered"}
BY DEF TypeInv, Authenticate, Shape, Op, Accounts, KeepOn, Proceed, GoOn, Refuse, Answers

\* A commit gives a row to the request that had none, or leaves every kind.
LEMMA WritesShape ==
    ASSUME TypeInv, ShapeInv, NEW r \in Requests, Writes(r)
    PROVE  /\ pc[r] = "checked" /\ UNCHANGED ask
           /\ \/ Fails(r)
              \/ /\ Committed(r)
                 /\ \A i \in Ids : rows'[i].kind = rows[i].kind \/ (i = r /\ goal[r] = r)
                 /\ \A i \in Ids \ {goal[r]} : rows'[i] = rows[i]
                 /\ rows'[goal[r]].kind # "none"
<1>0. pc[r] = "checked" => goal[r] \in Ids /\ rows \in [Ids -> Row]
  BY DEF TypeInv, Open
<1>s. Shape(r) /\ (goal[r] # r /\ pc[r] = "checked" => rows[goal[r]].kind # "none")
  BY NoneIsNoKind DEF ShapeInv, Shape
<1>a. (Committed(r) \/ Fails(r)) => UNCHANGED ask
  BY DEF Committed, Fails
<1>1. CASE Insert(r)
  <2>1. pc[r] = "checked" /\ goal[r] = r
    BY <1>1 DEF Insert
  <2>2. CASE Fails(r)
    BY <1>a, <2>1, <2>2
  <2>3. CASE rows' = [rows EXCEPT ![r] = NewRow(r)] /\ Committed(r)
    <3>1. NewRow(r).kind # "none"
      BY <2>1, NewRowTyped DEF Kinds
    <3> QED
      BY <1>0, <1>a, <2>1, <2>3, <3>1
  <2> QED
    BY <1>1, <2>2, <2>3 DEF Insert
<1>2. CASE Update(r)
  <2>1. pc[r] = "checked" /\ goal[r] # r
    BY <1>2 DEF Update
  <2>2. CASE Fails(r)
    BY <1>a, <2>1, <2>2
  <2>3. CASE rows' = [rows EXCEPT ![goal[r]] = UpdatedRow(r)] /\ Committed(r)
    <3>1. UpdatedRow(r).kind = rows[goal[r]].kind
      BY <2>1, UpdatedRowTyped
    <3> QED
      BY <1>0, <1>a, <1>s, <2>1, <2>3, <3>1
  <2> QED
    BY <1>2, <2>2, <2>3 DEF Update
<1>3. CASE Delete(r)
  <2>1. goal[r] # r /\ pc[r] = "checked" /\ Committed(r)
    BY <1>3, <1>s DEF Delete, Deleting, Creating, Shape
  <2>2. /\ rows'[goal[r]].kind = rows[goal[r]].kind
        /\ \A i \in Ids \ {goal[r]} : rows'[i] = rows[i]
    BY <1>0, <1>3 DEF Delete, TypeInv, Row
  <2> QED
    BY <1>0, <1>a, <1>s, <2>1, <2>2
<1>4. CASE StartSync(r)
  <2>1. goal[r] # r /\ pc[r] = "checked" /\ Committed(r) /\ UNCHANGED rows
    BY <1>4, <1>s DEF StartSync, Creating, Shape
  <2> QED
    BY <1>0, <1>a, <1>s, <2>1
<1> QED
  BY <1>1, <1>2, <1>3, <1>4 DEF Writes

LEMMA ShapeStep == TypeInv /\ ShapeInv /\ [Next]_vars => ShapeInv'
<1> SUFFICES ASSUME TypeInv, ShapeInv, [Next]_vars PROVE ShapeInv'
  OBVIOUS
<1>t. /\ pc \in [Requests -> Open \cup {"free", "answered"}]
      /\ goal \in [Requests -> Ids \cup {None}]
      /\ held \in [Requests -> Row]
      /\ \A e \in log : e.request \in Requests
  BY DEF TypeInv
<1>g. ASSUME NEW r \in Requests, GoesOn(r), NEW w, ask' = [ask EXCEPT ![r] = w],
             Shape(r)', pc[r] \in {"free"} \cup Early, ask \in [Requests -> Asks \cup {None}]
      PROVE  ShapeInv'
  <2>1. /\ \A q \in Requests : q # r => pc'[q] = pc[q] /\ goal'[q] = goal[q] /\ ask'[q] = ask[q] /\ held'[q] = held[q]
        /\ UNCHANGED <<rows, log>>
    BY <1>g, <1>t DEF GoesOn, KeepOn, Proceed, GoOn, Refuse, Answers
  <2>2. \A q \in Requests : Shape(q)'
    BY <1>g, <2>1 DEF ShapeInv, Shape, Op
  <2>3. LogShape'
    BY <1>g, <1>t, <2>1 DEF ShapeInv, LogShape, Early, Op
  <2>4. NoRowYet'
    BY <1>g, <2>1 DEF ShapeInv, NoRowYet
  <2> QED
    BY <2>2, <2>3, <2>4 DEF ShapeInv
<1>1. ASSUME NEW r \in Requests, NEW w \in Asks, Authenticate(r, w) PROVE ShapeInv'
  BY <1>1, <1>g, AuthenticateGoesOn, AuthenticateShape DEF TypeInv
<1>2. ASSUME NEW r \in Requests, Checks(r) PROVE ShapeInv'
  <2>1. ask' = [ask EXCEPT ![r] = ask[r]] /\ ask \in [Requests -> Asks \cup {None}]
    BY <1>2, ChecksGoOn DEF TypeInv
  <2> QED
    BY <1>2, <2>1, <1>g, ChecksGoOn, ChecksShape
<1>3. ASSUME NEW r \in Requests, Writes(r) PROVE ShapeInv'
  <2>0. pc[r] = "checked" /\ UNCHANGED ask
    BY <1>3, WritesShape
  <2>1. CASE Fails(r)
    <3>1. /\ \A q \in Requests : q # r => pc'[q] = pc[q]
          /\ pc'[r] = "answered" /\ UNCHANGED <<rows, log, ask, held, goal>>
      BY <1>t, <2>1 DEF Fails, Refuse, Answers
    <3> QED
      BY <2>0, <3>1, <1>t DEF ShapeInv, Shape, LogShape, NoRowYet, Early, Op
  <2>2. CASE ~Fails(r)
    <3>1. /\ Committed(r)
          /\ \A i \in Ids : rows'[i].kind = rows[i].kind \/ (i = r /\ goal[r] = r)
          /\ \A i \in Ids \ {goal[r]} : rows'[i] = rows[i]
          /\ rows'[goal[r]].kind # "none"
      BY <1>3, <2>2, WritesShape
    <3>2. /\ \A q \in Requests : q # r => pc'[q] = pc[q]
          /\ pc'[r] \in {"committed", "answered"} /\ UNCHANGED <<ask, held, goal>>
      BY <1>t, <3>1 DEF Committed, Answers
    <3>3. goal[r] \in Ids /\ Shape(r)
      BY <2>0 DEF TypeInv, Open, ShapeInv
    <3>4. NoRowYet'
      <4> SUFFICES ASSUME NEW q \in Requests, pc'[q] \in {"free"} \cup Early
                   PROVE  rows'[q] = NoRow
        BY DEF NoRowYet
      <4>1. q # r /\ rows[q] = NoRow
        BY <3>2 DEF Early, ShapeInv, NoRowYet
      <4>2. goal[r] # q
        BY <2>0, <3>3, <4>1 DEF Shape, KindsOf, NoRow
      <4> QED
        BY <3>1, <4>1, <4>2, IdsTyped
    <3>5. LogShape'
      <4> SUFFICES ASSUME NEW e \in log'
                   PROVE  /\ e.row \in Ids /\ rows'[e.row].kind # "none"
                          /\ e.op = ask'[e.request].op /\ e.row = goal'[e.request]
                          /\ pc'[e.request] \in {"committed", "answered"}
        BY DEF LogShape, Op
      <4>1. CASE e \in log
        BY <4>1, <2>0, <3>1, <3>2, <1>t DEF ShapeInv, LogShape, Op
      <4>2. CASE e \notin log
        <5>1. e = [request |-> r, actor |-> ask[r].actor, op |-> Op(r), row |-> goal[r]]
          BY <4>2, <3>1 DEF Committed, LogAction
        <5> QED
          BY <5>1, <3>1, <3>2, <3>3 DEF Op
      <4> QED
        BY <4>1, <4>2
    <3>6. ASSUME NEW q \in Requests PROVE Shape(q)'
      <4>1. q = r => pc'[q] \in {"committed", "answered"}
        BY <3>2
      <4>2. CASE q # r
        <5>1. /\ pc'[q] = pc[q] /\ goal'[q] = goal[q] /\ ask'[q] = ask[q] /\ held'[q] = held[q]
              /\ goal[q] \in Ids /\ rows[goal[q]].kind # "none" =>
                     rows'[goal[q]].kind = rows[goal[q]].kind
          BY <4>2, <2>0, <3>1, <3>2, <3>3 DEF ShapeInv, NoRowYet, Early, NoRow
        <5>2. Shape(q) /\ (pc[q] \in Open => goal[q] \in Ids)
          BY DEF ShapeInv, TypeInv
        <5>3. CASE pc[q] \in Open /\ rows[goal[q]].kind # "none"
          BY <5>1, <5>2, <5>3 DEF Shape, Op
        <5>4. CASE pc[q] \in Open /\ rows[goal[q]].kind = "none"
          BY <5>1, <5>2, <5>4, NoneIsNoKind DEF Shape, Op
        <5>5. CASE pc[q] \notin Open
          BY <5>1, <5>5 DEF Shape, Open
        <5> QED
          BY <5>3, <5>4, <5>5
      <4> QED
        BY <4>1, <4>2 DEF Shape
    <3> QED
      BY <3>4, <3>5, <3>6 DEF ShapeInv
  <2> QED
    BY <2>1, <2>2
<1>4. ASSUME NEW r \in Requests, Refresh(r) PROVE ShapeInv'
  <2>1. /\ \A q \in Requests : q # r => pc'[q] = pc[q]
        /\ pc[r] = "committed" /\ pc'[r] = "answered" /\ UNCHANGED <<rows, log, ask, held, goal>>
    BY <1>4, <1>t DEF Refresh, Answers
  <2> QED
    BY <2>1, <1>t DEF ShapeInv, Shape, LogShape, NoRowYet, Early, Op
<1>5. ASSUME Restart PROVE ShapeInv'
  <2>1. /\ \A q \in Requests : pc'[q] = pc[q] \/ pc'[q] = "answered"
        /\ \A q \in Requests : pc[q] \in {"committed", "answered"} =>
               pc'[q] \in {"committed", "answered"}
        /\ UNCHANGED <<rows, log, ask, held, goal>>
    BY <1>5, <1>t DEF Restart
  <2> QED
    BY <2>1, <1>t DEF ShapeInv, Shape, LogShape, NoRowYet, Early, Op
<1>6. ASSUME UNCHANGED vars PROVE ShapeInv'
  BY <1>6 DEF vars, ShapeInv, Shape, LogShape, NoRowYet, Op, HasRecord
<1> QED
  BY <1>1, <1>2, <1>3, <1>4, <1>5, <1>6 DEF Next

-----------------------------------------------------------------------------
(* An administrator remains. *)

\* History only grows.
LEMMA Grows ==
    ASSUME TypeInv, [Next]_vars
    PROVE  log \subseteq log' /\ \A q \in Requests : during[q] \subseteq during'[q]
<1>t. during \in [Requests -> SUBSET Requests]
  BY DEF TypeInv
<1>1. ASSUME NEW r \in Requests, GoesOn(r) PROVE UNCHANGED <<log, during>>
  BY <1>1 DEF GoesOn, KeepOn, Proceed, GoOn, Refuse
<1>2. ASSUME NEW r \in Requests, Committed(r)
      PROVE  log \subseteq log' /\ \A q \in Requests : during[q] \subseteq during'[q]
  BY <1>t, <1>2 DEF Committed, LogAction, SeenByOthers
<1>3. ASSUME NEW r \in Requests, Fails(r) \/ Refresh(r) PROVE UNCHANGED <<log, during>>
  BY <1>3 DEF Fails, Refresh, Refuse
<1>4. ASSUME NEW r \in Requests, Writes(r) PROVE Committed(r) \/ Fails(r)
  BY <1>4 DEF Writes, Insert, Update, Delete, StartSync
<1>5. (Restart \/ UNCHANGED vars) => UNCHANGED <<log, during>>
  BY DEF Restart, vars
<1> QED
  BY <1>t, <1>1, <1>2, <1>3, <1>4, <1>5, ChecksGoOn, AuthenticateGoesOn DEF Next

\* Whose record a commit adds, and whom it is seen by.
LEMMA CommitSeen ==
    ASSUME TypeInv, NEW r \in Requests, Committed(r)
    PROVE  /\ \A q \in Requests : q # r /\ pc[q] \in Open => r \in during'[q]
           /\ Op(r) \notin Unaudited =>
                  \E e \in log' : e.request = r /\ e.op = Op(r) /\ e.row = goal[r]
           /\ pc' = [pc EXCEPT ![r] = IF Op(r) \in Refreshing THEN "committed" ELSE "answered"]
           /\ UNCHANGED <<ask, held, goal>>
<1>t. /\ during \in [Requests -> SUBSET Requests]
      /\ pc \in [Requests -> Open \cup {"free", "answered"}]
  BY DEF TypeInv
<1>1. \A q \in Requests : q # r /\ pc[q] \in Open => r \in during'[q]
  BY <1>t DEF Committed, SeenByOthers
<1>2. ASSUME Op(r) \notin Unaudited
      PROVE  \E e \in log' : e.request = r /\ e.op = Op(r) /\ e.row = goal[r]
  <2>1. [request |-> r, actor |-> ask[r].actor, op |-> Op(r), row |-> goal[r]] \in log'
    BY <1>2 DEF Committed, LogAction
  <2> QED
    BY <2>1
<1>3. pc' = [pc EXCEPT ![r] = IF Op(r) \in Refreshing THEN "committed" ELSE "answered"]
  BY <1>t DEF Committed, Answers
<1> QED
  BY <1>1, <1>2, <1>3 DEF Committed

LEMMA LiveAdmins ==
    ASSUME TypeInv, ShapeInv, NEW r \in Requests, Writes(r)
    PROVE  \A i \in Live("admin") :
               i \in Live("admin")' \/ (Op(r) = "delete_admin" /\ i = goal[r])
<1>0. pc[r] = "checked" => goal[r] \in Ids /\ rows \in [Ids -> Row] /\ rows[r] = NoRow /\ Shape(r)
  BY DEF TypeInv, Open, ShapeInv, NoRowYet, Early
<1>1. CASE Fails(r)
  BY <1>1 DEF Fails, Refuse, Live
<1>2. CASE Insert(r) /\ ~Fails(r)
  BY <1>0, <1>2 DEF Insert, Live, NoRow
<1>3. CASE Update(r) /\ ~Fails(r)
  <2>1. pc[r] = "checked" /\ rows' = [rows EXCEPT ![goal[r]] = UpdatedRow(r)]
    BY <1>3 DEF Update
  <2> QED
    BY <1>0, <2>1, UpdatedRowTyped DEF Live
<1>4. CASE Delete(r)
  <2>1. /\ pc[r] = "checked" /\ Op(r) \in Deleting /\ goal[r] # r
        /\ rows' = [rows EXCEPT ![goal[r]].live = FALSE]
    BY <1>0, <1>4 DEF Delete, Shape, Deleting, Creating
  <2>2. rows[goal[r]].kind \in KindsOf(Op(r))
    BY <1>0, <2>1 DEF Shape
  <2>3. rows[goal[r]].kind = "admin" => Op(r) = "delete_admin"
    BY <2>1, <2>2 DEF KindsOf, Deleting
  <2> QED
    BY <1>0, <2>1, <2>3 DEF Live
<1>5. CASE StartSync(r)
  BY <1>5 DEF StartSync, Live
<1> QED
  BY <1>1, <1>2, <1>3, <1>4, <1>5 DEF Writes

TwoAdmins == \E a, b \in Live("admin") : a # b

DeletedMeanwhile(r) == \E e \in log : e.op = "delete_admin" /\ e.request \in during[r]

\* A deletion past its count has two administrators before it, unless another
\* deletion fell into it.
Counted(r) ==
    (pc[r] \in {"counted", "checked"} /\ Op(r) = "delete_admin") =>
        TwoAdmins \/ DeletedMeanwhile(r)

AdminInv == AdminRemains /\ \A r \in Requests : Counted(r)

\* A count of more than one finds two.
LEMMA MoreThanOne ==
    ASSUME ~(Cardinality(Live("admin")) <= 1)
    PROVE  TwoAdmins
<1>1. IsFiniteSet(Ids)
  BY AdministrationAssumption, FS_Union DEF Ids
<1>2. IsFiniteSet(Live("admin"))
  BY <1>1, FS_Subset DEF Live
<1>3. Live("admin") # {}
  BY FS_EmptySet
<1>4. PICK a \in Live("admin") : TRUE
  BY <1>3
<1>5. ASSUME Live("admin") = {a} PROVE FALSE
  BY <1>5, FS_Singleton
<1> QED
  BY <1>4, <1>5 DEF TwoAdmins

LEMMA AdminStep == TypeInv /\ ShapeInv /\ AdminInv /\ [Next]_vars => AdminInv'
<1> SUFFICES ASSUME TypeInv, ShapeInv, AdminInv, [Next]_vars PROVE AdminInv'
  OBVIOUS
<1>t. /\ pc \in [Requests -> Open \cup {"free", "answered"}]
      /\ \A e \in log : e.request \in Requests
  BY DEF TypeInv
<1>m. log \subseteq log' /\ \A q \in Requests : during[q] \subseteq during'[q]
  BY Grows
<1>d. \A q \in Requests : DeletedMeanwhile(q) => DeletedMeanwhile(q)'
  BY <1>m DEF DeletedMeanwhile
<1>w. ASSUME Live("admin") = {} PROVE AdminRemains'
  BY <1>w, <1>m, <1>t DEF AdminInv, AdminRemains, WasLive
<1>s. ASSUME UNCHANGED rows,
             \A q \in Requests : (pc'[q] \in {"counted", "checked"} /\ ask'[q].op = "delete_admin") =>
                 \/ pc[q] \in {"counted", "checked"} /\ Op(q) = "delete_admin"
                 \/ TwoAdmins
      PROVE  AdminInv'
  <2>1. Live("admin")' = Live("admin") /\ (TwoAdmins => TwoAdmins')
    BY <1>s DEF Live, TwoAdmins
  <2>2. AdminRemains'
    BY <2>1, <1>m, <1>t DEF AdminInv, AdminRemains, WasLive
  <2>3. \A q \in Requests : Counted(q)'
    BY <1>s, <1>d, <2>1 DEF AdminInv, Counted, Op
  <2> QED
    BY <2>2, <2>3 DEF AdminInv
<1>1. ASSUME NEW r \in Requests, NEW w \in Asks, Authenticate(r, w) PROVE AdminInv'
  <2>1. /\ UNCHANGED rows /\ pc'[r] \in {"authenticated", "answered"}
        /\ \A q \in Requests : q # r => pc'[q] = pc[q] /\ ask'[q] = ask[q]
    BY <1>1, <1>t DEF Authenticate, KeepOn, Proceed, GoOn, Refuse, Answers, TypeInv
  <2> QED
    BY <1>s, <2>1 DEF Op
<1>2. ASSUME NEW r \in Requests, Checks(r) PROVE AdminInv'
  <2>1. /\ UNCHANGED <<rows, ask>>
        /\ \A q \in Requests : q # r => pc'[q] = pc[q]
    BY <1>2, <1>t, ChecksGoOn DEF GoesOn, KeepOn, Proceed, GoOn, Refuse, Answers
  <2>2. ASSUME Op(r) = "delete_admin", pc'[r] \in {"counted", "checked"}
        PROVE  pc[r] = "counted" \/ TwoAdmins
    <3>1. CountAdmins(r) \/ DeleteAdmin(r)
      BY <1>2, <2>2 DEF Checks, Asked, CreateAdmin, ResetAdminPassword, CreateUser, DeleteUser,
         ResetUserPassword, CreateToken, RevokeToken, CreateOrganization, UpdateOrganization,
         UpsertConnection, FindConnection, ChangeOwnPassword, LoginAsAdmin, LoginAsUser
    <3>2. CASE CountAdmins(r)
      BY <3>2, <2>2, <1>t, MoreThanOne DEF CountAdmins, Refuse, Answers
    <3> QED
      BY <3>1, <3>2 DEF DeleteAdmin, Asked
  <2> QED
    BY <1>s, <2>1, <2>2 DEF Op
<1>3. ASSUME NEW r \in Requests, Writes(r) PROVE AdminInv'
  <2>0. pc[r] = "checked" /\ UNCHANGED ask
    BY <1>3, WritesShape
  <2>1. CASE Fails(r)
    <3>1. UNCHANGED rows /\ pc'[r] = "answered" /\ \A q \in Requests : q # r => pc'[q] = pc[q]
      BY <2>1, <1>t DEF Fails, Refuse, Answers
    <3> QED
      BY <1>s, <2>0, <3>1 DEF Op
  <2>2. CASE ~Fails(r)
    <3>1. Committed(r)
      BY <1>3, <2>2, WritesShape
    <3>2. /\ pc'[r] \in {"committed", "answered"}
          /\ \A q \in Requests : q # r => pc'[q] = pc[q]
      BY <1>t, <3>1, CommitSeen
    <3>3. CASE Op(r) # "delete_admin"
      <4>1. \A i \in Live("admin") : i \in Live("admin")'
        BY <1>3, <3>3, LiveAdmins
      <4>2. AdminRemains'
        BY <4>1, <1>w DEF AdminRemains
      <4>3. \A q \in Requests : Counted(q)'
        BY <1>d, <2>0, <3>2, <4>1 DEF AdminInv, Counted, TwoAdmins, Op
      <4> QED
        BY <4>2, <4>3 DEF AdminInv
    <3>4. CASE Op(r) = "delete_admin"
      <4>1. PICK e \in log' : e.request = r /\ e.op = "delete_admin"
        BY <3>1, <3>4, CommitSeen DEF Unaudited
      <4>2. ASSUME NEW q \in Requests PROVE Counted(q)'
        <5>1. pc[q] \in {"counted", "checked"} /\ q # r => r \in during'[q]
          BY <3>1, CommitSeen DEF Open
        <5> QED
          BY <3>2, <4>1, <5>1 DEF Counted, DeletedMeanwhile
      <4>3. AdminRemains'
        <5>1. Counted(r)
          BY DEF AdminInv
        <5>2. CASE TwoAdmins
          BY <1>3, <5>2, LiveAdmins DEF TwoAdmins, AdminRemains
        <5>3. CASE DeletedMeanwhile(r)
          BY <5>3, <1>m, <4>1 DEF DeletedMeanwhile, AdminRemains
        <5> QED
          BY <2>0, <3>4, <5>1, <5>2, <5>3 DEF Counted
      <4> QED
        BY <4>2, <4>3 DEF AdminInv
    <3> QED
      BY <3>3, <3>4
  <2> QED
    BY <2>1, <2>2
<1>4. ASSUME NEW r \in Requests, Refresh(r) PROVE AdminInv'
  BY <1>4, <1>s, <1>t DEF Refresh, Answers, Op
<1>5. ASSUME Restart PROVE AdminInv'
  BY <1>5, <1>s, <1>t DEF Restart, Op
<1>6. ASSUME UNCHANGED vars PROVE AdminInv'
  BY <1>6, <1>s DEF vars, Op
<1> QED
  BY <1>1, <1>2, <1>3, <1>4, <1>5, <1>6 DEF Next

-----------------------------------------------------------------------------
(* The log tells the rows. *)

\* How a commit changes its row: made by an insert, gone by a deletion, and
\* otherwise alive as before; only a revocation changes a token.
LEMMA CommitChange ==
    ASSUME TypeInv, ShapeInv, NEW r \in Requests, Writes(r), ~Fails(r)
    PROVE  /\ goal[r] \in Ids /\ Op(r) \in Ops
           /\ goal[r] = r => /\ rows[r] = NoRow /\ rows'[r] = NewRow(r)
                             /\ NewRow(r).live /\ Op(r) \in Creating
                             /\ ~Taken(NewRow(r).kind, NewRow(r).key)
           /\ goal[r] # r =>
                  /\ rows[goal[r]].kind \in KindsOf(Op(r))
                  /\ rows'[goal[r]].kind = rows[goal[r]].kind
                  /\ rows'[goal[r]].key = rows[goal[r]].key
                  /\ Op(r) \in Deleting => /\ ~rows'[goal[r]].live
                                           /\ rows'[goal[r]].one = rows[goal[r]].one
                  /\ Op(r) \notin Deleting => rows'[goal[r]].live = rows[goal[r]].live
                  /\ Op(r) \notin Deleting \cup {"start_sync"} =>
                         /\ rows[goal[r]].live
                         /\ rows'[goal[r]] = UpdatedRow(r)
<1>0. pc[r] = "checked"
  BY WritesShape
<1>1. /\ goal[r] \in Ids /\ rows \in [Ids -> Row] /\ rows[r] = NoRow /\ Shape(r)
      /\ ask[r] \in Asks /\ r \in Ids /\ rows[goal[r]] \in Row
  BY <1>0, IdsTyped DEF TypeInv, Open, ShapeInv, NoRowYet, Early
<1>2. Op(r) \in Ops
  BY <1>1, AskTyped DEF Op
<1>3. CASE Insert(r)
  <2>1. goal[r] = r /\ rows' = [rows EXCEPT ![r] = NewRow(r)] /\ ~Taken(NewRow(r).kind, NewRow(r).key)
    BY <1>3 DEF Insert
  <2> QED
    BY <1>0, <1>1, <1>2, <2>1, NewRowTyped DEF Shape
<1>4. CASE Update(r)
  <2>1. /\ goal[r] # r /\ rows' = [rows EXCEPT ![goal[r]] = UpdatedRow(r)]
        /\ rows[goal[r]].live /\ Op(r) \notin Deleting \cup {"start_sync"}
    BY <1>4 DEF Update
  <2> QED
    BY <1>0, <1>1, <1>2, <2>1, UpdatedRowTyped DEF Shape
<1>5. CASE Delete(r)
  <2>1. /\ Op(r) \in Deleting /\ rows' = [rows EXCEPT ![goal[r]].live = FALSE]
    BY <1>5 DEF Delete
  <2>2. goal[r] # r
    BY <1>0, <1>1, <2>1 DEF Shape, Deleting, Creating
  <2>3. rows'[goal[r]] = [rows[goal[r]] EXCEPT !.live = FALSE]
    BY <1>1, <2>1
  <2> QED
    BY <1>0, <1>1, <1>2, <2>1, <2>2, <2>3 DEF Shape, Row
<1>6. CASE StartSync(r)
  <2>1. Op(r) = "start_sync" /\ UNCHANGED rows
    BY <1>6 DEF StartSync
  <2>2. goal[r] # r
    BY <1>0, <1>1, <2>1 DEF Shape, Creating
  <2> QED
    BY <1>0, <1>1, <1>2, <2>1, <2>2 DEF Shape, Deleting
<1> QED
  BY <1>3, <1>4, <1>5, <1>6 DEF Writes

\* Only a commit changes the tables or the log.
LEMMA ReadOrCommit ==
    ASSUME TypeInv, ShapeInv, [Next]_vars
    PROVE  \/ UNCHANGED <<rows, log>>
           \/ \E r \in Requests : Writes(r) /\ ~Fails(r) /\ Committed(r)
<1>1. ASSUME NEW r \in Requests, Writes(r), ~Fails(r) PROVE Committed(r)
  BY <1>1, WritesShape
<1>2. ASSUME NEW r \in Requests, Fails(r) \/ Refresh(r) \/ GoesOn(r) PROVE UNCHANGED <<rows, log>>
  BY <1>2 DEF Fails, Refuse, Refresh, GoesOn, KeepOn, Proceed, GoOn
<1>3. (Restart \/ UNCHANGED vars) => UNCHANGED <<rows, log>>
  BY DEF Restart, vars
<1> QED
  BY <1>1, <1>2, <1>3, ChecksGoOn, AuthenticateGoesOn DEF Next

LEMMA LogStep == TypeInv /\ ShapeInv /\ LogTellsTheRows /\ [Next]_vars => LogTellsTheRows'
<1> SUFFICES ASSUME TypeInv, ShapeInv, LogTellsTheRows, [Next]_vars PROVE LogTellsTheRows'
  OBVIOUS
<1>1. CASE UNCHANGED <<rows, log>>
  BY <1>1 DEF LogTellsTheRows, Recorded, WasLive
<1>2. ASSUME NEW r \in Requests, Writes(r), ~Fails(r), Committed(r) PROVE LogTellsTheRows'
  <2> DEFINE new == [request |-> r, actor |-> ask[r].actor, op |-> Op(r), row |-> goal[r]]
  <2>0. /\ pc[r] = "checked" /\ rows \in [Ids -> Row]
        /\ \A i \in Ids \ {goal[r]} : rows'[i] = rows[i]
    BY <1>2, WritesShape DEF TypeInv
  <2>1. log' = IF Op(r) \in Unaudited THEN log ELSE log \cup {new}
    BY <1>2 DEF Committed, LogAction
  <2>2. \A ops, i : i # goal[r] => (Recorded(ops, i)' <=> Recorded(ops, i))
    BY <2>1 DEF Recorded
  <2>3. \A ops, i : i = goal[r] =>
            (Recorded(ops, i)' <=>
                 Recorded(ops, i) \/ (Op(r) \in ops /\ Op(r) \notin Unaudited))
    <3>1. new.row = goal[r] /\ new.op = Op(r)
      OBVIOUS
    <3> HIDE DEF new
    <3>2. CASE Op(r) \in Unaudited
      BY <2>1, <3>2 DEF Recorded
    <3>3. CASE Op(r) \notin Unaudited
      <4>1. log' = log \cup {new}
        BY <2>1, <3>3
      <4> QED
        BY <3>1, <3>3, <4>1 DEF Recorded
    <3> QED
      BY <3>2, <3>3
  <2> HIDE DEF new
  <2> SUFFICES ASSUME NEW i \in Ids
               PROVE  /\ rows'[i].live <=>
                             /\ WasLive(i) \/ (i \in Requests /\ Recorded(Creating, i)')
                             /\ ~Recorded(Deleting, i)'
                      /\ (rows'[i].kind = "token" /\ rows'[i].one # None) <=>
                             \/ Recorded({"revoke_token"}, i)'
                             \/ i \in DOMAIN FirstRows /\ FirstRows[i].kind = "token"
                                   /\ FirstRows[i].one # None
    BY DEF LogTellsTheRows, WasLive
  <2>i. /\ rows[i].live <=> /\ WasLive(i) \/ (i \in Requests /\ Recorded(Creating, i))
                            /\ ~Recorded(Deleting, i)
        /\ (rows[i].kind = "token" /\ rows[i].one # None) <=>
               \/ Recorded({"revoke_token"}, i)
               \/ i \in DOMAIN FirstRows /\ FirstRows[i].kind = "token"
                     /\ FirstRows[i].one # None
    BY DEF LogTellsTheRows
  <2>4. CASE i # goal[r]
    BY <2>0, <2>2, <2>i, <2>4
  <2>5. CASE i = goal[r] /\ goal[r] = r
    <3>1. /\ rows[r] = NoRow /\ rows'[r] = NewRow(r) /\ NewRow(r).live /\ Op(r) \in Creating
      BY <1>2, <2>5, CommitChange
    <3>2. \A ops : ~Recorded(ops, r)
      BY <3>1 DEF ShapeInv, LogShape, Recorded, NoRow
    <3>3. r \notin DOMAIN FirstRows
      BY IdsTyped
    <3>4. NewRow(r).kind = "token" => NewRow(r).one = None
      BY DEF NewRow
    <3>5. Op(r) \notin Unaudited /\ Op(r) \notin Deleting /\ Op(r) # "revoke_token"
      BY <3>1 DEF Creating, Unaudited, Deleting
    <3> QED
      BY <2>3, <2>5, <3>1, <3>2, <3>3, <3>4, <3>5 DEF WasLive
  <2>6. CASE i = goal[r] /\ goal[r] # r
    <3>1. /\ rows[i].kind \in KindsOf(Op(r)) /\ rows'[i].kind = rows[i].kind
          /\ Op(r) \in Deleting => ~rows'[i].live /\ rows'[i].one = rows[i].one
          /\ Op(r) \notin Deleting => rows'[i].live = rows[i].live
          /\ Op(r) \notin Deleting \cup {"start_sync"} => rows[i].live /\ rows'[i] = UpdatedRow(r)
      BY <1>2, <2>6, CommitChange
    <3>2. rows[i].kind = "token" <=> Op(r) = "revoke_token"
      BY <3>1 DEF KindsOf
    <3>3. Op(r) = "revoke_token" => rows'[i].one # None
      <4> SUFFICES ASSUME Op(r) = "revoke_token" PROVE rows'[i].one # None
        OBVIOUS
      <4>1. r # None /\ held[r].one = None /\ rows'[i] = UpdatedRow(r)
        BY <2>0, <3>1, IdsTyped DEF ShapeInv, Shape, Deleting
      <4>2. Assigned(r).one = r
        BY DEF Assigned
      <4> QED
        BY <2>0, <4>1, <4>2, UpdatedRowTyped DEF Column
    <3>4. Op(r) \in Deleting \cup {"revoke_token"} => Op(r) \notin Unaudited
      BY DEF Deleting, Unaudited
    <3>5. Op(r) \in Creating => Op(r) \notin Deleting \cup {"start_sync"}
      BY DEF Creating, Deleting
    <3> QED
      BY <2>3, <2>6, <2>i, <3>1, <3>2, <3>3, <3>4, <3>5
  <2> QED
    BY <2>4, <2>5, <2>6
<1> QED
  BY <1>1, <1>2, ReadOrCommit

-----------------------------------------------------------------------------
(* Keys stay unique. *)

\* The hash of a token is its own.
TokenKeys == \A i \in Ids : (rows[i].kind = "token" /\ rows[i].key \in Requests) => rows[i].key = i

KeysInv == UniqueKeys /\ TokenKeys

LEMMA KeysStep == TypeInv /\ ShapeInv /\ KeysInv /\ [Next]_vars => KeysInv'
<1> SUFFICES ASSUME TypeInv, ShapeInv, KeysInv, [Next]_vars PROVE KeysInv'
  OBVIOUS
<1>1. CASE UNCHANGED <<rows, log>>
  BY <1>1 DEF KeysInv, UniqueKeys, TokenKeys
<1>2. ASSUME NEW r \in Requests, Writes(r), ~Fails(r) PROVE KeysInv'
  <2>0. \A i \in Ids \ {goal[r]} : rows'[i] = rows[i]
    BY <1>2, WritesShape
  <2>1. CASE goal[r] = r
    <3>1. /\ rows'[r] = NewRow(r) /\ ~Taken(NewRow(r).kind, NewRow(r).key)
      BY <1>2, <2>1, CommitChange
    <3>2. NewRow(r).kind = "token" => NewRow(r).key = r
      BY DEF NewRow
    <3> QED
      BY <2>0, <2>1, <3>1, <3>2 DEF KeysInv, UniqueKeys, TokenKeys, SameKey, Taken, Live
  <2>2. CASE goal[r] # r
    <3>1. /\ rows'[goal[r]].kind = rows[goal[r]].kind /\ rows'[goal[r]].key = rows[goal[r]].key
          /\ rows'[goal[r]].live => rows[goal[r]].live
      BY <1>2, <2>2, CommitChange
    <3> QED
      BY <2>0, <3>1 DEF KeysInv, UniqueKeys, TokenKeys, SameKey
  <2> QED
    BY <2>1, <2>2
<1> QED
  BY <1>1, <1>2, ReadOrCommit

-----------------------------------------------------------------------------
(* What a request read is what there is, as long as nobody commits. *)

Fresh(r) ==
    (during[r] = {} /\ pc[r] \in Early) =>
        /\ Op(r) # "login" =>
               /\ rows[ask[r].actor].live
               /\ Op(r) \in AdminOps => rows[ask[r].actor].kind = "admin"
        /\ (pc[r] = "authenticated" /\ Op(r) # "login") => held[r] = rows[ask[r].actor]
        /\ pc[r] = "notAdmin" => Matching("admin", r) = {}
        /\ pc[r] = "checked" =>
               /\ Serves(ask[r]) \/ (/\ Op(r) = "create_organization" /\ goal[r] = r
                                     /\ Taken("organization", ask[r].key))
               /\ goal[r] # r => held[r] = rows[goal[r]] /\ rows[goal[r]].live
               /\ (goal[r] = r /\ Taken(NewRow(r).kind, NewRow(r).key)) =>
                      /\ Op(r) = "create_organization"
                      /\ Taken("organization", ask[r].key)

LEMMA TwoAreMoreThanOne ==
    ASSUME NEW a \in Live("admin"), NEW b \in Live("admin"), a # b
    PROVE  ~(Cardinality(Live("admin")) <= 1)
<1>1. IsFiniteSet(Ids)
  BY AdministrationAssumption, FS_Union DEF Ids
<1>2. IsFiniteSet(Live("admin"))
  BY <1>1, FS_Subset DEF Live
<1>3. {a, b} \subseteq Live("admin")
  OBVIOUS
<1>4. IsFiniteSet({a}) /\ Cardinality({a}) = 1
  BY FS_Singleton
<1>5. IsFiniteSet({a} \cup {b}) /\ Cardinality({a} \cup {b}) = 2
  BY <1>4, FS_AddElement
<1>6. Cardinality({a} \cup {b}) <= Cardinality(Live("admin"))
  BY <1>2, <1>3, FS_Subset
<1>7. Cardinality(Live("admin")) \in Nat
  BY <1>2, FS_CardinalityType
<1> QED
  BY <1>5, <1>6, <1>7

\* A refusal is right, and a request that goes on is served, when the request
\* has read what there is.
LEMMA ChecksFresh ==
    ASSUME TypeInv, ShapeInv, KeysInv, NEW r \in Requests, Checks(r), Fresh(r), during[r] = {}
    PROVE  Fresh(r)' /\ (pc'[r] = "answered" => ~Serves(ask[r]))
<1> DEFINE w == ask[r]
           Able == Op(r) # "login" => /\ rows[w.actor].live
                                      /\ Op(r) \in AdminOps => rows[w.actor].kind = "admin"
<1>0. /\ UNCHANGED <<rows, ask, during>> /\ pc[r] \in Early /\ r \in Ids
      /\ rows[r] = NoRow /\ Shape(r) /\ goal[r] \in Ids
  BY ChecksGoOn, ChecksShape, IdsTyped
     DEF GoesOn, KeepOn, Proceed, GoOn, Refuse, ShapeInv, NoRowYet, TypeInv, Early, Open
<1>a. Able /\ (Asked(r, Op(r), "authenticated") /\ Op(r) # "login" => held[r] = rows[w.actor])
  BY <1>0 DEF Fresh, Asked
<1>r. ASSUME NEW s \in Statuses, Refuse(r, s) PROVE Fresh(r)' /\ pc'[r] = "answered"
  BY <1>r DEF Refuse, Answers, Fresh, Early, TypeInv
<1>k. ASSUME NEW p \in Early, NEW i \in Ids, KeepOn(r, p, i) \/ Proceed(r, p, i)
      PROVE  /\ pc'[r] = p /\ goal'[r] = i
             /\ held'[r] = IF KeepOn(r, p, i) THEN held[r] ELSE rows[i]
  BY <1>k DEF KeepOn, Proceed, GoOn, TypeInv
<1>same. /\ Op(r)' = Op(r) /\ Serves(ask[r])' = Serves(ask[r])
         /\ Taken("organization", ask[r].key)' = Taken("organization", ask[r].key)
  BY <1>0 DEF Op, Serves, Taken, Exists, Live
<1>t. ASSUME NEW i \in Ids, i # r, Proceed(r, "checked", i), rows[i].live, Serves(w)
      PROVE  Fresh(r)' /\ pc'[r] = "checked"
  <2>1. pc'[r] = "checked" /\ goal'[r] = i /\ (held'[r] = rows[i] \/ held'[r] = held[r])
    BY <1>t, <1>k DEF Early
  <2>2. held'[r] = rows[i]
    BY <1>t DEF Proceed, TypeInv
  <2> QED
    BY <1>0, <1>a, <1>t, <1>same, <2>1, <2>2 DEF Fresh, Op
<1>c. ASSUME KeepOn(r, "checked", r), Serves(w) \/ (Op(r) = "create_organization" /\ Taken("organization", w.key)),
             Taken(NewRow(r).kind, NewRow(r).key) =>
                 Op(r) = "create_organization" /\ Taken("organization", w.key)
      PROVE  Fresh(r)' /\ pc'[r] = "checked"
  <2>1. pc'[r] = "checked" /\ goal'[r] = r /\ UNCHANGED held
    BY <1>c, <1>0, <1>k DEF Early, KeepOn
  <2>2. /\ NewRow(r)' = NewRow(r)
    BY <1>0, <2>1 DEF NewRow, OrgOf
  <2>3. Taken(NewRow(r).kind, NewRow(r).key)' = Taken(NewRow(r).kind, NewRow(r).key)
    BY <1>0, <2>2 DEF Taken, Live
  <2> QED
    BY <1>0, <1>a, <1>c, <1>same, <2>1, <2>3 DEF Fresh, Op
<1>own. ASSUME KeepOn(r, "checked", goal[r]), Op(r) # "login", pc[r] = "authenticated", Serves(w)
        PROVE  Fresh(r)' /\ pc'[r] = "checked"
  <2>1. pc'[r] = "checked" /\ goal'[r] = goal[r] /\ UNCHANGED held
    BY <1>own, <1>0, <1>k DEF Early, KeepOn
  <2>2. goal[r] = w.actor /\ goal[r] # r /\ held[r] = rows[goal[r]] /\ rows[goal[r]].live
    BY <1>own, <1>0, <1>a DEF Shape, NoRow, Asked
  <2> QED
    BY <1>0, <1>a, <1>own, <1>same, <2>1, <2>2 DEF Fresh, Op
<1>l. \A kind \in Kinds : \A i \in Live(kind) : i \in Ids /\ i # r /\ rows[i].live /\ rows[i].kind = kind
  BY <1>0 DEF Live, NoRow
<1> HIDE DEF Able
<1>A. /\ Op(r) # "login" => rows[w.actor].live
      /\ Op(r) \in AdminOps => rows[w.actor].kind = "admin"
  BY <1>a DEF Able, AdminOps
<1>1. CASE CreateAdmin(r)
  <2>0. Op(r) = "create_admin" /\ w.op = "create_admin"
    BY <1>1 DEF CreateAdmin, Asked, Op
  <2>1. Serves(w) <=> ~Taken("admin", w.key)
    BY <1>A, <2>0 DEF Serves, AdminOps
  <2>2. NewRow(r).kind = "admin" /\ NewRow(r).key = w.key
    BY <2>0 DEF NewRow
  <2> QED
    BY <1>1, <1>r, <1>c, <2>1, <2>2 DEF CreateAdmin, Statuses
<1>2. CASE CountAdmins(r)
  <2>0. Op(r) = "delete_admin" /\ w.op = "delete_admin" /\ pc[r] = "authenticated"
    BY <1>2 DEF CountAdmins, Asked, Op
  <2>1. Serves(w) => Exists("admin", w.target) /\ w.target # w.actor
    BY <2>0 DEF Serves
  <2>2. w.actor \in Live("admin")
    BY <1>A, <1>0, <2>0 DEF Live, AdminOps, Shape
  <2>3. Serves(w) => ~(Cardinality(Live("admin")) <= 1)
    BY <2>1, <2>2, TwoAreMoreThanOne DEF Exists
  <2>4. KeepOn(r, "counted", goal[r]) => Fresh(r)' /\ pc'[r] = "counted"
    BY <1>0, <1>A, <1>k, <1>same, <2>0 DEF Fresh, Op, Early
  <2> QED
    BY <1>2, <1>r, <2>1, <2>3, <2>4 DEF CountAdmins, Statuses
<1>3. CASE DeleteAdmin(r)
  <2>0. Op(r) = "delete_admin" /\ w.op = "delete_admin" /\ pc[r] = "counted"
    BY <1>3 DEF DeleteAdmin, Asked, Op
  <2>1. Serves(w) <=> Exists("admin", w.target)
    BY <1>A, <1>0, <2>0 DEF Serves, AdminOps, Shape
  <2> QED
    BY <1>3, <1>r, <1>t, <1>l, <2>1 DEF DeleteAdmin, Statuses, Kinds, Exists
<1>4. CASE ResetAdminPassword(r)
  <2>0. Op(r) = "reset_admin_password" /\ w.op = "reset_admin_password" /\ pc[r] = "authenticated"
    BY <1>4 DEF ResetAdminPassword, Asked, Op
  <2>1. Serves(w) <=> Exists("admin", w.target)
    BY <1>A, <2>0 DEF Serves, AdminOps
  <2>2. w.actor \in Live("admin")
    BY <1>A, <1>0, <2>0 DEF Live, AdminOps, Shape
  <2> QED
    BY <1>4, <1>r, <1>t, <1>l, <1>own, <2>0, <2>1, <2>2 DEF ResetAdminPassword, Statuses, Kinds, Exists
<1>5. CASE CreateUser(r)
  <2>0. Op(r) = "create_user" /\ w.op = "create_user"
    BY <1>5 DEF CreateUser, Asked, Op
  <2>1. Serves(w) <=> Exists("organization", w.target) /\ ~Taken("user", w.key)
    BY <1>A, <2>0 DEF Serves, AdminOps
  <2>2. NewRow(r).kind = "user" /\ NewRow(r).key = w.key
    BY <2>0 DEF NewRow
  <2> QED
    BY <1>5, <1>r, <1>c, <2>1, <2>2 DEF CreateUser, Statuses
<1>6. CASE DeleteUser(r)
  <2>0. Op(r) = "delete_user" /\ w.op = "delete_user"
    BY <1>6 DEF DeleteUser, Asked, Op
  <2>1. Serves(w) <=> Exists("user", w.target)
    BY <1>A, <2>0 DEF Serves, AdminOps
  <2> QED
    BY <1>6, <1>r, <1>t, <1>l, <2>1 DEF DeleteUser, Statuses, Kinds, Exists
<1>7. CASE ResetUserPassword(r)
  <2>0. Op(r) = "reset_user_password" /\ w.op = "reset_user_password"
    BY <1>7 DEF ResetUserPassword, Asked, Op
  <2>1. Serves(w) <=> Exists("user", w.target)
    BY <1>A, <2>0 DEF Serves, AdminOps
  <2> QED
    BY <1>7, <1>r, <1>t, <1>l, <2>1 DEF ResetUserPassword, Statuses, Kinds, Exists
<1>8. CASE CreateToken(r)
  <2>0. Op(r) = "create_token" /\ w.op = "create_token"
    BY <1>8 DEF CreateToken, Asked, Op
  <2>1. Serves(w) <=> Exists("organization", w.target)
    BY <1>A, <2>0 DEF Serves, AdminOps
  <2>2. NewRow(r).kind = "token" /\ NewRow(r).key = r
    BY <2>0 DEF NewRow
  <2>3. ~Taken("token", r)
    BY <1>0 DEF Taken, Live, KeysInv, TokenKeys, NoRow
  <2> QED
    BY <1>8, <1>r, <1>c, <2>1, <2>2, <2>3 DEF CreateToken, Statuses
<1>9. CASE RevokeToken(r)
  <2>0. Op(r) = "revoke_token" /\ w.op = "revoke_token"
    BY <1>9 DEF RevokeToken, Asked, Op
  <2>1. Serves(w) <=> /\ Exists("token", w.target) /\ rows[w.target].one = None
                      /\ Exists("organization", w.two) /\ rows[w.target].two = w.two
    BY <1>A, <2>0 DEF Serves, AdminOps
  <2> QED
    BY <1>9, <1>r, <1>t, <1>l, <2>1 DEF RevokeToken, Statuses, Kinds, Exists
<1>10. CASE CreateOrganization(r)
  <2>0. Op(r) = "create_organization" /\ w.op = "create_organization"
    BY <1>10 DEF CreateOrganization, Asked, Op
  <2>1. Serves(w) <=> ~Taken("organization", w.key)
    BY <1>A, <2>0 DEF Serves, AdminOps
  <2>2. NewRow(r).kind = "organization" /\ NewRow(r).key = w.key
    BY <2>0 DEF NewRow
  <2> QED
    BY <1>10, <1>c, <2>0, <2>1, <2>2 DEF CreateOrganization
<1>11. CASE UpdateOrganization(r)
  <2>0. Op(r) = "update_organization" /\ w.op = "update_organization"
    BY <1>11 DEF UpdateOrganization, Asked, Op
  <2>1. Serves(w) <=> Exists("organization", w.target)
    BY <1>A, <2>0 DEF Serves, AdminOps
  <2> QED
    BY <1>11, <1>r, <1>t, <1>l, <2>1 DEF UpdateOrganization, Statuses, Kinds, Exists
<1>12. CASE UpsertConnection(r)
  <2>0. Op(r) = "upsert_connection" /\ w.op = "upsert_connection" /\ pc[r] = "authenticated"
    BY <1>12 DEF UpsertConnection, Asked, Op
  <2>h. held[r] = rows[w.actor]
    BY <1>a, <2>0 DEF Asked
  <2>1. Serves(w) <=> Exists("organization", OrgOf(r)) /\ (w.valid \/ ConnectionOf(r) # {})
    BY <1>A, <2>0, <2>h DEF Serves, AdminOps, OrgOf, ConnectionOf
  <2>2. NewRow(r).kind = "connection" /\ NewRow(r).key = OrgOf(r)
    BY <2>0 DEF NewRow
  <2>3. Taken("connection", OrgOf(r)) <=> ConnectionOf(r) # {}
    BY DEF Taken, ConnectionOf
  <2>4. \A c \in ConnectionOf(r) : c \in Ids /\ c # r /\ rows[c].live
    BY <1>l DEF ConnectionOf, Kinds
  <2> QED
    BY <1>12, <1>r, <1>t, <1>c, <2>1, <2>2, <2>3, <2>4 DEF UpsertConnection, Statuses
<1>13. CASE FindConnection(r)
  <2>0. /\ Op(r) \in {"delete_connection", "start_sync"} /\ w.op = Op(r)
        /\ pc[r] = "authenticated"
    BY <1>13 DEF FindConnection, Op
  <2>h. held[r] = rows[w.actor]
    BY <1>a, <2>0 DEF Asked
  <2>1. Serves(w) <=> ConnectionOf(r) # {}
    BY <1>A, <2>0, <2>h DEF Serves, AdminOps, OrgOf, ConnectionOf
  <2>4. \A c \in ConnectionOf(r) : c \in Ids /\ c # r /\ rows[c].live
    BY <1>l DEF ConnectionOf, Kinds
  <2> QED
    BY <1>13, <1>r, <1>t, <2>1, <2>4 DEF FindConnection, Statuses
<1>14. CASE ChangeOwnPassword(r)
  <2>0. /\ Op(r) = "change_own_password" /\ w.op = "change_own_password"
        /\ pc[r] = "authenticated" /\ held[r] = rows[w.actor]
    BY <1>14, <1>a DEF ChangeOwnPassword, Asked, Op
  <2>1. Serves(w) <=> w.valid /\ rows[w.actor].one = w.one
    BY <1>A, <2>0 DEF Serves, AdminOps
  <2> QED
    BY <1>14, <1>r, <1>own, <2>0, <2>1 DEF ChangeOwnPassword, Statuses
<1>m. ASSUME w.op = "login"
      PROVE  Serves(w) <=> Matching("admin", r) # {} \/ Matching("user", r) # {}
  BY <1>m DEF Serves, AdminOps, Matching
<1>15. CASE LoginAsAdmin(r)
  <2>0. Op(r) = "login" /\ w.op = "login"
    BY <1>15 DEF LoginAsAdmin, Asked, Op
  <2>1. \A i \in Matching("admin", r) : i \in Ids /\ i # r /\ rows[i].live
    BY <1>l DEF Matching, Kinds
  <2>2. ASSUME KeepOn(r, "notAdmin", r), Matching("admin", r) = {}
        PROVE  Fresh(r)' /\ pc'[r] = "notAdmin"
    BY <1>0, <1>k, <2>0, <2>2 DEF Fresh, Op, Early, Matching, Live
  <2> QED
    BY <1>15, <1>t, <1>m, <2>0, <2>1, <2>2 DEF LoginAsAdmin
<1>16. CASE LoginAsUser(r)
  <2>0. Op(r) = "login" /\ w.op = "login" /\ Matching("admin", r) = {}
    BY <1>16, <1>0 DEF LoginAsUser, Asked, Op, Fresh
  <2>1. \A i \in Matching("user", r) : i \in Ids /\ i # r /\ rows[i].live
    BY <1>l DEF Matching, Kinds
  <2> QED
    BY <1>16, <1>r, <1>t, <1>m, <2>0, <2>1 DEF LoginAsUser, Statuses
<1> QED
  BY <1>1, <1>2, <1>3, <1>4, <1>5, <1>6, <1>7, <1>8, <1>9, <1>10, <1>11, <1>12,
     <1>13, <1>14, <1>15, <1>16 DEF Checks

\* The account of a JWT is there: what authentication refuses is not served.
LEMMA AuthenticateFresh ==
    ASSUME TypeInv, ShapeInv, NEW r \in Requests, NEW w \in Asks, Authenticate(r, w)
    PROVE  Fresh(r)' /\ (pc'[r] = "answered" => ~Serves(w))
<1>0. /\ UNCHANGED rows /\ ask'[r] = w /\ pc[r] = "free"
      /\ w.op # "login" => w.actor \in Ids
  BY DEF Authenticate, TypeInv, KeepOn, Proceed, GoOn, Refuse, Accounts
<1>1. CASE w.op = "login"
  BY <1>0, <1>1 DEF Authenticate, KeepOn, GoOn, TypeInv, Fresh, Op, AdminOps
<1>2. CASE w.op # "login" /\ ((w.op \in AdminOps /\ rows[w.actor].kind # "admin")
                              \/ ~rows[w.actor].live)
  <2>1. pc'[r] = "answered"
    BY <1>2 DEF Authenticate, Refuse, Answers, TypeInv
  <2> QED
    BY <1>2, <2>1 DEF Fresh, Early, Serves
<1>3. CASE /\ w.op # "login" /\ rows[w.actor].live
           /\ w.op \in AdminOps => rows[w.actor].kind = "admin"
  <2>1. Proceed(r, "authenticated", w.actor)
    BY <1>3 DEF Authenticate
  <2>2. pc'[r] = "authenticated" /\ held'[r] = rows[w.actor]
    BY <2>1 DEF Proceed, GoOn, TypeInv
  <2> QED
    BY <1>0, <1>3, <2>2 DEF Fresh, Op
<1> QED
  BY <1>1, <1>2, <1>3

\* Only its own steps, and the commits of others, touch what a request knows.
LEMMA FreshKept ==
    ASSUME NEW q \in Requests, Fresh(q),
           UNCHANGED <<rows, ask, held, goal, during>>, pc'[q] = pc[q]
    PROVE  Fresh(q)'
BY DEF Fresh, Op, Serves, Taken, Exists, Live, Matching, NewRow, OrgOf

LEMMA FreshKeptByOthers ==
    ASSUME TypeInv, NEW r \in Requests, NEW w \in Asks, GoesOn(r),
           ask' = [ask EXCEPT ![r] = w], NEW q \in Requests, q # r, Fresh(q)
    PROVE  Fresh(q)'
<1>1. /\ pc'[q] = pc[q] /\ ask'[q] = ask[q] /\ held'[q] = held[q] /\ goal'[q] = goal[q]
      /\ UNCHANGED <<rows, during>>
  BY DEF GoesOn, KeepOn, Proceed, GoOn, Refuse, Answers, TypeInv
<1>2. Op(q)' = Op(q)
  BY <1>1 DEF Op
<1>3. \A kind : Live(kind)' = Live(kind)
  BY <1>1 DEF Live
<1>4. \A kind, key : Taken(kind, key)' <=> Taken(kind, key)
  BY <1>1, <1>3 DEF Taken
<1>5. Serves(ask[q])' <=> Serves(ask[q])
  BY <1>1, <1>3, <1>4 DEF Serves, Exists
<1>6. Matching("admin", q)' = Matching("admin", q)
  BY <1>1, <1>3 DEF Matching
<1>7. NewRow(q)' = NewRow(q)
  BY <1>1, <1>2 DEF NewRow, OrgOf
<1>8. /\ Taken(NewRow(q).kind, NewRow(q).key)' <=> Taken(NewRow(q).kind, NewRow(q).key)
      /\ Taken("organization", ask[q].key)' <=> Taken("organization", ask[q].key)
  BY <1>1, <1>7 DEF Taken, Live
<1> QED
  BY <1>1, <1>2, <1>5, <1>6, <1>8 DEF Fresh

FreshInv == \A r \in Requests : Fresh(r)

LEMMA FreshStep == TypeInv /\ ShapeInv /\ KeysInv /\ FreshInv /\ [Next]_vars => FreshInv'
<1> SUFFICES ASSUME TypeInv, ShapeInv, KeysInv, FreshInv, [Next]_vars,
                    NEW q \in Requests
             PROVE  Fresh(q)'
  BY DEF FreshInv
<1>t. /\ pc \in [Requests -> Open \cup {"free", "answered"}] /\ Fresh(q)
      /\ ask \in [Requests -> Asks \cup {None}]
  BY DEF TypeInv, FreshInv
<1>1. ASSUME NEW r \in Requests, NEW w \in Asks, Authenticate(r, w) PROVE Fresh(q)'
  <2>1. CASE q = r
    BY <1>1, <2>1, AuthenticateFresh
  <2>2. CASE q # r
    BY <1>1, <1>t, <2>2, AuthenticateGoesOn, FreshKeptByOthers
  <2> QED
    BY <2>1, <2>2
<1>2. ASSUME NEW r \in Requests, Checks(r) PROVE Fresh(q)'
  <2>1. /\ GoesOn(r) /\ ask' = [ask EXCEPT ![r] = ask[r]] /\ ask[r] \in Asks
        /\ UNCHANGED during
    BY <1>2, <1>t, ChecksGoOn, ChecksShape
       DEF TypeInv, Early, GoesOn, KeepOn, Proceed, GoOn, Refuse
  <2>2. CASE q # r
    BY <1>t, <2>1, <2>2, FreshKeptByOthers
  <2>3. CASE q = r /\ during[r] = {}
    BY <1>2, <1>t, <2>3, ChecksFresh
  <2>4. CASE q = r /\ during[r] # {}
    BY <2>1, <2>4 DEF Fresh
  <2> QED
    BY <2>2, <2>3, <2>4
<1>3. ASSUME NEW r \in Requests, Writes(r) PROVE Fresh(q)'
  <2>1. CASE Fails(r)
    <3>1. /\ UNCHANGED <<rows, ask, held, goal, during>> /\ pc'[r] = "answered"
          /\ q # r => pc'[q] = pc[q]
      BY <2>1, <1>t DEF Fails, Refuse, Answers
    <3>2. CASE q = r
      BY <3>1, <3>2 DEF Fresh, Early
    <3> QED
      BY <1>t, <3>1, <3>2, FreshKept
  <2>2. CASE Committed(r)
    <3>1. pc'[q] \in Early => pc[q] \in Early /\ q # r
      BY <2>2, <1>t, CommitSeen DEF Early
    <3>2. pc'[q] \in Early => during'[q] # {}
      BY <2>2, <3>1, CommitSeen DEF Early, Open
    <3> QED
      BY <3>2 DEF Fresh
  <2> QED
    BY <1>3, <2>1, <2>2, WritesShape
<1>4. ASSUME NEW r \in Requests, Refresh(r) PROVE Fresh(q)'
  <2>1. /\ UNCHANGED <<rows, ask, held, goal, during>> /\ pc'[r] = "answered"
        /\ q # r => pc'[q] = pc[q]
    BY <1>4, <1>t DEF Refresh, Answers
  <2>2. CASE q = r
    BY <2>1, <2>2 DEF Fresh, Early
  <2> QED
    BY <1>t, <2>1, <2>2, FreshKept
<1>5. ASSUME Restart PROVE Fresh(q)'
  <2>1. pc'[q] \notin Early
    BY <1>5, <1>t DEF Restart, Early, Open
  <2> QED
    BY <2>1 DEF Fresh
<1>6. ASSUME UNCHANGED vars PROVE Fresh(q)'
  BY <1>6, <1>t, FreshKept DEF vars
<1> QED
  BY <1>1, <1>2, <1>3, <1>4, <1>5, <1>6 DEF Next

-----------------------------------------------------------------------------
(* The answers. *)

GoneMeanwhile(r) == \E e \in log : /\ e.op \in Deleting /\ e.row = goal[r]
                                   /\ e.request \in during[r]

\* A request has no answer before its end; after its commit its record is there,
\* and its row too unless somebody deleted it meanwhile.
Unanswered(r) ==
    /\ pc[r] # "answered" => status[r] = ""
    /\ pc[r] = "committed" => /\ HasRecord(r) /\ Op(r) \in Refreshing
                              /\ rows[goal[r]].live \/ GoneMeanwhile(r)

Truth(r) ==
    pc[r] = "answered" =>
        /\ (status[r] = "ok" /\ Op(r) \notin Unaudited) => HasRecord(r)
        /\ status[r] \in {"400", "401", "403", "404", "409"} => ~HasRecord(r)
        /\ status[r] = "500" =>
               IF HasRecord(r) THEN GoneMeanwhile(r)
               ELSE during[r] # {} \/ (/\ Op(r) = "create_organization"
                                       /\ Taken("organization", ask[r].key))

AnswersInv == \A r \in Requests : Unanswered(r) /\ Truth(r)

LEMMA TruthTold == AnswersTellTheTruth <=> \A r \in Requests : Truth(r)
BY DEF AnswersTellTheTruth, Truth, GoneMeanwhile

\* A request that is not past its commit has no record.
LEMMA EarlyUnrecorded ==
    ASSUME ShapeInv, NEW r \in Requests, pc[r] \in {"free"} \cup Early
    PROVE  ~HasRecord(r)
BY DEF ShapeInv, LogShape, HasRecord, Early

\* An organisation stays, with its number.
LEMMA OrganizationsStay ==
    ASSUME TypeInv, ShapeInv, [Next]_vars, NEW key, Taken("organization", key)
    PROVE  Taken("organization", key)'
<1>1. CASE UNCHANGED <<rows, log>>
  BY <1>1 DEF Taken, Live
<1>2. ASSUME NEW r \in Requests, Writes(r), ~Fails(r) PROVE Taken("organization", key)'
  <2>1. PICK i \in Ids : rows[i].kind = "organization" /\ rows[i].live /\ rows[i].key = key
    BY DEF Taken, Live
  <2>2. /\ \A j \in Ids \ {goal[r]} : rows'[j] = rows[j]
        /\ goal[r] = r => rows[r] = NoRow
        /\ goal[r] # r =>
               /\ rows[goal[r]].kind \in KindsOf(Op(r))
               /\ rows'[goal[r]].kind = rows[goal[r]].kind
               /\ rows'[goal[r]].key = rows[goal[r]].key
               /\ Op(r) \notin Deleting => rows'[goal[r]].live = rows[goal[r]].live
    BY <1>2, WritesShape, CommitChange
  <2>3. Op(r) \in Deleting => "organization" \notin KindsOf(Op(r))
    BY DEF Deleting, KindsOf
  <2>4. /\ rows'[i].kind = "organization" /\ rows'[i].live /\ rows'[i].key = key
    BY <2>1, <2>2, <2>3 DEF NoRow
  <2> QED
    BY <2>4 DEF Taken, Live
<1> QED
  BY <1>1, <1>2, ReadOrCommit

\* Nothing of a request that makes no step becomes untrue.
LEMMA TruthKept ==
    ASSUME TypeInv, ShapeInv, [Next]_vars, NEW q \in Requests, Truth(q),
           pc'[q] = pc[q], ask'[q] = ask[q], goal'[q] = goal[q], status'[q] = status[q],
           HasRecord(q)' <=> HasRecord(q)
    PROVE  Truth(q)'
<1>1. log \subseteq log' /\ during[q] \subseteq during'[q]
  BY Grows
<1>2. GoneMeanwhile(q) => GoneMeanwhile(q)'
  BY <1>1 DEF GoneMeanwhile
<1>3. Taken("organization", ask[q].key) => Taken("organization", ask[q].key)'
  <2>1. ASSUME NEW key, Taken("organization", key) PROVE Taken("organization", key)'
    BY <2>1, OrganizationsStay
  <2>2. \A key : Taken("organization", key) => Taken("organization", key)'
    BY <2>1
  <2> QED
    BY <2>2 DEF Taken, Live
<1>4. during[q] # {} => during'[q] # {}
  BY <1>1
<1> QED
  BY <1>1, <1>2, <1>3, <1>4 DEF Truth, Op

LEMMA AnswersStep ==
    TypeInv /\ ShapeInv /\ FreshInv /\ AnswersInv /\ [Next]_vars => AnswersInv'
<1> SUFFICES ASSUME TypeInv, ShapeInv, FreshInv, AnswersInv, [Next]_vars,
                    NEW q \in Requests
             PROVE  Unanswered(q)' /\ Truth(q)'
  BY DEF AnswersInv
<1>t. /\ pc \in [Requests -> Open \cup {"free", "answered"}]
      /\ ask \in [Requests -> Asks \cup {None}]
      /\ status \in [Requests -> Statuses]
      /\ goal \in [Requests -> Ids \cup {None}]
      /\ Unanswered(q) /\ Truth(q)
  BY DEF TypeInv, AnswersInv
<1>g. ASSUME NEW r \in Requests, GoesOn(r), NEW w, ask' = [ask EXCEPT ![r] = w],
             pc[r] \in {"free"} \cup Early
      PROVE  Unanswered(q)' /\ Truth(q)'
  <2>0. UNCHANGED <<rows, log, during>>
    BY <1>g DEF GoesOn, KeepOn, Proceed, GoOn, Refuse
  <2>1. CASE q # r
    <3>1. /\ pc'[q] = pc[q] /\ ask'[q] = ask[q] /\ goal'[q] = goal[q] /\ status'[q] = status[q]
          /\ HasRecord(q)' <=> HasRecord(q)
      BY <1>g, <1>t, <2>0, <2>1 DEF GoesOn, KeepOn, Proceed, GoOn, Refuse, Answers, HasRecord
    <3> QED
      BY <1>t, <2>0, <3>1, TruthKept DEF Unanswered, GoneMeanwhile, Op
  <2>2. CASE q = r
    <3>1. ~HasRecord(r)'
      BY <1>g, <2>0, EarlyUnrecorded DEF HasRecord
    <3>2. /\ status[r] = ""
          /\ \/ pc'[r] \in Open \ {"committed"} /\ status'[r] = status[r]
             \/ pc'[r] = "answered" /\ status'[r] \in {"400", "401", "403", "404", "409"}
      BY <1>g, <1>t, <2>2 DEF GoesOn, KeepOn, Proceed, GoOn, Refuse, Answers, Unanswered, Early
    <3> QED
      BY <2>2, <3>1, <3>2 DEF Unanswered, Truth, Open
  <2> QED
    BY <2>1, <2>2
<1>1. ASSUME NEW r \in Requests, NEW w \in Asks, Authenticate(r, w)
      PROVE  Unanswered(q)' /\ Truth(q)'
  BY <1>1, <1>g, AuthenticateGoesOn
<1>2. ASSUME NEW r \in Requests, Checks(r) PROVE Unanswered(q)' /\ Truth(q)'
  <2>1. GoesOn(r) /\ ask' = [ask EXCEPT ![r] = ask[r]] /\ pc[r] \in Early
    BY <1>2, <1>t, ChecksGoOn, ChecksShape
  <2> QED
    BY <1>g, <2>1
<1>3. ASSUME NEW r \in Requests, Writes(r) PROVE Unanswered(q)' /\ Truth(q)'
  <2>0. pc[r] = "checked" /\ UNCHANGED ask /\ ~HasRecord(r) /\ status[r] = ""
    BY <1>3, WritesShape, EarlyUnrecorded DEF Early, AnswersInv, Unanswered
  <2>1. CASE Fails(r)
    <3>1. /\ UNCHANGED <<rows, log, ask, goal, during>> /\ pc'[r] = "answered" /\ status'[r] = "500"
          /\ q # r => pc'[q] = pc[q] /\ status'[q] = status[q]
          /\ HasRecord(q)' <=> HasRecord(q)
      BY <1>t, <2>1 DEF Fails, Refuse, Answers, HasRecord
    <3>2. CASE q # r
      BY <1>t, <3>1, <3>2, TruthKept DEF Unanswered, GoneMeanwhile, Op
    <3>3. CASE q = r
      <4>1. during[r] = {} => Op(r) = "create_organization" /\ Taken("organization", ask[r].key)
        <5> SUFFICES ASSUME during[r] = {}
                     PROVE  Op(r) = "create_organization" /\ Taken("organization", ask[r].key)
          OBVIOUS
        <5>0. Fresh(r)
          BY DEF FreshInv
        <5>1. CASE Insert(r)
          <6>1. Taken(NewRow(r).kind, NewRow(r).key) \/ Committed(r)
            BY <5>1 DEF Insert
          <6>2. ~Committed(r)
            BY <3>1, <2>0, <1>t DEF Committed, Answers
          <6> QED
            BY <2>0, <5>0, <5>1, <6>1, <6>2 DEF Fresh, Early, Insert
        <5>2. CASE Update(r)
          <6>1. rows[goal[r]].live
            BY <2>0, <5>0, <5>2 DEF Fresh, Early, Update
          <6>2. Committed(r)
            BY <5>2, <6>1 DEF Update
          <6> QED
            BY <3>1, <2>0, <1>t, <6>2 DEF Committed, Answers
        <5>3. CASE Delete(r) \/ StartSync(r)
          BY <3>1, <2>0, <1>t, <5>3 DEF Delete, StartSync, Committed, Answers
        <5> QED
          BY <1>3, <5>1, <5>2, <5>3 DEF Writes
      <4>2. Op(r)' = Op(r)
            /\ (Taken("organization", ask[r].key) => Taken("organization", ask[r].key)')
        BY <3>1 DEF Op, Taken, Live
      <4> QED
        BY <2>0, <3>1, <3>3, <4>1, <4>2 DEF Unanswered, Truth
    <3> QED
      BY <3>2, <3>3
  <2>2. CASE Committed(r) /\ ~Fails(r)
    <3>1. /\ \A p \in Requests : p # r /\ pc[p] \in Open => r \in during'[p]
          /\ Op(r) \notin Unaudited =>
                 \E e \in log' : e.request = r /\ e.op = Op(r) /\ e.row = goal[r]
          /\ pc' = [pc EXCEPT ![r] = IF Op(r) \in Refreshing THEN "committed" ELSE "answered"]
          /\ UNCHANGED <<ask, held, goal>>
      BY <2>2, CommitSeen
    <3>2. /\ status' = [status EXCEPT ![r] = IF Op(r) \in Refreshing THEN "" ELSE "ok"]
      BY <1>t, <2>0, <2>2 DEF Committed, Answers
    <3>3. CASE q # r
      <4>1. pc'[q] = pc[q] /\ status'[q] = status[q]
        BY <1>t, <3>1, <3>2, <3>3
      <4>2. HasRecord(q)' <=> HasRecord(q)
        BY <2>2, <3>3 DEF HasRecord, Committed, LogAction
      <4>3. Truth(q)'
        BY <1>t, <3>1, <4>1, <4>2, TruthKept
      <4>4. ASSUME pc[q] = "committed" PROVE rows'[goal[q]].live \/ GoneMeanwhile(q)'
        <5>1. CASE GoneMeanwhile(q)
          BY <3>1, <5>1, Grows DEF GoneMeanwhile
        <5>2. CASE rows[goal[q]].live /\ goal[q] # goal[r]
          <6>1. goal[q] \in Ids
            BY <4>4 DEF TypeInv, Open
          <6> QED
            BY <1>3, <2>2, <5>2, <6>1, WritesShape
        <5>3. CASE rows[goal[q]].live /\ goal[q] = goal[r]
          <6>1. CASE Op(r) \in Deleting
            <7>1. Op(r) \notin Unaudited
              BY <6>1 DEF Deleting, Unaudited
            <7>2. r \in during'[q]
              BY <3>1, <3>3, <4>4 DEF Open
            <7> QED
              BY <3>1, <5>3, <6>1, <7>1, <7>2 DEF GoneMeanwhile
          <6>2. CASE Op(r) \notin Deleting
            <7>1. goal[r] = r => rows'[r].live
              BY <1>3, <2>2, CommitChange
            <7>2. goal[r] # r => rows'[goal[r]].live = rows[goal[r]].live
              BY <1>3, <2>2, <6>2, CommitChange
            <7> QED
              BY <5>3, <7>1, <7>2
          <6> QED
            BY <6>1, <6>2
        <5> QED
          BY <1>t, <4>4, <5>1, <5>2, <5>3 DEF Unanswered
      <4>5. Unanswered(q)'
        BY <1>t, <3>1, <4>1, <4>2, <4>4 DEF Unanswered, Op
      <4> QED
        BY <4>3, <4>5
    <3>4. CASE q = r
      <4>1. Op(r) \notin Unaudited => HasRecord(r)'
        BY <3>1 DEF HasRecord
      <4>2. CASE Op(r) \in Refreshing
        <5>1. pc'[r] = "committed" /\ status'[r] = ""
          BY <1>t, <3>1, <3>2, <4>2
        <5>2. Op(r) \notin Unaudited \cup Deleting \cup {"start_sync"}
          BY <4>2 DEF Refreshing, Unaudited, Deleting
        <5>3. rows'[goal[r]].live
          BY <1>3, <2>2, <5>2, CommitChange
        <5> QED
          BY <3>1, <3>4, <4>1, <4>2, <5>1, <5>2, <5>3 DEF Unanswered, Truth, Op
      <4>3. CASE Op(r) \notin Refreshing
        <5>1. pc'[r] = "answered" /\ status'[r] = "ok"
          BY <1>t, <3>1, <3>2, <4>3
        <5> QED
          BY <3>1, <3>4, <4>1, <5>1 DEF Unanswered, Truth, Op
      <4> QED
        BY <4>2, <4>3
    <3> QED
      BY <3>3, <3>4
  <2> QED
    BY <1>3, <2>1, <2>2, WritesShape
<1>4. ASSUME NEW r \in Requests, Refresh(r) PROVE Unanswered(q)' /\ Truth(q)'
  <2>1. /\ UNCHANGED <<rows, log, ask, goal, during>> /\ pc[r] = "committed" /\ pc'[r] = "answered"
        /\ status'[r] = IF rows[goal[r]].live THEN "ok" ELSE "500"
        /\ q # r => pc'[q] = pc[q] /\ status'[q] = status[q]
        /\ HasRecord(q)' <=> HasRecord(q)
    BY <1>4, <1>t DEF Refresh, Answers, HasRecord
  <2>2. CASE q # r
    BY <1>t, <2>1, <2>2, TruthKept DEF Unanswered, GoneMeanwhile, Op
  <2>3. CASE q = r
    BY <1>t, <2>1, <2>3 DEF Unanswered, Truth, GoneMeanwhile
  <2> QED
    BY <2>2, <2>3
<1>5. ASSUME Restart PROVE Unanswered(q)' /\ Truth(q)'
  <2>1. /\ UNCHANGED <<rows, log, ask, goal, during>>
        /\ HasRecord(q)' <=> HasRecord(q)
        /\ \/ pc'[q] = pc[q] /\ status'[q] = status[q] /\ pc[q] \notin Open
           \/ pc'[q] = "answered" /\ status'[q] = "lost"
    BY <1>5, <1>t DEF Restart, HasRecord
  <2> QED
    BY <1>t, <2>1, TruthKept DEF Unanswered, Truth, Open
<1>6. ASSUME UNCHANGED vars PROVE Unanswered(q)' /\ Truth(q)'
  <2>1. UNCHANGED <<rows, log, ask, goal, during, pc, status>> /\ (HasRecord(q)' <=> HasRecord(q))
    BY <1>6 DEF vars, HasRecord
  <2> QED
    BY <1>t, <2>1, TruthKept DEF Unanswered, GoneMeanwhile, Op
<1> QED
  BY <1>1, <1>2, <1>3, <1>4, <1>5, <1>6 DEF Next

-----------------------------------------------------------------------------
(* A request alone. *)

\* What SerialWhenAlone says of one request.
Alone(r) ==
    (/\ pc[r] \notin {"committed", "answered"}
     /\ pc'[r] \in {"committed", "answered"}
     /\ status'[r] # "lost" /\ during[r] = {}) =>
        /\ status'[r] \in {"", "ok"} <=> Serves(ask'[r])
        /\ \A j \in Ids : rows'[j] # rows[j] => Serves(ask'[r]) /\ j = goal[r]
        /\ Serves(ask'[r]) => Done(ask'[r], goal[r], r)

\* A request that is refused without being served, and changes nothing.
LEMMA RefusedAlone ==
    ASSUME NEW r \in Requests, UNCHANGED rows, status'[r] \notin {"", "ok"}, ~Serves(ask'[r])
    PROVE  Alone(r)
BY DEF Alone

\* An UPDATE from a fresh read sets what the handler assigned.
LEMMA UpdatedAlone ==
    ASSUME TypeInv, NEW r \in Requests, pc[r] = "checked", held[r] = rows[goal[r]]
    PROVE  /\ UpdatedRow(r).one = IF Assigned(r).one = None THEN rows[goal[r]].one
                                  ELSE Assigned(r).one
           /\ UpdatedRow(r).two = IF Assigned(r).two = None THEN rows[goal[r]].two
                                  ELSE Assigned(r).two
BY UpdatedRowTyped DEF Column

\* A commit on a fresh read does what is asked.
LEMMA CommitDoes ==
    ASSUME TypeInv, ShapeInv, FreshInv, NEW r \in Requests, Writes(r), ~Fails(r),
           during[r] = {}
    PROVE  Done(ask[r], goal[r], r)
<1>0. /\ pc[r] = "checked" /\ Shape(r) /\ ask[r].op = Op(r)
      /\ \A j \in Ids \ {goal[r]} : rows'[j] = rows[j]
  BY WritesShape DEF ShapeInv, Op
<1>1. /\ ask[r] \in Asks /\ goal[r] \in Ids /\ rows \in [Ids -> Row] /\ Op(r) \in Ops
  BY <1>0, AskTyped DEF TypeInv, Open, Op
<1>2. goal[r] # r => held[r] = rows[goal[r]] /\ rows[goal[r]].live
  BY <1>0 DEF FreshInv, Fresh, Early
<1>3. CASE goal[r] = r
  <2>1. /\ rows[r] = NoRow /\ rows'[r] = NewRow(r) /\ NewRow(r).live /\ Op(r) \in Creating
    BY <1>3, CommitChange
  <2>2. Op(r) = "upsert_connection" => NewRow(r).one = ask[r].one /\ NewRow(r).two = ask[r].two
    BY DEF NewRow, Op
  <2>3. ~rows[goal[r]].live /\ rows'[goal[r]].live
    BY <1>3, <2>1 DEF NoRow
  <2>4. Op(r) = "upsert_connection" =>
            rows'[goal[r]].one = ask[r].one /\ rows'[goal[r]].two = ask[r].two
    BY <1>3, <2>1, <2>2
  <2> QED
    BY <1>0, <2>1, <2>3, <2>4 DEF Done, Creating, Deleting
<1>4. CASE goal[r] # r /\ Op(r) \in Deleting
  <2>1. rows[goal[r]].live /\ ~rows'[goal[r]].live
    BY <1>2, <1>4, CommitChange
  <2> QED
    BY <1>0, <1>4, <2>1 DEF Done, Creating, Deleting
<1>5. CASE goal[r] # r /\ Op(r) = "start_sync"
  <2>1. rows' = rows
    BY <1>0, <1>5 DEF Writes, Insert, Update, Delete, StartSync, Deleting
  <2> QED
    BY <1>0, <1>5, <2>1 DEF Done, Creating, Deleting
<1>6. CASE goal[r] # r /\ Op(r) \notin Deleting \cup {"start_sync"}
  <2>1. /\ rows'[goal[r]] = UpdatedRow(r) /\ held[r] = rows[goal[r]]
        /\ rows[goal[r]].kind \in KindsOf(Op(r))
    BY <1>2, <1>6, CommitChange
  <2>2. /\ rows'[goal[r]].one = IF Assigned(r).one = None THEN rows[goal[r]].one
                                ELSE Assigned(r).one
        /\ rows'[goal[r]].two = IF Assigned(r).two = None THEN rows[goal[r]].two
                                ELSE Assigned(r).two
    BY <1>0, <2>1, UpdatedAlone
  <2>3. Op(r) \in {"reset_admin_password", "reset_user_password", "change_own_password",
                   "revoke_token", "upsert_connection", "update_organization", "login"}
    BY <1>1, <1>6, <2>1 DEF KindsOf, Ops, AdminOps, Deleting
  <2>4. CASE Op(r) \in {"reset_admin_password", "reset_user_password",
                        "change_own_password", "revoke_token"}
    <3>1. rows'[goal[r]].one = r
      BY <2>2, <2>4, IdsTyped DEF Assigned
    <3>2. Op(r) = "revoke_token" => rows[goal[r]].one = None
      BY <1>0, <2>1 DEF Shape
    <3> QED
      BY <1>0, <2>4, <3>1, <3>2 DEF Done, Creating, Deleting
  <2>5. CASE Op(r) = "upsert_connection"
    <3>1. ask[r].one # None /\ ask[r].two # None
      BY <1>0, <1>1, <2>5, AdministrationAssumption
    <3>2. rows'[goal[r]].one = ask[r].one /\ rows'[goal[r]].two = ask[r].two
      BY <2>2, <2>5, <3>1 DEF Assigned
    <3> QED
      BY <1>0, <2>5, <3>2 DEF Done, Creating, Deleting
  <2>6. CASE Op(r) = "update_organization"
    <3>1. /\ ask[r].one # None => rows'[goal[r]].one = ask[r].one
          /\ ask[r].two # None => rows'[goal[r]].two = ask[r].two
      BY <2>2, <2>6 DEF Assigned
    <3> QED
      BY <1>0, <2>6, <3>1 DEF Done, Creating, Deleting
  <2>7. CASE Op(r) = "login"
    <3>1. Assigned(r) = [one |-> None, two |-> None]
      BY <2>7 DEF Assigned
    <3>2. Assigned(r).one = None /\ Assigned(r).two = None
      BY <3>1
    <3>3. rows' = [rows EXCEPT ![goal[r]] = UpdatedRow(r)]
      BY <1>0, <1>6, <2>7 DEF Writes, Insert, Update, Delete, StartSync, Fails
    <3>4. rows[goal[r]] \in Row
      BY <1>1
    <3>5. UpdatedRow(r) = rows[goal[r]]
      BY <3>2, <3>4 DEF UpdatedRow, Column, Row
    <3>6. rows' = rows
      BY <1>1, <3>3, <3>5
    <3> QED
      BY <1>0, <2>7, <3>6 DEF Done, Creating, Deleting
  <2> QED
    BY <2>3, <2>4, <2>5, <2>6, <2>7
<1> QED
  BY <1>3, <1>4, <1>5, <1>6

LEMMA CommitAlone ==
    ASSUME TypeInv, ShapeInv, FreshInv, AnswersInv,
           NEW r \in Requests, Writes(r), ~Fails(r), during[r] = {}
    PROVE  Alone(r)
<1>0. /\ pc[r] = "checked" /\ UNCHANGED ask /\ Committed(r)
      /\ \A j \in Ids \ {goal[r]} : rows'[j] = rows[j]
  BY WritesShape
<1>1. status \in [Requests -> Statuses] /\ status[r] = ""
  BY <1>0 DEF TypeInv, Open, AnswersInv, Unanswered
<1>2. status'[r] \in {"", "ok"}
  BY <1>0, <1>1 DEF Committed, Answers
<1>3. Serves(ask[r]) \/ (/\ Op(r) = "create_organization" /\ goal[r] = r
                         /\ Taken("organization", ask[r].key))
  BY <1>0 DEF FreshInv, Fresh, Early
<1>4. Serves(ask[r])
  <2> SUFFICES ASSUME Op(r) = "create_organization", goal[r] = r,
                      Taken("organization", ask[r].key)
               PROVE  FALSE
    BY <1>3
  <2>1. ~Taken(NewRow(r).kind, NewRow(r).key)
    BY CommitChange
  <2>2. NewRow(r).kind = "organization" /\ NewRow(r).key = ask[r].key
    BY DEF NewRow, Op
  <2> QED
    BY <2>1, <2>2
<1>5. Done(ask[r], goal[r], r)
  BY CommitDoes
<1>6. \A j \in Ids : rows'[j] # rows[j] => j = goal[r]
  BY <1>0
<1>7. ask'[r] = ask[r]
  BY <1>0
<1> QED
  BY <1>2, <1>4, <1>5, <1>6, <1>7 DEF Alone

LEMMA SerialStep ==
    ASSUME TypeInv, ShapeInv, KeysInv, FreshInv, AnswersInv, [Next]_vars, NEW r \in Requests
    PROVE  Alone(r)
<1> SUFFICES ASSUME pc[r] \notin {"committed", "answered"},
                    pc'[r] \in {"committed", "answered"},
                    status'[r] # "lost", during[r] = {}
             PROVE  Alone(r)
  BY DEF Alone
<1>t. /\ pc \in [Requests -> Open \cup {"free", "answered"}]
      /\ status \in [Requests -> Statuses] /\ status[r] = ""
  BY DEF TypeInv, AnswersInv, Unanswered
<1>g. ASSUME NEW q \in Requests, GoesOn(q)
      PROVE  /\ q = r /\ pc'[r] = "answered" /\ UNCHANGED rows
             /\ status'[r] \in {"400", "401", "403", "404", "409"}
  <2>1. ASSUME NEW p \in Open \ {"committed"}, NEW i \in Ids, KeepOn(q, p, i) \/ Proceed(q, p, i)
        PROVE  FALSE
    <3>1. pc' = [pc EXCEPT ![q] = p] /\ p \notin {"committed", "answered"}
      BY <2>1 DEF KeepOn, Proceed, GoOn, Open
    <3> QED
      BY <1>t, <3>1
  <2>2. PICK s \in {"400", "401", "403", "404", "409"} : Refuse(q, s)
    BY <1>g, <2>1 DEF GoesOn
  <2>3. /\ pc' = [pc EXCEPT ![q] = "answered"] /\ status' = [status EXCEPT ![q] = s]
        /\ UNCHANGED rows
    BY <2>2 DEF Refuse, Answers
  <2>4. q = r
    BY <1>t, <2>3
  <2> QED
    BY <1>t, <2>3, <2>4
<1>1. ASSUME NEW q \in Requests, NEW w \in Asks, Authenticate(q, w) PROVE Alone(r)
  <2>1. /\ q = r /\ pc'[r] = "answered" /\ UNCHANGED rows
        /\ status'[r] \notin {"", "ok"}
    BY <1>1, <1>g, AuthenticateGoesOn
  <2>2. ~Serves(w)
    BY <1>1, <2>1, AuthenticateFresh
  <2>3. ask' = [ask EXCEPT ![q] = w]
    BY <1>1, AuthenticateGoesOn
  <2>4. ask'[r] = w
    BY <2>1, <2>3 DEF TypeInv
  <2>5. ~Serves(ask'[r])
    BY <2>2, <2>4
  <2> QED
    BY <2>1, <2>5, RefusedAlone
<1>2. ASSUME NEW q \in Requests, Checks(q) PROVE Alone(r)
  <2>1. /\ q = r /\ pc'[r] = "answered" /\ UNCHANGED <<rows, ask>>
        /\ status'[r] \notin {"", "ok"}
    BY <1>2, <1>g, ChecksGoOn
  <2>2. ~Serves(ask[r])
    BY <1>2, <2>1, ChecksFresh DEF FreshInv
  <2>3. ~Serves(ask'[r])
    BY <2>1, <2>2
  <2> QED
    BY <2>1, <2>3, RefusedAlone
<1>3. ASSUME NEW q \in Requests, Writes(q) PROVE Alone(r)
  <2>0. pc[q] = "checked" /\ UNCHANGED ask
    BY <1>3, WritesShape
  <2>1. CASE Fails(q)
    <3>1. q = r /\ status'[r] = "500" /\ UNCHANGED <<rows, ask>>
      BY <1>t, <2>1 DEF Fails, Refuse, Answers
    <3>0. Fresh(r) /\ pc[r] = "checked" /\ pc'[r] = "answered"
      BY <2>0, <2>1, <3>1, <1>t DEF FreshInv, Fails, Refuse, Answers
    <3>n. ~Committed(r)
      BY <3>1, <1>t DEF Committed, Answers
    <3>2. CASE Insert(r)
      <4>1. Taken(NewRow(r).kind, NewRow(r).key) /\ goal[r] = r
        BY <3>n, <3>2 DEF Insert
      <4>2. Op(r) = "create_organization" /\ Taken("organization", ask[r].key)
        BY <3>0, <4>1 DEF Fresh, Early
      <4>3. ~Serves(ask'[r])
        BY <3>1, <4>2 DEF Serves, Op
      <4> QED
        BY <3>1, <4>3, RefusedAlone
    <3>3. CASE Update(r)
      BY <3>0, <3>n, <3>3 DEF Update, Fresh, Early
    <3> QED
      BY <1>3, <3>1, <3>n, <3>2, <3>3 DEF Writes, Delete, StartSync
  <2>2. CASE ~Fails(q)
    <3>0. Committed(q)
      BY <1>3, <2>2, WritesShape
    <3>c. pc' = [pc EXCEPT ![q] = IF Op(q) \in Refreshing THEN "committed" ELSE "answered"]
      BY <3>0, CommitSeen
    <3>1. q = r
      BY <1>t, <3>c
    <3> QED
      BY <1>3, <2>2, <3>1, CommitAlone
  <2> QED
    BY <2>1, <2>2
<1>4. ASSUME NEW q \in Requests, Refresh(q) PROVE Alone(r)
  BY <1>4, <1>t DEF Refresh, Answers
<1>5. ASSUME Restart PROVE Alone(r)
  BY <1>5, <1>t DEF Restart
<1>6. ASSUME UNCHANGED vars PROVE Alone(r)
  BY <1>6 DEF vars
<1> QED
  BY <1>1, <1>2, <1>3, <1>4, <1>5, <1>6 DEF Next

-----------------------------------------------------------------------------
(* The theorems. *)

AdministrationInv ==
    TypeInv /\ ShapeInv /\ KeysInv /\ FreshInv /\ AdminInv /\ LogTellsTheRows /\ AnswersInv

LEMMA AdministrationInit == Init => AdministrationInv
<1> SUFFICES ASSUME Init PROVE AdministrationInv
  OBVIOUS
<1>1. TypeInv
  BY InitTyped
<1>2. /\ log = {} /\ \A r \in Requests : pc[r] = "free" /\ status[r] = "" /\ rows[r] = NoRow
      /\ \A i \in Ids \ Requests : rows[i] = FirstRows[i] /\ i \in DOMAIN FirstRows
  BY IdsTyped DEF Init, Ids
<1>3. ShapeInv /\ FreshInv /\ AnswersInv
  BY <1>2 DEF ShapeInv, LogShape, NoRowYet, Shape, FreshInv, Fresh, Early, AnswersInv,
     Unanswered, Truth
<1>4. KeysInv
  <2>1. /\ \A i, j \in DOMAIN FirstRows : SameKey(FirstRows[i], FirstRows[j]) => i = j
        /\ \A i \in DOMAIN FirstRows : FirstRows[i].kind = "token" => FirstRows[i].key \notin Requests
    BY AdministrationAssumption
  <2>0. ~NoRow.live /\ NoRow.kind = "none"
    BY DEF NoRow
  <2>2. \A r \in Requests : ~rows[r].live /\ rows[r].kind = "none"
    BY <1>2, <2>0
  <2>3. ASSUME NEW i \in Ids, NEW j \in Ids, SameKey(rows[i], rows[j]) PROVE i = j
    <3>1. i \notin Requests /\ j \notin Requests
      BY <2>2, <2>3 DEF SameKey
    <3> QED
      BY <1>2, <2>1, <2>3, <3>1
  <2>4. TokenKeys
    BY <1>2, <2>1, <2>2 DEF TokenKeys
  <2> QED
    BY <2>3, <2>4 DEF KeysInv, UniqueKeys
<1>5. LogTellsTheRows
  <2>1. \A ops, i : ~Recorded(ops, i)
    BY <1>2 DEF Recorded
  <2>2. \A r \in Requests : ~rows[r].live /\ rows[r].kind = "none" /\ r \notin DOMAIN FirstRows
    <3>1. ~NoRow.live /\ NoRow.kind = "none"
      BY DEF NoRow
    <3> QED
      BY <1>2, <3>1, IdsTyped
  <2>3. \A i \in DOMAIN FirstRows : i \in Ids /\ rows[i] = FirstRows[i] /\ FirstRows[i] \in Row
    BY <1>2, <2>2, AdministrationAssumption DEF Ids
  <2>4. \A i \in Ids : i \in Requests \/ i \in DOMAIN FirstRows
    BY DEF Ids
  <2>5. ASSUME NEW i \in Ids, i \in DOMAIN FirstRows
        PROVE  /\ rows[i].live <=> WasLive(i)
               /\ (rows[i].kind = "token" /\ rows[i].one # None) <=>
                      (FirstRows[i].kind = "token" /\ FirstRows[i].one # None)
    BY <2>3, <2>5 DEF WasLive, Row
  <2>6. \A i \in Requests : ~WasLive(i)
    BY <2>2 DEF WasLive
  <2> QED
    BY <2>1, <2>2, <2>4, <2>5, <2>6 DEF LogTellsTheRows
<1>6. AdminInv
  BY <1>2, IdsTyped DEF AdminInv, AdminRemains, Counted, WasLive, Live, Ids
<1> QED
  BY <1>1, <1>3, <1>4, <1>5, <1>6 DEF AdministrationInv

LEMMA AdministrationStep == AdministrationInv /\ [Next]_vars => AdministrationInv'
BY TypeStep, ShapeStep, KeysStep, FreshStep, AdminStep, LogStep, AnswersStep
   DEF AdministrationInv

\* The inductive invariant.
THEOREM AdministrationInvariant == Spec => []AdministrationInv
BY AdministrationInit, AdministrationStep, PTL DEF Spec

\* The tables stay well-formed and their keys unique.
THEOREM AdministrationTyped == Spec => []AdministrationTypeOK
<1>1. AdministrationInv => AdministrationTypeOK
  BY DEF AdministrationInv, TypeInv, KeysInv, UniqueKeys, AdministrationTypeOK
<1> QED
  BY <1>1, AdministrationInvariant, PTL

\* The last administrator goes only by deletions that overlap.
THEOREM AdminsRemain == Spec => []AdminRemains
<1>1. AdministrationInv => AdminRemains
  BY DEF AdministrationInv, AdminInv
<1> QED
  BY <1>1, AdministrationInvariant, PTL

\* The audit log tells which rows there are and which tokens are revoked.
THEOREM LogIsComplete == Spec => []LogTellsTheRows
<1>1. AdministrationInv => LogTellsTheRows
  BY DEF AdministrationInv
<1> QED
  BY <1>1, AdministrationInvariant, PTL

\* An answer says what happened, and an error has a cause.
THEOREM AnswersAreTrue == Spec => []AnswersTellTheTruth
<1>1. AdministrationInv => AnswersTellTheTruth
  BY TruthTold DEF AdministrationInv, AnswersInv
<1> QED
  BY <1>1, AdministrationInvariant, PTL

\* A request that no commit fell into is served as if it were alone.
THEOREM AloneIsSerial == Spec => SerialWhenAlone
<1>1. AdministrationInv /\ [Next]_vars => [\A r \in Requests : Alone(r)]_vars
  BY SerialStep DEF AdministrationInv
<1>2. Spec => [][\A r \in Requests : Alone(r)]_vars
  BY <1>1, AdministrationInvariant, PTL DEF Spec
<1> QED
  BY <1>2 DEF SerialWhenAlone, Alone
=============================================================================
