--------------------------- MODULE Administration ---------------------------
(***************************************************************************)
(* The management API: administrators, users, API tokens, organisations    *)
(* and Odoo connections (backend/app/api/v1/{admins,users,tokens,          *)
(* organizations,auth,me_odoo,organizations_odoo}.py, deps.py,             *)
(* services/odoo_connection_service.py:81-202 and services/audit.py).      *)
(*                                                                         *)
(* Every request has a database session of its own under READ COMMITTED    *)
(* and awaits between its statements, so that the reads of one request     *)
(* interleave with the commits of others.  A request is authenticated,     *)
(* makes its checks, commits its row together with its audit record and,   *)
(* for some operations, reads the row once more to answer with it.  The    *)
(* flush and the commit are one step: the row lock or the unique index     *)
(* makes a second writer wait between the two, and before the commit       *)
(* nobody sees the flush.                                                  *)
(*                                                                         *)
(* All tables are one function `rows'.  A row keeps its kind when it is    *)
(* deleted (live = FALSE): it is the role a JWT of the account still       *)
(* claims.  Columns:  administrator and user: key = e-mail address, one =  *)
(* password, two = organisation;  token: key = its hash, one = None or     *)
(* its revocation, two = organisation;  organisation: key = KBO, one =     *)
(* name, two = street;  connection: key = organisation, one = URL, two =   *)
(* database.                                                               *)
(***************************************************************************)
EXTENDS Integers, FiniteSets

CONSTANTS
    Requests,       \* requests; each is made once and names the row it inserts
    FirstRows,      \* the rows of the database at the start
    Asks,           \* what a request may ask for
    Together,       \* bound: sets of operations asked together
    Values,         \* what a column may hold: addresses, passwords, ids, ...
    None            \* an absent field

Ids == DOMAIN FirstRows \cup Requests

Kinds == {"admin", "user", "token", "organization", "connection"}

Row == [kind : Kinds \cup {"none"}, key : Values, one : Values, two : Values,
        live : BOOLEAN]

NoRow == [kind |-> "none", key |-> None, one |-> None, two |-> None,
          live |-> FALSE]

\* Routes behind get_current_admin; the other authenticated operations have a
\* route for users too, and login needs no token.
AdminOps == {"create_admin", "delete_admin", "reset_admin_password",
             "create_user", "delete_user", "reset_user_password",
             "create_token", "revoke_token",
             "create_organization", "update_organization"}

Ops == AdminOps \cup {"upsert_connection", "delete_connection", "start_sync",
                      "change_own_password", "login"}

Ask == [op : Ops, actor : Ids \cup {None}, target : Ids \cup {None}, key : Values,
        one : Values, two : Values, valid : BOOLEAN]

\* What a unique index forbids of two rows.
SameKey(a, b) == a.live /\ b.live /\ a.kind = b.kind /\ a.key = b.key

ASSUME AdministrationAssumption ==
    /\ IsFiniteSet(Requests) /\ IsFiniteSet(DOMAIN FirstRows)
    /\ FirstRows \in [DOMAIN FirstRows -> Row]
    /\ DOMAIN FirstRows \cap Requests = {} /\ None \notin Ids
    /\ \A i, j \in DOMAIN FirstRows :
           /\ FirstRows[i].kind # "none"
           /\ SameKey(FirstRows[i], FirstRows[j]) => i = j
           /\ FirstRows[i].kind = "token" => FirstRows[i].key \notin Requests
    /\ Asks \subseteq Ask
    /\ \A w \in Asks : w.op = "upsert_connection" => w.one # None /\ w.two # None
    /\ Ids \cup {None} \subseteq Values

VARIABLES
    rows,      \* the tables
    log,       \* audit_log, a set: a request writes at most one record
    pc,        \* where a request is
    ask,       \* what it asks for
    held,      \* the object its session holds: the principal, later the target
    goal,      \* whose row that object is
    status,    \* the answer it got
    during     \* history: the requests that committed while it was open

vars == <<rows, log, pc, ask, held, goal, status, during>>

Open == {"authenticated", "counted", "notAdmin", "checked", "committed"}

Statuses == {"", "ok", "lost", "400", "401", "403", "404", "409", "500"}

Live(kind) == {i \in Ids : rows[i].kind = kind /\ rows[i].live}

Exists(kind, i) == i \in Live(kind)

Taken(kind, key) == \E i \in Live(kind) : rows[i].key = key

Op(r) == ask[r].op

Init ==
    /\ rows = [i \in Ids |-> IF i \in Requests THEN NoRow ELSE FirstRows[i]]
    /\ log = {}
    /\ pc = [r \in Requests |-> "free"]
    /\ ask = [r \in Requests |-> None]
    /\ held = [r \in Requests |-> NoRow]
    /\ goal = [r \in Requests |-> None]
    /\ status = [r \in Requests |-> ""]
    /\ during = [r \in Requests |-> {}]

-----------------------------------------------------------------------------
(* Steps that the handlers share. *)

Answers(r, s) ==
    /\ pc' = [pc EXCEPT ![r] = "answered"]
    /\ status' = [status EXCEPT ![r] = s]

\* A refusal: the session closes without a commit.
Refuse(r, s) ==
    /\ Answers(r, s)
    /\ UNCHANGED <<rows, log, held, goal, during>>

\* The checks hold: the request goes on to place p with row i ...
GoOn(r, p, i) ==
    /\ pc' = [pc EXCEPT ![r] = p]
    /\ goal' = [goal EXCEPT ![r] = i]
    /\ UNCHANGED <<rows, log, status, during>>

\* ... which it has read, or with what it held before.
Proceed(r, p, i) == GoOn(r, p, i) /\ held' = [held EXCEPT ![r] = rows[i]]

KeepOn(r, p, i) == GoOn(r, p, i) /\ UNCHANGED held

\* The commit of r falls within every request that is open.
SeenByOthers(r) ==
    during' = [q \in Requests |->
                   IF q # r /\ pc[q] \in Open THEN during[q] \cup {r}
                   ELSE during[q]]

\* log_action (services/audit.py:36-46): the record is added to the caller's
\* session and is committed with the row.
LogAction(r) ==
    log' = log \cup {[request |-> r, actor |-> ask[r].actor, op |-> Op(r),
                      row |-> goal[r]]}

\* A row a request may name: one that was ever there, or none at all.
Nameable == {None} \cup {i \in Ids : rows[i].kind # "none"}

\* The accounts that a JWT was ever made for.
Accounts == {i \in Ids : rows[i].kind \in {"admin", "user"}}

\* A request arrives; get_current_admin, get_current_user or
\* get_current_principal reads its account (deps.py:37-93).
Authenticate(r, w) ==
    /\ pc[r] = "free"
    /\ w.op # "login" => w.actor \in Accounts
    /\ w.target \in Nameable
    /\ \E ops \in Together :
           {w.op} \cup {Op(q) : q \in {q \in Requests : pc[q] # "free"}} \subseteq ops
    /\ ask' = [ask EXCEPT ![r] = w]
    /\ IF w.op = "login" THEN KeepOn(r, "authenticated", r)
       ELSE IF w.op \in AdminOps /\ rows[w.actor].kind # "admin" THEN Refuse(r, "403")
       ELSE IF rows[w.actor].live THEN Proceed(r, "authenticated", w.actor)
       ELSE Refuse(r, "401")

Asked(r, op, p) == pc[r] = p /\ Op(r) = op

-----------------------------------------------------------------------------
(* What each handler checks before it writes. *)

CreateAdmin(r) ==
    /\ Asked(r, "create_admin", "authenticated")
    /\ IF Taken("admin", ask[r].key) THEN Refuse(r, "409")
       ELSE KeepOn(r, "checked", r)

\* Mutant: neither the caller nor the number of administrators is looked at.
DeleteAnyAdmin(r) ==
    /\ Asked(r, "delete_admin", "authenticated")
    /\ KeepOn(r, "counted", goal[r])

\* delete_admin compares the ids, counts the administrators (admins.py:62-73)
\* and, in a statement of its own, reads the one to delete (75-77).
CountAdmins(r) ==
    /\ Asked(r, "delete_admin", "authenticated")
    /\ IF ask[r].target = ask[r].actor \/ Cardinality(Live("admin")) <= 1
       THEN Refuse(r, "400")
       ELSE KeepOn(r, "counted", goal[r])

DeleteAdmin(r) ==
    /\ Asked(r, "delete_admin", "counted")
    /\ IF Exists("admin", ask[r].target) THEN Proceed(r, "checked", ask[r].target)
       ELSE Refuse(r, "404")

\* The row of the caller is in the session already and is not read again.
ResetAdminPassword(r) ==
    /\ Asked(r, "reset_admin_password", "authenticated")
    /\ IF ask[r].target = ask[r].actor
       THEN KeepOn(r, "checked", goal[r])
       ELSE IF Exists("admin", ask[r].target)
            THEN Proceed(r, "checked", ask[r].target)
            ELSE Refuse(r, "404")

\* Mutant: the unique index has to tell that an address is taken.
CreateUserUnchecked(r) ==
    /\ Asked(r, "create_user", "authenticated")
    /\ IF Exists("organization", ask[r].target) THEN KeepOn(r, "checked", r)
       ELSE Refuse(r, "404")

CreateUser(r) ==
    /\ Asked(r, "create_user", "authenticated")
    /\ IF ~Exists("organization", ask[r].target) THEN Refuse(r, "404")
       ELSE IF Taken("user", ask[r].key) THEN Refuse(r, "409")
       ELSE KeepOn(r, "checked", r)

DeleteUser(r) ==
    /\ Asked(r, "delete_user", "authenticated")
    /\ IF Exists("user", ask[r].target) THEN Proceed(r, "checked", ask[r].target)
       ELSE Refuse(r, "404")

ResetUserPassword(r) ==
    /\ Asked(r, "reset_user_password", "authenticated")
    /\ IF Exists("user", ask[r].target) THEN Proceed(r, "checked", ask[r].target)
       ELSE Refuse(r, "404")

CreateToken(r) ==
    /\ Asked(r, "create_token", "authenticated")
    /\ IF Exists("organization", ask[r].target) THEN KeepOn(r, "checked", r)
       ELSE Refuse(r, "404")

\* Mutant: a token that is revoked already is revoked again.
RevokeAgain(r) ==
    /\ Asked(r, "revoke_token", "authenticated")
    /\ LET t == ask[r].target IN
       IF Exists("token", t) /\ rows[t].two = ask[r].two
       THEN Proceed(r, "checked", t)
       ELSE Refuse(r, "404")

\* ask.two is the organisation in the path.
RevokeToken(r) ==
    /\ Asked(r, "revoke_token", "authenticated")
    /\ LET t == ask[r].target IN
       IF \/ ~Exists("organization", ask[r].two)
          \/ ~Exists("token", t)
          \/ rows[t].two # ask[r].two
       THEN Refuse(r, "404")
       ELSE IF rows[t].one # None THEN Refuse(r, "409")
       ELSE Proceed(r, "checked", t)

\* The number is not looked up: the unique index is the only check.
CreateOrganization(r) ==
    /\ Asked(r, "create_organization", "authenticated")
    /\ KeepOn(r, "checked", r)

UpdateOrganization(r) ==
    /\ Asked(r, "update_organization", "authenticated")
    /\ IF Exists("organization", ask[r].target)
       THEN Proceed(r, "checked", ask[r].target)
       ELSE Refuse(r, "404")

\* The organisation whose connection is meant: that of the user, or the one in
\* the administrator's path.
OrgOf(r) == IF held[r].kind = "user" THEN held[r].two ELSE ask[r].target

ConnectionOf(r) == {i \in Live("connection") : rows[i].key = OrgOf(r)}

\* valid: the body holds an API key.
UpsertConnection(r) ==
    /\ Asked(r, "upsert_connection", "authenticated")
    /\ IF ~Exists("organization", OrgOf(r)) THEN Refuse(r, "404")
       ELSE \/ \E c \in ConnectionOf(r) : Proceed(r, "checked", c)
            \/ /\ ConnectionOf(r) = {}
               /\ IF ask[r].valid THEN KeepOn(r, "checked", r)
                  ELSE Refuse(r, "400")

\* delete_connection, start_bootstrap and start_resync.
FindConnection(r) ==
    /\ pc[r] = "authenticated" /\ Op(r) \in {"delete_connection", "start_sync"}
    /\ \/ ConnectionOf(r) = {} /\ Refuse(r, "404")
       \/ \E c \in ConnectionOf(r) : Proceed(r, "checked", c)

\* The password hash is the one read with the account; valid: the new password
\* is long enough.
ChangeOwnPassword(r) ==
    /\ Asked(r, "change_own_password", "authenticated")
    /\ IF ask[r].one # held[r].one \/ ~ask[r].valid THEN Refuse(r, "400")
       ELSE KeepOn(r, "checked", goal[r])

\* The account of this kind with the address and the password of the body.
Matching(kind, r) ==
    {i \in Live(kind) : rows[i].key = ask[r].key /\ rows[i].one = ask[r].one}

LoginAsAdmin(r) ==
    /\ Asked(r, "login", "authenticated")
    /\ \/ \E i \in Matching("admin", r) : Proceed(r, "checked", i)
       \/ Matching("admin", r) = {} /\ KeepOn(r, "notAdmin", r)

LoginAsUser(r) ==
    /\ Asked(r, "login", "notAdmin")
    /\ \/ \E i \in Matching("user", r) : Proceed(r, "checked", i)
       \/ Matching("user", r) = {} /\ Refuse(r, "401")

-----------------------------------------------------------------------------
(* The commit, and what follows it. *)

\* The row that a create operation inserts; the first password, and the hash of
\* a token, are new values.
NewRow(r) ==
    LET row(kind, key, one, two) == [kind |-> kind, key |-> key, one |-> one,
                                     two |-> two, live |-> TRUE]
        w == ask[r]
    IN  CASE w.op = "create_admin"        -> row("admin", w.key, r, None)
          [] w.op = "create_user"         -> row("user", w.key, r, w.target)
          [] w.op = "create_token"        -> row("token", r, None, w.target)
          [] w.op = "create_organization" -> row("organization", w.key, w.one, w.two)
          [] OTHER                        -> row("connection", OrgOf(r), w.one, w.two)

\* The columns a handler assigns; None leaves a column alone.
Assigned(r) ==
    CASE Op(r) \in {"reset_admin_password", "reset_user_password",
                    "change_own_password", "revoke_token"} -> [one |-> r, two |-> None]
      [] Op(r) \in {"update_organization", "upsert_connection"} ->
             [one |-> ask[r].one, two |-> ask[r].two]
      [] OTHER -> [one |-> None, two |-> None]

\* The UPDATE names only the columns whose value differs from the one held.
Column(new, old, now) == IF new \in {None, old} THEN now ELSE new

UpdatedRow(r) ==
    LET now == rows[goal[r]] IN
    [now EXCEPT !.one = Column(Assigned(r).one, held[r].one, @),
                !.two = Column(Assigned(r).two, held[r].two, @)]

\* Operations that read the row again after the commit (db.refresh).
Refreshing == {"create_admin", "create_user", "create_token",
               "create_organization", "update_organization", "upsert_connection"}

Unaudited == {"change_own_password", "login"}

Committed(r) ==
    /\ SeenByOthers(r)
    /\ IF Op(r) \in Unaudited THEN UNCHANGED log ELSE LogAction(r)
    /\ IF Op(r) \in Refreshing
       THEN pc' = [pc EXCEPT ![r] = "committed"] /\ UNCHANGED status
       ELSE Answers(r, "ok")
    /\ UNCHANGED <<ask, held, goal>>

Fails(r) == Refuse(r, "500") /\ UNCHANGED ask

\* Mutant: a table without its unique index.
InsertUnindexed(r) ==
    /\ pc[r] = "checked" /\ goal[r] = r
    /\ rows' = [rows EXCEPT ![r] = NewRow(r)] /\ Committed(r)

\* An INSERT; a unique index refuses an address, a KBO number or a second
\* connection that was committed meanwhile.
Insert(r) ==
    /\ pc[r] = "checked" /\ goal[r] = r
    /\ IF Taken(NewRow(r).kind, NewRow(r).key) THEN Fails(r)
       ELSE rows' = [rows EXCEPT ![r] = NewRow(r)] /\ Committed(r)

Deleting == {"delete_admin", "delete_user", "delete_connection"}

\* An UPDATE that matches no row is an error (StaleDataError).
Update(r) ==
    /\ pc[r] = "checked" /\ goal[r] # r /\ Op(r) \notin Deleting \cup {"start_sync"}
    /\ IF rows[goal[r]].live
       THEN rows' = [rows EXCEPT ![goal[r]] = UpdatedRow(r)] /\ Committed(r)
       ELSE Fails(r)

\* Mutant: the record is added after the commit and is never committed.
DeleteUnlogged(r) ==
    /\ pc[r] = "checked" /\ Op(r) \in Deleting
    /\ rows' = [rows EXCEPT ![goal[r]].live = FALSE]
    /\ Answers(r, "ok") /\ SeenByOthers(r)
    /\ UNCHANGED <<log, ask, held, goal>>

\* A DELETE that matches no row is a warning.
Delete(r) ==
    /\ pc[r] = "checked" /\ Op(r) \in Deleting
    /\ rows' = [rows EXCEPT ![goal[r]].live = FALSE]
    /\ Committed(r)

\* start_bootstrap and start_resync only write their record; the background
\* task runs after the answer.
StartSync(r) ==
    /\ pc[r] = "checked" /\ Op(r) = "start_sync"
    /\ UNCHANGED rows /\ Committed(r)

Refresh(r) ==
    /\ pc[r] = "committed"
    /\ Answers(r, IF rows[goal[r]].live THEN "ok" ELSE "500")
    /\ UNCHANGED <<rows, log, ask, held, goal, during>>

\* The server stops: open requests get no answer, open transactions are gone.
Restart ==
    /\ \E r \in Requests : pc[r] \in Open
    /\ pc' = [r \in Requests |-> IF pc[r] \in Open THEN "answered" ELSE pc[r]]
    /\ status' = [r \in Requests |-> IF pc[r] \in Open THEN "lost" ELSE status[r]]
    /\ UNCHANGED <<rows, log, ask, held, goal, during>>

Checks(r) ==
    /\ \/ CreateAdmin(r) \/ CountAdmins(r) \/ DeleteAdmin(r) \/ ResetAdminPassword(r)
       \/ CreateUser(r) \/ DeleteUser(r) \/ ResetUserPassword(r)
       \/ CreateToken(r) \/ RevokeToken(r)
       \/ CreateOrganization(r) \/ UpdateOrganization(r)
       \/ UpsertConnection(r) \/ FindConnection(r)
       \/ ChangeOwnPassword(r) \/ LoginAsAdmin(r) \/ LoginAsUser(r)
    /\ UNCHANGED ask

Writes(r) == Insert(r) \/ Update(r) \/ Delete(r) \/ StartSync(r)

Next ==
    \/ \E r \in Requests : \/ \E w \in Asks : Authenticate(r, w)
                           \/ Checks(r)
                           \/ Writes(r)
                           \/ Refresh(r)
    \/ Restart

Spec == Init /\ [][Next]_vars

-----------------------------------------------------------------------------
(* Properties. *)

\* The tables are well-formed, an open request holds an account or the row it
\* is about, and no two live rows have the same key.
AdministrationTypeOK ==
    /\ rows \in [Ids -> Row]
    /\ \A e \in log : e.request \in Requests /\ e.op \in Ops \ Unaudited
    /\ pc \in [Requests -> Open \cup {"free", "answered"}]
    /\ ask \in [Requests -> Asks \cup {None}]
    /\ held \in [Requests -> Row]
    /\ goal \in [Requests -> Ids \cup {None}]
    /\ status \in [Requests -> Statuses]
    /\ during \in [Requests -> SUBSET Requests]
    /\ \A r \in Requests :
           /\ pc[r] # "free" => ask[r] \in Asks
           /\ pc[r] \in Open => goal[r] \in Ids
    /\ \A i, j \in Ids : SameKey(rows[i], rows[j]) => i = j

\* Some record says that one of these operations was done to row i.
Recorded(ops, i) == \E e \in log : e.op \in ops /\ e.row = i

WasLive(i) == i \in DOMAIN FirstRows /\ FirstRows[i].live

Creating == {"create_admin", "create_user", "create_token", "create_organization",
             "upsert_connection"}

\* admins.py:69-73 keeps the last administrator.  That can fail in one way
\* only: a deletion that made its count before another was committed.
AdminRemains ==
    (Live("admin") = {} /\ \E i \in Ids : WasLive(i) /\ FirstRows[i].kind = "admin") =>
        \E d, e \in log : /\ d.op = "delete_admin" /\ e.op = "delete_admin"
                          /\ e.request \in during[d.request]

\* The audit log tells which rows there are and which tokens are revoked: a
\* change and its record are committed together or not at all (audit.py:20-23).
LogTellsTheRows ==
    \A i \in Ids :
        /\ rows[i].live <=> /\ WasLive(i) \/ (i \in Requests /\ Recorded(Creating, i))
                           /\ ~Recorded(Deleting, i)
        /\ (rows[i].kind = "token" /\ rows[i].one # None) <=>
               \/ Recorded({"revoke_token"}, i)
               \/ i \in DOMAIN FirstRows /\ FirstRows[i].kind = "token"
                     /\ FirstRows[i].one # None

HasRecord(r) == \E e \in log : e.request = r

\* What the caller is told is what happened.  A success was recorded, a refusal
\* was not; an error after the commit means that somebody deleted the row
\* meanwhile, and any other error needs somebody else's commit too, except for
\* a KBO number that is taken (organizations.py:32-34).
AnswersTellTheTruth ==
    \A r \in Requests : pc[r] = "answered" =>
        /\ (status[r] = "ok" /\ Op(r) \notin Unaudited) => HasRecord(r)
        /\ status[r] \in {"400", "401", "403", "404", "409"} => ~HasRecord(r)
        /\ status[r] = "500" =>
               IF HasRecord(r)
               THEN \E e \in log : /\ e.op \in Deleting /\ e.row = goal[r]
                                   /\ e.request \in during[r]
               ELSE \/ during[r] # {}
                    \/ Op(r) = "create_organization" /\ Taken("organization", ask[r].key)

\* The API as a program that serves one request after the other: when it does
\* what is asked, and what the tables are then.
Serves(w) ==
    /\ w.op # "login" => rows[w.actor].live
    /\ w.op \in AdminOps => rows[w.actor].kind = "admin"
    /\ LET org == IF w.op # "login" /\ rows[w.actor].kind = "user"
                  THEN rows[w.actor].two ELSE w.target
           connected == \E i \in Live("connection") : rows[i].key = org
       IN  \/ w.op = "create_admin" /\ ~Taken("admin", w.key)
           \/ w.op = "delete_admin" /\ Exists("admin", w.target) /\ w.target # w.actor
           \/ w.op = "reset_admin_password" /\ Exists("admin", w.target)
           \/ /\ w.op = "create_user"
              /\ Exists("organization", w.target) /\ ~Taken("user", w.key)
           \/ w.op \in {"delete_user", "reset_user_password"} /\ Exists("user", w.target)
           \/ /\ w.op \in {"create_token", "update_organization"}
              /\ Exists("organization", w.target)
           \/ /\ w.op = "revoke_token"
              /\ Exists("token", w.target) /\ rows[w.target].one = None
              /\ Exists("organization", w.two) /\ rows[w.target].two = w.two
           \/ w.op = "create_organization" /\ ~Taken("organization", w.key)
           \/ /\ w.op = "upsert_connection"
              /\ Exists("organization", org) /\ (w.valid \/ connected)
           \/ w.op \in {"delete_connection", "start_sync"} /\ connected
           \/ w.op = "change_own_password" /\ w.valid /\ rows[w.actor].one = w.one
           \/ /\ w.op = "login"
              /\ \E i \in Live("admin") \cup Live("user") :
                     rows[i].key = w.key /\ rows[i].one = w.one

\* What is asked is done: request r writes what it asks for to row i.
Done(w, i, r) ==
    /\ w.op \in Deleting => rows[i].live /\ ~rows'[i].live
    /\ w.op \in {"reset_admin_password", "reset_user_password", "change_own_password",
                 "revoke_token"} => rows'[i].one = r
    /\ w.op = "revoke_token" => rows[i].one = None
    /\ w.op = "upsert_connection" => rows'[i].one = w.one /\ rows'[i].two = w.two
    /\ w.op = "update_organization" => /\ w.one # None => rows'[i].one = w.one
                                       /\ w.two # None => rows'[i].two = w.two
    /\ w.op \in Creating \ {"upsert_connection"} => ~rows[i].live /\ rows'[i].live
    /\ w.op \in {"start_sync", "login"} => rows' = rows

\* A request that no other commit fell into is served as if it were alone: it
\* succeeds exactly when the API serves it, the row it meant is what it asked
\* for, and no other row changes.  What it read is not stale when it writes.
SerialWhenAlone ==
    [][\A r \in Requests :
           (/\ pc[r] \notin {"committed", "answered"}
            /\ pc'[r] \in {"committed", "answered"}
            /\ status'[r] # "lost" /\ during[r] = {}) =>
               /\ status'[r] \in {"", "ok"} <=> Serves(ask'[r])
               /\ \A j \in Ids : rows'[j] # rows[j] => Serves(ask'[r]) /\ j = goal[r]
               /\ Serves(ask'[r]) => Done(ask'[r], goal[r], r)]_vars
=============================================================================
