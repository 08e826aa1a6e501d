------------------------- MODULE MCAdministration -------------------------
(***************************************************************************)
(* Two administrators, a user, an organisation with a token and perhaps a  *)
(* connection, and three requests.                                         *)
(***************************************************************************)
EXTENDS Administration, TLC

CONSTANTS r1, r2, r3

MCRequests == {r1, r2, r3}

Symmetric == Permutations(MCRequests)

FR(kind, key, one, two) ==
    [kind |-> kind, key |-> key, one |-> one, two |-> two, live |-> TRUE]

MCFirstRows ==
    [a1 |-> FR("admin", "ann", "old", None),
     a2 |-> FR("admin", "bob", "old", None),
     u1 |-> FR("user", "cas", "old", "o1"),
     o1 |-> FR("organization", "kbo1", "name", "street"),
     t1 |-> FR("token", "t1", None, "o1"),
     c1 |-> FR("connection", "o1", "url", "base")]

MCValues ==
    {"ann", "bob", "cas", "dan", "kbo1", "kbo2", "old", "name", "street", "url",
     "base", "new", None} \cup DOMAIN MCFirstRows \cup MCRequests

W(op, actor, target, key, one, two, valid) ==
    [op |-> op, actor |-> actor, target |-> target, key |-> key, one |-> one,
     two |-> two, valid |-> valid]

\* An operation on one row, with nothing in its body.
On(op, actor, target) == W(op, actor, target, None, None, None, TRUE)

\* Administrators are made, delete each other, themselves or a new one, get
\* another password and log in.
AdminAsks ==
    {W("create_admin", "a1", None, k, None, None, TRUE) : k \in {"bob", "dan"}}
    \cup {On("delete_admin", "a1", i) : i \in {"a1", "a2"} \cup MCRequests}
    \cup {On("delete_admin", a, "a1") : a \in {"a2"} \cup MCRequests}
    \cup {On("reset_admin_password", "a1", i) : i \in {"a1", "a2"} \cup MCRequests}
    \cup {W("change_own_password", "a1", None, None, "old", None, v) : v \in BOOLEAN}
    \cup {W("login", None, None, "ann", p, None, TRUE) : p \in {"old", "new"}}

UserAsks ==
    {W("create_user", "a1", o, "dan", None, None, TRUE) : o \in {"o1", None}}
    \cup {W("create_user", "a1", "o1", "cas", None, None, TRUE)}
    \cup {On(op, "a1", i) : op \in {"delete_user", "reset_user_password"},
                            i \in {"u1"} \cup MCRequests}
    \cup {W("change_own_password", "u1", None, None, p, None, TRUE) : p \in {"old", "new"}}
    \cup {W("login", None, None, "cas", "old", None, TRUE)}
    \cup {On("delete_user", "u1", "u1")}

OrganizationAsks ==
    {On("create_token", "a1", o) : o \in {"o1", None}}
    \cup {W("revoke_token", "a1", t, None, None, "o1", TRUE) : t \in {"t1"} \cup MCRequests}
    \cup {W("revoke_token", "a1", "t1", None, None, None, TRUE)}
    \cup {W("create_organization", "a1", None, k, "name", None, TRUE) : k \in {"kbo1", "kbo2"}}
    \cup {W("update_organization", "a1", "o1", None, c[1], c[2], TRUE) :
             c \in {<<"new", "street">>, <<"name", "new">>, <<None, "new">>}}

ConnectionAsks ==
    {W("upsert_connection", c[1], "o1", None, c[2], c[3], c[4]) :
         c \in {<<"a1", "new", "base", TRUE>>, <<"a1", "new", "new", FALSE>>,
                <<"u1", "url", "new", TRUE>>, <<"u1", "url", "base", FALSE>>}}
    \cup {On(op, a, "o1") : op \in {"delete_connection", "start_sync"}, a \in {"a1", "u1"}}

MCAsks == AdminAsks \cup UserAsks \cup OrganizationAsks \cup ConnectionAsks

\* Operations on different tables meet only in the account that asks; the
\* deletion of an administrator or of a user while it asks is in three mixes.
MCTogether ==
    {{w.op : w \in AdminAsks}, {w.op : w \in UserAsks},
     {w.op : w \in OrganizationAsks},
     {w.op : w \in ConnectionAsks} \cup {"delete_user"}}
=============================================================================
