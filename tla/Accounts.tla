------------------------------- MODULE Accounts -------------------------------
(***************************************************************************)
(* The operators' accounts: a table of users, and the routes with which    *)
(* administrators add, change, delete and restore them and every user      *)
(* changes the own password.  A route reads the row, checks, counts the    *)
(* other enabled administrators and writes, each with a query of its own,  *)
(* so that two routes may interleave.  A session carries the version its   *)
(* row had at login, and is accepted while the row still has it.           *)
(***************************************************************************)
EXTENDS Integers, FiniteSets

CONSTANTS
  Names,        \* user names
  Seeded,       \* role of the rows there are at first, "none" for a free name
  Changes,      \* bodies of PATCH: what becomes of role, disabled and name
  Routes,       \* route handlers at work at a time
  MaxRequests   \* bound: requests of the routes that write

Roles  == {"admin", "viewer"}
Bodies == [role : Roles \union {"keep"}, disabled : {"keep", "yes", "no"},
           name : Names \union {"keep"}]

ASSUME AccountsAssumption ==
  /\ IsFiniteSet(Names) /\ "keep" \notin Names
  /\ Seeded \in [Names -> Roles \union {"none"}]
  /\ \E n \in Names : Seeded[n] = "admin"
  /\ Changes \subseteq Bodies
  /\ MaxRequests \in Nat

VARIABLES
  users,      \* the table: role, flags and token_version, or "none" as role
  session,    \* version in the token a user got last, -1 when there is none
  route,      \* what each handler is at, and what it has read of its target
  requests,   \* requests so far
  outdated,   \* history: names whose token is older than a change that ends it
  reused,     \* history: names that got a row anew while a token of an earlier row is about
  raced       \* history: a handler wrote after another had written since its read

accountVars == <<users, session, route, requests, outdated, reused, raced>>

Absent  == [role |-> "none", disabled |-> FALSE, deleted |-> FALSE, version |-> 0]
NoBody  == [role |-> "keep", disabled |-> "keep", name |-> "keep"]
Free    == [op |-> "none", pc |-> "done", actor |-> "keep", target |-> "keep", body |-> NoBody,
            row |-> Absent, late |-> FALSE]

Rows     == [role : Roles \union {"none"}, disabled : BOOLEAN, deleted : BOOLEAN, version : Nat]
Handlers == [op : {"none", "password", "create", "update", "soft", "hard", "restore"},
             pc : {"read", "count", "write", "done"}, body : Bodies, row : Rows,
             actor : Names \union {"keep"}, target : Names \union {"keep"}, late : BOOLEAN]

AccountsTypeOK ==
  /\ users \in [Names -> Rows]
  /\ session \in [Names -> Nat \union {-1}]
  /\ route \in [Routes -> Handlers]
  /\ requests \in 0 .. MaxRequests
  /\ outdated \subseteq Names /\ reused \subseteq Names /\ raced \in BOOLEAN

AccountsInit ==
  /\ users = [n \in Names |-> [Absent EXCEPT !.role = Seeded[n]]]
  /\ session = [n \in Names |-> -1]
  /\ route = [h \in Routes |-> Free]
  /\ requests = 0 /\ outdated = {} /\ reused = {} /\ raced = FALSE

Exists(n)       == users[n].role # "none"
Present(n)      == Exists(n) /\ ~users[n].deleted
ActiveAdmins    == {n \in Names : users[n].role = "admin" /\ Present(n) /\ ~users[n].disabled}

\* get_current_user: the row is read again for every request.
Accepted(n) == Present(n) /\ ~users[n].disabled /\ session[n] = users[n].version

-----------------------------------------------------------------------------
(* Sessions and requests *)

\* authenticate_user, then a token with the version of the row it has read.
Login(n) ==
  /\ Present(n) /\ ~users[n].disabled
  /\ session' = [session EXCEPT ![n] = users[n].version]
  /\ outdated' = outdated \ {n} /\ reused' = reused \ {n}
  /\ UNCHANGED <<users, route, requests, raced>>

Request(h, op, n, target, body) ==
  /\ route[h].pc = "done" /\ requests < MaxRequests /\ Accepted(n)
  /\ requests' = requests + 1
  /\ route' = [route EXCEPT ![h] = [op |-> op, pc |-> "read", actor |-> n, target |-> target,
                                    body |-> body, row |-> Absent, late |-> FALSE]]
  /\ UNCHANGED <<users, session, outdated, reused, raced>>

AskPassword(h, n) == Request(h, "password", n, n, NoBody)

\* require_role: all the others are for administrators.
AskAdmin(h, n, target) ==
  /\ users[n].role = "admin"
  /\ \/ \E op \in {"soft", "hard", "restore"} : Request(h, op, n, target, NoBody)
     \/ \E r \in Roles : Request(h, "create", n, target, [NoBody EXCEPT !.role = r])
     \/ \E body \in Changes \ {NoBody} : Request(h, "update", n, target, body)

-----------------------------------------------------------------------------
(* The handlers *)

Doing(h, op, pc) == route[h].op = op /\ route[h].pc = pc

\* The handler answers, with an error or without, or goes on.
Answer(h)     == route' = [route EXCEPT ![h] = Free]
Advance(h, pc) ==
  route' = [route EXCEPT ![h].pc = pc, ![h].row = users[route[h].target]]
OnlyRoute     == UNCHANGED <<users, session, requests, outdated, reused, raced>>

\* 400: an old password that is wrong, a new one that is weak, a bad name.
Reject(h) ==
  /\ route[h].pc = "read" /\ route[h].op \in {"password", "create"}
  /\ Answer(h) /\ OnlyRoute

\* Which names and passwords are accepted is not told apart.
Validated(h) ==
  /\ Doing(h, "create", "read")
  /\ Advance(h, "write") /\ OnlyRoute

ReadOwn(h) ==
  /\ Doing(h, "password", "read")
  /\ IF Present(route[h].target) THEN Advance(h, "write") ELSE Answer(h)
  /\ OnlyRoute

\* An administrator changes neither the name, the role nor the flag of the own
\* account; enabling it is no change.
OwnChange(h) ==
  LET r == route[h]
  IN /\ r.target = r.actor
     /\ \/ r.body.name \notin {"keep", r.target}
        \/ r.body.role \notin {"keep", users[r.target].role}
        \/ r.body.disabled = "yes"

ReadForUpdate(h) ==
  /\ Doing(h, "update", "read")
  /\ IF Present(route[h].target) /\ ~OwnChange(h) THEN Advance(h, "count") ELSE Answer(h)
  /\ OnlyRoute

ReadForDelete(h) ==
  LET r == route[h]
  IN /\ \E op \in {"soft", "hard"} : Doing(h, op, "read")
     /\ IF Exists(r.target) /\ r.target # r.actor THEN Advance(h, "count") ELSE Answer(h)
     /\ OnlyRoute

ReadForRestore(h) ==
  /\ Doing(h, "restore", "read")
  /\ IF Exists(route[h].target) /\ users[route[h].target].deleted
     THEN Advance(h, "write") ELSE Answer(h)
  /\ OnlyRoute

\* Defect: the row that is about to change is counted as well.
CountTarget(h) == Cardinality(ActiveAdmins)

\* _count_active_admins, without the target.
RemainingAdmins(h) == Cardinality(ActiveAdmins \ {route[h].target})

\* _ensure_not_last_admin_change, on the row as it was read.
LastAdminChange(h) ==
  LET r == route[h]
      disables == r.op \in {"soft", "hard"} \/ r.body.disabled = "yes" \/ r.row.disabled
      demotes  == r.body.role \notin {"keep", "admin"}
  IN r.row.role = "admin" /\ (disables \/ demotes) /\ RemainingAdmins(h) < 1

CountAdmins(h) ==
  /\ route[h].pc = "count"
  /\ IF LastAdminChange(h) THEN Answer(h) ELSE route' = [route EXCEPT ![h].pc = "write"]
  /\ OnlyRoute

\* _hard_delete_blockers: tokens, votes or audit events of the user.
Blocked(h) == Doing(h, "hard", "write") /\ Answer(h) /\ OnlyRoute

\* A write that found its row: the others that have read come late.
Wrote(h) ==
  /\ route' = [k \in Routes |->
                 IF k = h THEN Free
                 ELSE [route[k] EXCEPT !.late = @ \/ route[k].pc \in {"count", "write"}]]
  /\ raced' = (raced \/ route[h].late)
  /\ UNCHANGED <<session, requests>>

\* An UPDATE by a name that is gone changes nothing.
Missed(h) ==
  /\ route[h].pc = "write" /\ route[h].op # "create" /\ ~Exists(route[h].target)
  /\ Answer(h) /\ OnlyRoute

Bump(n)     == users[n].version + 1
SetRow(n, row) == users' = [users EXCEPT ![n] = row]

\* A token names its user and a version: it says nothing of the row it was given
\* for, and the row that n gets now may come to the same version.
Reuse(n) == reused' = reused \union {m \in {n} : session[m] # -1}

ChangePassword(h) ==
  LET n == route[h].target
  IN /\ Doing(h, "password", "write") /\ Exists(n)
     /\ SetRow(n, [users[n] EXCEPT !.version = Bump(n)])
     /\ outdated' = outdated \union {n} /\ UNCHANGED reused
     /\ Wrote(h)

\* INSERT; a name that is in the table, deleted or not, is refused.
CreateUser(h) ==
  LET n == route[h].target
  IN /\ Doing(h, "create", "write")
     /\ IF Exists(n)
        THEN Answer(h) /\ OnlyRoute
        ELSE /\ SetRow(n, [Absent EXCEPT !.role = route[h].body.role])
             /\ outdated' = outdated \ {n} /\ Reuse(n)
             /\ Wrote(h)

\* One UPDATE of the fields of the body; the version grows when the flag differs
\* from the one that was read.  A name that is taken is refused.
UpdateUser(h) ==
  LET r == route[h]  n == r.target
      to == IF r.body.name = "keep" THEN n ELSE r.body.name
      flag == r.body.disabled = "yes"
      flips == r.body.disabled # "keep" /\ flag # r.row.disabled
      role == IF r.body.role = "keep" THEN users[n].role ELSE r.body.role
      disabled == IF r.body.disabled = "keep" THEN users[n].disabled ELSE flag
      version == IF flips THEN Bump(n) ELSE users[n].version
      row == [users[n] EXCEPT !.role = role, !.disabled = disabled, !.version = version]
  IN /\ Doing(h, "update", "write") /\ Exists(n)
     /\ IF to # n /\ Exists(to)
        THEN Answer(h) /\ OnlyRoute
        ELSE /\ users' = [m \in Names |-> IF m = to THEN row
                                          ELSE IF m = n THEN Absent ELSE users[m]]
             /\ outdated' = (outdated \union {m \in {n} : to # n \/ row.disabled # users[n].disabled})
                            \ ({to} \ {n})
             /\ IF to = n THEN UNCHANGED reused ELSE Reuse(to)
             /\ Wrote(h)

DeleteUser(h) ==
  LET n == route[h].target
  IN /\ \/ /\ Doing(h, "soft", "write") /\ Exists(n)
           /\ SetRow(n, [users[n] EXCEPT !.deleted = TRUE, !.version = Bump(n)])
        \/ /\ Doing(h, "hard", "write") /\ Exists(n)
           /\ SetRow(n, Absent)
     /\ outdated' = outdated \union {n} /\ UNCHANGED reused
     /\ Wrote(h)

RestoreUser(h) ==
  LET n == route[h].target
  IN /\ Doing(h, "restore", "write") /\ Exists(n)
     /\ SetRow(n, [users[n] EXCEPT !.deleted = FALSE, !.version = Bump(n)])
     /\ outdated' = outdated \union {n} /\ UNCHANGED reused
     /\ Wrote(h)

AccountsNext ==
  \/ \E n \in Names : Login(n)
  \/ \E h \in Routes :
       \/ \E n, target \in Names : AskPassword(h, n) \/ AskAdmin(h, n, target)
       \/ Reject(h) \/ Validated(h) \/ ReadOwn(h) \/ ReadForUpdate(h) \/ ReadForDelete(h)
       \/ ReadForRestore(h) \/ CountAdmins(h) \/ Blocked(h) \/ Missed(h)
       \/ ChangePassword(h) \/ CreateUser(h) \/ UpdateUser(h) \/ DeleteUser(h) \/ RestoreUser(h)

AccountsSpec == AccountsInit /\ [][AccountsNext]_accountVars

-----------------------------------------------------------------------------
(* Properties *)

\* "The system must always retain at least one enabled admin" (_count_active_admins):
\* it does as long as no handler writes over a change it has not seen.
AdminRemains == raced \/ ActiveAdmins # {}

\* A session from before a change of password, a change of the flag, a deletion, a
\* restoration or a change of name is not accepted (get_current_user), unless the
\* name has got another row since: versions start again at 0 with every row.
SessionsEnd == raced \/ \A n \in outdated \ reused : ~Accepted(n)

\* The two above and the types: the invariant of the accounts.
AccountsInv == AccountsTypeOK /\ AdminRemains /\ SessionsEnd
=============================================================================
