---------------------------- MODULE ConsoleProofs ----------------------------
(***************************************************************************)
(* What people do at the console: the accounts for any set of names,       *)
(* handlers and requests; a conversation under any number of calls,        *)
(* processes and faults; and the approval of responses for any number of   *)
(* runs, voters and votes, and any number of crashes and lost              *)
(* notifications.                                                          *)
(***************************************************************************)
EXTENDS Accounts, Chat, Approval, FiniteSetTheorems, SequenceTheorems, TLAPS

(***************************************************************************)
(* Accounts                                                                *)
(***************************************************************************)

\* What a handler at work is about.
HasTask(r) ==
  r.pc # "done" => /\ r.target \in Names /\ r.op # "none"
                   /\ r.pc = "count" => r.op \in {"update", "soft", "hard"}
                   /\ r.op = "create" => r.body.role # "keep"

Busy == \A h \in Routes : HasTask(route[h])

AccountsTyped == AccountsTypeOK /\ Busy

\* What a handler has read still stands, unless another has written since.
Fresh(h) ==
  route[h].pc \in {"count", "write"} /\ ~route[h].late => route[h].row = users[route[h].target]

\* The count it has made still stands as well.
Counted(h) ==
  /\ route[h].pc = "write" /\ route[h].op \in {"update", "soft", "hard"} /\ ~route[h].late
  => ~LastAdminChange(h)

\* A token has no later version than the row of its name, and an outdated one an
\* earlier version.
Versioned(n) ==
  Exists(n) => /\ session[n] <= users[n].version
               /\ n \in outdated => session[n] < users[n].version

Sound ==
  /\ ActiveAdmins # {}
  /\ \A h \in Routes : Fresh(h) /\ Counted(h)
  /\ \A n \in Names \ reused : Versioned(n)

AccountsInd == AccountsTyped /\ (raced \/ Sound)

-----------------------------------------------------------------------------
(* Steps that change no row *)

LEMMA HandlerFields ==
  ASSUME AccountsTyped, NEW h \in Routes
  PROVE  /\ route[h] \in Handlers /\ Free \in Handlers /\ Free.pc = "done"
         /\ \A n \in Names : users[n] \in Rows
         /\ Absent \in Rows /\ NoBody \in Bodies
BY DEF AccountsTyped, AccountsTypeOK, Handlers, Free, Rows, Absent, Bodies, NoBody

\* One handler goes on to r, and what it claims holds.
LEMMA RouteFrame ==
  ASSUME AccountsInd, NEW h \in Routes, NEW r \in Handlers,
         route' = [route EXCEPT ![h] = r],
         UNCHANGED <<users, session, outdated, reused, raced>>, requests' \in 0 .. MaxRequests,
         HasTask(r),
         raced \/ (Fresh(h)' /\ Counted(h)')
  PROVE  AccountsInd'
<1>1. AccountsTyped'
  BY DEF AccountsInd, AccountsTyped, AccountsTypeOK, Busy
<1>2. ASSUME ~raced' PROVE Sound'
  <2>1. Sound /\ Fresh(h)' /\ Counted(h)'
    BY <1>2 DEF AccountsInd
  <2>2. ASSUME NEW k \in Routes \ {h} PROVE Fresh(k)' /\ Counted(k)'
    <3>1. route'[k] = route[k]
      BY DEF AccountsInd, AccountsTyped, AccountsTypeOK
    <3> QED BY <2>1, <3>1 DEF Sound, Fresh, Counted, LastAdminChange, RemainingAdmins, ActiveAdmins,
                              Present, Exists
  <2>3. ActiveAdmins' = ActiveAdmins /\ \A n \in Names : Versioned(n)' <=> Versioned(n)
    BY DEF ActiveAdmins, Present, Exists, Versioned
  <2> QED BY <2>1, <2>2, <2>3 DEF Sound
<1> QED BY <1>1, <1>2 DEF AccountsInd

LEMMA AnswerInd ==
  ASSUME AccountsInd, NEW h \in Routes, Answer(h), OnlyRoute
  PROVE  AccountsInd'
<1>1. Free \in Handlers /\ Free.pc = "done" /\ route'[h] = Free /\ requests \in 0 .. MaxRequests
  BY HandlerFields DEF AccountsInd, AccountsTyped, AccountsTypeOK, Answer
<1>2. Fresh(h)' /\ Counted(h)' /\ HasTask(Free)
  BY <1>1 DEF Fresh, Counted, HasTask
<1> QED BY <1>1, <1>2, RouteFrame DEF Answer, OnlyRoute

LEMMA AdvanceInd ==
  ASSUME AccountsInd, NEW h \in Routes, NEW step \in {"count", "write"},
         route[h].pc # "done", Advance(h, step), OnlyRoute,
         step = "count" <=> route[h].op \in {"update", "soft", "hard"}
  PROVE  AccountsInd'
<1> DEFINE r == [route[h] EXCEPT !.pc = step, !.row = users[route[h].target]]
<1>1. route[h] \in Handlers /\ route[h].target \in Names /\ HasTask(route[h])
  BY HandlerFields DEF AccountsInd, AccountsTyped, Busy, HasTask
<1>2. /\ r \in Handlers /\ r.pc = step /\ r.row = users[route[h].target]
      /\ r.target = route[h].target /\ r.op = route[h].op /\ r.body = route[h].body
  BY <1>1, HandlerFields DEF AccountsInd, Handlers
<1>3. route' = [route EXCEPT ![h] = r] /\ route'[h] = r
  BY DEF Advance, AccountsInd, AccountsTyped, AccountsTypeOK
<1> HIDE DEF r
<1>4. Fresh(h)' /\ Counted(h)'
  BY <1>2, <1>3 DEF Fresh, Counted, OnlyRoute
<1>5. HasTask(r)
  BY <1>1, <1>2 DEF HasTask
<1> QED BY <1>2, <1>3, <1>4, <1>5, RouteFrame DEF OnlyRoute, AccountsInd, AccountsTyped, AccountsTypeOK

LEMMA RequestInd ==
  ASSUME AccountsInd, NEW h \in Routes, NEW n \in Names, NEW target \in Names, NEW body \in Bodies,
         NEW op \in {"password", "create", "update", "soft", "hard", "restore"},
         op = "create" => body.role # "keep",
         Request(h, op, n, target, body)
  PROVE  AccountsInd'
<1> DEFINE r == [op |-> op, pc |-> "read", actor |-> n, target |-> target,
                 body |-> body, row |-> Absent, late |-> FALSE]
<1>1. r \in Handlers /\ r.pc = "read" /\ HasTask(r)
  BY HandlerFields DEF AccountsInd, Handlers, HasTask
<1>2. route' = [route EXCEPT ![h] = r] /\ route'[h] = r
  BY DEF Request, AccountsInd, AccountsTyped, AccountsTypeOK
<1>3. requests' \in 0 .. MaxRequests
  BY AccountsAssumption DEF Request, AccountsInd, AccountsTyped, AccountsTypeOK
<1> HIDE DEF r
<1>4. Fresh(h)' /\ Counted(h)'
  BY <1>1, <1>2 DEF Fresh, Counted
<1> QED BY <1>1, <1>2, <1>3, <1>4, RouteFrame DEF Request

LEMMA LoginInd ==
  ASSUME AccountsInd, NEW n \in Names, Login(n)
  PROVE  AccountsInd'
<1>1. AccountsTyped'
  <2>1. users[n].version \in Nat
    BY DEF AccountsInd, AccountsTyped, AccountsTypeOK, Rows
  <2> QED BY <2>1 DEF Login, AccountsInd, AccountsTyped, AccountsTypeOK, Busy
<1>2. ASSUME ~raced' PROVE Sound'
  <2>1. Sound
    BY <1>2 DEF AccountsInd, Login
  <2>2. ActiveAdmins' = ActiveAdmins
    BY DEF ActiveAdmins, Present, Exists, Login
  <2>3. \A h \in Routes : Fresh(h)' /\ Counted(h)'
    BY <2>1, <2>2 DEF Sound, Fresh, Counted, LastAdminChange, RemainingAdmins, Login
  <2>4. ASSUME NEW m \in Names \ reused' PROVE Versioned(m)'
    <3>1. CASE m = n
      <4>1. session'[m] = users[m].version /\ users' = users /\ m \notin outdated'
        BY <3>1 DEF Login, AccountsInd, AccountsTyped, AccountsTypeOK
      <4>2. users[m].version \in Nat
        BY DEF AccountsInd, AccountsTyped, AccountsTypeOK, Rows
      <4> QED BY <4>1, <4>2 DEF Versioned, Exists
    <3>2. CASE m # n
      <4>1. m \notin reused /\ session'[m] = session[m] /\ users' = users
            /\ (m \in outdated' <=> m \in outdated)
        BY <3>2 DEF Login, AccountsInd, AccountsTyped, AccountsTypeOK
      <4> QED BY <2>1, <4>1 DEF Sound, Versioned, Exists
    <3> QED BY <3>1, <3>2
  <2> QED BY <2>1, <2>2, <2>3, <2>4 DEF Sound
<1> QED BY <1>1, <1>2 DEF AccountsInd

LEMMA CountAdminsInd ==
  ASSUME AccountsInd, NEW h \in Routes, CountAdmins(h)
  PROVE  AccountsInd'
<1>1. CASE LastAdminChange(h)
  BY <1>1, AnswerInd DEF CountAdmins
<1>2. CASE ~LastAdminChange(h)
  <2> DEFINE r == [route[h] EXCEPT !.pc = "write"]
  <2>1. route[h] \in Handlers /\ HasTask(route[h]) /\ route[h].pc # "done"
    BY HandlerFields DEF AccountsInd, AccountsTyped, Busy, CountAdmins
  <2>2. /\ r \in Handlers /\ r.pc = "write" /\ r.row = route[h].row /\ r.body = route[h].body
        /\ r.target = route[h].target /\ r.op = route[h].op /\ r.late = route[h].late
    BY <2>1 DEF Handlers
  <2>3. route' = [route EXCEPT ![h] = r] /\ route'[h] = r
    BY <1>2 DEF CountAdmins, AccountsInd, AccountsTyped, AccountsTypeOK
  <2> HIDE DEF r
  <2>4. raced \/ Fresh(h)'
    BY <2>2, <2>3 DEF AccountsInd, Sound, Fresh, CountAdmins, OnlyRoute
  <2>5. Counted(h)'
    <3>1. LastAdminChange(h)' <=> LastAdminChange(h)
      BY <2>2, <2>3 DEF LastAdminChange, RemainingAdmins, ActiveAdmins, Present, Exists,
                        CountAdmins, OnlyRoute
    <3> QED BY <1>2, <3>1 DEF Counted
  <2>6. HasTask(r)
    BY <2>1, <2>2 DEF HasTask
  <2> QED BY <2>2, <2>3, <2>4, <2>5, <2>6, RouteFrame
          DEF CountAdmins, OnlyRoute, AccountsInd, AccountsTyped, AccountsTypeOK
<1> QED BY <1>1, <1>2

-----------------------------------------------------------------------------
(* Steps that write *)

\* After a write every other handler at work is late, so that what is to show is
\* about the rows alone, and only for a handler that was not late itself.
LEMMA WroteFrame ==
  ASSUME AccountsInd, NEW h \in Routes, route[h].pc = "write", Wrote(h),
         users' \in [Names -> Rows], outdated' \subseteq Names, reused' \subseteq Names,
         ~raced /\ ~route[h].late =>
           ActiveAdmins' # {} /\ \A n \in Names \ reused' : Versioned(n)'
  PROVE  AccountsInd'
<1>1. ASSUME NEW k \in Routes
      PROVE  /\ route'[k] \in Handlers
             /\ route'[k].pc # "done" => route'[k].pc = route[k].pc /\ route'[k].op = route[k].op
                                         /\ route'[k].target = route[k].target
                                         /\ route'[k].body = route[k].body
             /\ route'[k].pc \in {"count", "write"} => route'[k].late
  <2>1. route[k] \in Handlers /\ Free \in Handlers /\ Free.pc = "done"
    BY HandlerFields DEF AccountsInd
  <2>2. CASE k = h
    BY <2>1, <2>2 DEF Wrote
  <2>3. CASE k # h
    <3>1. route'[k] = [route[k] EXCEPT !.late = @ \/ route[k].pc \in {"count", "write"}]
      BY <2>3 DEF Wrote
    <3> QED BY <2>1, <3>1 DEF Handlers
  <2> QED BY <2>2, <2>3
<1>2. AccountsTyped'
  <2>1. route' \in [Routes -> Handlers]
    BY <1>1 DEF Wrote
  <2>2. Busy'
    BY <1>1 DEF Busy, HasTask, AccountsInd, AccountsTyped
  <2>3. raced' \in BOOLEAN /\ UNCHANGED <<session, requests>>
    BY DEF Wrote
  <2> QED BY <2>1, <2>2, <2>3 DEF AccountsInd, AccountsTyped, AccountsTypeOK
<1>3. \A k \in Routes : Fresh(k)' /\ Counted(k)'
  BY <1>1 DEF Fresh, Counted
<1>4. ~raced' => ~raced /\ ~route[h].late
  BY DEF Wrote
<1> QED BY <1>2, <1>3, <1>4 DEF AccountsInd, Sound

LEMMA AnotherLeft ==
  ASSUME NEW h \in Routes, ~(RemainingAdmins(h) < 1)
  PROVE  ActiveAdmins \ {route[h].target} # {}
BY FS_EmptySet DEF RemainingAdmins

\* The row of the target becomes a later version of itself, or goes.
LEMMA SetRowInd ==
  ASSUME AccountsInd, NEW h \in Routes, route[h].pc = "write", Wrote(h),
         NEW entry \in Rows, SetRow(route[h].target, entry), Exists(route[h].target),
         outdated' = outdated \union {route[h].target}, reused' = reused,
         entry.role # "none" => entry.version = users[route[h].target].version + 1,
         ~raced /\ ~route[h].late =>
           \/ ActiveAdmins \ {route[h].target} # {}
           \/ route[h].target \in ActiveAdmins =>
                entry.role = "admin" /\ ~entry.deleted /\ ~entry.disabled
  PROVE  AccountsInd'
<1> DEFINE n == route[h].target
<1>1. n \in Names /\ users[n] \in Rows /\ users \in [Names -> Rows]
      /\ outdated \subseteq Names /\ reused \subseteq Names
  BY HandlerFields DEF AccountsInd, AccountsTyped, AccountsTypeOK, Busy, HasTask
<1>2. users' = [users EXCEPT ![n] = entry] /\ users'[n] = entry
      /\ \A m \in Names \ {n} : users'[m] = users[m]
  BY <1>1 DEF SetRow
<1> HIDE DEF n
<1>3. users' \in [Names -> Rows] /\ outdated' \subseteq Names /\ reused' \subseteq Names
  BY <1>1, <1>2 DEF n
<1>4. ASSUME ~raced, ~route[h].late
      PROVE  ActiveAdmins' # {} /\ \A m \in Names \ reused' : Versioned(m)'
  <2>1. Sound
    BY <1>4 DEF AccountsInd
  <2>2. ActiveAdmins' # {}
    <3>1. CASE ActiveAdmins \ {n} # {}
      <4>1. PICK m \in ActiveAdmins : m # n
        BY <3>1
      <4>2. m \in ActiveAdmins'
        BY <1>2, <4>1 DEF ActiveAdmins, Present, Exists
      <4> QED BY <4>2
    <3>2. CASE ActiveAdmins \ {n} = {}
      <4>1. n \in ActiveAdmins
        BY <2>1, <3>2 DEF Sound
      <4>2. n \in ActiveAdmins'
        BY <1>1, <1>2, <1>4, <3>2, <4>1 DEF ActiveAdmins, Present, Exists, n
      <4> QED BY <4>2
    <3> QED BY <3>1, <3>2
  <2>3. ASSUME NEW m \in Names \ reused' PROVE Versioned(m)'
    <3>1. Versioned(m) /\ session' = session
      BY <2>1 DEF Sound, Wrote
    <3>2. CASE m = n
      <4>1. session[n] \in Int /\ users[n].version \in Nat /\ entry.version \in Nat
        BY <1>1 DEF Rows, AccountsInd, AccountsTyped, AccountsTypeOK
      <4> QED BY <1>2, <3>1, <3>2, <4>1 DEF Versioned, Exists, n
    <3>3. CASE m # n
      <4>1. m \in outdated' <=> m \in outdated
        BY <3>3 DEF n
      <4> QED BY <1>2, <3>1, <3>3, <4>1 DEF Versioned, Exists
    <3> QED BY <3>2, <3>3
  <2> QED BY <2>2, <2>3
<1> QED BY <1>3, <1>4, WroteFrame

LEMMA ChangePasswordInd ==
  ASSUME AccountsInd, NEW h \in Routes, ChangePassword(h)
  PROVE  AccountsInd'
<1> DEFINE n == route[h].target
           entry == [users[n] EXCEPT !.version = Bump(n)]
<1>1. route[h].pc = "write" /\ n \in Names /\ users[n] \in Rows
  BY HandlerFields DEF ChangePassword, Doing, AccountsInd, AccountsTyped, Busy, HasTask
<1>2. entry \in Rows /\ entry.version = users[n].version + 1 /\ entry.role = users[n].role
      /\ entry.deleted = users[n].deleted /\ entry.disabled = users[n].disabled
  BY <1>1 DEF Rows, Bump
<1>3. n \in ActiveAdmins => entry.role = "admin" /\ ~entry.deleted /\ ~entry.disabled
  BY <1>2 DEF ActiveAdmins, Present
<1>4. SetRow(n, entry)
  BY DEF ChangePassword
<1> HIDE DEF entry
<1> QED BY <1>1, <1>2, <1>3, <1>4, SetRowInd DEF ChangePassword

LEMMA RestoreUserInd ==
  ASSUME AccountsInd, NEW h \in Routes, RestoreUser(h)
  PROVE  AccountsInd'
<1> DEFINE n == route[h].target
           entry == [users[n] EXCEPT !.deleted = FALSE, !.version = Bump(n)]
<1>1. route[h].pc = "write" /\ n \in Names /\ users[n] \in Rows
  BY HandlerFields DEF RestoreUser, Doing, AccountsInd, AccountsTyped, Busy, HasTask
<1>2. entry \in Rows /\ entry.version = users[n].version + 1 /\ entry.role = users[n].role
      /\ ~entry.deleted /\ entry.disabled = users[n].disabled
  <2>1. Bump(n) \in Nat /\ Bump(n) = users[n].version + 1
    BY <1>1 DEF Rows, Bump
  <2>2. entry \in Rows
    BY <1>1, <2>1 DEF Rows
  <2>3. entry.version = Bump(n) /\ entry.role = users[n].role /\ entry.disabled = users[n].disabled
    BY <1>1 DEF Rows
  <2>4. entry.deleted = FALSE
    BY <1>1 DEF Rows
  <2> QED BY <2>1, <2>2, <2>3, <2>4
<1>3. n \in ActiveAdmins => entry.role = "admin" /\ ~entry.deleted /\ ~entry.disabled
  BY <1>2 DEF ActiveAdmins, Present
<1>4. SetRow(n, entry)
  BY DEF RestoreUser
<1> HIDE DEF entry
<1> QED BY <1>1, <1>2, <1>3, <1>4, SetRowInd DEF RestoreUser

\* A handler that deletes has seen another administrator, or the row of one who
\* is none at work; what it has seen still stands.
LEMMA DeleteUserInd ==
  ASSUME AccountsInd, NEW h \in Routes, DeleteUser(h)
  PROVE  AccountsInd'
<1> DEFINE n == route[h].target
           gone == [users[n] EXCEPT !.deleted = TRUE, !.version = Bump(n)]
<1>1. route[h].pc = "write" /\ n \in Names /\ users[n] \in Rows /\ Absent \in Rows
      /\ route[h].op \in {"soft", "hard"}
  BY HandlerFields DEF DeleteUser, Doing, AccountsInd, AccountsTyped, Busy, HasTask
<1>2. ASSUME ~raced, ~route[h].late
      PROVE  ActiveAdmins \ {n} # {} \/ n \notin ActiveAdmins
  <2>1. Fresh(h) /\ Counted(h)
    BY <1>2 DEF AccountsInd, Sound
  <2>2. CASE n \in ActiveAdmins
    <3>1. route[h].row.role = "admin"
      BY <1>1, <1>2, <2>1, <2>2 DEF Fresh, ActiveAdmins
    <3>2. ~(RemainingAdmins(h) < 1)
      BY <1>1, <1>2, <2>1, <3>1 DEF Counted, LastAdminChange
    <3> QED BY <3>2, AnotherLeft
  <2> QED BY <2>2
<1>3. CASE SetRow(n, gone)
  <2>1. Bump(n) \in Nat /\ Bump(n) = users[n].version + 1
    BY <1>1 DEF Rows, Bump
  <2>2. gone \in Rows /\ gone.version = Bump(n)
    BY <1>1, <2>1 DEF Rows
  <2> HIDE DEF gone
  <2> QED BY <1>1, <1>2, <1>3, <2>1, <2>2, SetRowInd DEF DeleteUser
<1>4. CASE SetRow(n, Absent)
  <2>1. Absent.role = "none"
    BY DEF Absent
  <2> QED BY <1>1, <1>2, <1>4, <2>1, SetRowInd DEF DeleteUser
<1> QED BY <1>3, <1>4 DEF DeleteUser

\* A row n gets anew: nobody else's row or token is touched.
LEMMA NewRowInd ==
  ASSUME AccountsInd, NEW h \in Routes, route[h].pc = "write", Wrote(h),
         NEW n \in Names, ~Exists(n), NEW entry \in Rows, entry.version \in Nat,
         NEW gone \in SUBSET (Names \ {n}),
         users' = [m \in Names |-> IF m = n THEN entry ELSE IF m \in gone THEN Absent ELSE users[m]],
         outdated' = (outdated \union gone) \ {n}, Reuse(n),
         ~raced /\ ~route[h].late =>
           \/ ActiveAdmins \ gone # {}
           \/ entry.role = "admin" /\ ~entry.deleted /\ ~entry.disabled
  PROVE  AccountsInd'
<1>1. /\ users \in [Names -> Rows] /\ outdated \subseteq Names /\ reused \subseteq Names
      /\ session \in [Names -> Nat \union {-1}] /\ Absent \in Rows /\ session' = session
  BY HandlerFields DEF AccountsInd, AccountsTyped, AccountsTypeOK, Wrote
<1>2. users' \in [Names -> Rows] /\ outdated' \subseteq Names /\ reused' \subseteq Names
  BY <1>1 DEF Reuse
<1>3. ASSUME ~raced, ~route[h].late
      PROVE  ActiveAdmins' # {} /\ \A m \in Names \ reused' : Versioned(m)'
  <2>1. Sound
    BY <1>3 DEF AccountsInd
  <2>2. ActiveAdmins' # {}
    <3>1. CASE ActiveAdmins \ gone # {}
      <4>1. PICK m \in ActiveAdmins : m \notin gone
        BY <3>1
      <4>2. m \in Names /\ m # n
        BY DEF ActiveAdmins, Present
      <4>3. users'[m] = users[m]
        BY <4>1, <4>2
      <4>4. m \in ActiveAdmins'
        BY <4>2, <4>3 DEF ActiveAdmins, Present, Exists
      <4> QED BY <4>4
    <3>2. CASE entry.role = "admin" /\ ~entry.deleted /\ ~entry.disabled
      <4>1. n \in ActiveAdmins'
        BY <3>2 DEF ActiveAdmins, Present, Exists
      <4> QED BY <4>1
    <3> QED BY <1>3, <3>1, <3>2
  <2>3. ASSUME NEW m \in Names \ reused' PROVE Versioned(m)'
    <3>1. CASE m = n
      <4>1. session[n] = -1 /\ users'[n] = entry /\ n \notin outdated'
        BY <3>1 DEF Reuse
      <4> QED BY <1>1, <3>1, <4>1 DEF Versioned
    <3>2. CASE m \in gone
      <4>1. users'[m].role = "none"
        BY <3>2 DEF Absent
      <4> QED BY <4>1 DEF Versioned, Exists
    <3>3. CASE m # n /\ m \notin gone
      <4>1. users'[m] = users[m] /\ (m \in outdated' <=> m \in outdated) /\ m \notin reused
        BY <3>3 DEF Reuse
      <4>2. Versioned(m)
        BY <2>1, <4>1 DEF Sound
      <4> QED BY <1>1, <4>1, <4>2 DEF Versioned, Exists
    <3> QED BY <3>1, <3>2, <3>3
  <2> QED BY <2>2, <2>3
<1> QED BY <1>2, <1>3, WroteFrame

LEMMA CreateUserInd ==
  ASSUME AccountsInd, NEW h \in Routes, CreateUser(h)
  PROVE  AccountsInd'
<1> DEFINE n == route[h].target
           entry == [Absent EXCEPT !.role = route[h].body.role]
<1>1. /\ route[h].pc = "write" /\ n \in Names /\ users \in [Names -> Rows]
      /\ route[h].body \in Bodies /\ route[h].body.role # "keep" /\ Absent \in Rows
  BY HandlerFields
     DEF CreateUser, Doing, AccountsInd, AccountsTyped, AccountsTypeOK, Busy, HasTask, Handlers
<1>2. CASE Exists(n)
  BY <1>2, AnswerInd DEF CreateUser
<1>3. CASE ~Exists(n)
  <2>1. SetRow(n, entry) /\ outdated' = outdated \ {n} /\ Reuse(n) /\ Wrote(h)
    BY <1>3 DEF CreateUser
  <2>2. entry \in Rows /\ entry.version \in Nat
    BY <1>1 DEF Absent, Bodies, Rows, Roles
  <2>3. users' = [m \in Names |-> IF m = n THEN entry ELSE IF m \in {} THEN Absent ELSE users[m]]
    BY <1>1, <2>1 DEF SetRow
  <2>4. ~raced => ActiveAdmins \ {} # {}
    BY DEF AccountsInd, Sound
  <2>5. {} \in SUBSET (Names \ {n}) /\ outdated' = (outdated \union {}) \ {n}
    BY <2>1
  <2> HIDE DEF entry
  <2> QED BY <1>1, <1>3, <2>1, <2>2, <2>3, <2>4, <2>5, NewRowInd
<1> QED BY <1>2, <1>3

LEMMA UpdateUserInd ==
  ASSUME AccountsInd, NEW h \in Routes, UpdateUser(h)
  PROVE  AccountsInd'
<1> DEFINE r == route[h]
           n == r.target
           to == IF r.body.name = "keep" THEN n ELSE r.body.name
           flag == r.body.disabled = "yes"
           flips == r.body.disabled # "keep" /\ flag # r.row.disabled
           role == IF r.body.role = "keep" THEN users[n].role ELSE r.body.role
           disabled == IF r.body.disabled = "keep" THEN users[n].disabled ELSE flag
           version == IF flips THEN Bump(n) ELSE users[n].version
           entry == [users[n] EXCEPT !.role = role, !.disabled = disabled, !.version = version]
<1>1. /\ r.pc = "write" /\ r.op = "update" /\ n \in Names /\ users \in [Names -> Rows]
      /\ r \in Handlers /\ r.body \in Bodies /\ Absent \in Rows /\ users[n] \in Rows
      /\ outdated \subseteq Names /\ reused \subseteq Names
      /\ session \in [Names -> Nat \union {-1}]
  BY HandlerFields
     DEF UpdateUser, Doing, AccountsInd, AccountsTyped, AccountsTypeOK, Busy, HasTask, Handlers
<1>2. to \in Names /\ Exists(n)
  BY <1>1 DEF Bodies, UpdateUser
<1>3. /\ entry \in Rows /\ entry.role = role /\ entry.disabled = disabled /\ entry.version = version
      /\ entry.deleted = users[n].deleted
      /\ version \in Nat /\ version = IF flips THEN users[n].version + 1 ELSE users[n].version
  <2>1. users[n].version \in Nat
    BY <1>1 DEF Rows
  <2>2. version \in Nat /\ version = IF flips THEN users[n].version + 1 ELSE users[n].version
    BY <2>1 DEF Bump
  <2>3. role \in Roles \union {"none"} /\ disabled \in BOOLEAN
    <3>1. users[n].role \in Roles \union {"none"} /\ users[n].disabled \in BOOLEAN
      BY <1>1 DEF Rows
    <3>2. r.body.role \in Roles \union {"keep"}
      BY <1>1 DEF Bodies
    <3> QED BY <3>1, <3>2
  <2> HIDE DEF role, disabled, version
  <2>4. entry \in Rows
    BY <1>1, <2>2, <2>3 DEF Rows
  <2>5. entry.role = role /\ entry.disabled = disabled /\ entry.version = version
    BY <1>1 DEF Rows
  <2>6. entry.deleted = users[n].deleted
    BY <1>1 DEF Rows
  <2> QED BY <2>2, <2>4, <2>5, <2>6
<1>4. CASE to # n /\ Exists(to)
  <2>1. Answer(h) /\ OnlyRoute
    BY <1>4 DEF UpdateUser
  <2> QED BY <2>1, AnswerInd
<1>5. CASE ~(to # n /\ Exists(to))
  <2>1. /\ users' = [m \in Names |-> IF m = to THEN entry ELSE IF m = n THEN Absent ELSE users[m]]
        /\ outdated' = (outdated \union {m \in {n} : to # n \/ entry.disabled # users[n].disabled})
                       \ ({to} \ {n})
        /\ IF to = n THEN UNCHANGED reused ELSE Reuse(to)
        /\ Wrote(h)
    BY <1>5 DEF UpdateUser
  \* The last enabled administrator stays one, under the old or the new name.
  <2>2. ASSUME ~raced, ~r.late
        PROVE  \/ ActiveAdmins \ {n} # {}
               \/ entry.role = "admin" /\ ~entry.deleted /\ ~entry.disabled
    <3>1. Fresh(h) /\ Counted(h) /\ ActiveAdmins # {}
      BY <2>2 DEF AccountsInd, Sound
    <3>2. r.row = users[n]
      BY <1>1, <2>2, <3>1 DEF Fresh
    <3>3. CASE n \in ActiveAdmins
      <4>1. users[n].role = "admin" /\ ~users[n].disabled /\ ~users[n].deleted
        BY <3>3 DEF ActiveAdmins, Present
      <4>2. CASE r.body.disabled = "yes" \/ r.body.role \notin {"keep", "admin"}
        <5>1. ~(RemainingAdmins(h) < 1)
          BY <1>1, <2>2, <3>1, <3>2, <4>1, <4>2 DEF Counted, LastAdminChange
        <5> QED BY <5>1, AnotherLeft
      <4>3. CASE ~(r.body.disabled = "yes" \/ r.body.role \notin {"keep", "admin"})
        BY <1>3, <4>1, <4>3
      <4> QED BY <4>2, <4>3
    <3>4. CASE n \notin ActiveAdmins
      BY <3>1, <3>4
    <3> QED BY <3>3, <3>4
  <2> HIDE DEF entry, to
  <2>3. CASE to # n
    <3>1. ~Exists(to) /\ Reuse(to)
      BY <1>5, <2>1, <2>3
    <3>2. users' = [m \in Names |-> IF m = to THEN entry
                                    ELSE IF m \in {n} THEN Absent ELSE users[m]]
      BY <2>1
    <3>3. outdated' = (outdated \union {n}) \ {to} /\ entry.version \in Nat
      <4>1. {m \in {n} : to # n \/ entry.disabled # users[n].disabled} = {n} /\ {to} \ {n} = {to}
        BY <2>3
      <4> QED BY <1>3, <2>1, <4>1
    <3>4. {n} \in SUBSET (Names \ {to})
      BY <1>1, <2>3
    <3>5. route[h].pc = "write" /\ Wrote(h)
      BY <1>1, <2>1
    <3>6. ~raced /\ ~route[h].late =>
            \/ ActiveAdmins \ {n} # {}
            \/ entry.role = "admin" /\ ~entry.deleted /\ ~entry.disabled
      BY <2>2
    <3> HIDE DEF n, r
    <3> QED BY <1>2, <1>3, <3>1, <3>2, <3>3, <3>4, <3>5, <3>6, NewRowInd, ZenonT(60)
  <2>4. CASE to = n
    <3>1. /\ users'[n] = entry /\ \A m \in Names \ {n} : users'[m] = users[m]
          /\ reused' = reused
          /\ outdated' = outdated \union {m \in {n} : entry.disabled # users[n].disabled}
      BY <1>1, <2>1, <2>4, SMTT(30)
    <3>2. users' \in [Names -> Rows] /\ outdated' \subseteq Names /\ reused' \subseteq Names
      BY <1>1, <1>3, <2>1, <3>1
    <3>3. ASSUME ~raced, ~r.late
          PROVE  ActiveAdmins' # {} /\ \A m \in Names \ reused' : Versioned(m)'
      <4>1. Sound /\ r.row = users[n]
        BY <1>1, <3>3 DEF AccountsInd, Sound, Fresh
      <4>2. ActiveAdmins' # {}
        <5>1. CASE ActiveAdmins \ {n} # {}
          <6>1. PICK m \in ActiveAdmins : m # n
            BY <5>1
          <6>2. m \in ActiveAdmins'
            BY <3>1, <6>1 DEF ActiveAdmins, Present, Exists
          <6> QED BY <6>2
        <5>2. CASE entry.role = "admin" /\ ~entry.deleted /\ ~entry.disabled
          <6>1. n \in ActiveAdmins'
            BY <1>1, <3>1, <5>2 DEF ActiveAdmins, Present, Exists
          <6> QED BY <6>1
        <5> QED BY <2>2, <3>3, <5>1, <5>2
      <4>3. ASSUME NEW m \in Names \ reused' PROVE Versioned(m)'
        <5>1. Versioned(m) /\ session' = session
          BY <2>1, <3>1, <4>1 DEF Sound, Wrote
        <5>2. CASE m = n
          <6>1. session[n] <= users[n].version /\ (n \in outdated => session[n] < users[n].version)
            BY <1>2, <5>1, <5>2 DEF Versioned
          <6>2. session[n] \in Int /\ users[n].version \in Nat
            BY <1>1 DEF Rows
          <6>3. entry.disabled # users[n].disabled => entry.version = users[n].version + 1
            BY <1>3, <4>1
          <6>4. entry.version >= users[n].version /\ entry.version \in Nat
            BY <1>3, <6>2
          <6> QED BY <3>1, <5>1, <5>2, <6>1, <6>2, <6>3, <6>4 DEF Versioned
        <5>3. CASE m # n
          <6>1. m \in outdated' <=> m \in outdated
            BY <3>1, <5>3
          <6> QED BY <3>1, <5>1, <5>3, <6>1 DEF Versioned, Exists
        <5> QED BY <5>2, <5>3
      <4> QED BY <4>2, <4>3
    <3> QED BY <1>1, <2>1, <3>2, <3>3, WroteFrame
  <2> QED BY <2>3, <2>4
<1> QED BY <1>4, <1>5

-----------------------------------------------------------------------------

\* AccountsInvHolds: as long as no handler writes over a change it has not seen, an
\* enabled administrator remains and no token outlives a change of its row
\* (_count_active_admins, get_current_user), for any number of accounts and requests.
THEOREM AccountsInvHolds == AccountsSpec => []AccountsInv
<1>1. AccountsInit => AccountsInd
  <2> SUFFICES ASSUME AccountsInit PROVE AccountsInd
    OBVIOUS
  <2>1. Free \in Handlers /\ Free.pc = "done"
    BY DEF Handlers, Free, Rows, Absent, Bodies, NoBody
  <2>2. \A n \in Names : /\ [Absent EXCEPT !.role = Seeded[n]] \in Rows
                         /\ [Absent EXCEPT !.role = Seeded[n]].role = Seeded[n]
                         /\ [Absent EXCEPT !.role = Seeded[n]].version = 0
                         /\ ~[Absent EXCEPT !.role = Seeded[n]].disabled
                         /\ ~[Absent EXCEPT !.role = Seeded[n]].deleted
    BY AccountsAssumption DEF Absent, Rows, Roles
  <2>3. AccountsTyped
    <3>1. users \in [Names -> Rows]
      BY <2>2 DEF AccountsInit
    <3>2. route \in [Routes -> Handlers] /\ Busy
      BY <2>1 DEF AccountsInit, Busy, HasTask
    <3>3. session \in [Names -> Nat \union {-1}] /\ requests \in 0 .. MaxRequests
      BY AccountsAssumption DEF AccountsInit
    <3> QED BY <3>1, <3>2, <3>3 DEF AccountsInit, AccountsTyped, AccountsTypeOK
  <2>4. PICK n \in Names : Seeded[n] = "admin"
    BY AccountsAssumption
  <2>5. n \in ActiveAdmins
    BY <2>2, <2>4 DEF AccountsInit, ActiveAdmins, Present, Exists
  <2>6. \A h \in Routes : Fresh(h) /\ Counted(h)
    BY <2>1 DEF AccountsInit, Fresh, Counted
  <2>7. ASSUME NEW m \in Names PROVE Versioned(m)
    <3>1. session[m] = -1 /\ users[m].version = 0 /\ outdated = {}
      BY <2>2 DEF AccountsInit
    <3> QED BY <3>1 DEF Versioned
  <2> QED BY <2>3, <2>5, <2>6, <2>7 DEF AccountsInd, Sound
<1>2. AccountsInd /\ [AccountsNext]_accountVars => AccountsInd'
  <2> SUFFICES ASSUME AccountsInd, [AccountsNext]_accountVars PROVE AccountsInd'
    OBVIOUS
  <2>1. CASE UNCHANGED accountVars
    BY <2>1 DEF accountVars, AccountsInd, AccountsTyped, AccountsTypeOK, Busy, HasTask, Sound,
                Fresh, Counted, LastAdminChange, RemainingAdmins, ActiveAdmins, Present, Exists,
                Versioned
  <2>2. ASSUME NEW n \in Names, Login(n) PROVE AccountsInd'
    BY <2>2, LoginInd
  <2> NoBody \in Bodies /\ \A role \in Roles : [NoBody EXCEPT !.role = role] \in Bodies
                           /\ [NoBody EXCEPT !.role = role].role # "keep"
    BY DEF NoBody, Bodies, Roles
  <2>3. ASSUME NEW h \in Routes, NEW n \in Names, AskPassword(h, n) PROVE AccountsInd'
    BY <2>3, RequestInd DEF AskPassword
  <2>4. ASSUME NEW h \in Routes, NEW n \in Names, NEW target \in Names, AskAdmin(h, n, target)
        PROVE  AccountsInd'
    <3>1. \A body \in Changes \ {NoBody} : body \in Bodies
      BY AccountsAssumption
    <3> QED BY <2>4, <3>1, RequestInd DEF AskAdmin
  <2>5. ASSUME NEW h \in Routes,
               Reject(h) \/ Validated(h) \/ ReadOwn(h) \/ ReadForUpdate(h) \/ ReadForDelete(h)
               \/ ReadForRestore(h) \/ Blocked(h) \/ Missed(h)
        PROVE  AccountsInd'
    BY <2>5, AnswerInd, AdvanceInd
       DEF Reject, Validated, ReadOwn, ReadForUpdate, ReadForDelete, ReadForRestore, Blocked, Missed,
           Doing
  <2>6. ASSUME NEW h \in Routes,
               CountAdmins(h) \/ ChangePassword(h) \/ CreateUser(h) \/ UpdateUser(h)
               \/ DeleteUser(h) \/ RestoreUser(h)
        PROVE  AccountsInd'
    BY <2>6, CountAdminsInd, ChangePasswordInd, CreateUserInd, UpdateUserInd, DeleteUserInd,
       RestoreUserInd
  <2> QED BY <2>1, <2>2, <2>3, <2>4, <2>5, <2>6 DEF AccountsNext
<1>3. AccountsInd => AccountsInv
  BY DEF AccountsInd, AccountsTyped, AccountsInv, AdminRemains, SessionsEnd, Sound, Versioned,
         Accepted, Present, AccountsTypeOK, Rows
<1> QED BY <1>1, <1>2, <1>3, PTL DEF AccountsSpec

(***************************************************************************)
(* A conversation                                                          *)
(***************************************************************************)

(* What an array of turns is worth, given the facts it has to show, the     *)
(* facts that may be lost, and the calls its turns come from.               *)

Keeps(array, facts) == \A fact \in facts : Shows(array, fact)

Follows(array, lost) ==
  \A i \in DOMAIN array : array[i].role = "assistant" =>
    \/ <<array[i].of, "user">> \in lost
    \/ \E j \in 1 .. i - 1 : array[j].of = array[i].of /\ array[j].role = "user"

Card(turn, calls) ==
  /\ calls[turn.of].pc # "idle" /\ turn.intent # "tagged"
  /\ turn.route = "scan" => calls[turn.of].reply.route = "scan"

Cards(array, calls) == \A i \in DOMAIN array : Card(array[i], calls)

Intact(array, facts, lost, calls) ==
  Keeps(array, facts) /\ Follows(array, lost) /\ Cards(array, calls)

Secure == written \ exposed

\* The row, and every array that a call is about to store.
Stored == /\ HasRow => Keeps(messages, Secure)
          /\ Follows(messages, exposed) /\ Cards(messages, chat)
Copied == \A c \in Chats : chat[c].pc = "writeback" => Intact(chat[c].copy, Secure, exposed, chat)

\* What a reply says of the scan it may ask for.
Decided(r) ==
  /\ r.route = "scan" => r.classified
  /\ ~r.classified => ~r.asksScan
  /\ r.intent # "tagged"

\* What a call knows: its question is stored, and its title task comes last.
Known(c) ==
  /\ Decided(chat[c].reply)
  /\ chat[c].pc = "assistant" /\ HasRow => <<c, "user">> \in written
  /\ naming[c] # "none" => chat[c].pc = "done"
  /\ title = "none" => chat[c].pc = "idle"

\* A title task about to write saw no name, and its process knows of it.
Tasked(c) ==
  /\ naming[c] = "write" => overtaken \/ ~named
  /\ chat[c].kind = "chat" /\ naming[c] # "none" => chat[c].worker \in inflight

Blank == title = "none" => written = {} /\ ~named

ChatInd ==
  /\ ChatTypeOK /\ Stored /\ Copied
  /\ \A c \in Chats : Known(c) /\ Tasked(c)
  /\ Blank /\ NamesStay /\ StampsAreStored /\ OneTitleTask

-----------------------------------------------------------------------------
(* Arrays *)

LEMMA ArrayShape ==
  ASSUME NEW array \in Seq(Turns)
  PROVE  /\ Len(array) \in Nat /\ DOMAIN array = 1 .. Len(array)
         /\ \A i \in DOMAIN array : array[i] \in Turns /\ array[i].of \in Chats
              /\ array[i].role \in Speakers /\ array[i].task \in BOOLEAN
<1>1. Len(array) \in Nat /\ DOMAIN array = 1 .. Len(array) /\ \A i \in DOMAIN array : array[i] \in Turns
  OBVIOUS
<1>2. QED BY <1>1 DEF Turns

LEMMA EmptyArray ==
  ASSUME NEW lost, NEW calls
  PROVE  <<>> \in Seq(Turns) /\ Follows(<<>>, lost) /\ Cards(<<>>, calls)
BY DEF Follows, Cards

\* Fewer facts to show, more that may be lost, calls that have gone on.
LEMMA IntactLater ==
  ASSUME NEW array \in Seq(Turns), NEW facts, NEW lost, NEW calls, NEW fewer, NEW more, NEW later,
         fewer \subseteq facts, lost \subseteq more,
         \A c \in Chats : calls[c].pc # "idle" => later[c].pc # "idle" /\ later[c].reply = calls[c].reply
  PROVE  /\ Keeps(array, facts) => Keeps(array, fewer)
         /\ Follows(array, lost) => Follows(array, more)
         /\ Cards(array, calls) => Cards(array, later)
<1>1. Keeps(array, facts) => Keeps(array, fewer)
  BY DEF Keeps
<1>2. Follows(array, lost) => Follows(array, more)
  BY DEF Follows
<1>3. Cards(array, calls) => Cards(array, later)
  BY ArrayShape DEF Cards, Card
<1>4. QED BY <1>1, <1>2, <1>3

\* Appending a turn: one of the operator, or one that stands behind its question.
LEMMA AppendShape ==
  ASSUME NEW array \in Seq(Turns), NEW turn \in Turns
  PROVE  /\ Append(array, turn) \in Seq(Turns)
         /\ DOMAIN Append(array, turn) = 1 .. Len(array) + 1
         /\ Append(array, turn)[Len(array) + 1] = turn
         /\ \A i \in DOMAIN array : Append(array, turn)[i] = array[i]
OBVIOUS

LEMMA AppendShows ==
  ASSUME NEW array \in Seq(Turns), NEW turn \in Turns
  PROVE  /\ \A fact : Shows(array, fact) => Shows(Append(array, turn), fact)
         /\ Shows(Append(array, turn), <<turn.of, turn.role>>)
<1>0. Len(array) \in Nat /\ DOMAIN array = 1 .. Len(array) /\ turn.role \in Speakers
  BY DEF Turns
<1>1. ASSUME NEW fact, Shows(array, fact) PROVE Shows(Append(array, turn), fact)
  <2>1. PICK i \in DOMAIN array :
          /\ array[i].of = fact[1]
          /\ IF fact[2] = "task" THEN array[i].role = "assistant" /\ array[i].task
                                 ELSE array[i].role = fact[2]
    BY <1>1 DEF Shows
  <2>2. i \in DOMAIN Append(array, turn) /\ Append(array, turn)[i] = array[i]
    BY <1>0, AppendShape
  <2>3. QED BY <2>1, <2>2 DEF Shows
<1>2. Shows(Append(array, turn), <<turn.of, turn.role>>)
  <2>1. Len(array) + 1 \in DOMAIN Append(array, turn)
    BY <1>0, AppendShape
  <2>2. QED BY <1>0, <2>1, AppendShape DEF Shows, Speakers
<1>3. QED BY <1>1, <1>2

LEMMA AppendFollows ==
  ASSUME NEW array \in Seq(Turns), NEW turn \in Turns, NEW lost, Follows(array, lost),
         turn.role = "assistant" => <<turn.of, "user">> \in lost \/ Shows(array, <<turn.of, "user">>)
  PROVE  Follows(Append(array, turn), lost)
<1> DEFINE longer == Append(array, turn)
<1>0. Len(array) \in Nat /\ DOMAIN array = 1 .. Len(array)
  OBVIOUS
<1> SUFFICES ASSUME NEW i \in DOMAIN longer, longer[i].role = "assistant",
                    <<longer[i].of, "user">> \notin lost
             PROVE  \E j \in 1 .. i - 1 : longer[j].of = longer[i].of /\ longer[j].role = "user"
  BY DEF Follows
<1>1. CASE i \in DOMAIN array
  <2>1. longer[i] = array[i]
    BY <1>1, AppendShape
  <2>2. PICK j \in 1 .. i - 1 : array[j].of = array[i].of /\ array[j].role = "user"
    BY <1>1, <2>1 DEF Follows
  <2>3. j \in DOMAIN array
    BY <1>0, <1>1
  <2>4. longer[j] = array[j]
    BY <2>3, AppendShape
  <2>5. QED BY <2>1, <2>2, <2>4
<1>2. CASE i \notin DOMAIN array
  <2>1. i = Len(array) + 1
    BY <1>0, <1>2, AppendShape
  <2>2. longer[i] = turn
    BY <2>1, AppendShape
  <2>3. PICK j \in DOMAIN array : array[j].of = turn.of /\ array[j].role = "user"
    BY <2>2 DEF Shows
  <2>4. longer[j] = array[j] /\ j \in 1 .. i - 1
    BY <1>0, <2>1, <2>3, AppendShape
  <2>5. QED BY <2>2, <2>3, <2>4
<1>3. QED BY <1>1, <1>2

LEMMA AppendCards ==
  ASSUME NEW array \in Seq(Turns), NEW turn \in Turns, NEW calls,
         Cards(array, calls), Card(turn, calls)
  PROVE  Cards(Append(array, turn), calls)
<1>1. ASSUME NEW i \in DOMAIN Append(array, turn) PROVE Card(Append(array, turn)[i], calls)
  <2>1. Append(array, turn)[i] = turn \/ (i \in DOMAIN array /\ Append(array, turn)[i] = array[i])
    BY ArrayShape, AppendShape
  <2>2. QED BY <2>1 DEF Cards
<1>2. QED BY <1>1 DEF Cards

\* Marking a turn changes nothing but its task.
LEMMA MarkedShape ==
  ASSUME NEW array \in Seq(Turns), NEW t \in Chats
  PROVE  /\ Marked(array, t) \in Seq(Turns) /\ DOMAIN Marked(array, t) = DOMAIN array
         /\ \A i \in DOMAIN array :
              LET m == Marked(array, t)[i]
              IN /\ m.of = array[i].of /\ m.role = array[i].role
                 /\ m.route = array[i].route /\ m.intent = array[i].intent
                 /\ m.task = (array[i].task \/ (array[i].of = t /\ array[i].role = "assistant"))
<1>1. ASSUME NEW i \in DOMAIN array
      PROVE  LET m == Marked(array, t)[i]
             IN /\ m \in Turns
                /\ m.of = array[i].of /\ m.role = array[i].role
                /\ m.route = array[i].route /\ m.intent = array[i].intent
                /\ m.task = (array[i].task \/ (array[i].of = t /\ array[i].role = "assistant"))
  <2>1. array[i] \in Turns
    BY ArrayShape
  <2>2. Marked(array, t)[i]
          = [array[i] EXCEPT !.task = @ \/ (array[i].of = t /\ array[i].role = "assistant")]
    BY DEF Marked
  <2>3. QED BY <2>1, <2>2 DEF Turns
<1>2. DOMAIN Marked(array, t) = DOMAIN array
  BY DEF Marked
<1>3. Marked(array, t) \in [1 .. Len(array) -> Turns]
  BY <1>1, <1>2, ArrayShape DEF Marked
<1>4. Marked(array, t) \in Seq(Turns)
  BY <1>3, ArrayShape, SeqDef
<1>5. QED BY <1>1, <1>2, <1>4

LEMMA MarkedIntact ==
  ASSUME NEW array \in Seq(Turns), NEW t \in Chats
  PROVE  /\ \A fact : Shows(array, fact) => Shows(Marked(array, t), fact)
         /\ Shows(array, <<t, "assistant">>) => Shows(Marked(array, t), <<t, "task">>)
         /\ \A lost : Follows(array, lost) => Follows(Marked(array, t), lost)
         /\ \A calls : Cards(array, calls) => Cards(Marked(array, t), calls)
<1> DEFINE marked == Marked(array, t)
<1>0. /\ DOMAIN marked = DOMAIN array /\ Len(array) \in Nat /\ DOMAIN array = 1 .. Len(array)
      /\ \A i \in DOMAIN array : array[i].task \in BOOLEAN
  BY MarkedShape, ArrayShape
<1>1. \A i \in DOMAIN array :
        /\ marked[i].of = array[i].of /\ marked[i].role = array[i].role
        /\ marked[i].route = array[i].route /\ marked[i].intent = array[i].intent
        /\ marked[i].task = (array[i].task \/ (array[i].of = t /\ array[i].role = "assistant"))
  BY MarkedShape
<1> HIDE DEF marked
<1>2. \A fact : Shows(array, fact) => Shows(marked, fact)
  BY <1>0, <1>1 DEF Shows
<1>3. Shows(array, <<t, "assistant">>) => Shows(marked, <<t, "task">>)
  BY <1>0, <1>1 DEF Shows
<1>4. \A lost : Follows(array, lost) => Follows(marked, lost)
  <2> SUFFICES ASSUME NEW lost, Follows(array, lost), NEW i \in DOMAIN marked,
                      marked[i].role = "assistant", <<marked[i].of, "user">> \notin lost
               PROVE  \E j \in 1 .. i - 1 : marked[j].of = marked[i].of /\ marked[j].role = "user"
    BY DEF Follows
  <2>1. PICK j \in 1 .. i - 1 : array[j].of = array[i].of /\ array[j].role = "user"
    BY <1>0, <1>1 DEF Follows
  <2>2. j \in DOMAIN array
    BY <1>0
  <2>3. QED BY <1>0, <1>1, <2>1, <2>2
<1>5. \A calls : Cards(array, calls) => Cards(marked, calls)
  BY <1>0, <1>1 DEF Cards, Card
<1>6. QED BY <1>2, <1>3, <1>4, <1>5 DEF marked

-----------------------------------------------------------------------------
(* Answers *)

LEMMA IntentsAreBare == ScanIntents \subseteq {"none", "bare"}
<1>1. \A t \in Targets : StripTargetPrefixes(t) \subseteq {"none", "bare"}
  BY DEF Targets, StripTargetPrefixes
<1>2. FallbackExtractTargets \subseteq {"none", "bare"}
  BY <1>1 DEF FallbackExtractTargets
<1>3. QED BY <1>1, <1>2 DEF ScanIntents

LEMMA SystemAnswers ==
  ASSUME NEW words
  PROVE  AnswerSystemQuestion(words) \ {"raised"} \subseteq {"system", "chat"}
BY DEF AnswerSystemQuestion, AnswerFreeform, Fallible

LEMMA RepliesDecided ==
  ASSUME NEW r \in PossibleReplies \union {Plain}
  PROVE  r \in Replies /\ Decided(r)
<1>1. CASE r = Plain
  BY <1>1 DEF Plain, Replies, Decided, Routings, Targets
<1>2. CASE r \in PossibleReplies
  <2>1. PICK words \in Asked : r \in AnswersTo(words)
    BY <1>2 DEF PossibleReplies
  <2>2. LooksLikeScanIntent(words) \in BOOLEAN
    BY DEF LooksLikeScanIntent
  <2>3. CASE r \in DispatchScan(words)
    <3>1. PICK i \in ScanIntents : r = Reply(TRUE, words, "scan", i)
      BY <2>3 DEF DispatchScan
    <3>2. i \in {"none", "bare"}
      BY IntentsAreBare
    <3>3. QED BY <2>2, <3>1, <3>2 DEF Reply, Replies, Decided, Routings, Targets
  <2>4. CASE r \in DispatchSystem(words)
    <3>1. PICK a \in {"system", "chat"} : r = Reply(TRUE, words, a, "none")
      BY <2>4, SystemAnswers DEF DispatchSystem
    <3>2. QED BY <2>2, <3>1 DEF Reply, Replies, Decided, Routings, Targets
  <2>5. CASE r \in DispatchChat(words)
    <3>1. r = Reply(TRUE, words, "chat", "none")
      BY <2>5 DEF DispatchChat
    <3>2. QED BY <2>2, <3>1 DEF Reply, Replies, Decided, Routings, Targets
  <2>6. CASE r \in Degraded(words)
    <3>1. ~LooksLikeScanIntent(words)
      BY <2>6 DEF Degraded
    <3>2. PICK a \in {"system", "chat"} : r = Reply(FALSE, words, a, "none")
      BY <2>6, <3>1, SystemAnswers DEF Degraded
    <3>3. QED BY <2>2, <3>1, <3>2 DEF Reply, Replies, Decided, Routings, Targets
  <2>7. QED BY <2>1, <2>3, <2>4, <2>5, <2>6 DEF AnswersTo
<1>3. QED BY <1>1, <1>2

-----------------------------------------------------------------------------
(* Calls *)

LEMMA ChatCallFields ==
  ASSUME ChatTypeOK, NEW c \in Chats
  PROVE  /\ chat[c] \in Calls /\ chat[c].worker \in ChatWorkers /\ chat[c].target \in Chats
         /\ chat[c].reply \in Replies /\ chat[c].copy \in Seq(Turns)
         /\ chat[c].reply.route \in Routings /\ chat[c].reply.intent \in Targets
BY DEF ChatTypeOK, Calls, Replies

\* A call that was idle becomes r; nothing else of the calls changes.
LEMMA CallBegins ==
  ASSUME ChatInd, NEW c \in Chats, chat[c].pc = "idle", title # "none",
         NEW r \in Calls, chat' = [chat EXCEPT ![c] = r],
         r.pc \in {"user", "writeback", "done"}, Decided(r.reply), r.ts = chat[c].ts,
         r.pc = "writeback" => HasRow /\ r.copy = messages,
         UNCHANGED <<naming, inflight, chatFaults, written, exposed>>
  PROVE  /\ chat' \in [Chats -> Calls]
         /\ \A d \in Chats : chat[d].pc # "idle" => chat'[d].pc # "idle" /\ chat'[d].reply = chat[d].reply
         /\ Copied' /\ StampsAreStored' /\ OneTitleTask'
         /\ \A d \in Chats : naming[d] # "none" => chat'[d] = chat[d]
         /\ \A d \in Chats : /\ Decided(chat'[d].reply)
                             /\ chat'[d].pc = "assistant" => chat[d].pc = "assistant"
                             /\ naming[d] # "none" => chat'[d].pc = "done"
<1>1. chat \in [Chats -> Calls] /\ \A d \in Chats : Known(d)
  BY DEF ChatInd, ChatTypeOK
<1>2. \A d \in Chats : chat'[d] = IF d = c THEN r ELSE chat[d]
  BY <1>1
<1>3. chat' \in [Chats -> Calls]
  BY <1>1
<1>4. \A d \in Chats : chat[d].pc # "idle" => chat'[d].pc # "idle" /\ chat'[d].reply = chat[d].reply
  BY <1>2
<1>5. naming[c] = "none"
  BY <1>1 DEF Known
<1>6. Copied'
  <2> SUFFICES ASSUME NEW d \in Chats, chat'[d].pc = "writeback"
               PROVE  Intact(chat'[d].copy, Secure', exposed', chat')
    BY DEF Copied
  <2>1. Secure' = Secure /\ exposed' = exposed
    BY DEF Secure
  <2>2. chat'[d].copy \in Seq(Turns) /\ Intact(chat'[d].copy, Secure, exposed, chat)
    <3>1. CASE d = c
      BY <1>2, <3>1 DEF ChatInd, ChatTypeOK, Stored, Intact
    <3>2. CASE d # c
      BY <1>2, <3>2, ChatCallFields DEF ChatInd, Copied
    <3>3. QED BY <3>1, <3>2
  <2>3. QED BY <1>4, <2>1, <2>2, IntactLater, ZenonT(60) DEF Intact
<1>7. StampsAreStored'
  BY <1>2 DEF ChatInd, StampsAreStored
<1>8. \A d \in Chats : naming[d] # "none" => chat'[d] = chat[d]
  BY <1>2, <1>5
<1>9. OneTitleTask'
  BY <1>8 DEF ChatInd, OneTitleTask
<1>10. \A d \in Chats : /\ Decided(chat'[d].reply)
                        /\ chat'[d].pc = "assistant" => chat[d].pc = "assistant"
                        /\ naming[d] # "none" => chat'[d].pc = "done"
  BY <1>1, <1>2, <1>5 DEF Known
<1>11. QED BY <1>3, <1>4, <1>6, <1>7, <1>8, <1>9, <1>10

\* The row keeps its turns while calls go on.
LEMMA RowFrame ==
  ASSUME ChatTypeOK, Stored, messages' = messages, written' = written, exposed' = exposed,
         HasRow' => HasRow,
         \A c \in Chats : chat[c].pc # "idle" => chat'[c].pc # "idle" /\ chat'[c].reply = chat[c].reply
  PROVE  Stored'
<1>1. messages \in Seq(Turns) /\ Secure' = Secure
  BY DEF ChatTypeOK, Secure
<1>2. Follows(messages, exposed) /\ Cards(messages, chat')
  BY <1>1, IntactLater DEF Stored
<1>3. QED BY <1>1, <1>2 DEF Stored

LEMMA BeginStep ==
  ASSUME ChatInd, NEW c \in Chats, NEW w \in ChatWorkers, ChatRequest(c, w)
  PROVE  ChatInd'
<1>1. /\ ChatTypeOK /\ chat \in [Chats -> Calls] /\ messages \in Seq(Turns)
      /\ chat[c].pc = "idle" /\ title # "none"
      /\ chat[c] \in Calls /\ Decided(chat[c].reply) /\ chat[c].reply \in Replies
  BY ChatCallFields
  DEF ChatInd, Known, ChatTypeOK, ChatRequest, Chat, LegacyChat, Rename, DeleteConversation, PatchRead
<1>2. UNCHANGED <<naming, inflight, chatFaults, written, exposed>>
  BY DEF ChatRequest, Chat, LegacyChat, Rename, DeleteConversation, PatchRead, Steady
<1>3. PICK r \in Calls :
        /\ chat' = [chat EXCEPT ![c] = r] /\ r.pc \in {"user", "writeback", "done"}
        /\ Decided(r.reply) /\ r.ts = chat[c].ts
        /\ r.pc = "writeback" => HasRow /\ r.copy = messages
  <2>1. CASE Chat(c, w)
    <3>1. CASE \E r \in PossibleReplies :
                 chat' = [chat EXCEPT ![c] = [BeginCall(c, "chat", w) EXCEPT !.pc = "user", !.reply = r]]
      <4>1. PICK r \in PossibleReplies :
              chat' = [chat EXCEPT ![c] = [BeginCall(c, "chat", w) EXCEPT !.pc = "user", !.reply = r]]
        BY <3>1
      <4>2. r \in Replies /\ Decided(r)
        BY RepliesDecided
      <4>3. [BeginCall(c, "chat", w) EXCEPT !.pc = "user", !.reply = r] \in Calls
        BY <1>1, <4>2 DEF BeginCall, Calls
      <4>4. LET n == [BeginCall(c, "chat", w) EXCEPT !.pc = "user", !.reply = r]
            IN n.pc = "user" /\ n.reply = r /\ n.ts = chat[c].ts
        BY <1>1 DEF BeginCall, Calls
      <4>5. QED BY <4>1, <4>2, <4>3, <4>4
    <3>2. CASE chat' = [chat EXCEPT ![c] = [BeginCall(c, "chat", w) EXCEPT !.pc = "done"]]
      <4>1. [BeginCall(c, "chat", w) EXCEPT !.pc = "done"] \in Calls
        BY <1>1 DEF BeginCall, Calls
      <4>2. LET n == [BeginCall(c, "chat", w) EXCEPT !.pc = "done"]
            IN n.pc = "done" /\ n.reply = chat[c].reply /\ n.ts = chat[c].ts
        BY <1>1 DEF BeginCall, Calls
      <4>3. QED BY <1>1, <3>2, <4>1, <4>2
    <3>3. QED BY <2>1, <3>1, <3>2 DEF Chat
  <2>2. CASE LegacyChat(c, w)
    <3>1. PICK next \in {"user", "done"} :
            chat' = [chat EXCEPT ![c] = [BeginCall(c, "legacy", w) EXCEPT !.pc = next]]
      BY <2>2 DEF LegacyChat
    <3>2. [BeginCall(c, "legacy", w) EXCEPT !.pc = next] \in Calls
      BY <1>1 DEF BeginCall, Calls
    <3>3. LET n == [BeginCall(c, "legacy", w) EXCEPT !.pc = next]
          IN n.pc = next /\ n.reply = chat[c].reply /\ n.ts = chat[c].ts
      BY <1>1 DEF BeginCall, Calls
    <3>4. QED BY <1>1, <3>1, <3>2, <3>3
  <2>3. CASE Rename(c, w) \/ DeleteConversation(c, w)
    <3>1. PICK kind \in {"rename", "delete"} :
            chat' = [chat EXCEPT ![c] = [BeginCall(c, kind, w) EXCEPT !.pc = "done"]]
      BY <2>3 DEF Rename, DeleteConversation
    <3>2. [BeginCall(c, kind, w) EXCEPT !.pc = "done"] \in Calls
      BY <1>1 DEF BeginCall, Calls
    <3>3. LET n == [BeginCall(c, kind, w) EXCEPT !.pc = "done"]
          IN n.pc = "done" /\ n.reply = chat[c].reply /\ n.ts = chat[c].ts
      BY <1>1 DEF BeginCall, Calls
    <3>4. QED BY <1>1, <3>1, <3>2, <3>3
  <2>4. CASE \E t \in Chats : PatchRead(c, t, w)
    <3>1. PICK t \in Chats : PatchRead(c, t, w)
      BY <2>4
    <3>2. CASE HasRow /\ messages # <<>>
      <4>1. chat' = [chat EXCEPT ![c] =
              [BeginCall(c, "patch", w) EXCEPT !.pc = "writeback", !.target = t, !.copy = messages]]
        BY <3>1, <3>2 DEF PatchRead
      <4>2. [BeginCall(c, "patch", w) EXCEPT !.pc = "writeback", !.target = t, !.copy = messages] \in Calls
        BY <1>1 DEF BeginCall, Calls
      <4>3. LET n == [BeginCall(c, "patch", w) EXCEPT !.pc = "writeback", !.target = t, !.copy = messages]
            IN n.pc = "writeback" /\ n.reply = chat[c].reply /\ n.ts = chat[c].ts /\ n.copy = messages
        BY <1>1 DEF BeginCall, Calls
      <4>4. QED BY <1>1, <3>2, <4>1, <4>2, <4>3
    <3>3. CASE ~(HasRow /\ messages # <<>>)
      <4>1. chat' = [chat EXCEPT ![c] = [BeginCall(c, "patch", w) EXCEPT !.pc = "done"]]
        BY <3>1, <3>3 DEF PatchRead
      <4>2. [BeginCall(c, "patch", w) EXCEPT !.pc = "done"] \in Calls
        BY <1>1 DEF BeginCall, Calls
      <4>3. LET n == [BeginCall(c, "patch", w) EXCEPT !.pc = "done"]
            IN n.pc = "done" /\ n.reply = chat[c].reply /\ n.ts = chat[c].ts
        BY <1>1 DEF BeginCall, Calls
      <4>4. QED BY <1>1, <4>1, <4>2, <4>3
    <3>4. QED BY <3>2, <3>3
  <2>5. QED BY <2>1, <2>2, <2>3, <2>4 DEF ChatRequest
<1>4. /\ chat' \in [Chats -> Calls]
      /\ \A d \in Chats : chat[d].pc # "idle" => chat'[d].pc # "idle" /\ chat'[d].reply = chat[d].reply
      /\ Copied' /\ StampsAreStored' /\ OneTitleTask'
      /\ \A d \in Chats : naming[d] # "none" => chat'[d] = chat[d]
      /\ \A d \in Chats : /\ Decided(chat'[d].reply)
                          /\ chat'[d].pc = "assistant" => chat[d].pc = "assistant"
                          /\ naming[d] # "none" => chat'[d].pc = "done"
  BY <1>1, <1>2, <1>3, CallBegins
\* What becomes of the row.
<1>5. /\ title' \in {"none", "default", "generated", "named", "gone"} /\ title' # "none"
      /\ HasRow' => HasRow
      /\ (messages' = messages) \/ (messages' = <<>> /\ ~HasRow')
      /\ named' \in BOOLEAN /\ overtaken' \in BOOLEAN
      /\ overtaken => overtaken'
      /\ named' /\ ~named => title' = "named" /\ (overtaken' \/ \A d \in Chats : naming[d] # "write")
      /\ title' = title \/ title' \in {"named", "gone"}
  <2>1. CASE UNCHANGED <<title, messages, named, overtaken>>
    BY <1>1, <2>1 DEF ChatTypeOK, HasRow
  <2>2. CASE Rename(c, w)
    BY <1>1, <2>2 DEF ChatTypeOK, Rename, HasRow
  <2>3. CASE DeleteConversation(c, w)
    BY <1>1, <2>3 DEF ChatTypeOK, DeleteConversation, HasRow
  <2>4. QED BY <2>1, <2>2, <2>3 DEF ChatRequest, Chat, LegacyChat, PatchRead, Steady
<1>6. ChatTypeOK'
  <2>1. messages' \in Seq(Turns)
    BY <1>1, <1>5, EmptyArray
  <2>2. QED BY <1>1, <1>2, <1>4, <1>5, <2>1 DEF ChatTypeOK
<1>7. Stored'
  <2>1. CASE messages' = messages
    BY <1>1, <1>2, <1>4, <1>5, <2>1, RowFrame DEF ChatInd
  <2>2. CASE messages' = <<>> /\ ~HasRow'
    BY <2>2, EmptyArray DEF Stored
  <2>3. QED BY <1>5, <2>1, <2>2
<1>8. \A d \in Chats : Known(d)'
  BY <1>2, <1>4, <1>5 DEF ChatInd, Known
<1>9. \A d \in Chats : Tasked(d)'
  BY <1>2, <1>4, <1>5 DEF ChatInd, Tasked
<1>10. Blank' /\ NamesStay'
  BY <1>5 DEF ChatInd, Blank, NamesStay
<1>11. QED BY <1>4, <1>6, <1>7, <1>8, <1>9, <1>10 DEF ChatInd

-----------------------------------------------------------------------------
(* Title tasks *)

\* Steps that leave the calls and their arrays alone.
LEMMA TitleFrame ==
  ASSUME ChatInd, UNCHANGED <<messages, chat, written, exposed, named>>,
         title' \in {"none", "default", "generated", "named", "gone"},
         naming' \in [Chats -> {"none", "get", "ask", "recheck", "write"}],
         inflight' \subseteq ChatWorkers, chatFaults' \in 0 .. MaxChatFaults,
         overtaken' = overtaken, HasRow' => HasRow, title' = "none" => title = "none",
         \A c \in Chats : naming'[c] # "none" => naming[c] # "none",
         NamesStay', \A c \in Chats : Tasked(c)'
  PROVE  ChatInd'
<1>1. ChatTypeOK'
  BY DEF ChatInd, ChatTypeOK
<1>2. Stored' /\ Copied'
  <2>1. Secure' = Secure
    BY DEF Secure
  <2>2. QED BY <2>1 DEF ChatInd, Stored, Copied
<1>3. \A c \in Chats : Known(c)'
  BY DEF ChatInd, Known
<1>4. Blank' /\ StampsAreStored' /\ OneTitleTask'
  BY DEF ChatInd, Blank, StampsAreStored, OneTitleTask
<1>5. QED BY <1>1, <1>2, <1>3, <1>4 DEF ChatInd

\* A task that goes on, and one that ends.
LEMMA TaskGoesOn ==
  ASSUME ChatInd, NEW c \in Chats, naming[c] # "none", NEW next \in {"ask", "recheck", "write"},
         naming' = [naming EXCEPT ![c] = next], next = "write" => overtaken \/ ~named,
         UNCHANGED <<title, inflight, messages, chat, chatFaults, written, exposed, named, overtaken>>
  PROVE  ChatInd'
<1>1. ChatTypeOK
  BY DEF ChatInd
<1>2. naming' \in [Chats -> {"none", "get", "ask", "recheck", "write"}]
  BY <1>1 DEF ChatTypeOK
<1>3. \A d \in Chats : naming'[d] = IF d = c THEN next ELSE naming[d]
  BY <1>1 DEF ChatTypeOK
<1>4. \A d \in Chats : Tasked(d)'
  BY <1>3 DEF ChatInd, Tasked
<1>5. NamesStay' /\ (HasRow' => HasRow)
  BY DEF ChatInd, NamesStay, HasRow
<1>6. QED BY <1>1, <1>2, <1>3, <1>4, <1>5, TitleFrame DEF ChatTypeOK

LEMMA TaskEnds ==
  ASSUME ChatInd, NEW c \in Chats, naming[c] # "none", TitleEnds(c),
         UNCHANGED <<messages, chat, written, exposed, named, overtaken>>,
         chatFaults' \in 0 .. MaxChatFaults,
         title' = title \/ (title' = "generated" /\ HasRow /\ (overtaken \/ ~named))
  PROVE  ChatInd'
<1>1. ChatTypeOK /\ OneTitleTask
  BY DEF ChatInd
<1>2. naming' = [naming EXCEPT ![c] = "none"]
  BY DEF TitleEnds
<1>3. naming' \in [Chats -> {"none", "get", "ask", "recheck", "write"}]
  BY <1>1, <1>2 DEF ChatTypeOK
<1>4. \A d \in Chats : naming'[d] = IF d = c THEN "none" ELSE naming[d]
  BY <1>1, <1>2 DEF ChatTypeOK
<1>5. inflight' \subseteq ChatWorkers
  BY <1>1 DEF ChatTypeOK, TitleEnds
<1>6. \A d \in Chats : Tasked(d)'
  <2> SUFFICES ASSUME NEW d \in Chats, d # c, chat[d].kind = "chat", naming[d] # "none"
               PROVE  chat[d].worker \in inflight'
    BY <1>4 DEF ChatInd, Tasked
  <2>1. chat[d].worker \in inflight
    BY DEF ChatInd, Tasked
  <2>2. ~(chat[c].kind = "chat" /\ chat[c].worker = chat[d].worker)
    BY <1>1 DEF OneTitleTask
  <2>3. QED BY <2>1, <2>2 DEF TitleEnds
<1>7. NamesStay' /\ (HasRow' => HasRow) /\ (title' = "none" => title = "none")
  BY DEF ChatInd, NamesStay, HasRow
<1>8. title' \in {"none", "default", "generated", "named", "gone"}
  BY <1>1 DEF ChatTypeOK
<1>9. QED BY <1>3, <1>4, <1>5, <1>6, <1>7, <1>8, TitleFrame

LEMMA TitleTaskStep ==
  ASSUME ChatInd, NEW c \in Chats, TitleStep(c)
  PROVE  ChatInd'
<1>0. chatFaults \in 0 .. MaxChatFaults /\ MaxChatFaults \in Nat
  BY ChatAssumption DEF ChatInd, ChatTypeOK
<1>1. CASE FirstLook(c)
  <2>1. /\ naming[c] # "none"
        /\ UNCHANGED <<title, messages, chat, chatFaults, written, exposed, named, overtaken>>
        /\ (naming' = [naming EXCEPT ![c] = "ask"] /\ inflight' = inflight) \/ TitleEnds(c)
    BY <1>1 DEF FirstLook, Frame
  <2>2. QED BY <1>0, <2>1, TaskGoesOn, TaskEnds
<1>2. CASE AskTitle(c)
  <2>1. /\ naming[c] # "none"
        /\ UNCHANGED <<title, messages, chat, chatFaults, written, exposed, named, overtaken>>
        /\ (naming' = [naming EXCEPT ![c] = "recheck"] /\ inflight' = inflight) \/ TitleEnds(c)
    BY <1>2 DEF AskTitle, Frame
  <2>2. QED BY <1>0, <2>1, TaskGoesOn, TaskEnds
<1>3. CASE SecondLook(c)
  <2>1. /\ naming[c] # "none"
        /\ UNCHANGED <<title, messages, chat, chatFaults, written, exposed, named, overtaken>>
    BY <1>3 DEF SecondLook, Frame
  <2>2. CASE Untitled
    <3>1. naming' = [naming EXCEPT ![c] = "write"] /\ inflight' = inflight
      BY <1>3, <2>2 DEF SecondLook
    <3>2. overtaken \/ ~named
      BY <2>2 DEF ChatInd, NamesStay, Untitled, ChatTypeOK
    <3>3. QED BY <2>1, <3>1, <3>2, TaskGoesOn
  <2>3. CASE ~Untitled
    <3>1. TitleEnds(c)
      BY <1>3, <2>3 DEF SecondLook
    <3>2. QED BY <1>0, <2>1, <3>1, TaskEnds
  <2>4. QED BY <2>2, <2>3
<1>4. CASE WriteTitle(c)
  <2>1. /\ naming[c] # "none" /\ TitleEnds(c)
        /\ UNCHANGED <<messages, chat, chatFaults, written, exposed, named, overtaken>>
    BY <1>4 DEF WriteTitle, Frame
  <2>2. overtaken \/ ~named
    BY <1>4 DEF WriteTitle, ChatInd, Tasked
  <2>3. title' = title \/ (title' = "generated" /\ HasRow)
    BY <1>4 DEF WriteTitle
  <2>4. QED BY <1>0, <2>1, <2>2, <2>3, TaskEnds
<1>5. CASE TitleFails(c)
  <2>1. /\ naming[c] # "none" /\ TitleEnds(c)
        /\ UNCHANGED <<title, messages, chat, written, exposed, named, overtaken>>
        /\ chatFaults' \in 0 .. MaxChatFaults
    BY <1>0, <1>5 DEF TitleFails
  <2>2. QED BY <2>1, TaskEnds
<1>6. QED BY <1>1, <1>2, <1>3, <1>4, <1>5 DEF TitleStep

-----------------------------------------------------------------------------
(* Appending and writing back *)

\* What is recorded is stored, and every array that lacks it may lose it.
LEMMA RecordKept ==
  ASSUME ChatTypeOK, NEW fact \in Facts, NEW holders, Remember(fact, holders)
  PROVE  /\ written' \subseteq Facts /\ exposed' \subseteq Facts
         /\ written \subseteq written' /\ exposed \subseteq exposed'
         /\ Secure' \subseteq Secure \union {fact}
         /\ holders # {} => Secure' \subseteq Secure
         /\ fact \in written'
BY DEF ChatTypeOK, Remember, Secure

\* The calls and copies when call c, which is not idle, becomes r.
LEMMA CallGoesOn ==
  ASSUME ChatInd, NEW c \in Chats, chat[c].pc # "idle", NEW r \in Calls,
         chat' = [chat EXCEPT ![c] = r], r.pc \in {"assistant", "done"},
         r.kind = chat[c].kind, r.worker = chat[c].worker, r.reply = chat[c].reply,
         exposed \subseteq exposed', Patching \ {c} # {} => Secure' \subseteq Secure
  PROVE  /\ chat' \in [Chats -> Calls] /\ Copied'
         /\ \A d \in Chats : chat[d].pc # "idle" => chat'[d].pc # "idle" /\ chat'[d].reply = chat[d].reply
         /\ \A d \in Chats : chat'[d] = IF d = c THEN r ELSE chat[d]
<1>1. chat \in [Chats -> Calls]
  BY DEF ChatInd, ChatTypeOK
<1>2. \A d \in Chats : chat'[d] = IF d = c THEN r ELSE chat[d]
  BY <1>1
<1>3. \A d \in Chats : chat[d].pc # "idle" => chat'[d].pc # "idle" /\ chat'[d].reply = chat[d].reply
  BY <1>2
<1>4. Copied'
  <2> SUFFICES ASSUME NEW d \in Chats, chat'[d].pc = "writeback"
               PROVE  Intact(chat'[d].copy, Secure', exposed', chat')
    BY DEF Copied
  <2>1. d # c /\ chat'[d] = chat[d]
    BY <1>2
  <2>2. d \in Patching \ {c}
    BY <2>1 DEF Patching
  <2>3. chat[d].copy \in Seq(Turns) /\ Intact(chat[d].copy, Secure, exposed, chat)
    BY <2>1, ChatCallFields DEF ChatInd, Copied
  <2>4. QED BY <1>3, <2>1, <2>2, <2>3, IntactLater, ZenonT(60) DEF Intact
<1>5. QED BY <1>1, <1>2, <1>3, <1>4

LEMMA AppendKeeps ==
  ASSUME ChatInd, NEW c \in Chats, NEW role \in Speakers, chat[c].pc = role,
         AppendMessage(c, role) \/ UNCHANGED <<messages, written, exposed>>, title' = title,
         NEW r \in Calls, chat' = [chat EXCEPT ![c] = r], r.pc \in {"assistant", "done"},
         r.kind = chat[c].kind, r.worker = chat[c].worker, r.reply = chat[c].reply
  PROVE  /\ chat' \in [Chats -> Calls] /\ Copied' /\ Stored'
         /\ \A d \in Chats : chat'[d] = IF d = c THEN r ELSE chat[d]
         /\ messages' \in Seq(Turns) /\ written' \subseteq Facts /\ exposed' \subseteq Facts
         /\ written \subseteq written'
         /\ AppendMessage(c, role) /\ HasRow => <<c, role>> \in written'
<1>1. /\ ChatTypeOK /\ messages \in Seq(Turns) /\ chat[c] \in Calls /\ Known(c)
      /\ <<c, role>> \in Facts /\ chat[c].pc # "idle" /\ HasRow' = HasRow
  BY ChatCallFields DEF ChatInd, ChatTypeOK, Facts, Speakers, HasRow
<1>2. CASE UNCHANGED <<messages, written, exposed>>
  <2>1. Secure' = Secure
    BY <1>2 DEF Secure
  <2>2. /\ chat' \in [Chats -> Calls] /\ Copied'
        /\ \A d \in Chats : chat[d].pc # "idle" => chat'[d].pc # "idle" /\ chat'[d].reply = chat[d].reply
        /\ \A d \in Chats : chat'[d] = IF d = c THEN r ELSE chat[d]
    BY <1>1, <1>2, <2>1, CallGoesOn
  <2>3. Stored'
    BY <1>1, <1>2, <2>2, RowFrame DEF ChatInd
  <2>4. /\ messages' \in Seq(Turns) /\ written' \subseteq Facts /\ exposed' \subseteq Facts
        /\ written \subseteq written'
    BY <1>1, <1>2 DEF ChatTypeOK
  <2>5. AppendMessage(c, role) /\ HasRow => <<c, role>> \in written'
    BY DEF AppendMessage, Remember
  <2>6. QED BY <2>2, <2>3, <2>4, <2>5
<1>3. CASE HasRow /\ AppendMessage(c, role)
  <2> DEFINE turn == [of |-> c, role |-> role, task |-> FALSE,
                      route  |-> IF role = "assistant" THEN chat[c].reply.route ELSE "none",
                      intent |-> IF role = "assistant" THEN chat[c].reply.intent ELSE "none"]
  <2>1. messages' = Append(messages, turn) /\ Remember(<<c, role>>, Patching)
    BY <1>3 DEF AppendMessage
  <2>2. /\ turn \in Turns /\ turn.of = c /\ turn.role = role
        /\ turn.intent # "tagged"
        /\ turn.route = "scan" => chat[c].reply.route = "scan"
    <3>1. chat[c].reply.route \in Routings /\ chat[c].reply.intent \in Targets \ {"tagged"}
      BY <1>1, ChatCallFields DEF Known, Decided
    <3>2. QED BY <3>1 DEF Turns, Routings, Targets
  <2> HIDE DEF turn
  <2>3. /\ written' \subseteq Facts /\ exposed' \subseteq Facts
        /\ written \subseteq written' /\ exposed \subseteq exposed'
        /\ Secure' \subseteq Secure \union {<<c, role>>}
        /\ Patching # {} => Secure' \subseteq Secure
        /\ <<c, role>> \in written'
    BY <1>1, <2>1, RecordKept
  <2>4. /\ chat' \in [Chats -> Calls] /\ Copied'
        /\ \A d \in Chats : chat[d].pc # "idle" => chat'[d].pc # "idle" /\ chat'[d].reply = chat[d].reply
        /\ \A d \in Chats : chat'[d] = IF d = c THEN r ELSE chat[d]
    <3>1. Patching \ {c} # {} => Secure' \subseteq Secure
      BY <2>3
    <3>2. QED BY <1>1, <2>3, <3>1, CallGoesOn
  <2>5. Keeps(messages, Secure) /\ Follows(messages, exposed') /\ Cards(messages, chat')
    BY <1>1, <1>3, <2>3, <2>4, IntactLater, ZenonT(60) DEF ChatInd, Stored
  <2>6. Keeps(messages', Secure')
    <3>1. \A fact \in Secure : Shows(messages', fact)
      BY <1>1, <2>1, <2>2, <2>5, AppendShows DEF Keeps
    <3>2. Shows(messages', <<c, role>>)
      BY <1>1, <2>1, <2>2, AppendShows
    <3>3. QED BY <2>3, <3>1, <3>2 DEF Keeps
  <2>7. Follows(messages', exposed')
    <3>1. ASSUME turn.role = "assistant"
          PROVE  <<turn.of, "user">> \in exposed' \/ Shows(messages, <<turn.of, "user">>)
      <4>1. <<c, "user">> \in written
        BY <1>1, <1>3, <2>2, <3>1 DEF Known
      <4>2. <<c, "user">> \in exposed \/ Shows(messages, <<c, "user">>)
        BY <2>5, <4>1 DEF Secure, Keeps
      <4>3. QED BY <2>2, <2>3, <4>2
    <3>2. QED BY <1>1, <2>1, <2>2, <2>5, <3>1, AppendFollows
  <2>8. Cards(messages', chat')
    <3>1. Card(turn, chat')
      BY <1>1, <2>2, <2>4 DEF Card
    <3>2. QED BY <1>1, <2>1, <2>2, <2>5, <3>1, AppendCards
  <2>9. messages' \in Seq(Turns)
    BY <1>1, <2>1, <2>2, AppendShape
  <2>10. QED BY <2>3, <2>4, <2>6, <2>7, <2>8, <2>9 DEF Stored
<1>4. CASE ~HasRow
  <2>1. UNCHANGED <<messages, written, exposed>>
    BY <1>4 DEF AppendMessage
  <2>2. QED BY <1>2, <2>1
<1>5. QED BY <1>2, <1>3, <1>4

\* After the last turn of a call, its title task is the only one of its process.
LEMMA SpawnKeeps ==
  ASSUME ChatInd, NEW c \in Chats, naming[c] = "none", NEW r \in Calls,
         \A d \in Chats : chat'[d] = IF d = c THEN r ELSE chat[d],
         r.kind = chat[c].kind, r.worker = chat[c].worker,
         UNCHANGED <<title, named, overtaken>>,
         (r.pc = "done" /\ SpawnTitleTask(c)) \/ UNCHANGED <<naming, inflight>>
  PROVE  /\ naming' \in [Chats -> {"none", "get", "ask", "recheck", "write"}]
         /\ inflight' \subseteq ChatWorkers /\ OneTitleTask'
         /\ \A d \in Chats : Tasked(d)' /\ (naming'[d] # "none" => chat'[d].pc = "done")
<1>1. /\ naming \in [Chats -> {"none", "get", "ask", "recheck", "write"}] /\ inflight \subseteq ChatWorkers
      /\ chat[c].worker \in ChatWorkers
      /\ \A d \in Chats : Known(d) /\ Tasked(d)
      /\ OneTitleTask
  BY ChatCallFields DEF ChatInd, ChatTypeOK
<1>2. \A d \in Chats : chat'[d].kind = chat[d].kind /\ chat'[d].worker = chat[d].worker
  OBVIOUS
<1>3. CASE UNCHANGED <<naming, inflight>>
  <2>1. OneTitleTask'
    BY <1>1, <1>2, <1>3 DEF OneTitleTask
  <2>2. ASSUME NEW d \in Chats PROVE Tasked(d)' /\ (naming'[d] # "none" => chat'[d].pc = "done")
    <3>1. d = c => naming'[d] = "none"
      BY <1>3
    <3>2. d # c => chat'[d] = chat[d]
      OBVIOUS
    <3>3. QED BY <1>1, <1>2, <1>3, <3>1, <3>2 DEF Tasked, Known
  <2>3. QED BY <1>1, <1>3, <2>1, <2>2
<1>4. CASE /\ r.pc = "done" /\ naming' = [naming EXCEPT ![c] = "get"]
           /\ chat[c].kind = "chat" => /\ chat[c].worker \notin inflight
                                       /\ inflight' = inflight \union {chat[c].worker}
           /\ chat[c].kind # "chat" => inflight' = inflight
  <2>1. \A d \in Chats : naming'[d] = IF d = c THEN "get" ELSE naming[d]
    BY <1>1, <1>4
  <2>2. /\ naming' \in [Chats -> {"none", "get", "ask", "recheck", "write"}]
        /\ inflight' \subseteq ChatWorkers /\ inflight \subseteq inflight'
    BY <1>1, <1>4
  <2>3. ASSUME NEW d \in Chats PROVE Tasked(d)' /\ (naming'[d] # "none" => chat'[d].pc = "done")
    BY <1>1, <1>2, <1>4, <2>1, <2>2, ZenonT(60) DEF Tasked, Known
  <2>4. \A d \in Chats : d # c /\ chat[c].kind = "chat" /\ chat[d].kind = "chat" /\ naming[d] # "none"
                         => chat[d].worker # chat[c].worker
    BY <1>1, <1>4 DEF Tasked
  <2>5. OneTitleTask'
    BY <1>1, <1>2, <2>1, <2>4 DEF OneTitleTask
  <2>6. QED BY <2>2, <2>3, <2>5
<1>5. QED BY <1>3, <1>4 DEF SpawnTitleTask

LEMMA AnswerKeeps ==
  ASSUME ChatInd, NEW c \in Chats, AnswerStep(c)
  PROVE  ChatInd'
<1>1. /\ ChatTypeOK /\ chat[c] \in Calls /\ chat \in [Chats -> Calls] /\ Known(c) /\ chat[c].pc \in Speakers
      /\ naming[c] = "none" /\ title # "none" /\ StampsAreStored
      /\ UNCHANGED <<title, named, overtaken>>
  BY ChatCallFields
  DEF ChatInd, ChatTypeOK, AnswerStep, AppendUser, AppendAssistant, AppendFails, Known, Speakers
<1>2. chatFaults' \in 0 .. MaxChatFaults
  <2>1. chatFaults \in 0 .. MaxChatFaults /\ MaxChatFaults \in Nat
    BY <1>1, ChatAssumption DEF ChatTypeOK
  <2>2. CASE AppendFails(c)
    BY <2>1, <2>2 DEF AppendFails
  <2>3. CASE AppendUser(c) \/ AppendAssistant(c)
    BY <2>1, <2>3 DEF AppendUser, AppendAssistant
  <2>4. QED BY <2>2, <2>3 DEF AnswerStep
<1>3. PICK r \in Calls :
        /\ chat' = [chat EXCEPT ![c] = r] /\ r.pc \in {"assistant", "done"}
        /\ r.kind = chat[c].kind /\ r.worker = chat[c].worker /\ r.reply = chat[c].reply
        /\ AppendMessage(c, chat[c].pc) \/ UNCHANGED <<messages, written, exposed>>
        /\ (r.pc = "done" /\ SpawnTitleTask(c)) \/ UNCHANGED <<naming, inflight>>
        /\ r.pc = "assistant" => chat[c].pc = "user" /\ AppendMessage(c, "user")
        /\ r.ts => chat[c].ts \/ (HasRow /\ chat[c].pc = "assistant" /\ AppendMessage(c, "assistant"))
  <2>1. CASE AppendUser(c)
    <3>1. [chat[c] EXCEPT !.pc = "assistant"] \in Calls
      BY <1>1 DEF Calls
    <3>2. LET n == [chat[c] EXCEPT !.pc = "assistant"]
          IN /\ n.pc = "assistant" /\ n.kind = chat[c].kind /\ n.worker = chat[c].worker
             /\ n.reply = chat[c].reply /\ n.ts = chat[c].ts
      BY <1>1 DEF Calls
    <3>3. /\ chat' = [chat EXCEPT ![c] = [chat[c] EXCEPT !.pc = "assistant"]]
          /\ chat[c].pc = "user" /\ AppendMessage(c, "user") /\ UNCHANGED <<naming, inflight>>
      BY <2>1 DEF AppendUser
    <3>4. QED BY <3>1, <3>2, <3>3
  <2>2. CASE AppendAssistant(c)
    <3>1. [chat[c] EXCEPT !.pc = "done", !.ts = HasRow] \in Calls
      BY <1>1 DEF Calls, HasRow
    <3>2. LET n == [chat[c] EXCEPT !.pc = "done", !.ts = HasRow]
          IN /\ n.pc = "done" /\ n.kind = chat[c].kind /\ n.worker = chat[c].worker
             /\ n.reply = chat[c].reply /\ n.ts = HasRow
      BY <1>1 DEF Calls
    <3>3. /\ chat' = [chat EXCEPT ![c] = [chat[c] EXCEPT !.pc = "done", !.ts = HasRow]]
          /\ chat[c].pc = "assistant" /\ AppendMessage(c, "assistant") /\ SpawnTitleTask(c)
      BY <1>1, <2>2 DEF AppendAssistant
    <3>4. QED BY <3>1, <3>2, <3>3
  <2>3. CASE AppendFails(c)
    <3>1. [chat[c] EXCEPT !.pc = "done"] \in Calls
      BY <1>1 DEF Calls
    <3>2. LET n == [chat[c] EXCEPT !.pc = "done"]
          IN /\ n.pc = "done" /\ n.kind = chat[c].kind /\ n.worker = chat[c].worker
             /\ n.reply = chat[c].reply /\ n.ts = chat[c].ts
      BY <1>1 DEF Calls
    <3>3. /\ chat' = [chat EXCEPT ![c] = [chat[c] EXCEPT !.pc = "done"]]
          /\ AppendMessage(c, chat[c].pc) \/ UNCHANGED <<messages, written, exposed>>
          /\ SpawnTitleTask(c) \/ UNCHANGED <<naming, inflight>>
      BY <2>3 DEF AppendFails, Finished
    <3>4. QED BY <3>1, <3>2, <3>3
  <2>4. QED BY <2>1, <2>2, <2>3 DEF AnswerStep
<1>4. /\ chat' \in [Chats -> Calls] /\ Copied' /\ Stored'
      /\ \A d \in Chats : chat'[d] = IF d = c THEN r ELSE chat[d]
      /\ messages' \in Seq(Turns) /\ written' \subseteq Facts /\ exposed' \subseteq Facts
      /\ written \subseteq written'
      /\ AppendMessage(c, chat[c].pc) /\ HasRow => <<c, chat[c].pc>> \in written'
  BY <1>1, <1>3, AppendKeeps
<1>5. /\ naming' \in [Chats -> {"none", "get", "ask", "recheck", "write"}]
      /\ inflight' \subseteq ChatWorkers /\ OneTitleTask'
      /\ \A d \in Chats : Tasked(d)' /\ (naming'[d] # "none" => chat'[d].pc = "done")
  BY <1>1, <1>3, <1>4, SpawnKeeps
<1>6. ChatTypeOK'
  BY <1>1, <1>2, <1>4, <1>5 DEF ChatTypeOK
<1>7. ASSUME NEW d \in Chats PROVE Known(d)'
  <2>1. HasRow' = HasRow
    BY <1>1 DEF HasRow
  <2>2. Known(d)
    BY DEF ChatInd
  <2>3. CASE d = c
    BY <1>1, <1>3, <1>4, <1>5, <2>1, <2>2, <2>3 DEF Known
  <2>4. CASE d # c
    BY <1>1, <1>4, <1>5, <2>1, <2>2, <2>4 DEF Known
  <2>5. QED BY <2>3, <2>4
<1>8. StampsAreStored'
  BY <1>1, <1>3, <1>4 DEF StampsAreStored
<1>9. Blank' /\ NamesStay'
  BY <1>1 DEF ChatInd, Blank, NamesStay
<1>10. QED BY <1>4, <1>5, <1>6, <1>7, <1>8, <1>9 DEF ChatInd

LEMMA PatchKeeps ==
  ASSUME ChatInd, NEW c \in Chats, PatchStep(c)
  PROVE  ChatInd'
<1>1. /\ ChatTypeOK /\ chat[c] \in Calls /\ chat \in [Chats -> Calls] /\ chat[c].pc = "writeback"
      /\ chat[c].copy \in Seq(Turns) /\ chat[c].target \in Chats
      /\ messages \in Seq(Turns)
      /\ Intact(chat[c].copy, Secure, exposed, chat)
      /\ UNCHANGED <<title, naming, inflight, named, overtaken>> /\ HasRow' = HasRow
  BY ChatCallFields DEF ChatInd, ChatTypeOK, PatchStep, PatchWrite, PatchFails, Copied, HasRow
<1> DEFINE r == [chat[c] EXCEPT !.pc = "done", !.copy = <<>>]
<1>2. /\ r \in Calls /\ r.pc = "done" /\ r.kind = chat[c].kind /\ r.worker = chat[c].worker
      /\ r.reply = chat[c].reply /\ r.ts = chat[c].ts
  <2>1. <<>> \in Seq(Turns)
    OBVIOUS
  <2>2. QED BY <1>1, <2>1 DEF Calls
<1>3. chat' = [chat EXCEPT ![c] = r]
  BY DEF PatchStep, PatchWrite, PatchFails
<1> HIDE DEF r
\* What is stored: the copy with its mark, or nothing.
<1> DEFINE kept == UNCHANGED <<messages, written, exposed>>
           stored == /\ HasRow /\ messages' = Marked(chat[c].copy, chat[c].target)
                     /\ \/ UNCHANGED <<written, exposed>>
                        \/ /\ Shows(chat[c].copy, <<chat[c].target, "assistant">>)
                           /\ Remember(<<chat[c].target, "task">>, Patching \ {c})
<1>4. kept \/ stored
  BY DEF PatchStep, PatchWrite, PatchFails
<1>5. /\ written' \subseteq Facts /\ exposed' \subseteq Facts
      /\ written \subseteq written' /\ exposed \subseteq exposed'
      /\ Patching \ {c} # {} => Secure' \subseteq Secure
      /\ \A fact \in Secure' \ Secure :
           /\ fact = <<chat[c].target, "task">>
           /\ Shows(chat[c].copy, <<chat[c].target, "assistant">>)
  <2>1. CASE UNCHANGED <<written, exposed>>
    BY <1>1, <2>1 DEF ChatTypeOK, Secure
  <2>2. CASE /\ Shows(chat[c].copy, <<chat[c].target, "assistant">>)
             /\ Remember(<<chat[c].target, "task">>, Patching \ {c})
    <3>1. <<chat[c].target, "task">> \in Facts
      BY <1>1 DEF Facts
    <3>2. QED BY <1>1, <2>2, <3>1, RecordKept
  <2>3. QED BY <1>4, <2>1, <2>2
<1>6. /\ chat' \in [Chats -> Calls] /\ Copied'
      /\ \A d \in Chats : chat[d].pc # "idle" => chat'[d].pc # "idle" /\ chat'[d].reply = chat[d].reply
      /\ \A d \in Chats : chat'[d] = IF d = c THEN r ELSE chat[d]
  BY <1>1, <1>2, <1>3, <1>5, CallGoesOn
<1>7. messages' \in Seq(Turns) /\ Stored'
  <2>1. CASE kept
    BY <1>1, <1>6, <2>1, RowFrame DEF ChatInd
  <2>2. CASE stored
    <3>1. /\ Keeps(chat[c].copy, Secure)
          /\ Follows(chat[c].copy, exposed') /\ Cards(chat[c].copy, chat')
      BY <1>1, <1>5, <1>6, IntactLater DEF Intact
    <3>2. /\ messages' \in Seq(Turns) /\ Follows(messages', exposed') /\ Cards(messages', chat')
      BY <1>1, <2>2, <3>1, MarkedShape, MarkedIntact
    <3>3. ASSUME NEW fact \in Secure' PROVE Shows(messages', fact)
      <4>1. CASE fact \in Secure
        BY <1>1, <2>2, <3>1, <4>1, MarkedIntact DEF Keeps
      <4>2. CASE fact \notin Secure
        BY <1>1, <1>5, <2>2, <4>2, MarkedIntact
      <4>3. QED BY <4>1, <4>2
    <3>4. QED BY <3>2, <3>3 DEF Stored, Keeps
  <2>3. QED BY <1>4, <2>1, <2>2
<1>8. chatFaults' \in 0 .. MaxChatFaults
  <2>1. chatFaults \in 0 .. MaxChatFaults /\ MaxChatFaults \in Nat
    BY <1>1, ChatAssumption DEF ChatTypeOK
  <2>2. QED BY <2>1 DEF PatchStep, PatchWrite, PatchFails
<1>9. ChatTypeOK'
  BY <1>1, <1>5, <1>6, <1>7, <1>8 DEF ChatTypeOK
<1>10. ASSUME NEW d \in Chats PROVE Known(d)' /\ Tasked(d)'
  <2>1. Known(d) /\ Tasked(d)
    BY DEF ChatInd
  <2>2. CASE d = c
    BY <1>1, <1>2, <1>5, <1>6, <2>1, <2>2 DEF Known, Tasked
  <2>3. CASE d # c
    BY <1>1, <1>5, <1>6, <2>1, <2>3 DEF Known, Tasked
  <2>4. QED BY <2>2, <2>3
<1>11. StampsAreStored'
  BY <1>2, <1>5, <1>6 DEF ChatInd, StampsAreStored
<1>12. OneTitleTask'
  <2>1. \A d \in Chats : chat'[d].kind = chat[d].kind /\ chat'[d].worker = chat[d].worker
    BY <1>2, <1>6
  <2>2. QED BY <1>1, <2>1 DEF ChatInd, OneTitleTask
<1>13. Blank' /\ NamesStay'
  <2>1. title # "none"
    BY <1>1 DEF ChatInd, Known
  <2>2. QED BY <1>1, <2>1 DEF ChatInd, Blank, NamesStay
<1>14. QED BY <1>6, <1>7, <1>9, <1>10, <1>11, <1>12, <1>13 DEF ChatInd

-----------------------------------------------------------------------------
(* The rest *)

LEMMA DeathKeeps ==
  ASSUME ChatInd, NEW w \in ChatWorkers, WorkerDies(w)
  PROVE  ChatInd'
<1>1. /\ ChatTypeOK /\ chat \in [Chats -> Calls] /\ messages \in Seq(Turns)
      /\ naming \in [Chats -> {"none", "get", "ask", "recheck", "write"}]
      /\ UNCHANGED <<title, messages, written, exposed, named, overtaken>>
      /\ HasRow' = HasRow /\ Secure' = Secure
      /\ chatFaults' \in 0 .. MaxChatFaults /\ inflight' = inflight \ {w}
  <2>1. chatFaults \in 0 .. MaxChatFaults /\ MaxChatFaults \in Nat
    BY ChatAssumption DEF ChatInd, ChatTypeOK
  <2>2. chatFaults' \in 0 .. MaxChatFaults
    <3>1. chatFaults < MaxChatFaults /\ chatFaults' = chatFaults + 1
      BY DEF WorkerDies
    <3>2. QED BY <2>1, <3>1
  <2>3. /\ ChatTypeOK /\ chat \in [Chats -> Calls] /\ messages \in Seq(Turns)
        /\ naming \in [Chats -> {"none", "get", "ask", "recheck", "write"}]
    BY DEF ChatInd, ChatTypeOK
  <2>4. /\ UNCHANGED <<title, messages, written, exposed, named, overtaken>>
        /\ inflight' = inflight \ {w}
    BY DEF WorkerDies
  <2>5. QED BY <2>2, <2>3, <2>4 DEF HasRow, Secure
<1>2. ASSUME NEW d \in Chats
      PROVE  /\ chat'[d] \in Calls
             /\ chat'[d] = chat[d] \/ (chat'[d].pc = "done" /\ chat[d].pc # "idle" /\ chat[d].worker = w)
             /\ chat'[d].kind = chat[d].kind /\ chat'[d].worker = chat[d].worker
             /\ chat'[d].reply = chat[d].reply /\ chat'[d].ts = chat[d].ts
  <2>1. <<>> \in Seq(Turns) /\ chat[d] \in Calls
    BY <1>1
  <2>2. chat'[d] = IF chat[d].worker = w /\ chat[d].pc # "idle"
                     THEN [chat[d] EXCEPT !.pc = "done", !.copy = <<>>] ELSE chat[d]
    BY DEF WorkerDies
  <2>3. LET n == [chat[d] EXCEPT !.pc = "done", !.copy = <<>>]
        IN /\ n \in Calls /\ n.pc = "done" /\ n.kind = chat[d].kind /\ n.worker = chat[d].worker
           /\ n.reply = chat[d].reply /\ n.ts = chat[d].ts
    BY <2>1 DEF Calls
  <2>4. QED BY <2>1, <2>2, <2>3
<1>3. chat' \in [Chats -> Calls]
  BY <1>2 DEF WorkerDies
<1>4. \A d \in Chats : naming'[d] = IF chat[d].worker = w THEN "none" ELSE naming[d]
  BY DEF WorkerDies
<1>5. naming' \in [Chats -> {"none", "get", "ask", "recheck", "write"}]
  BY <1>1 DEF WorkerDies
<1>6. \A d \in Chats : chat[d].pc # "idle" => chat'[d].pc # "idle" /\ chat'[d].reply = chat[d].reply
  BY <1>2
<1>7. ChatTypeOK'
  BY <1>1, <1>3, <1>5 DEF ChatTypeOK
<1>8. Stored'
  BY <1>1, <1>6, RowFrame DEF ChatInd
<1>9. Copied'
  <2> SUFFICES ASSUME NEW d \in Chats, chat'[d].pc = "writeback"
               PROVE  Intact(chat'[d].copy, Secure', exposed', chat')
    BY DEF Copied
  <2>1. chat'[d] = chat[d]
    BY <1>2
  <2>2. chat[d].copy \in Seq(Turns) /\ Intact(chat[d].copy, Secure, exposed, chat)
    BY <1>1, <2>1, ChatCallFields DEF ChatInd, Copied
  <2>3. QED BY <1>1, <1>6, <2>1, <2>2, IntactLater DEF Intact
<1>10. ASSUME NEW d \in Chats PROVE Known(d)' /\ Tasked(d)'
  BY <1>1, <1>2, <1>4 DEF ChatInd, Known, Tasked
<1>11. OneTitleTask' /\ StampsAreStored'
  BY <1>1, <1>2, <1>4 DEF ChatInd, OneTitleTask, StampsAreStored
<1>12. Blank' /\ NamesStay'
  BY <1>1 DEF ChatInd, Blank, NamesStay
<1>13. QED BY <1>7, <1>8, <1>9, <1>10, <1>11, <1>12 DEF ChatInd

LEMMA CreateKeeps ==
  ASSUME ChatInd, NEW name \in {"default", "named"}, CreateConversation(name)
  PROVE  ChatInd'
<1>1. /\ title = "none" /\ title' = name /\ named' = (name = "named")
      /\ UNCHANGED <<messages, chat, naming, inflight, chatFaults, written, exposed, overtaken>>
      /\ written = {} /\ Secure' = {}
      /\ \A c \in Chats : chat[c].pc = "idle" /\ naming[c] = "none"
  BY DEF ChatInd, CreateConversation, Blank, Known, Secure
<1>2. ChatTypeOK'
  BY <1>1 DEF ChatInd, ChatTypeOK
<1>3. Stored' /\ Copied'
  BY <1>1 DEF ChatInd, Stored, Copied, Keeps
<1>4. \A c \in Chats : Known(c)' /\ Tasked(c)'
  BY <1>1 DEF ChatInd, Known, Tasked
<1>5. Blank' /\ NamesStay' /\ StampsAreStored' /\ OneTitleTask'
  BY <1>1 DEF ChatInd, Blank, NamesStay, StampsAreStored, OneTitleTask
<1>6. QED BY <1>2, <1>3, <1>4, <1>5 DEF ChatInd

LEMMA ChatStarts == ChatInit => ChatInd
<1> SUFFICES ASSUME ChatInit PROVE ChatInd
  OBVIOUS
<1>1. PICK w \in ChatWorkers :
        chat = [c \in Chats |-> [kind |-> "none", worker |-> w, pc |-> "idle", reply |-> Plain,
                                target |-> c, copy |-> <<>>, ts |-> FALSE]]
  BY DEF ChatInit
<1>2. /\ title = "none" /\ messages = <<>> /\ naming = [c \in Chats |-> "none"]
      /\ inflight = {} /\ chatFaults = 0 /\ written = {} /\ exposed = {}
      /\ named = FALSE /\ overtaken = FALSE
  BY DEF ChatInit
<1>3. ASSUME NEW c \in Chats
      PROVE  /\ chat[c] \in Calls /\ chat[c].pc = "idle" /\ chat[c].ts = FALSE
             /\ Decided(chat[c].reply)
  <2>1. Plain \in Replies /\ Decided(Plain)
    BY RepliesDecided
  <2>2. <<>> \in Seq(Turns)
    OBVIOUS
  <2>3. QED BY <1>1, <2>1, <2>2 DEF Calls
<1>4. ChatTypeOK
  <2>1. chat \in [Chats -> Calls]
    BY <1>1, <1>3
  <2>2. <<>> \in Seq(Turns) /\ 0 \in 0 .. MaxChatFaults
    BY ChatAssumption
  <2>3. QED BY <1>2, <2>1, <2>2 DEF ChatTypeOK
<1>5. Stored /\ Copied
  BY <1>2, <1>3, EmptyArray DEF Stored, Copied, HasRow
<1>6. \A c \in Chats : Known(c) /\ Tasked(c)
  BY <1>2, <1>3 DEF Known, Tasked
<1>7. Blank /\ NamesStay /\ StampsAreStored /\ OneTitleTask
  BY <1>2, <1>3 DEF Blank, NamesStay, StampsAreStored, OneTitleTask
<1>8. QED BY <1>4, <1>5, <1>6, <1>7 DEF ChatInd

LEMMA ChatSteps == ChatInd /\ [ChatNext]_chatVars => ChatInd'
<1> SUFFICES ASSUME ChatInd, [ChatNext]_chatVars PROVE ChatInd'
  OBVIOUS
<1>1. CASE \E name \in {"default", "named"} : CreateConversation(name)
  BY <1>1, CreateKeeps
<1>2. CASE \E c \in Chats : TitleStep(c)
  BY <1>2, TitleTaskStep
<1>3. CASE \E c \in Chats : AnswerStep(c)
  BY <1>3, AnswerKeeps
<1>4. CASE \E c \in Chats : PatchStep(c)
  BY <1>4, PatchKeeps
<1>5. CASE \E c \in Chats, w \in ChatWorkers : ChatRequest(c, w)
  BY <1>5, BeginStep
<1>6. CASE \E w \in ChatWorkers : WorkerDies(w)
  BY <1>6, DeathKeeps
<1>7. CASE UNCHANGED chatVars
  <2>1. Secure' = Secure /\ HasRow' = HasRow
    BY <1>7 DEF chatVars, Secure, HasRow
  <2>2. QED BY <1>7, <2>1
        DEF chatVars, ChatInd, ChatTypeOK, Stored, Copied, Known, Tasked, Blank, NamesStay,
            StampsAreStored, OneTitleTask
<1>8. QED BY <1>1, <1>2, <1>3, <1>4, <1>5, <1>6, <1>7 DEF ChatNext

LEMMA ChatAlways == ChatSpec => []ChatInd
BY ChatStarts, ChatSteps, PTL DEF ChatSpec

\* For every number of calls, processes and faults: a turn or a task number that was
\* stored stays, unless patch_message was rewriting an older array.
THEOREM TurnsStayHolds == ChatSpec => []TurnsStay
<1>1. ChatInd => TurnsStay
  BY DEF ChatInd, Stored, Keeps, Secure, TurnsStay
<1>2. QED BY <1>1, ChatAlways, PTL

\* For every number of calls, processes and faults, and every set of messages:
\* types, names, the order of turns, the cards of answers, time stamps, title tasks.
THEOREM ChatInvHolds == ChatSpec => []ChatInv
<1>1. ASSUME ChatInd PROVE ChatInv
  <2>1. messages \in Seq(Turns) /\ ChatTypeOK
    BY <1>1 DEF ChatInd, ChatTypeOK
  <2>2. AnswersFollow
    BY <1>1 DEF ChatInd, Stored, Follows, AnswersFollow
  <2>3. CardsAreDecided
    <3>1. ASSUME NEW i \in DOMAIN messages
          PROVE  LET m == messages[i] r == chat[m.of].reply
                 IN /\ m.route = "scan" => r.classified
                    /\ chat[m.of].kind = "chat" /\ ~r.classified => ~r.asksScan
                    /\ m.intent # "tagged"
      <4>1. messages[i].of \in Chats
        BY <2>1, ArrayShape
      <4>2. Card(messages[i], chat) /\ Decided(chat[messages[i].of].reply)
        BY <1>1, <4>1 DEF ChatInd, Stored, Cards, Known
      <4>3. QED BY <4>2 DEF Card, Decided
    <3>2. QED BY <3>1 DEF CardsAreDecided
  <2>4. QED BY <1>1, <2>1, <2>2, <2>3 DEF ChatInd, ChatInv
<1>2. QED BY <1>1, ChatAlways, PTL

-----------------------------------------------------------------------------
(***************************************************************************)
(* Approval                                                                *)
(***************************************************************************)

\* What a call holds at the steps that use it: TypeOK alone does not know that
\* the row a call updates exists.
CallInv ==
  \A v \in Voters :
    /\ call[v].pc \in {"insert", "count", "update", "publish"} => call[v].run \in Runs
    /\ call[v].pc = "update"  => call[v].status \in Decisions
    /\ call[v].pc = "publish" => call[v].status \in Decisions \cup {"pending"}

Typed == TypeOK /\ CallInv

LEMMA CallFields ==
  ASSUME Typed, NEW v \in Voters
  PROVE  call[v] \in Call /\ NoCall \in Call
BY DEF Typed, TypeOK, Call, NoCall, CallSteps, Decisions, Status

\* A conclusion leaves the tables alone and ends the wait.
LEMMA ConcludeType ==
  ASSUME Typed, NEW r \in Runs,
         NEW answer \in Decisions \cup {"none", "timeout"}, Conclude(r, answer)
  PROVE  /\ result' \in [Runs -> Decisions \cup {"none", "timeout", "error"}]
         /\ inbox' \in [Runs -> Seq(Status)]
         /\ pc' \in [Runs -> RunSteps]
BY DEF Typed, TypeOK, Conclude, Goto, RunSteps

LEMMA GotoType ==
  ASSUME Typed, NEW r \in Runs, NEW step \in RunSteps, Goto(r, step)
  PROVE  pc' \in [Runs -> RunSteps]
BY DEF Typed, TypeOK, Goto

\* One voter's call goes on to c, the others stay where they are.
LEMMA CallType ==
  ASSUME Typed, NEW v \in Voters, NEW c \in Call,
         call' = [call EXCEPT ![v] = c],
         c.pc \in {"insert", "count", "update", "publish"} => c.run \in Runs,
         c.pc = "update"  => c.status \in Decisions,
         c.pc = "publish" => c.status \in Decisions \cup {"pending"}
  PROVE  call' \in [Voters -> Call] /\ CallInv'
BY DEF Typed, TypeOK, CallInv

LEMMA AddVoteReturnsType ==
  ASSUME Typed, NEW v \in Voters, NEW status \in Status \cup {"not_found"},
         AddVoteReturns(v, status)
  PROVE  call' \in [Voters -> Call] /\ CallInv'
<1> DEFINE c == IF call[v].again THEN NoCall
                ELSE [call[v] EXCEPT !.pc = "mirror", !.status = status]
<1>1. c \in Call /\ c.pc \in {"idle", "mirror"}
  BY CallFields DEF Call, NoCall, CallSteps
<1>2. call' = [call EXCEPT ![v] = c]
  BY DEF AddVoteReturns
<1> HIDE DEF c
<1> QED BY <1>1, <1>2, CallType

LEMMA RunStepTyped ==
  ASSUME Typed, NEW r \in Runs, RunStep(r)
  PROVE  Typed'
<1> USE DEF tables
<1>0. CallInv' BY DEF RunStep, WaitStep, Begin, Ask, Look, Subscribe, Receive, Expire, Execute,
                      GiveUp, Record, Crash, LoseInbox, Typed, CallInv
<1>1. CASE Begin(r)
  BY <1>0, <1>1, GotoType DEF Begin, Typed, TypeOK, RunSteps
<1>2. CASE Ask(r)
  BY <1>0, <1>2, GotoType, ConcludeType DEF Ask, Typed, TypeOK, RunSteps, Status, Decisions
<1>3. CASE Look(r)
  <2>1. CASE row[r] # "pending" /\ Conclude(r, row[r])
    BY <1>0, <1>3, <2>1, ConcludeType DEF Look, Typed, TypeOK, Status
  <2>2. CASE row[r] = "pending"
    BY <1>0, <1>3, <2>2, GotoType DEF Look, Typed, TypeOK, RunSteps
  <2> QED BY <1>3, <2>1, <2>2 DEF Look
<1>4. CASE Subscribe(r)
  BY <1>0, <1>4, GotoType DEF Subscribe, Typed, TypeOK, RunSteps
<1>5. CASE Receive(r)
  <2>1. Head(inbox[r]) \in Status /\ Tail(inbox[r]) \in Seq(Status)
    BY <1>5, HeadTailProperties DEF Receive, Typed, TypeOK
  <2>2. CASE Head(inbox[r]) # "pending"
    BY <1>0, <1>5, <2>1, <2>2, ConcludeType DEF Receive, Typed, TypeOK, Status
  <2>3. CASE Head(inbox[r]) = "pending"
    BY <1>0, <1>5, <2>1, <2>3, GotoType, ZenonT(60) DEF Receive, Typed, TypeOK, RunSteps
  <2> QED BY <2>2, <2>3
<1>6. CASE Expire(r)
  BY <1>0, <1>6, ConcludeType DEF Expire, Typed, TypeOK, Status
<1>7. CASE Execute(r)
  BY <1>0, <1>7, GotoType DEF Execute, Typed, TypeOK, RunSteps
<1>8. CASE GiveUp(r)
  <2>1. inbox' \in [Runs -> Seq(Status)]
    <3>1. inbox' = [inbox EXCEPT ![r] = <<>>]
      BY <1>8 DEF GiveUp
    <3>2. inbox \in [Runs -> Seq(Status)] /\ <<>> \in Seq(Status)
      BY DEF Typed, TypeOK
    <3> QED BY <3>1, <3>2
  <2>2. pc' \in [Runs -> RunSteps]
    BY <1>8, GotoType DEF GiveUp, RunSteps
  <2>3. result' \in [Runs -> Decisions \cup {"none", "timeout", "error"}]
    BY <1>8 DEF GiveUp, Typed, TypeOK
  <2>4. UNCHANGED <<short, level, row, ballot, event, call, votes, faults>>
    BY <1>8 DEF GiveUp
  <2>5. executed' \in [Runs -> BOOLEAN]
    <3>1. executed' = executed \/ executed' = [executed EXCEPT ![r] = TRUE]
      BY <1>8 DEF GiveUp
    <3> QED BY <3>1 DEF Typed, TypeOK
  <2> QED BY <1>0, <2>1, <2>2, <2>3, <2>4, <2>5 DEF Typed, TypeOK
<1>9. CASE Record(r)
  BY <1>0, <1>9, GotoType DEF Record, Typed, TypeOK, RunSteps
<1>10. CASE Crash(r)
  BY <1>0, <1>10, GotoType, ApprovalAssumption DEF Crash, Typed, TypeOK, RunSteps, Disruption
<1>11. CASE LoseInbox(r)
  BY <1>0, <1>11, ApprovalAssumption DEF LoseInbox, Typed, TypeOK, Disruption
<1> QED
  BY <1>1, <1>2, <1>3, <1>4, <1>5, <1>6, <1>7, <1>8, <1>9, <1>10, <1>11 DEF RunStep, WaitStep

LEMMA CallStepTyped ==
  ASSUME Typed, NEW v \in Voters,
         CallStep(v) \/ CallDies(v) \/ \E d \in Decisions : Vote(v, d)
  PROVE  Typed'
<1> USE DEF tables, run
<1>1. CASE \E d \in Decisions : Vote(v, d)
  <2> PICK d \in Decisions : Vote(v, d)
    BY <1>1
  <2>1. [NoCall EXCEPT !.pc = "select", !.decision = d] \in Call
    BY CallFields DEF Call, NoCall, CallSteps
  <2>2. call' \in [Voters -> Call] /\ CallInv'
    BY <2>1, CallType DEF Vote, NoCall
  <2>3. votes' \in 0 .. MaxVotes
    <3>1. votes < MaxVotes /\ votes' = votes + 1
      BY DEF Vote
    <3>2. votes \in 0 .. MaxVotes /\ MaxVotes \in Nat
      BY ApprovalAssumption DEF Typed, TypeOK
    <3> QED BY <3>1, <3>2
  <2>4. UNCHANGED <<short, level, row, ballot, pc, inbox, result, executed, event, faults>>
    BY DEF Vote
  <2> QED BY <2>2, <2>3, <2>4 DEF Typed, TypeOK
<1>2. CASE Select(v)
  <2>1. ASSUME NEW r \in Runs, call' = [call EXCEPT ![v] = [@ EXCEPT !.pc = "insert", !.run = r]]
        PROVE  call' \in [Voters -> Call] /\ CallInv'
    <3> DEFINE c == [call[v] EXCEPT !.pc = "insert", !.run = r]
    <3>1. c \in Call /\ c.pc = "insert" /\ c.run = r
      BY CallFields DEF Call, CallSteps
    <3>2. call' = [call EXCEPT ![v] = c]
      BY <2>1
    <3> HIDE DEF c
    <3> QED BY <3>1, <3>2, CallType
  <2>2. call' \in [Voters -> Call] /\ CallInv'
    BY <1>2, <2>1, AddVoteReturnsType DEF Select
  <2> QED BY <1>2, <2>2 DEF Select, Typed, TypeOK
<1>3. CASE Insert(v)
  <2>1. ballot' \in [Runs -> [Voters -> Decisions \cup {"none"}]]
    BY <1>3, CallFields DEF Insert, Typed, TypeOK, CallInv, Call
  <2>2. call[v].run \in Runs
    BY <1>3 DEF Insert, Typed, CallInv
  <2>3. /\ [call[v] EXCEPT !.pc = "update", !.status = "rejected"] \in Call
        /\ [call[v] EXCEPT !.pc = "count"] \in Call
    BY CallFields DEF Call, CallSteps, Status, Decisions
  <2>4. call' \in [Voters -> Call] /\ CallInv'
    <3>1. CASE call' = [call EXCEPT ![v] = [@ EXCEPT !.pc = "update", !.status = "rejected"]]
      BY <2>2, <2>3, <3>1, CallFields, CallType DEF Typed, TypeOK, Call, Decisions
    <3>2. CASE call' = [call EXCEPT ![v] = [@ EXCEPT !.pc = "count"]]
      BY <2>2, <2>3, <3>2, CallFields, CallType DEF Typed, TypeOK, Call
    <3> QED BY <1>3, <3>1, <3>2 DEF Insert
  <2> QED BY <1>3, <2>1, <2>4 DEF Insert, Typed, TypeOK
<1>4. CASE Count(v)
  <2>1. call[v].run \in Runs
    BY <1>4 DEF Count, Typed, CallInv
  <2>2. ASSUME NEW step \in {"update", "publish"}, NEW status \in {"approved", "pending"},
               step = "update" => status = "approved",
               call' = [call EXCEPT ![v] = [@ EXCEPT !.pc = step, !.status = status]]
        PROVE  call' \in [Voters -> Call] /\ CallInv'
    <3>1. [call[v] EXCEPT !.pc = step, !.status = status] \in Call
      BY CallFields DEF Call, CallSteps, Status, Decisions
    <3> QED BY <2>1, <2>2, <3>1, CallFields, CallType DEF Typed, TypeOK, Call, Decisions
  <2>3. call' \in [Voters -> Call] /\ CallInv'
    BY <1>4, <2>2 DEF Count
  <2> QED BY <1>4, <2>3 DEF Count, Typed, TypeOK
<1>5. CASE Update(v)
  <2>1. call[v].run \in Runs /\ call[v].status \in Decisions
    BY <1>5 DEF Update, Typed, CallInv
  <2>2. [call[v] EXCEPT !.pc = "publish"] \in Call
    BY CallFields DEF Call, CallSteps
  <2>3. call' \in [Voters -> Call] /\ CallInv'
    BY <1>5, <2>1, <2>2, CallFields, CallType DEF Update, Proceed, Typed, TypeOK, Call
  <2> QED BY <1>5, <2>1, <2>3 DEF Update, Typed, TypeOK, Status
<1>6. CASE Publish(v)
  <2>1. call[v].run \in Runs /\ call[v].status \in Status
    BY <1>6 DEF Publish, Typed, CallInv, Status
  <2>2. Append(inbox[call[v].run], call[v].status) \in Seq(Status)
    BY <2>1, AppendProperties DEF Typed, TypeOK
  <2>3. inbox' \in [Runs -> Seq(Status)]
    BY <1>6, <2>1, <2>2 DEF Publish, Typed, TypeOK
  <2>4. call' \in [Voters -> Call] /\ CallInv'
    BY <1>6, <2>1, AddVoteReturnsType DEF Publish
  <2> QED BY <1>6, <2>3, <2>4 DEF Publish, Typed, TypeOK
<1>7. CASE Mirror(v)
  <2>1. [call[v] EXCEPT !.pc = "select", !.again = TRUE] \in Call
    BY CallFields DEF Call, CallSteps
  <2>2. call' \in [Voters -> Call] /\ CallInv'
    BY <1>7, <2>1, CallFields, CallType DEF Mirror, Typed, TypeOK, Call
  <2> QED BY <1>7, <2>2 DEF Mirror, Typed, TypeOK
<1>8. CASE CallDies(v)
  <2>1. call' \in [Voters -> Call] /\ CallInv'
    BY <1>8, CallFields, CallType DEF CallDies, NoCall
  <2> QED BY <1>8, <2>1, ApprovalAssumption DEF CallDies, Typed, TypeOK, Disruption
<1> QED BY <1>1, <1>2, <1>3, <1>4, <1>5, <1>6, <1>7, <1>8 DEF CallStep

\* ApprovalTypeCorrect: every variable keeps its type, and a call writes only to
\* rows that exist and only statuses they may have.
THEOREM ApprovalTypeCorrect == Spec => []TypeOK
<1>1. Init => Typed
  BY ApprovalAssumption
     DEF Init, Typed, TypeOK, CallInv, Call, NoCall, CallSteps, RunSteps, Decisions, Status
<1>2. Typed /\ [Next]_vars => Typed'
  <2>1. Typed /\ UNCHANGED vars => Typed'
    BY DEF vars, tables, run, Typed, TypeOK, CallInv
  <2> QED BY <2>1, RunStepTyped, CallStepTyped DEF Next
<1>3. Typed => TypeOK
  BY DEF Typed
<1> QED BY <1>1, <1>2, <1>3, PTL DEF Spec

-----------------------------------------------------------------------------
(* The quorum.  Whatever says "approved" of a run, in a table, on the channel, *)
(* in the run or in a call, says so only once enough users have approved.      *)

RunBacked(r) ==
  /\ row[r] = "approved" => HasQuorum(r)
  /\ \A i \in DOMAIN inbox[r] : inbox[r][i] = "approved" => HasQuorum(r)
  /\ result[r] = "approved" => HasQuorum(r)
  /\ pc[r] = "execute" => result[r] = "approved"
  /\ executed[r] => HasQuorum(r)
  /\ pc[r] = "idle" => row[r] = "none" /\ inbox[r] = <<>>

\* A call that holds c.
CallBacked(c) ==
  /\ c.pc \in {"insert", "count", "update", "publish"} => c.run \in Runs /\ pc[c.run] # "idle"
  /\ c.pc \in {"update", "publish", "mirror"} /\ c.status = "approved" =>
       c.run \in Runs /\ HasQuorum(c.run) /\ pc[c.run] # "idle"

Backed ==
  /\ \A r \in Runs : RunBacked(r)
  /\ \A v \in Voters : CallBacked(call[v])
  /\ NoEarlyCompletion

\* A quorum once reached is not lost: nobody can take an approval back.
LEMMA QuorumKept ==
  ASSUME Typed, UNCHANGED level,
         \A r \in Runs, v \in Voters : ballot[r][v] = "approved" => ballot'[r][v] = "approved"
  PROVE  \A r \in Runs : HasQuorum(r) => HasQuorum(r)'
<1> SUFFICES ASSUME NEW r \in Runs, HasQuorum(r)
             PROVE  HasQuorum(r)'
  OBVIOUS
<1>1. Approvers(r) \subseteq Approvers(r)' /\ IsFiniteSet(Approvers(r)')
  <2>1. Approvers(r) \subseteq Approvers(r)'
    BY DEF Approvers
  <2>2. Approvers(r)' \subseteq Voters
    BY DEF Approvers
  <2> QED BY <2>1, <2>2, ApprovalAssumption, FS_Subset
<1>2. Cardinality(Approvers(r)) <= Cardinality(Approvers(r)')
  BY <1>1, FS_Subset
<1>3. Cardinality(Approvers(r)) \in Nat /\ Cardinality(Approvers(r)') \in Nat
  BY <1>1, FS_Subset, FS_CardinalityType
<1>4. Required[level[r]] \in Nat /\ Required[level'[r]] = Required[level[r]]
  <2>1. level[r] \in DOMAIN Required
    BY ApprovalAssumption DEF Typed, TypeOK
  <2> QED BY <2>1 DEF Required
<1> QED BY <1>2, <1>3, <1>4 DEF HasQuorum

\* Nobody need approve what needs no approval.
LEMMA NoneRequired ==
  ASSUME Typed, NEW r \in Runs, Required[level[r]] = 0
  PROVE  HasQuorum(r)
<1>1. Approvers(r) \subseteq Voters
  BY DEF Approvers
<1>2. Cardinality(Approvers(r)) \in Nat
  BY <1>1, ApprovalAssumption, FS_Subset, FS_CardinalityType
<1> QED BY <1>2 DEF HasQuorum

\* A step of one run cannot harm the claims about other runs or about calls.
LEMMA RunFrame ==
  ASSUME Typed, Backed, NEW r \in Runs, UNCHANGED <<level, ballot, call>>,
         \A q \in Runs \ {r} :
           /\ row'[q] = row[q] /\ inbox'[q] = inbox[q] /\ result'[q] = result[q]
           /\ pc'[q] = pc[q] /\ executed'[q] = executed[q],
         pc'[r] # "idle",
         RunBacked(r)',
         event' = "completed" => event = "completed" \/ HasQuorum(r)
  PROVE  Backed'
<1>1. \A q \in Runs : HasQuorum(q)' <=> HasQuorum(q)
  BY DEF HasQuorum, Approvers
<1>2. \A q \in Runs : pc[q] # "idle" => pc'[q] # "idle"
  OBVIOUS
<1>3. ASSUME NEW q \in Runs PROVE RunBacked(q)'
  <2>1. CASE q = r
    BY <2>1
  <2>2. CASE q # r
    <3>1. RunBacked(q)
      BY DEF Backed
    <3> QED BY <3>1, <2>2, <1>1 DEF RunBacked
  <2> QED BY <2>1, <2>2
<1>4. ASSUME NEW v \in Voters PROVE CallBacked(call[v])'
  <2>1. CallBacked(call[v])
    BY DEF Backed
  <2> QED BY <2>1, <1>1, <1>2 DEF CallBacked
<1>5. NoEarlyCompletion'
  BY <1>1, <1>2 DEF Backed, NoEarlyCompletion
<1> QED BY <1>3, <1>4, <1>5 DEF Backed

LEMMA RunStepBacked ==
  ASSUME Typed, Typed', Backed, NEW r \in Runs, RunStep(r)
  PROVE  Backed'
<1> USE DEF tables
<1>0. /\ RunBacked(r) /\ UNCHANGED <<level, ballot, call>>
      /\ HasQuorum(r)' <=> HasQuorum(r)
  <2>1. UNCHANGED <<level, ballot, call>>
    BY DEF RunStep, WaitStep, Begin, Ask, Look, Subscribe, Receive, Expire, Execute, GiveUp,
           Record, Crash, LoseInbox
  <2> QED BY <2>1 DEF Backed, HasQuorum, Approvers
<1>1. /\ pc \in [Runs -> RunSteps] /\ row \in [Runs -> Status \cup {"none"}]
      /\ inbox \in [Runs -> Seq(Status)]
      /\ result \in [Runs -> Decisions \cup {"none", "timeout", "error"}]
      /\ executed \in [Runs -> BOOLEAN]
  BY DEF Typed, TypeOK
<1>2. CASE Begin(r)
  BY <1>0, <1>1, <1>2, RunFrame DEF Begin, Goto, RunBacked
<1>3. CASE Ask(r)
  <2>1. CASE Required[level[r]] = 0 /\ Conclude(r, "approved") /\ UNCHANGED row
    BY <1>0, <1>1, <1>3, <2>1, NoneRequired, RunFrame DEF Ask, Conclude, Goto, RunBacked
  <2>2. CASE row' = [row EXCEPT ![r] = "pending"] /\ Goto(r, "check") /\ UNCHANGED <<inbox, result>>
    BY <1>0, <1>1, <1>3, <2>2, RunFrame DEF Ask, Goto, RunBacked
  <2> QED BY <1>3, <2>1, <2>2 DEF Ask
<1>4. CASE Look(r)
  <2>1. CASE row[r] # "pending" /\ Conclude(r, row[r])
    BY <1>0, <1>1, <1>4, <2>1, RunFrame DEF Look, Conclude, Goto, RunBacked
  <2>2. CASE row[r] = "pending" /\ UNCHANGED <<inbox, result>>
    BY <1>0, <1>1, <1>4, <2>2, RunFrame DEF Look, Goto, RunBacked
  <2> QED BY <1>4, <2>1, <2>2 DEF Look
<1>5. CASE Subscribe(r)
  BY <1>0, <1>1, <1>5, RunFrame DEF Subscribe, Goto, RunBacked
<1>6. CASE Receive(r)
  <2>1. inbox[r] \in Seq(Status) /\ inbox[r] # <<>>
    BY <1>1, <1>6 DEF Receive
  <2>2. CASE Head(inbox[r]) # "pending" /\ Conclude(r, Head(inbox[r]))
    <3>1. Head(inbox[r]) = "approved" => HasQuorum(r)
      BY <1>0, <2>1 DEF RunBacked
    <3> QED BY <1>0, <1>1, <1>6, <2>2, <3>1, RunFrame DEF Receive, Conclude, Goto, RunBacked
  <2>3. CASE /\ inbox' = [inbox EXCEPT ![r] = Tail(@)]
             /\ Goto(r, "reread") /\ UNCHANGED result
    <3>1. \A i \in DOMAIN Tail(inbox[r]) : Tail(inbox[r])[i] = "approved" => HasQuorum(r)
      BY <1>0, <2>1 DEF RunBacked
    <3> QED BY <1>0, <1>1, <1>6, <2>3, <3>1, RunFrame DEF Receive, Goto, RunBacked
  <2> QED BY <1>6, <2>2, <2>3 DEF Receive
<1>7. CASE Expire(r)
  BY <1>0, <1>1, <1>7, RunFrame DEF Expire, Conclude, Goto, RunBacked
<1>8. CASE Execute(r)
  BY <1>0, <1>1, <1>8, RunFrame DEF Execute, Goto, RunBacked
<1>9. CASE GiveUp(r)
  BY <1>0, <1>1, <1>9, RunFrame DEF GiveUp, Goto, RunBacked, Responding
<1>10. CASE Record(r)
  BY <1>0, <1>1, <1>10, RunFrame DEF Record, Goto, RunBacked
<1>11. CASE Crash(r)
  BY <1>0, <1>1, <1>11, RunFrame DEF Crash, Goto, RunBacked
<1>12. CASE LoseInbox(r)
  BY <1>0, <1>1, <1>12, RunFrame DEF LoseInbox, RunBacked
<1> QED
  BY <1>2, <1>3, <1>4, <1>5, <1>6, <1>7, <1>8, <1>9, <1>10, <1>11, <1>12 DEF RunStep, WaitStep

\* What a step of a call may write to the tables, to the channel and to the event.
BallotsKept ==
  \A r \in Runs, u \in Voters : ballot[r][u] = "approved" => ballot'[r][u] = "approved"
RowsBacked ==
  \A r \in Runs : row'[r] = row[r] \/ (pc[r] # "idle" /\ (row'[r] = "approved" => HasQuorum(r)))
InboxBacked ==
  \A r \in Runs :
    \/ inbox'[r] = inbox[r]
    \/ /\ pc[r] # "idle"
       /\ \A i \in DOMAIN inbox'[r] : inbox'[r][i] = "approved" => HasQuorum(r)
EventBacked ==
  event' = "completed" => event = "completed" \/ \E r \in Runs : pc[r] # "idle" /\ HasQuorum(r)

\* Such a step, of a call that goes on to c, harms no claim.
LEMMA CallFrame ==
  ASSUME Typed, Backed, NEW v \in Voters, NEW c, call' = [call EXCEPT ![v] = c], CallBacked(c),
         level' = level, pc' = pc, result' = result, executed' = executed,
         BallotsKept, RowsBacked, InboxBacked, EventBacked
  PROVE  Backed'
<1>1. \A r \in Runs : HasQuorum(r) => HasQuorum(r)'
  BY QuorumKept DEF BallotsKept
<1>2. ASSUME NEW r \in Runs PROVE RunBacked(r)'
  <2>1. RunBacked(r)
    BY DEF Backed
  <2> QED BY <1>1, <2>1 DEF RunBacked, RowsBacked, InboxBacked
<1>3. ASSUME NEW u \in Voters PROVE CallBacked(call[u])'
  <2>1. CallBacked(call'[u])
    BY DEF Backed, Typed, TypeOK
  <2> QED BY <2>1, <1>1 DEF CallBacked
<1>4. NoEarlyCompletion'
  BY <1>1 DEF Backed, NoEarlyCompletion, EventBacked
<1> QED BY <1>2, <1>3, <1>4 DEF Backed

LEMMA WritesNothing ==
  ASSUME UNCHANGED <<ballot, row, inbox, event>>
  PROVE  BallotsKept /\ RowsBacked /\ InboxBacked /\ EventBacked
BY DEF BallotsKept, RowsBacked, InboxBacked, EventBacked

LEMMA AddVoteReturnsBacked ==
  ASSUME Typed, NEW v \in Voters, NEW status, AddVoteReturns(v, status),
         status = "approved" =>
           call[v].run \in Runs /\ HasQuorum(call[v].run) /\ pc[call[v].run] # "idle"
  PROVE  \E c : call' = [call EXCEPT ![v] = c] /\ CallBacked(c)
<1> DEFINE c == IF call[v].again THEN NoCall
                ELSE [call[v] EXCEPT !.pc = "mirror", !.status = status]
<1>1. /\ c.pc \in {"idle", "mirror"}
      /\ c.pc = "mirror" => c.status = status /\ c.run = call[v].run
  BY CallFields DEF Call, NoCall
<1>2. call' = [call EXCEPT ![v] = c]
  BY DEF AddVoteReturns
<1> HIDE DEF c
<1>3. CallBacked(c)
  BY <1>1 DEF CallBacked
<1> QED BY <1>2, <1>3

LEMMA CallStepBacked ==
  ASSUME Typed, Backed, NEW v \in Voters,
         CallStep(v) \/ CallDies(v) \/ \E d \in Decisions : Vote(v, d)
  PROVE  Backed'
<1> USE DEF tables, run
<1>0. call[v] \in Call /\ CallBacked(call[v]) /\ \A r \in Runs : RunBacked(r)
  BY CallFields DEF Backed
<1>1. CASE \E d \in Decisions : Vote(v, d)
  <2> PICK d \in Decisions : Vote(v, d)
    BY <1>1
  <2> DEFINE c == [NoCall EXCEPT !.pc = "select", !.decision = d]
  <2>1. call' = [call EXCEPT ![v] = c]
    BY DEF Vote
  <2>2. CallBacked(c)
    BY DEF NoCall, CallBacked
  <2>3. UNCHANGED <<level, pc, result, executed, ballot, row, inbox, event>>
    BY DEF Vote
  <2> HIDE DEF c
  <2> QED BY <2>1, <2>2, <2>3, WritesNothing, CallFrame
<1>2. CASE Select(v)
  <2>1. PICK c : call' = [call EXCEPT ![v] = c] /\ CallBacked(c)
    <3>1. ASSUME NEW r \in Runs, row[r] = "pending",
                 call' = [call EXCEPT ![v] = [@ EXCEPT !.pc = "insert", !.run = r]]
          PROVE  \E c : call' = [call EXCEPT ![v] = c] /\ CallBacked(c)
      <4> DEFINE c == [call[v] EXCEPT !.pc = "insert", !.run = r]
      <4>1. c.pc = "insert" /\ c.run = r
        BY <1>0 DEF Call
      <4>2. call' = [call EXCEPT ![v] = c]
        BY <3>1
      <4>3. pc[r] # "idle"
        BY <1>0, <3>1 DEF RunBacked
      <4> HIDE DEF c
      <4>4. CallBacked(c)
        BY <4>1, <4>3 DEF CallBacked
      <4> QED BY <4>2, <4>4
    <3> QED BY <1>2, <3>1, AddVoteReturnsBacked DEF Select
  <2>2. UNCHANGED <<level, pc, result, executed, ballot, row, inbox, event>>
    BY <1>2 DEF Select
  <2> QED BY <2>1, <2>2, WritesNothing, CallFrame
<1>3. CASE Insert(v)
  <2>1. PICK c : call' = [call EXCEPT ![v] = c] /\ CallBacked(c)
    <3>1. CASE call[v].decision = "rejected"
      <4> DEFINE c == [call[v] EXCEPT !.pc = "update", !.status = "rejected"]
      <4>1. c.pc = "update" /\ c.run = call[v].run /\ c.status = "rejected"
        BY <1>0 DEF Call
      <4>2. call' = [call EXCEPT ![v] = c]
        BY <1>3, <3>1 DEF Insert
      <4> HIDE DEF c
      <4>3. CallBacked(c)
        BY <1>0, <1>3, <4>1 DEF Insert, CallBacked
      <4> QED BY <4>2, <4>3
    <3>2. CASE call[v].decision # "rejected"
      <4> DEFINE c == [call[v] EXCEPT !.pc = "count"]
      <4>1. c.pc = "count" /\ c.run = call[v].run
        BY <1>0 DEF Call
      <4>2. call' = [call EXCEPT ![v] = c]
        BY <1>3, <3>2 DEF Insert
      <4> HIDE DEF c
      <4>3. CallBacked(c)
        BY <1>0, <1>3, <4>1 DEF Insert, CallBacked
      <4> QED BY <4>2, <4>3
    <3> QED BY <3>1, <3>2
  <2>2. BallotsKept
    BY <1>3 DEF Insert, Typed, TypeOK, BallotsKept
  <2>3. UNCHANGED <<level, pc, result, executed, row, inbox, event>>
    BY <1>3 DEF Insert
  <2>4. RowsBacked /\ InboxBacked /\ EventBacked
    BY <2>3 DEF RowsBacked, InboxBacked, EventBacked
  <2> QED BY <2>1, <2>2, <2>3, <2>4, CallFrame
<1>4. CASE Count(v)
  <2>1. PICK c : call' = [call EXCEPT ![v] = c] /\ CallBacked(c)
    <3>1. ASSUME NEW step \in {"update", "publish"}, NEW status,
                 status = "approved" => HasQuorum(call[v].run),
                 call' = [call EXCEPT ![v] = [@ EXCEPT !.pc = step, !.status = status]]
          PROVE  \E c : call' = [call EXCEPT ![v] = c] /\ CallBacked(c)
      <4> DEFINE c == [call[v] EXCEPT !.pc = step, !.status = status]
      <4>1. c.pc = step /\ c.run = call[v].run /\ c.status = status
        BY <1>0 DEF Call
      <4>2. call' = [call EXCEPT ![v] = c]
        BY <3>1
      <4> HIDE DEF c
      <4>3. CallBacked(c)
        BY <1>0, <1>4, <3>1, <4>1 DEF Count, CallBacked
      <4> QED BY <4>2, <4>3
    <3>2. CASE HasQuorum(call[v].run)
      <4>1. call' = [call EXCEPT ![v] = [@ EXCEPT !.pc = "update", !.status = "approved"]]
        BY <1>4, <3>2 DEF Count
      <4> QED BY <4>1, <3>1, <3>2
    <3>3. CASE ~HasQuorum(call[v].run)
      <4>1. call' = [call EXCEPT ![v] = [@ EXCEPT !.pc = "publish", !.status = "pending"]]
        BY <1>4, <3>3 DEF Count
      <4>2. "publish" \in {"update", "publish"} /\ ("pending" = "approved" => HasQuorum(call[v].run))
        OBVIOUS
      <4> QED BY <4>1, <4>2, <3>1
    <3> QED BY <3>2, <3>3
  <2>2. UNCHANGED <<level, pc, result, executed, ballot, row, inbox, event>>
    BY <1>4 DEF Count
  <2> QED BY <2>1, <2>2, WritesNothing, CallFrame
<1>5. CASE Update(v)
  <2> DEFINE c == [call[v] EXCEPT !.pc = "publish"]
  <2>1. c.pc = "publish" /\ c.run = call[v].run /\ c.status = call[v].status
    BY <1>0 DEF Call
  <2>2. call' = [call EXCEPT ![v] = c]
    BY <1>5 DEF Update, Proceed
  <2>3. RowsBacked
    BY <1>0, <1>5 DEF Update, CallBacked, Typed, TypeOK, RowsBacked
  <2>4. UNCHANGED <<level, pc, result, executed, ballot, inbox, event>>
    BY <1>5 DEF Update
  <2>5. BallotsKept /\ InboxBacked /\ EventBacked
    BY <2>4 DEF BallotsKept, InboxBacked, EventBacked
  <2> HIDE DEF c
  <2>6. CallBacked(c)
    BY <1>0, <1>5, <2>1 DEF Update, CallBacked
  <2> QED BY <2>2, <2>3, <2>4, <2>5, <2>6, CallFrame
<1>6. CASE Publish(v)
  <2>1. /\ call[v].run \in Runs /\ pc[call[v].run] # "idle"
        /\ call[v].status = "approved" => HasQuorum(call[v].run)
    BY <1>0, <1>6 DEF Publish, CallBacked
  <2>2. PICK c : call' = [call EXCEPT ![v] = c] /\ CallBacked(c)
    BY <1>6, <2>1, AddVoteReturnsBacked DEF Publish
  <2>3. InboxBacked
    <3> SUFFICES ASSUME NEW r \in Runs, inbox'[r] # inbox[r]
                 PROVE  /\ pc[r] # "idle"
                        /\ \A i \in DOMAIN inbox'[r] : inbox'[r][i] = "approved" => HasQuorum(r)
      BY DEF InboxBacked
    <3>1. r = call[v].run /\ inbox'[r] = Append(inbox[r], call[v].status)
      BY <1>6, <2>1 DEF Publish, Typed, TypeOK
    <3>2. inbox[r] \in Seq(Status) /\ call[v].status \in Status
      BY <1>6 DEF Publish, Typed, TypeOK, CallInv, Status
    <3>3. \A i \in DOMAIN inbox[r] : inbox[r][i] = "approved" => HasQuorum(r)
      BY <1>0 DEF RunBacked
    <3> QED BY <2>1, <3>1, <3>2, <3>3
  <2>4. UNCHANGED <<level, pc, result, executed, ballot, row, event>>
    BY <1>6 DEF Publish
  <2>5. BallotsKept /\ RowsBacked /\ EventBacked
    BY <2>4 DEF BallotsKept, RowsBacked, EventBacked
  <2> QED BY <2>2, <2>3, <2>4, <2>5, CallFrame
<1>7. CASE Mirror(v)
  <2> DEFINE c == [call[v] EXCEPT !.pc = "select", !.again = TRUE]
  <2>1. c.pc = "select"
    BY <1>0 DEF Call
  <2>2. call' = [call EXCEPT ![v] = c]
    BY <1>7 DEF Mirror
  <2>3. EventBacked
    BY <1>0, <1>7 DEF Mirror, CallBacked, EventBacked
  <2>4. UNCHANGED <<level, pc, result, executed, ballot, row, inbox>>
    BY <1>7 DEF Mirror
  <2>5. BallotsKept /\ RowsBacked /\ InboxBacked
    BY <2>4 DEF BallotsKept, RowsBacked, InboxBacked
  <2> HIDE DEF c
  <2>6. CallBacked(c)
    BY <2>1 DEF CallBacked
  <2> QED BY <2>2, <2>3, <2>4, <2>5, <2>6, CallFrame
<1>8. CASE CallDies(v)
  <2>1. call' = [call EXCEPT ![v] = NoCall] /\ CallBacked(NoCall)
    BY <1>8 DEF CallDies, NoCall, CallBacked
  <2>2. UNCHANGED <<level, pc, result, executed, ballot, row, inbox, event>>
    BY <1>8 DEF CallDies
  <2> QED BY <2>1, <2>2, WritesNothing, CallFrame
<1> QED BY <1>1, <1>2, <1>3, <1>4, <1>5, <1>6, <1>7, <1>8 DEF CallStep

LEMMA BackedAlways == Spec => [](Typed /\ Backed)
<1>1. Init => Typed /\ Backed
  <2>1. Init => Typed
    BY ApprovalAssumption
       DEF Init, Typed, TypeOK, CallInv, Call, NoCall, CallSteps, RunSteps, Decisions, Status
  <2>2. Init => Backed
    BY DEF Init, Backed, RunBacked, CallBacked, NoCall, NoEarlyCompletion
  <2> QED BY <2>1, <2>2
<1>2. Typed /\ Backed /\ [Next]_vars => (Typed /\ Backed)'
  <2>1. ASSUME Typed, Backed, UNCHANGED vars PROVE (Typed /\ Backed)'
    <3>1. Typed'
      BY <2>1 DEF vars, tables, run, Typed, TypeOK, CallInv
    <3>2. \A r \in Runs : HasQuorum(r)' <=> HasQuorum(r)
      BY <2>1 DEF vars, tables, HasQuorum, Approvers
    <3>3. \A r \in Runs : RunBacked(r)'
      BY <2>1, <3>2 DEF vars, tables, run, Backed, RunBacked
    <3>4. \A v \in Voters : CallBacked(call[v])'
      BY <2>1, <3>2 DEF vars, run, Backed, CallBacked
    <3>5. NoEarlyCompletion'
      BY <2>1, <3>2 DEF vars, run, Backed, NoEarlyCompletion
    <3> QED BY <3>1, <3>3, <3>4, <3>5 DEF Backed
  <2>2. Typed /\ Next => Typed'
    BY RunStepTyped, CallStepTyped DEF Next
  <2>3. Typed /\ Backed /\ Next => Backed'
    BY <2>2, RunStepBacked, CallStepBacked DEF Next
  <2> QED BY <2>1, <2>2, <2>3
<1> QED BY <1>1, <1>2, PTL DEF Spec

\* QuorumHolds: whatever the order of votes, counts, updates, notifications and
\* timeouts, a run executes its playbook only with the approvals it needs.
THEOREM QuorumHolds == Spec => []QuorumBeforeExecute
<1>1. Backed => QuorumBeforeExecute
  BY DEF Backed, RunBacked, QuorumBeforeExecute
<1> QED BY <1>1, BackedAlways, PTL

\* NoEarlyCompletionHolds: neither a vote nor a run sets the event to "completed"
\* without the quorum of a run of that event.
THEOREM NoEarlyCompletionHolds == Spec => []NoEarlyCompletion
<1>1. Backed => NoEarlyCompletion
  BY DEF Backed
<1> QED BY <1>1, BackedAlways, PTL

-----------------------------------------------------------------------------
(* The refinement.  A run takes its answer on the way out of wait_result, so  *)
(* before that it has neither an answer nor a playbook done.                   *)

Waiting == {"check", "subscribe", "recheck", "wait", "reread"}

Unanswered(r) ==
  /\ pc[r] \in {"idle", "ask"} \cup Waiting => result[r] = "none" /\ ~executed[r]
  /\ pc[r] = "execute" => ~executed[r]
  /\ pc[r] \in Waiting => row[r] # "none"

GateInv == \A r \in Runs : Unanswered(r)

\* A step of one run leaves the others as they were.
LEMMA OthersUnanswered ==
  ASSUME GateInv, NEW r \in Runs, Unanswered(r)',
         \A q \in Runs \ {r} : /\ row'[q] = row[q] /\ result'[q] = result[q]
                               /\ pc'[q] = pc[q] /\ executed'[q] = executed[q]
  PROVE  GateInv'
<1> SUFFICES ASSUME NEW q \in Runs PROVE Unanswered(q)'
  BY DEF GateInv
<1>1. CASE q = r
  BY <1>1
<1>2. CASE q # r
  <2>1. Unanswered(q)
    BY DEF GateInv
  <2> QED BY <1>2, <2>1 DEF Unanswered
<1> QED BY <1>1, <1>2

LEMMA RunStepGated ==
  ASSUME Typed, GateInv, NEW r \in Runs, RunStep(r)
  PROVE  GateInv'
<1> USE DEF tables, Waiting
<1>0. Unanswered(r)
  BY DEF GateInv
<1>1. /\ pc \in [Runs -> RunSteps] /\ row \in [Runs -> Status \cup {"none"}]
      /\ result \in [Runs -> Decisions \cup {"none", "timeout", "error"}]
      /\ executed \in [Runs -> BOOLEAN]
  BY DEF Typed, TypeOK
<1>2. CASE Begin(r)
  BY <1>0, <1>1, <1>2, OthersUnanswered DEF Begin, Goto, Unanswered
<1>3. CASE Ask(r)
  BY <1>0, <1>1, <1>3, OthersUnanswered DEF Ask, Conclude, Goto, Unanswered
<1>4. CASE Look(r)
  BY <1>0, <1>1, <1>4, OthersUnanswered DEF Look, Conclude, Goto, Unanswered
<1>5. CASE Subscribe(r)
  BY <1>0, <1>1, <1>5, OthersUnanswered DEF Subscribe, Goto, Unanswered
<1>6. CASE Receive(r)
  BY <1>0, <1>1, <1>6, OthersUnanswered DEF Receive, Conclude, Goto, Unanswered
<1>7. CASE Expire(r)
  BY <1>0, <1>1, <1>7, OthersUnanswered DEF Expire, Conclude, Goto, Unanswered
<1>8. CASE Execute(r)
  BY <1>0, <1>1, <1>8, OthersUnanswered DEF Execute, Goto, Unanswered
<1>9. CASE GiveUp(r)
  BY <1>0, <1>1, <1>9, OthersUnanswered DEF GiveUp, Goto, Unanswered
<1>10. CASE Record(r)
  BY <1>0, <1>1, <1>10, OthersUnanswered DEF Record, Goto, Unanswered
<1>11. CASE Crash(r)
  BY <1>0, <1>1, <1>11, OthersUnanswered DEF Crash, Goto, Unanswered
<1>12. CASE LoseInbox(r)
  BY <1>0, <1>1, <1>12, OthersUnanswered DEF LoseInbox, Unanswered
<1> QED
  BY <1>2, <1>3, <1>4, <1>5, <1>6, <1>7, <1>8, <1>9, <1>10, <1>11, <1>12 DEF RunStep, WaitStep

\* A call writes decisions into rows, and nothing into runs but their inbox.
LEMMA CallStepGated ==
  ASSUME Typed, GateInv, NEW v \in Voters,
         CallStep(v) \/ CallDies(v) \/ \E d \in Decisions : Vote(v, d)
  PROVE  GateInv' /\ UNCHANGED <<level, pc, result, executed>>
<1> USE DEF tables, run
<1>1. UNCHANGED <<level, pc, result, executed>>
  BY Zenon DEF CallStep, Select, Insert, Count, Update, Publish, Mirror, CallDies, Vote
<1>2. \A r \in Runs : row[r] # "none" => row'[r] # "none"
  <2>1. CASE Update(v)
    <3>1. call[v].status \in Decisions /\ row' = [row EXCEPT ![call[v].run] = call[v].status]
      BY <2>1 DEF Update, Typed, CallInv
    <3> QED BY <3>1 DEF Typed, TypeOK, Decisions
  <2>2. CASE ~Update(v)
    BY <2>2, Zenon DEF CallStep, Select, Insert, Count, Publish, Mirror, CallDies, Vote
  <2> QED BY <2>1, <2>2
<1> QED BY <1>1, <1>2 DEF GateInv, Unanswered

LEMMA GateAlways == Spec => [](Typed /\ Backed /\ GateInv)
<1>1. Init => GateInv
  BY DEF Init, GateInv, Unanswered, Waiting
<1>2. Typed /\ GateInv /\ [Next]_vars => GateInv'
  <2>1. ASSUME GateInv, UNCHANGED vars PROVE GateInv'
    BY <2>1 DEF vars, tables, run, GateInv, Unanswered
  <2> QED BY <2>1, RunStepGated, CallStepGated DEF Next
<1> QED BY <1>1, <1>2, BackedAlways, PTL DEF Spec

\* The quorum of the gate is the quorum of add_vote.
LEMMA SameQuorum == ASSUME NEW r \in Runs PROVE Gate!Quorum(r) <=> HasQuorum(r)
<1>1. Approvers(r) \in SUBSET Voters
  BY DEF Approvers
<1>2. Approvers(r) = {v \in Voters : ballot[r][v] = "approved"}
  BY DEF Approvers
<1> QED BY <1>1, <1>2 DEF Gate!Quorum, HasQuorum

\* Taking an answer, from the row, the channel or a timer.
LEMMA ConcludeRefines ==
  ASSUME Typed, NEW r \in Runs, NEW a \in Decisions \cup {"timeout"}, Conclude(r, a),
         result[r] = "none", a = "approved" => HasQuorum(r),
         UNCHANGED <<level, ballot, executed>>
  PROVE  Gate!GNext
<1>1. Gate!Take(r, a)
  BY SameQuorum DEF Conclude, Gate!Take
<1> QED BY <1>1 DEF Gate!GNext, Decisions

\* Whatever a run does is a step of the gate or none.
LEMMA RunStepRefines ==
  ASSUME Typed, Backed, GateInv, NEW r \in Runs, RunStep(r)
  PROVE  Gate!GNext \/ UNCHANGED Gate!gvars
<1> USE DEF tables, run
<1>0. /\ Unanswered(r) /\ RunBacked(r) /\ UNCHANGED <<level, ballot>>
      /\ result \in [Runs -> Decisions \cup {"none", "timeout", "error"}]
      /\ executed \in [Runs -> BOOLEAN] /\ row[r] \in Status \cup {"none"}
  <2>1. UNCHANGED <<level, ballot>>
    BY DEF RunStep, WaitStep, Begin, Ask, Look, Subscribe, Receive, Expire, Execute, GiveUp,
           Record, Crash, LoseInbox
  <2> QED BY <2>1 DEF GateInv, Backed, Typed, TypeOK
<1>1. ASSUME UNCHANGED <<result, executed>> PROVE UNCHANGED Gate!gvars
  BY <1>0, <1>1 DEF Gate!gvars
<1>2. CASE Ask(r)
  <2>1. CASE Required[level[r]] = 0 /\ Conclude(r, "approved")
    <3>1. result[r] = "none" /\ UNCHANGED executed
      BY <1>0, <1>2 DEF Ask, Unanswered
    <3> QED BY <1>0, <2>1, <3>1, NoneRequired, ConcludeRefines DEF Decisions
  <2> QED BY <1>1, <1>2, <2>1 DEF Ask
<1>3. CASE Look(r)
  <2>1. CASE row[r] # "pending" /\ Conclude(r, row[r])
    <3>1. row[r] \in Decisions \cup {"timeout"} /\ result[r] = "none" /\ UNCHANGED executed
      BY <1>0, <1>3, <2>1 DEF Look, Unanswered, Waiting, Status
    <3>2. row[r] = "approved" => HasQuorum(r)
      BY <1>0 DEF RunBacked
    <3> QED BY <1>0, <2>1, <3>1, <3>2, ConcludeRefines
  <2> QED BY <1>1, <1>3, <2>1 DEF Look
<1>4. CASE Receive(r)
  <2>1. CASE Head(inbox[r]) # "pending" /\ Conclude(r, Head(inbox[r]))
    <3>1. inbox[r] \in Seq(Status) /\ inbox[r] # <<>>
      BY <1>4 DEF Receive, Typed, TypeOK
    <3>2. /\ Head(inbox[r]) \in Decisions \cup {"timeout"}
          /\ Head(inbox[r]) = "approved" => HasQuorum(r)
      <4>1. Head(inbox[r]) \in Status /\ Head(inbox[r]) = inbox[r][1] /\ 1 \in DOMAIN inbox[r]
        BY <3>1, HeadTailProperties
      <4> QED BY <1>0, <2>1, <4>1 DEF RunBacked, Status
    <3>3. result[r] = "none" /\ UNCHANGED executed
      BY <1>0, <1>4 DEF Receive, Unanswered, Waiting
    <3> QED BY <1>0, <2>1, <3>2, <3>3, ConcludeRefines
  <2> QED BY <1>1, <1>4, <2>1 DEF Receive
<1>5. CASE Expire(r)
  <2>1. Conclude(r, "timeout") /\ result[r] = "none" /\ UNCHANGED executed
    BY <1>0, <1>5 DEF Expire, Unanswered, Waiting
  <2> QED BY <1>0, <2>1, ConcludeRefines
<1>6. CASE Execute(r)
  <2>1. Gate!Act(r)
    BY <1>0, <1>6 DEF Execute, RunBacked, Unanswered, Gate!Act
  <2> QED BY <2>1 DEF Gate!GNext
<1>7. CASE GiveUp(r)
  <2>1. result[r] \in {"none", "approved"} /\ ~executed[r]
    BY <1>0, <1>7 DEF GiveUp, Responding, RunSteps, RunBacked, Unanswered, Waiting
  <2>2. UNCHANGED executed \/ (result[r] = "approved" /\ executed' = [executed EXCEPT ![r] = TRUE])
    BY <1>0, <1>7 DEF GiveUp, RunBacked
  <2>3. Gate!BreakOff(r)
    BY <1>0, <1>7, <2>1, <2>2 DEF GiveUp, Gate!BreakOff
  <2> QED BY <2>3 DEF Gate!GNext
<1>8. CASE Begin(r) \/ Subscribe(r) \/ Record(r) \/ Crash(r) \/ LoseInbox(r)
  BY <1>1, <1>8 DEF Begin, Subscribe, Record, Crash, LoseInbox
<1> QED BY <1>2, <1>3, <1>4, <1>5, <1>6, <1>7, <1>8 DEF RunStep, WaitStep

\* A call casts its vote in Insert; all else it does stays below the gate.
LEMMA CallStepRefines ==
  ASSUME Typed, GateInv, NEW v \in Voters,
         CallStep(v) \/ CallDies(v) \/ \E d \in Decisions : Vote(v, d)
  PROVE  Gate!GNext \/ UNCHANGED Gate!gvars
<1> USE DEF tables, run
<1>1. UNCHANGED <<level, result, executed>>
  BY CallStepGated
<1>2. CASE Insert(v)
  <2> DEFINE r == call[v].run
  <2>1. r \in Runs /\ call[v].decision \in {"approved", "rejected"}
    BY <1>2, CallFields DEF Insert, Typed, CallInv, Call, Decisions
  <2>2. CASE ballot[r][v] = "none"
    <3>1. ballot' = [ballot EXCEPT ![r][v] = call[v].decision]
      BY <1>2, <2>1, <2>2 DEF Insert, Typed, TypeOK
    <3>2. Gate!Cast(r, v, call[v].decision)
      BY <1>1, <2>2, <3>1 DEF Gate!Cast
    <3> QED BY <2>1, <3>2 DEF Gate!GNext
  <2>3. CASE ballot[r][v] # "none"
    <3>1. ballot' = ballot
      BY <1>2, <2>1, <2>3 DEF Insert, Typed, TypeOK
    <3> QED BY <1>1, <3>1 DEF Gate!gvars
  <2> QED BY <2>2, <2>3
<1>3. CASE ~Insert(v)
  <2>1. ballot' = ballot
    BY <1>3, Zenon DEF CallStep, Select, Count, Update, Publish, Mirror, CallDies, Vote
  <2> QED BY <1>1, <2>1 DEF Gate!gvars
<1> QED BY <1>2, <1>3

\* KeepsGateHolds: the tables, the channel, the runs and the API calls implement
\* the gate, for any number of runs, voters, votes and faults.
THEOREM KeepsGateHolds == Spec => KeepsGate
<1>1. Init => Gate!GInit
  BY DEF Init, Gate!GInit
<1>2. Typed /\ Backed /\ GateInv /\ [Next]_vars => [Gate!GNext]_(Gate!gvars)
  <2> SUFFICES ASSUME Typed, Backed, GateInv, [Next]_vars
               PROVE  Gate!GNext \/ UNCHANGED Gate!gvars
    OBVIOUS
  <2>1. CASE UNCHANGED vars
    BY <2>1 DEF vars, tables, run, Gate!gvars
  <2>2. CASE Next
    BY <2>2, RunStepRefines, CallStepRefines DEF Next
  <2> QED BY <2>1, <2>2
<1> QED BY <1>1, <1>2, GateAlways, PTL DEF Spec, KeepsGate, Gate!GSpec

-----------------------------------------------------------------------------
(* The votes and the waiter: no vote is lost, and none is lost on the run. *)

\* Nobody knows of the approval of a run before it has asked.
Unasked(r) ==
  pc[r] \in {"idle", "ask"} =>
    /\ row[r] = "none"
    /\ \A v \in Voters : /\ ballot[r][v] = "none"
                         /\ call[v].pc \in {"insert", "count", "update", "publish"} => call[v].run # r

\* A row that is pending although the votes decide it has a call that will see it.
Covered(r) ==
  faults = 0 /\ row[r] = "pending" =>
    /\ HasQuorum(r) => \E v \in Voters : call[v].run = r /\ call[v].pc \in {"count", "update"}
    /\ (\E u \in Voters : ballot[r][u] = "rejected") =>
         \E v \in Voters : call[v].run = r /\ call[v].pc = "update"

\* NoDeafWaiter, for one run.
Heard(r) ==
  pc[r] = "wait" /\ row[r] # "pending" /\ faults = 0 =>
    \/ \E i \in DOMAIN inbox[r] : inbox[r][i] # "pending"
    \/ \E v \in Voters : call[v].pc = "publish" /\ call[v].run = r /\ call[v].status # "pending"

Resolving == \A r \in Runs : Unasked(r) /\ Covered(r) /\ Heard(r)

LEMMA NoVotesNoQuorum ==
  ASSUME Typed, NEW r \in Runs, Required[level[r]] > 0, \A v \in Voters : ballot[r][v] = "none"
  PROVE  ~HasQuorum(r)
<1>1. Approvers(r) = {}
  BY DEF Approvers
<1>2. Required[level[r]] \in Nat
  <2>1. level[r] \in DOMAIN Required
    BY ApprovalAssumption DEF Typed, TypeOK
  <2> QED BY <2>1 DEF Required
<1> QED BY <1>1, <1>2, FS_EmptySet DEF HasQuorum

\* What a step of one run does to what others see of it.
MovesOn(r) ==
  /\ \A q \in Runs \ {r} : row'[q] = row[q] /\ inbox'[q] = inbox[q] /\ pc'[q] = pc[q]
  /\ pc'[r] \in {"idle", "ask"} => pc[r] \in {"idle", "ask"} /\ row'[r] = row[r]
  /\ \/ row'[r] \in {row[r], "timeout"}
     \/ ~HasQuorum(r) /\ \A u \in Voters : ballot[r][u] = "none"
  /\ pc'[r] = "wait" => row'[r] = "pending" \/ faults' > 0

LEMMA MovesOnResolving ==
  ASSUME Typed, Resolving, NEW r \in Runs, UNCHANGED <<level, ballot, call>>,
         faults' \in Nat, faults' >= faults, MovesOn(r)
  PROVE  Resolving'
<1>0. faults \in Nat
  BY ApprovalAssumption DEF Typed, TypeOK
<1>1. \A q \in Runs : HasQuorum(q)' <=> HasQuorum(q)
  BY DEF HasQuorum, Approvers
<1>2. ASSUME NEW q \in Runs PROVE Unasked(q)' /\ Covered(q)' /\ Heard(q)'
  <2>1. Unasked(q) /\ Covered(q) /\ Heard(q)
    BY DEF Resolving
  <2>2. CASE q # r
    BY <1>0, <1>1, <2>1, <2>2 DEF MovesOn, Unasked, Covered, Heard
  <2>3. CASE q = r
    <3>1. Unasked(q)'
      BY <2>1, <2>3 DEF MovesOn, Unasked
    <3>2. Covered(q)'
      BY <1>0, <1>1, <2>1, <2>3 DEF MovesOn, Covered
    <3>3. Heard(q)'
      BY <2>3 DEF MovesOn, Heard
    <3> QED BY <3>1, <3>2, <3>3
  <2> QED BY <2>2, <2>3
<1> QED BY <1>2 DEF Resolving

LEMMA RunStepMovesOn ==
  ASSUME Typed, Resolving, NEW r \in Runs, RunStep(r)
  PROVE  MovesOn(r)
<1>1. /\ pc \in [Runs -> RunSteps] /\ row \in [Runs -> Status \cup {"none"}]
      /\ inbox \in [Runs -> Seq(Status)] /\ faults \in Nat
  BY DEF Typed, TypeOK
<1> USE DEF tables
<1>2. CASE Begin(r)
  BY <1>1, <1>2 DEF Begin, Goto, MovesOn
<1>3. CASE Ask(r)
  <2>1. CASE Required[level[r]] = 0 /\ Conclude(r, "approved") /\ UNCHANGED row
    BY <1>1, <1>3, <2>1 DEF Ask, Conclude, Goto, MovesOn
  <2>2. CASE /\ Required[level[r]] > 0 /\ row' = [row EXCEPT ![r] = "pending"]
             /\ Goto(r, "check") /\ UNCHANGED <<inbox, result>>
    <3>1. \A v \in Voters : ballot[r][v] = "none"
      BY <1>3 DEF Ask, Resolving, Unasked
    <3>2. ~HasQuorum(r)
      BY <2>2, <3>1, NoVotesNoQuorum
    <3> QED BY <1>1, <2>2, <3>1, <3>2 DEF Goto, MovesOn
  <2> QED BY <1>3, <2>1, <2>2 DEF Ask
<1>4. CASE Look(r)
  BY <1>1, <1>4 DEF Look, Conclude, Goto, MovesOn
<1>5. CASE Subscribe(r)
  BY <1>1, <1>5 DEF Subscribe, Goto, MovesOn
<1>6. CASE Receive(r)
  BY <1>1, <1>6 DEF Receive, Conclude, Goto, MovesOn
<1>7. CASE Expire(r)
  BY <1>1, <1>7 DEF Expire, Conclude, Goto, MovesOn
<1>8. CASE Execute(r) \/ GiveUp(r) \/ Record(r)
  BY <1>1, <1>8 DEF Execute, GiveUp, Record, Goto, MovesOn
<1>9. CASE Crash(r)
  BY <1>1, <1>9 DEF Crash, Goto, MovesOn
<1>10. CASE LoseInbox(r)
  BY <1>1, <1>10 DEF LoseInbox, Disruption, MovesOn
<1> QED BY <1>2, <1>3, <1>4, <1>5, <1>6, <1>7, <1>8, <1>9, <1>10 DEF RunStep, WaitStep

LEMMA RunStepResolving ==
  ASSUME Typed, Typed', Resolving, NEW r \in Runs, RunStep(r)
  PROVE  Resolving'
<1>1. UNCHANGED <<level, ballot, call>>
  BY DEF tables, RunStep, WaitStep, Begin, Ask, Look, Subscribe, Receive, Expire, Execute,
         GiveUp, Record, Crash, LoseInbox
<1>2. faults' = faults \/ faults' = faults + 1
  BY DEF RunStep, WaitStep, Begin, Ask, Look, Subscribe, Receive, Expire, Execute,
         GiveUp, Record, Crash, LoseInbox, Disruption
<1>3. faults \in Nat
  BY DEF Typed, TypeOK
<1>4. faults' \in Nat /\ faults' >= faults
  BY <1>2, <1>3
<1> QED BY <1>1, <1>4, RunStepMovesOn, MovesOnResolving

\* The call of v, which goes on to c, reaches no run that has not asked ...
LeavesUnasked(c) ==
  /\ c.pc \in {"insert", "count", "update", "publish"} => pc[c.run] \notin {"idle", "ask"}
  /\ \A r \in Runs : pc[r] \in {"idle", "ask"} =>
       row'[r] = row[r] /\ \A u \in Voters : ballot'[r][u] = ballot[r][u]

\* ... decides a row only if it then publishes it ...
RowsTold(c) ==
  \A r \in Runs :
    \/ row'[r] = row[r]
    \/ row'[r] # "pending" /\ c.pc = "publish" /\ c.run = r /\ c.status # "pending"

\* ... looks after the vote it adds ...
VoteSeen(c) ==
  \A r \in Runs :
    /\ HasQuorum(r)' => HasQuorum(r) \/ (c.run = r /\ c.pc = "count")
    /\ \A u \in Voters : ballot'[r][u] = "rejected" =>
         ballot[r][u] = "rejected" \/ (c.run = r /\ c.pc = "update")

\* ... does what it had taken on ...
DutyDone(d, c) ==
  \A r \in Runs : d.run = r =>
    /\ d.pc = "count" /\ HasQuorum(r)' => c.run = r /\ c.pc = "update"
    /\ d.pc = "update" => row'[r] # "pending"
    /\ d.pc = "publish" /\ d.status # "pending" /\ pc[r] = "wait" =>
         \E i \in DOMAIN inbox'[r] : inbox'[r][i] # "pending"

\* ... and takes no message away.
InboxKept ==
  \A r \in Runs : \A i \in DOMAIN inbox[r] :
    i \in DOMAIN inbox'[r] /\ inbox'[r][i] = inbox[r][i]

LEMMA CallResolving ==
  ASSUME Typed, Resolving, NEW v \in Voters, NEW c, UNCHANGED <<level, pc>>,
         call' = [call EXCEPT ![v] = c], LeavesUnasked(c),
         faults' > 0 \/ ( /\ UNCHANGED faults
                          /\ RowsTold(c) /\ VoteSeen(c) /\ DutyDone(call[v], c) /\ InboxKept )
  PROVE  Resolving'
<1>1. /\ call'[v] = c
      /\ \A u \in Voters \ {v} : call'[u] = call[u]
  BY DEF Typed, TypeOK
<1>2. ASSUME NEW r \in Runs PROVE Unasked(r)' /\ Covered(r)' /\ Heard(r)'
  <2>0. Unasked(r) /\ Covered(r) /\ Heard(r)
    BY DEF Resolving
  <2>1. Unasked(r)'
    BY <1>1, <2>0 DEF Unasked, LeavesUnasked
  <2>2. CASE faults' > 0
    <3>1. ~(faults' = 0)
      BY <2>2
    <3> QED BY <2>1, <3>1 DEF Covered, Heard
  <2>3. CASE UNCHANGED faults /\ RowsTold(c) /\ VoteSeen(c) /\ DutyDone(call[v], c) /\ InboxKept
    <3>1. Covered(r)'
      <4> SUFFICES ASSUME faults = 0, row'[r] = "pending"
                   PROVE  /\ HasQuorum(r)' => \E u \in Voters :
                               call'[u].run = r /\ call'[u].pc \in {"count", "update"}
                          /\ (\E u \in Voters : ballot'[r][u] = "rejected") =>
                               \E u \in Voters : call'[u].run = r /\ call'[u].pc = "update"
        BY <2>3 DEF Covered
      <4>1. row[r] = "pending"
        BY <2>3 DEF RowsTold
      <4>2. ASSUME HasQuorum(r)'
            PROVE  \E u \in Voters : call'[u].run = r /\ call'[u].pc \in {"count", "update"}
        <5>1. CASE c.run = r /\ c.pc = "count"
          BY <1>1, <5>1
        <5>2. CASE HasQuorum(r)
          <6> PICK u \in Voters : call[u].run = r /\ call[u].pc \in {"count", "update"}
            BY <2>0, <4>1, <5>2 DEF Covered
          <6>1. u = v => c.run = r /\ c.pc = "update"
            BY <2>3, <4>2 DEF DutyDone
          <6> QED BY <1>1, <6>1
        <5> QED BY <2>3, <4>2, <5>1, <5>2 DEF VoteSeen
      <4>3. ASSUME NEW w \in Voters, ballot'[r][w] = "rejected"
            PROVE  \E u \in Voters : call'[u].run = r /\ call'[u].pc = "update"
        <5>1. CASE c.run = r /\ c.pc = "update"
          BY <1>1, <5>1
        <5>2. CASE ballot[r][w] = "rejected"
          <6> PICK u \in Voters : call[u].run = r /\ call[u].pc = "update"
            BY <2>0, <4>1, <5>2 DEF Covered
          <6>1. u # v
            BY <2>3 DEF DutyDone
          <6> QED BY <1>1, <6>1
        <5> QED BY <2>3, <4>3, <5>1, <5>2 DEF VoteSeen
      <4> QED BY <4>2, <4>3
    <3>2. Heard(r)'
      <4> SUFFICES ASSUME faults = 0, pc[r] = "wait", row'[r] # "pending"
                   PROVE  \/ \E i \in DOMAIN inbox'[r] : inbox'[r][i] # "pending"
                          \/ \E u \in Voters : /\ call'[u].pc = "publish" /\ call'[u].run = r
                                               /\ call'[u].status # "pending"
        BY <2>3 DEF Heard
      <4>1. CASE c.pc = "publish" /\ c.run = r /\ c.status # "pending"
        BY <1>1, <4>1
      <4>2. CASE row'[r] = row[r]
        <5>1. CASE \E i \in DOMAIN inbox[r] : inbox[r][i] # "pending"
          BY <2>3, <5>1 DEF InboxKept
        <5>2. ASSUME NEW u \in Voters, call[u].pc = "publish", call[u].run = r,
                     call[u].status # "pending"
              PROVE  \/ \E i \in DOMAIN inbox'[r] : inbox'[r][i] # "pending"
                     \/ \E w \in Voters : /\ call'[w].pc = "publish" /\ call'[w].run = r
                                          /\ call'[w].status # "pending"
          BY <1>1, <2>3, <5>2 DEF DutyDone
        <5> QED BY <2>0, <4>2, <5>1, <5>2 DEF Heard
      <4> QED BY <2>3, <4>1, <4>2 DEF RowsTold
    <3> QED BY <2>1, <3>1, <3>2
  <2> QED BY <2>2, <2>3
<1> QED BY <1>2 DEF Resolving

LEMMA WritesNoTable ==
  ASSUME NEW c, UNCHANGED <<level, row, ballot, inbox>>
  PROVE  /\ RowsTold(c) /\ VoteSeen(c) /\ InboxKept
         /\ \A r \in Runs : HasQuorum(r)' <=> HasQuorum(r)
BY DEF RowsTold, VoteSeen, InboxKept, HasQuorum, Approvers

\* A call that is under way has a run that has asked.
LEMMA CallsAsked ==
  ASSUME Typed, Resolving, NEW v \in Voters,
         call[v].pc \in {"insert", "count", "update", "publish"}
  PROVE  call[v].run \in Runs /\ pc[call[v].run] \notin {"idle", "ask"}
BY DEF Typed, CallInv, Resolving, Unasked

LEMMA CallStepResolving ==
  ASSUME Typed, Typed', Resolving, NEW v \in Voters,
         CallStep(v) \/ CallDies(v) \/ \E d \in Decisions : Vote(v, d)
  PROVE  Resolving'
<1> USE DEF tables, run
<1>0. call[v] \in Call
  BY CallFields
<1>1. CASE \E d \in Decisions : Vote(v, d)
  <2> PICK d \in Decisions : Vote(v, d)
    BY <1>1
  <2> DEFINE c == [NoCall EXCEPT !.pc = "select", !.decision = d]
  <2>1. call' = [call EXCEPT ![v] = c] /\ call[v].pc = "idle"
    BY DEF Vote
  <2>2. c.pc = "select"
    BY DEF NoCall
  <2>3. UNCHANGED <<level, pc, ballot, row, inbox, faults>>
    BY DEF Vote
  <2> HIDE DEF c
  <2>4. LeavesUnasked(c) /\ DutyDone(call[v], c)
    BY <2>1, <2>2, <2>3 DEF LeavesUnasked, DutyDone
  <2> QED BY <2>1, <2>3, <2>4, WritesNoTable, CallResolving
<1>2. CASE Select(v)
  <2>1. UNCHANGED <<level, pc, ballot, row, inbox, faults>>
    BY <1>2 DEF Select
  <2>2. ASSUME NEW c, call' = [call EXCEPT ![v] = c],
               c.pc \in {"insert", "count", "update", "publish"} => pc[c.run] \notin {"idle", "ask"}
        PROVE  Resolving'
    <3>1. LeavesUnasked(c) /\ DutyDone(call[v], c)
      BY <1>2, <2>1, <2>2 DEF Select, LeavesUnasked, DutyDone
    <3> QED BY <2>1, <2>2, <3>1, WritesNoTable, CallResolving
  <2>3. ASSUME NEW r \in Runs, row[r] = "pending",
               call' = [call EXCEPT ![v] = [@ EXCEPT !.pc = "insert", !.run = r]]
        PROVE  Resolving'
    <3> DEFINE c == [call[v] EXCEPT !.pc = "insert", !.run = r]
    <3>1. c.run = r
      BY <1>0 DEF Call
    <3>2. call' = [call EXCEPT ![v] = c]
      BY <2>3
    <3>3. pc[r] \notin {"idle", "ask"}
      BY <2>3 DEF Resolving, Unasked
    <3> HIDE DEF c
    <3> QED BY <2>2, <3>1, <3>2, <3>3
  <2>4. CASE AddVoteReturns(v, "not_found")
    <3> DEFINE c == IF call[v].again THEN NoCall
                    ELSE [call[v] EXCEPT !.pc = "mirror", !.status = "not_found"]
    <3>1. c.pc \in {"idle", "mirror"}
      BY <1>0 DEF Call, NoCall
    <3>2. call' = [call EXCEPT ![v] = c]
      BY <2>4 DEF AddVoteReturns
    <3> HIDE DEF c
    <3> QED BY <2>2, <3>1, <3>2
  <2> QED BY <1>2, <2>3, <2>4 DEF Select
<1>3. CASE Insert(v)
  <2> DEFINE b == call[v].run
  <2>1. /\ UNCHANGED <<level, pc, row, inbox, faults>> /\ call[v].pc = "insert"
        /\ b \in Runs /\ pc[b] \notin {"idle", "ask"}
    BY <1>3, CallsAsked DEF Insert
  <2>2. \A r \in Runs, u \in Voters : r # b \/ u # v => ballot'[r][u] = ballot[r][u]
    BY <1>3 DEF Insert, Typed, TypeOK
  <2>3. ballot'[b][v] = ballot[b][v] \/ ballot'[b][v] = call[v].decision
    BY <1>3, <2>1 DEF Insert, Typed, TypeOK
  <2>4. \A r \in Runs : (ballot'[r][v] = "approved" => ballot[r][v] = "approved") =>
                        (HasQuorum(r)' => HasQuorum(r))
    <3> SUFFICES ASSUME NEW r \in Runs, ballot'[r][v] = "approved" => ballot[r][v] = "approved"
                 PROVE  HasQuorum(r)' => HasQuorum(r)
      OBVIOUS
    <3>1. Approvers(r)' \subseteq Approvers(r) /\ Approvers(r) \subseteq Voters
      BY <2>2 DEF Approvers
    <3>2. /\ Cardinality(Approvers(r)') <= Cardinality(Approvers(r))
          /\ Cardinality(Approvers(r)') \in Nat /\ Cardinality(Approvers(r)) \in Nat
      BY <3>1, ApprovalAssumption, FS_Subset, FS_CardinalityType
    <3>3. Required[level[r]] \in Nat /\ UNCHANGED level
      <4>1. level[r] \in DOMAIN Required
        BY ApprovalAssumption DEF Typed, TypeOK
      <4> QED BY <2>1, <4>1 DEF Required
    <3> QED BY <3>2, <3>3 DEF HasQuorum
  <2>5. CASE call[v].decision = "rejected"
    <3> DEFINE c == [call[v] EXCEPT !.pc = "update", !.status = "rejected"]
    <3>1. c.pc = "update" /\ c.run = b
      BY <1>0 DEF Call
    <3>2. call' = [call EXCEPT ![v] = c]
      BY <1>3, <2>5 DEF Insert
    <3> HIDE DEF c
    <3>3. LeavesUnasked(c)
      BY <2>1, <2>2, <3>1 DEF LeavesUnasked
    <3>4. RowsTold(c) /\ InboxKept /\ DutyDone(call[v], c)
      BY <2>1 DEF RowsTold, InboxKept, DutyDone
    <3>5. VoteSeen(c)
      BY <2>1, <2>2, <2>3, <2>4, <2>5, <3>1 DEF VoteSeen
    <3> QED BY <2>1, <3>2, <3>3, <3>4, <3>5, CallResolving
  <2>6. CASE call[v].decision = "approved"
    <3> DEFINE c == [call[v] EXCEPT !.pc = "count"]
    <3>1. c.pc = "count" /\ c.run = b
      BY <1>0 DEF Call
    <3>2. call' = [call EXCEPT ![v] = c]
      BY <1>3, <2>6 DEF Insert
    <3> HIDE DEF c
    <3>3. LeavesUnasked(c)
      BY <2>1, <2>2, <3>1 DEF LeavesUnasked
    <3>4. RowsTold(c) /\ InboxKept /\ DutyDone(call[v], c)
      BY <2>1 DEF RowsTold, InboxKept, DutyDone
    <3>5. VoteSeen(c)
      BY <2>1, <2>2, <2>3, <2>4, <2>6, <3>1 DEF VoteSeen
    <3> QED BY <2>1, <3>2, <3>3, <3>4, <3>5, CallResolving
  <2> QED BY <1>0, <2>5, <2>6 DEF Call, Decisions
<1>4. CASE Count(v)
  <2>1. /\ UNCHANGED <<level, pc, ballot, row, inbox, faults>> /\ call[v].pc = "count"
        /\ call[v].run \in Runs /\ pc[call[v].run] \notin {"idle", "ask"}
    BY <1>4, CallsAsked DEF Count
  <2>2. ASSUME NEW step \in {"update", "publish"}, NEW status,
               HasQuorum(call[v].run) => step = "update",
               call' = [call EXCEPT ![v] = [@ EXCEPT !.pc = step, !.status = status]]
        PROVE  Resolving'
    <3> DEFINE c == [call[v] EXCEPT !.pc = step, !.status = status]
    <3>1. c.pc = step /\ c.run = call[v].run
      BY <1>0 DEF Call
    <3>2. call' = [call EXCEPT ![v] = c]
      BY <2>2
    <3> HIDE DEF c
    <3>3. LeavesUnasked(c)
      BY <2>1, <3>1 DEF LeavesUnasked
    <3>4. DutyDone(call[v], c)
      BY <2>1, <2>2, <3>1, WritesNoTable DEF DutyDone
    <3> QED BY <2>1, <3>2, <3>3, <3>4, WritesNoTable, CallResolving
  <2>3. CASE HasQuorum(call[v].run)
    <3>1. call' = [call EXCEPT ![v] = [@ EXCEPT !.pc = "update", !.status = "approved"]]
      BY <1>4, <2>3 DEF Count
    <3> QED BY <3>1, <2>2
  <2>4. CASE ~HasQuorum(call[v].run)
    <3>1. call' = [call EXCEPT ![v] = [@ EXCEPT !.pc = "publish", !.status = "pending"]]
      BY <1>4, <2>4 DEF Count
    <3>2. "publish" \in {"update", "publish"} /\ (HasQuorum(call[v].run) => "publish" = "update")
      BY <2>4
    <3> QED BY <3>1, <3>2, <2>2
  <2> QED BY <2>3, <2>4
<1>5. CASE Update(v)
  <2> DEFINE b == call[v].run
             c == [call[v] EXCEPT !.pc = "publish"]
  <2>1. /\ UNCHANGED <<level, pc, ballot, inbox, faults>> /\ call[v].pc = "update"
        /\ b \in Runs /\ pc[b] \notin {"idle", "ask"}
        /\ call[v].status \in Decisions
    BY <1>5, CallsAsked DEF Update, Typed, CallInv
  <2>2. \A r \in Runs : row'[r] = IF r = b THEN call[v].status ELSE row[r]
    BY <1>5, <2>1 DEF Update, Typed, TypeOK
  <2>3. c.pc = "publish" /\ c.run = b /\ c.status = call[v].status
    BY <1>0 DEF Call
  <2>4. call' = [call EXCEPT ![v] = c]
    BY <1>5 DEF Update, Proceed
  <2> HIDE DEF c
  <2>5. LeavesUnasked(c)
    BY <2>1, <2>2, <2>3 DEF LeavesUnasked
  <2>6. RowsTold(c)
    BY <2>1, <2>2, <2>3 DEF RowsTold, Decisions
  <2>7. InboxKept /\ VoteSeen(c)
    BY <2>1 DEF InboxKept, VoteSeen, HasQuorum, Approvers
  <2>8. DutyDone(call[v], c)
    BY <2>1, <2>2 DEF DutyDone, Decisions
  <2> QED BY <2>1, <2>4, <2>5, <2>6, <2>7, <2>8, CallResolving
<1>6. CASE Publish(v)
  <2> DEFINE b == call[v].run
             c == IF call[v].again THEN NoCall
                  ELSE [call[v] EXCEPT !.pc = "mirror", !.status = call[v].status]
  <2>1. /\ UNCHANGED <<level, pc, ballot, row, faults>> /\ call[v].pc = "publish"
        /\ b \in Runs /\ call[v].status \in Status
    BY <1>6 DEF Publish, Typed, CallInv, Status
  <2>2. c.pc \in {"idle", "mirror"}
    BY <1>0 DEF Call, NoCall
  <2>3. call' = [call EXCEPT ![v] = c]
    BY <1>6 DEF Publish, AddVoteReturns
  <2> HIDE DEF c
  <2>4. \A r \in Runs : r # b => inbox'[r] = inbox[r]
    BY <1>6 DEF Publish, Typed, TypeOK
  <2>5. inbox'[b] = IF pc[b] \in Subscribed THEN Append(inbox[b], call[v].status) ELSE inbox[b]
    BY <1>6, <2>1 DEF Publish, Typed, TypeOK
  <2>6. inbox[b] \in Seq(Status)
    BY <2>1 DEF Typed, TypeOK
  <2> HIDE DEF b
  <2>7. InboxKept
    <3>1. ASSUME NEW i \in DOMAIN inbox[b]
          PROVE  i \in DOMAIN inbox'[b] /\ inbox'[b][i] = inbox[b][i]
      BY <2>1, <2>5, <2>6
    <3> QED BY <2>4, <3>1 DEF InboxKept
  <2>8. ASSUME pc[b] = "wait", call[v].status # "pending"
        PROVE  \E i \in DOMAIN inbox'[b] : inbox'[b][i] # "pending"
    <3>1. inbox'[b] = Append(inbox[b], call[v].status)
      BY <2>5, <2>8 DEF Subscribed
    <3>2. /\ Len(inbox[b]) + 1 \in DOMAIN inbox'[b]
          /\ inbox'[b][Len(inbox[b]) + 1] = call[v].status
      BY <2>1, <2>6, <3>1
    <3> QED BY <2>8, <3>2
  <2>9. LeavesUnasked(c)
    BY <2>1, <2>2 DEF LeavesUnasked
  <2>10. RowsTold(c) /\ VoteSeen(c)
    BY <2>1 DEF RowsTold, VoteSeen, HasQuorum, Approvers
  <2>11. DutyDone(call[v], c)
    BY <2>1, <2>8 DEF DutyDone, b
  <2> QED BY <2>1, <2>3, <2>7, <2>9, <2>10, <2>11, CallResolving
<1>7. CASE Mirror(v)
  <2> DEFINE c == [call[v] EXCEPT !.pc = "select", !.again = TRUE]
  <2>1. c.pc = "select"
    BY <1>0 DEF Call
  <2>2. call' = [call EXCEPT ![v] = c]
    BY <1>7 DEF Mirror
  <2>3. UNCHANGED <<level, pc, ballot, row, inbox, faults>> /\ call[v].pc = "mirror"
    BY <1>7 DEF Mirror
  <2> HIDE DEF c
  <2>4. LeavesUnasked(c) /\ DutyDone(call[v], c)
    BY <2>1, <2>3 DEF LeavesUnasked, DutyDone
  <2> QED BY <2>2, <2>3, <2>4, WritesNoTable, CallResolving
<1>8. CASE CallDies(v)
  <2>1. call' = [call EXCEPT ![v] = NoCall] /\ UNCHANGED <<level, pc, ballot, row>>
    BY <1>8 DEF CallDies
  <2>2. faults' > 0
    BY <1>8 DEF CallDies, Disruption, Typed, TypeOK
  <2>3. LeavesUnasked(NoCall)
    BY <2>1 DEF LeavesUnasked, NoCall
  <2> QED BY <2>1, <2>2, <2>3, CallResolving
<1> QED BY <1>1, <1>2, <1>3, <1>4, <1>5, <1>6, <1>7, <1>8 DEF CallStep

LEMMA ResolvingAlways == Spec => [](Typed /\ Resolving)
<1>1. Init => Typed /\ Resolving
  <2>1. Init => Typed
    BY ApprovalAssumption
       DEF Init, Typed, TypeOK, CallInv, Call, NoCall, CallSteps, RunSteps, Decisions, Status
  <2>2. Init => Resolving
    BY DEF Init, Resolving, Unasked, Covered, Heard, NoCall
  <2> QED BY <2>1, <2>2
<1>2. Typed /\ Resolving /\ [Next]_vars => (Typed /\ Resolving)'
  <2>1. ASSUME Typed, Resolving, UNCHANGED vars PROVE (Typed /\ Resolving)'
    <3>1. Typed'
      BY <2>1 DEF vars, tables, run, Typed, TypeOK, CallInv
    <3>2. \A r \in Runs : HasQuorum(r)' <=> HasQuorum(r)
      BY <2>1 DEF vars, tables, HasQuorum, Approvers
    <3>3. \A r \in Runs : Unasked(r)' /\ Covered(r)' /\ Heard(r)'
      BY <2>1, <3>2 DEF vars, tables, run, Resolving, Unasked, Covered, Heard
    <3> QED BY <3>1, <3>3 DEF Resolving
  <2>2. Typed /\ Next => Typed'
    BY RunStepTyped, CallStepTyped DEF Next
  <2>3. Typed /\ Resolving /\ Next => Resolving'
    BY <2>2, RunStepResolving, CallStepResolving DEF Next
  <2> QED BY <2>1, <2>2, <2>3
<1> QED BY <1>1, <1>2, PTL DEF Spec

\* QuorumResolvesHolds: two calls that insert and count at the same time cannot
\* both miss the quorum, for any number of approvers, runs and calls.
THEOREM QuorumResolvesHolds == Spec => []QuorumResolves
<1>1. Resolving => QuorumResolves
  BY DEF Resolving, Covered, QuorumResolves
<1> QED BY <1>1, ResolvingAlways, PTL

\* NoDeafWaiterHolds: the second look at the row, after subscribing, leaves no
\* moment at which a decision can pass the waiting run by.
THEOREM NoDeafWaiterHolds == Spec => []NoDeafWaiter
<1>1. Resolving => NoDeafWaiter
  BY DEF Resolving, Heard, NoDeafWaiter
<1> QED BY <1>1, ResolvingAlways, PTL

=============================================================================
