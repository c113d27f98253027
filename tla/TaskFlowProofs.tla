--------------------------- MODULE TaskFlowProofs ---------------------------
(***************************************************************************)
(* What module TaskFlow guarantees for every number of requests, tenants,  *)
(* users, tokens and tasks: the service is a Sessions and a Tasks at once, *)
(* so the theorems about those modules hold of it; and with what ties the  *)
(* two together, tasks are read and written at their own address only.     *)
(***************************************************************************)
EXTENDS TaskFlow, TLAPS

(* The same two modules, with their theorems. *)
SP == INSTANCE SessionsProofs
TP == INSTANCE TasksProofs WITH Accounts <- [id : UserIds, tenant : Tenants]

(* Sessions as the service instantiates it is the one of SessionsProofs. *)
LEMMA SameSessions ==
    /\ SP!SessionsAssumption <=> S!SessionsAssumption
    /\ SP!Init <=> S!Init
    /\ SP!IInv <=> S!IInv
    /\ [SP!Next]_(SP!vars) <=> [S!Next]_(S!vars)
BY DEF
    S!Guarded, SP!Guarded, S!Accounts, SP!Accounts, S!Claims, SP!Claims, S!Hosts, SP!Hosts,
    S!Bearers, SP!Bearers, S!SessionsAssumption, SP!SessionsAssumption, S!rows, SP!rows,
    S!vars, SP!vars, S!Endpoints, SP!Endpoints, S!Steps, SP!Steps, S!Refusals, SP!Refusals,
    S!Replies, SP!Replies, S!Registered, SP!Registered, S!Seeded, SP!Seeded, S!AtOwnAddress,
    SP!AtOwnAddress, S!Init, SP!Init, S!Goto, SP!Goto, S!Answer, SP!Answer, S!asked,
    SP!asked, S!Receive, SP!Receive, S!Headers, SP!Headers, S!DecodeToken, SP!DecodeToken,
    S!CheckRevoked, SP!CheckRevoked, S!LoadUser, SP!LoadUser, S!Serve, SP!Serve,
    S!CurrentJti, SP!CurrentJti, S!LookupRevoked, SP!LookupRevoked, S!InsertRevoked,
    SP!InsertRevoked, S!AnswerLogout, SP!AnswerLogout, S!Arrive, SP!Arrive, S!Matches,
    SP!Matches, S!CreateToken, SP!CreateToken, S!Login, SP!Login, S!CreateTestUser,
    SP!CreateTestUser, S!Expire, SP!Expire, S!NoRequest, SP!NoRequest, S!Close, SP!Close,
    S!Restart, SP!Restart, S!CurrentUser, SP!CurrentUser, S!Logout, SP!Logout,
    S!RequestStep, SP!RequestStep, S!Running, SP!Running, S!Next, SP!Next,
    S!TypeOK, SP!TypeOK, S!Admitted, SP!Admitted, S!AnsweredAtOwnAddress,
    SP!AnsweredAtOwnAddress, S!TokensNameTheirAccount, SP!TokensNameTheirAccount,
    S!LogoutIsDurable, SP!LogoutIsDurable, S!LostRacesEndTheToken,
    SP!LostRacesEndTheToken, S!OneAccountPerName, SP!OneAccountPerName, S!Errors, SP!Errors,
    S!AddUser, SP!AddUser, S!DemoAccountsStand, SP!DemoAccountsStand, S!TokenInHand,
    SP!TokenInHand, S!StepsAreEarned, SP!StepsAreEarned, S!LateStopsShort,
    SP!LateStopsShort, S!IInv, SP!IInv

(* Tasks as the service instantiates it is the one of TasksProofs. *)
LEMMA SameTasks ==
    /\ TP!RulesAssumption /\ TP!TasksAssumption <=> T!RulesAssumption /\ T!TasksAssumption
    /\ TP!Init <=> T!Init
    /\ TP!IInv <=> T!IInv
    /\ [TP!Next]_(TP!vars) <=> [T!Next]_(T!vars)
    /\ \A r \in Requests : TP!Acting(r) <=> T!Acting(r)
BY DEF
    T!RulesAssumption, TP!RulesAssumption, T!TaskStatus, TP!TaskStatus,
    T!ALLOWED_TRANSITIONS, TP!ALLOWED_TRANSITIONS, T!can_transition, TP!can_transition,
    T!usable_title, TP!usable_title, T!Titles, TP!Titles, T!matches_filter,
    TP!matches_filter, T!Optional, TP!Optional, T!Fields, TP!Fields, T!NoFields,
    TP!NoFields, T!Rows, TP!Rows, T!TasksAssumption, TP!TasksAssumption, T!table, TP!table,
    T!session, TP!session, T!vars, TP!vars, T!Ops, TP!Ops, T!Refusals, TP!Refusals, T!Init,
    TP!Init, T!Goto, TP!Goto, T!Reply, TP!Reply, T!Wrote, TP!Wrote, T!Begin, TP!Begin,
    T!Handling, TP!Handling, T!Live, TP!Live, T!Owns, TP!Owns, T!OwnTasks, TP!OwnTasks,
    T!NewRow, TP!NewRow, T!FreshIds, TP!FreshIds, T!CreateTask, TP!CreateTask, T!Kept,
    TP!Kept, T!ListTasks, TP!ListTasks, T!GetTask, TP!GetTask, T!Assigned, TP!Assigned,
    T!Changed, TP!Changed, T!Updated, TP!Updated, T!Dirty, TP!Dirty, T!Apply, TP!Apply,
    T!TitleRefused, TP!TitleRefused, T!MoveRefused, TP!MoveRefused, T!Verdict, TP!Verdict,
    T!Hold, TP!Hold, T!LoadForUpdate, TP!LoadForUpdate, T!CommitUpdate, TP!CommitUpdate,
    T!Refresh, TP!Refresh, T!LoadForDelete, TP!LoadForDelete, T!CommitDelete,
    TP!CommitDelete, T!Finished, TP!Finished, T!BulkDelete, TP!BulkDelete, T!NoRequest,
    TP!NoRequest, T!Close, TP!Close, T!Restart, TP!Restart, T!Serve, TP!Serve, T!Next,
    TP!Next, T!TypeOK, TP!TypeOK, T!Acting, TP!Acting, T!Holder, TP!Holder,
    T!TasksBelongToAccounts, TP!TasksBelongToAccounts, T!RepliesShowOwnRows,
    TP!RepliesShowOwnRows, T!RefusalsLeaveNoTrace, TP!RefusalsLeaveNoTrace,
    T!OnlyTimeoutsSpareTheRow, TP!OnlyTimeoutsSpareTheRow, T!Errors, TP!Errors,
    T!LockTimeout, TP!LockTimeout, T!LiveIsUsed, TP!LiveIsUsed,
    T!StagesAreEarned, TP!StagesAreEarned, T!RowInHand, TP!RowInHand, T!PendingIsAsked,
    TP!PendingIsAsked, T!IInv, TP!IInv

(* Both parts keep their inductive invariants, whatever runs beside them.  *)
LEMMA SessionsInvariant == S!Spec => []S!IInv
<1>1. SP!SessionsAssumption
  BY SameSessions, TaskFlowAssumption
<1>2. SP!Spec => []SP!IInv
  BY <1>1, SP!Invariance
<1> QED BY <1>2, SameSessions, PTL DEF SP!Spec, S!Spec

(* The same for the task handlers. *)
LEMMA TasksInvariant == T!Spec => []T!IInv
<1>1. TP!RulesAssumption /\ TP!TasksAssumption
  BY SameTasks, TaskFlowAssumption
<1>2. TP!Spec => []TP!IInv
  BY <1>1, TP!Invariance
<1> QED BY <1>2, SameTasks, PTL DEF TP!Spec, T!Spec

-----------------------------------------------------------------------------
(* The service implements its parts. *)

(* Every step of the service is a step of Sessions or leaves it alone. *)
LEMMA SessionsStep ==
    ASSUME [Next]_vars
    PROVE  [S!Next]_(S!vars)
<1> USE DEF sessionVars, S!vars
<1>1. CASE UNCHANGED vars
  BY <1>1 DEF vars
<1>2. ASSUME NEW r \in Requests, SessionOnly(r) PROVE S!Next
  BY <1>2 DEF SessionOnly, S!Next, S!Running, S!RequestStep, S!CurrentUser, S!Hosts, S!Bearers
<1>3. ASSUME NEW r \in Requests, EnterHandler(r) PROVE S!Next
  BY <1>3 DEF EnterHandler, S!Next, S!Running, S!RequestStep, S!CurrentUser
<1>4. ASSUME NEW r \in Requests, TaskStep(r) PROVE S!Next \/ UNCHANGED sessionVars
  BY <1>4 DEF TaskStep, S!Next, S!Running, S!RequestStep
<1>5. ASSUME NEW r \in Requests, Close(r) PROVE S!Next
  BY <1>5 DEF Close, S!Next, S!Running
<1>6. ASSUME NEW j \in Jtis, Expire(j) PROVE S!Next
  BY <1>6 DEF Expire, S!Next, S!Running
<1>7. CASE Restart
  BY <1>7 DEF Restart, S!Next
<1> QED BY <1>1, <1>2, <1>3, <1>4, <1>5, <1>6, <1>7 DEF Next

(* The service implements Sessions: task handlers and their answers are    *)
(* what module Sessions takes for one step of a handler behind             *)
(* current_user.                                                           *)
THEOREM RefinesSessions == Spec => ImplementsSessions
<1>1. Init => S!Init
  BY DEF Init
<1>2. [Next]_vars => [S!Next]_(S!vars)
  BY SessionsStep
<1> QED BY <1>1, <1>2, PTL DEF Spec, ImplementsSessions, S!Spec

(* What is proved of Sessions holds of the service. *)
LEMMA SessionsHold == Spec => []S!IInv
BY RefinesSessions, SessionsInvariant, PTL DEF ImplementsSessions

(* current_user returns an account, at the address of its tenant. *)
LEMMA LoadedUser ==
    ASSUME S!IInv, NEW r \in Requests, S!LoadUser(r), step'[r] = "handler"
    PROVE  /\ user'[r] \in UserIds
           /\ users[user'[r]] # NoUser
           /\ users[user'[r]].tenant \in Tenants
<1> USE DEF S!IInv, S!TypeOK, S!TokenInHand
<1>1. tok[r] \in Jtis /\ claims[tok[r]] \in S!Claims
  BY DEF S!LoadUser
<1>2. claims[tok[r]].sub \in UserIds
  BY <1>1 DEF S!Claims
<1>3. user'[r] = claims[tok[r]].sub /\ users[claims[tok[r]].sub] # NoUser
  BY DEF S!LoadUser, S!Answer, S!Goto
<1>4. users[user'[r]] \in S!Accounts
  BY <1>2, <1>3
<1> QED BY <1>2, <1>3, <1>4 DEF S!Accounts

(* Every step of the service is a step of Tasks or leaves it alone: the    *)
(* account a handler begins with is one that current_user may return.      *)
LEMMA TasksStep ==
    ASSUME S!IInv, [Next]_vars
    PROVE  [T!Next]_(T!vars)
<1> USE DEF taskVars, T!vars
<1>1. CASE UNCHANGED vars
  BY <1>1 DEF vars
<1>2. ASSUME NEW r \in Requests, SessionOnly(r) PROVE UNCHANGED taskVars
  BY <1>2 DEF SessionOnly
<1>3. ASSUME NEW r \in Requests, EnterHandler(r) PROVE T!Next \/ UNCHANGED taskVars
  <2>1. CASE endpoint[r] = "tasks" /\ step'[r] = "handler"
    <3> DEFINE a == [id |-> user'[r], tenant |-> users[user'[r]].tenant]
    <3>1. PICK o \in T!Ops : T!Begin(r, o, a)
      BY <1>3, <2>1 DEF EnterHandler
    <3>2. a \in [id : UserIds, tenant : Tenants]
      BY <1>3, <2>1, LoadedUser DEF EnterHandler
    <3> HIDE DEF a
    <3> QED BY <3>1, <3>2 DEF T!Next
  <2>2. CASE ~ (endpoint[r] = "tasks" /\ step'[r] = "handler")
    BY <1>3, <2>2 DEF EnterHandler
  <2> QED BY <2>1, <2>2
<1>4. ASSUME NEW r \in Requests, TaskStep(r) PROVE T!Next
  BY <1>4 DEF TaskStep, T!Next
<1>5. ASSUME NEW r \in Requests, Close(r) PROVE T!Next \/ UNCHANGED taskVars
  BY <1>5 DEF Close, T!Next
<1>6. ASSUME NEW j \in Jtis, Expire(j) PROVE UNCHANGED taskVars
  BY <1>6 DEF Expire
<1>7. CASE Restart
  BY <1>7 DEF Restart, T!Next
<1> QED BY <1>1, <1>2, <1>3, <1>4, <1>5, <1>6, <1>7 DEF Next

(* The service implements Tasks: a handler runs for an account that exists *)
(* and for one request at a time, whoever is being authenticated meanwhile.*)
THEOREM RefinesTasks == Spec => ImplementsTasks
<1>1. Init => T!Init
  BY DEF Init
<1>2. S!IInv /\ [Next]_vars => [T!Next]_(T!vars)
  BY TasksStep
<1> QED BY <1>1, <1>2, SessionsHold, PTL DEF Spec, ImplementsTasks, T!Spec

(* What is proved of Tasks holds of the service. *)
LEMMA TasksHold == Spec => []T!IInv
BY RefinesTasks, TasksInvariant, PTL DEF ImplementsTasks

-----------------------------------------------------------------------------
(* What ties the parts together *)

(* No step changes an account that exists. *)
LEMMA UsersStay ==
    ASSUME S!IInv, [Next]_vars
    PROVE  \A u \in UserIds : users[u] # NoUser => users'[u] = users[u]
<1>1. SP!SessionsAssumption
  BY SameSessions, TaskFlowAssumption
<1>2. SP!Typed
  BY SameSessions DEF SP!IInv, SP!Typed
<1>3. [SP!Next]_(SP!vars)
  BY SessionsStep, SameSessions
<1> QED BY <1>1, <1>2, <1>3, SP!TablesGrow

(* A request in a task handler, or answered by one, is touched by nothing  *)
(* else that the service does.                                             *)
LEMMA HandlersAreLeft ==
    ASSUME S!TypeOK, NEW r \in Requests, SessionOnly(r), NEW q \in Requests,
           endpoint[q] = "tasks", step[q] \in {"handler", "replied"}
    PROVE  /\ endpoint'[q] = endpoint[q] /\ step'[q] = step[q]
           /\ user'[q] = user[q] /\ reply'[q] = reply[q]
<1> USE DEF S!TypeOK, S!asked
<1>1. ASSUME NEW e \in Called, NEW h \in S!Hosts, NEW t \in S!Bearers, S!Receive(r, e, h, t)
      PROVE  /\ endpoint'[q] = endpoint[q] /\ step'[q] = step[q]
             /\ user'[q] = user[q] /\ reply'[q] = reply[q]
  BY <1>1 DEF S!Receive
<1>2. CASE S!DecodeToken(r) \/ S!CheckRevoked(r)
  BY <1>2 DEF S!DecodeToken, S!CheckRevoked, S!Goto, S!Answer
<1>3. CASE S!Logout(r)
  BY <1>3 DEF S!Logout, S!CurrentJti, S!LookupRevoked, S!InsertRevoked, S!AnswerLogout,
              S!Goto, S!Answer
<1>4. CASE endpoint[r] = "me" /\ S!Serve(r)
  BY <1>4 DEF S!Serve, S!Answer
<1>5. ASSUME NEW h \in S!Hosts, NEW n \in Usernames, NEW good \in BOOLEAN, S!Login(r, h, n, good)
      PROVE  /\ endpoint'[q] = endpoint[q] /\ step'[q] = step[q]
             /\ user'[q] = user[q] /\ reply'[q] = reply[q]
  BY <1>5 DEF S!Login, S!Arrive, S!Answer
<1>6. ASSUME NEW h \in S!Hosts, NEW n \in Usernames, S!CreateTestUser(r, h, n)
      PROVE  /\ endpoint'[q] = endpoint[q] /\ step'[q] = step[q]
             /\ user'[q] = user[q] /\ reply'[q] = reply[q]
  BY <1>6 DEF S!CreateTestUser, S!AddUser, S!Arrive, S!Answer
<1> QED BY <1>1, <1>2, <1>3, <1>4, <1>5, <1>6 DEF SessionOnly

(* A handler goes on for the account it began with. *)
LEMMA HandlerStep ==
    ASSUME T!TypeOK, NEW r \in Requests, T!Serve(r)
    PROVE  /\ caller' = caller
           /\ stage[r] \in {"handler", "commit", "refresh", "remove"}
           /\ \E s \in {"commit", "refresh", "remove", "replied"} :
                  stage' = [stage EXCEPT ![r] = s]
<1> USE DEF T!Handling, T!Goto, T!Reply
<1>1. ASSUME NEW d \in Drafts, T!CreateTask(r, d)
      PROVE  /\ caller' = caller /\ stage[r] = "handler"
             /\ \E s \in {"refresh", "replied"} : stage' = [stage EXCEPT ![r] = s]
  BY <1>1 DEF T!CreateTask, T!LockTimeout
<1>2. CASE \/ \E f \in Filters : T!ListTasks(r, f)
           \/ \E t \in TaskIds : T!GetTask(r, t) \/ T!LoadForDelete(r, t)
  BY <1>2 DEF T!ListTasks, T!GetTask, T!LoadForDelete
<1>3. ASSUME NEW t \in TaskIds, NEW p \in Patches, T!LoadForUpdate(r, t, p)
      PROVE  /\ caller' = caller /\ stage[r] = "handler"
             /\ \E s \in {"commit", "refresh", "replied"} : stage' = [stage EXCEPT ![r] = s]
  BY <1>3 DEF T!LoadForUpdate, T!Hold
<1>4. CASE T!CommitUpdate(r) \/ T!Refresh(r) \/ T!CommitDelete(r) \/ T!BulkDelete(r)
  BY <1>4 DEF T!CommitUpdate, T!Refresh, T!CommitDelete, T!BulkDelete, T!LockTimeout
<1> QED BY <1>1, <1>2, <1>3, <1>4 DEF T!Serve

(* What a step leaves alone still acts for its user. *)
LEMMA StillActs ==
    ASSUME S!IInv, T!IInv, [Next]_vars, NEW q \in Requests,
           caller[q] # NoAccount, ActsForUser(q),
           caller'[q] = caller[q], stage'[q] = stage[q], endpoint'[q] = endpoint[q],
           step'[q] = step[q], user'[q] = user[q], reply'[q] = reply[q]
    PROVE  ActsForUser(q)'
<1>1. caller[q] \in [id : UserIds, tenant : Tenants]
  BY DEF T!IInv, T!TypeOK
<1>2. user[q] \in UserIds
  BY <1>1 DEF ActsForUser
<1> QED BY <1>2, UsersStay DEF ActsForUser

(* Every step leaves each handler with the user that current_user returned. *)
LEMMA ActingStep ==
    ASSUME S!IInv, T!IInv, HandlersActForUsers, [Next]_vars
    PROVE  HandlersActForUsers'
<1> SUFFICES ASSUME NEW q \in Requests, caller'[q] # NoAccount
             PROVE  ActsForUser(q)'
  BY DEF HandlersActForUsers
<1> USE DEF HandlersActForUsers
<1> S!TypeOK /\ T!TypeOK
  BY DEF S!IInv, T!IInv
<1>1. CASE UNCHANGED vars
  BY <1>1, StillActs DEF vars, sessionVars, taskVars
<1>2. ASSUME NEW r \in Requests, SessionOnly(r) PROVE ActsForUser(q)'
  <2>1. caller'[q] = caller[q] /\ stage'[q] = stage[q]
    BY <1>2 DEF SessionOnly, taskVars
  <2>2. endpoint[q] = "tasks" /\ step[q] \in {"handler", "replied"}
    BY <2>1 DEF ActsForUser
  <2> QED BY <1>2, <2>1, <2>2, HandlersAreLeft, StillActs
<1>3. ASSUME NEW r \in Requests, EnterHandler(r) PROVE ActsForUser(q)'
  <2>1. CASE q = r
    <3>1. step[r] = "load_user"
      BY <1>3 DEF EnterHandler, S!LoadUser
    <3>2. caller[r] = NoAccount
      BY <3>1 DEF ActsForUser
    <3>3. endpoint[r] = "tasks" /\ step'[r] = "handler"
      BY <1>3, <2>1, <3>2 DEF EnterHandler, taskVars
    <3>4. PICK o \in T!Ops : T!Begin(r, o, [id |-> user'[r], tenant |-> users[user'[r]].tenant])
      BY <1>3, <3>3 DEF EnterHandler
    <3>5. users[user'[r]] # NoUser /\ users' = users /\ endpoint' = endpoint
      BY <1>3, <3>3, LoadedUser DEF EnterHandler, S!LoadUser, S!rows, S!asked
    <3>6. /\ stage'[r] = "handler"
          /\ caller'[r] = [id |-> user'[r], tenant |-> users[user'[r]].tenant]
      BY <3>4 DEF T!Begin, T!Goto, T!TypeOK
    <3> QED BY <2>1, <3>3, <3>5, <3>6 DEF ActsForUser
  <2>2. CASE q # r
    <3>1. caller'[q] = caller[q] /\ stage'[q] = stage[q]
      BY <1>3, <2>2 DEF EnterHandler, T!Begin, T!Goto, T!TypeOK, taskVars
    <3>2. /\ endpoint'[q] = endpoint[q] /\ step'[q] = step[q]
          /\ user'[q] = user[q] /\ reply'[q] = reply[q]
      BY <1>3, <2>2 DEF EnterHandler, S!LoadUser, S!Goto, S!Answer, S!TypeOK, S!asked
    <3> QED BY <3>1, <3>2, StillActs
  <2> QED BY <2>1, <2>2
<1>4. ASSUME NEW r \in Requests, TaskStep(r) PROVE ActsForUser(q)'
  <2>1. /\ caller' = caller
        /\ stage[r] \in {"handler", "commit", "refresh", "remove"}
        /\ \E s \in {"commit", "refresh", "remove", "replied"} :
               stage' = [stage EXCEPT ![r] = s]
    BY <1>4, HandlerStep DEF TaskStep
  <2>2. CASE q = r /\ stage'[r] = "replied"
    <3>1. S!Serve(r)
      BY <1>4, <2>2 DEF TaskStep
    <3>2. ActsForUser(r)
      BY <2>1, <2>2
    <3> QED BY <2>1, <2>2, <3>1, <3>2 DEF S!Serve, S!Answer, S!rows, S!asked, S!TypeOK, ActsForUser
  <2>3. CASE q = r /\ stage'[r] # "replied"
    <3>1. UNCHANGED sessionVars
      BY <1>4, <2>3 DEF TaskStep
    <3>2. ActsForUser(r)
      BY <2>1, <2>3
    <3> QED BY <2>1, <2>3, <3>1, <3>2 DEF sessionVars, ActsForUser
  <2>4. CASE q # r
    <3>1. caller'[q] = caller[q] /\ stage'[q] = stage[q]
      BY <2>1, <2>4 DEF T!TypeOK
    <3>2. /\ endpoint'[q] = endpoint[q] /\ step'[q] = step[q]
          /\ user'[q] = user[q] /\ reply'[q] = reply[q]
      BY <1>4, <2>4 DEF TaskStep, S!Serve, S!Answer, S!TypeOK, S!asked, sessionVars
    <3> QED BY <3>1, <3>2, StillActs
  <2> QED BY <2>2, <2>3, <2>4
<1>5. ASSUME NEW r \in Requests, Close(r) PROVE ActsForUser(q)'
  <2>1. step[r] = "replied"
    BY <1>5 DEF Close, S!Close
  <2>2. caller'[r] = NoAccount
    <3>1. CASE stage[r] = "replied"
      BY <1>5, <3>1 DEF Close, T!Close, T!NoRequest
    <3>2. CASE stage[r] # "replied"
      BY <1>5, <2>1, <3>2 DEF Close, taskVars, ActsForUser
    <3> QED BY <3>1, <3>2
  <2>3. caller'[q] = caller[q] /\ stage'[q] = stage[q]
    BY <1>5, <2>2 DEF Close, T!Close, T!NoRequest, taskVars
  <2>4. /\ endpoint'[q] = endpoint[q] /\ step'[q] = step[q]
        /\ user'[q] = user[q] /\ reply'[q] = reply[q]
    BY <1>5, <2>2 DEF Close, S!Close, S!NoRequest
  <2> QED BY <2>3, <2>4, StillActs
<1>6. ASSUME NEW j \in Jtis, Expire(j) PROVE ActsForUser(q)'
  BY <1>6, StillActs DEF Expire, S!Expire, S!asked, taskVars
<1>7. CASE Restart
  BY <1>7 DEF Restart, T!Restart, T!NoRequest
<1> QED BY <1>1, <1>2, <1>3, <1>4, <1>5, <1>6, <1>7 DEF Next

-----------------------------------------------------------------------------
(* What ties a row of the tasks table to a request and its user. *)

(* Whatever becomes of a row is the doing of a request that acts for the   *)
(* account the row belongs to, before and after.                           *)
LEMMA RowStep ==
    ASSUME S!IInv, T!IInv, [Next]_vars, NEW t \in TaskIds, tasks'[t] # tasks[t]
    PROVE  \E r \in Requests :
               /\ T!Acting(r) /\ caller[r] # NoAccount
               /\ \A row \in {tasks[t], tasks'[t]} \ {NoTask} : T!Holder(row) = caller[r]
<1>1. TP!RulesAssumption /\ TP!TasksAssumption
  BY SameTasks, TaskFlowAssumption
<1>2. TP!IInv /\ [TP!Next]_(TP!vars)
  BY SameTasks, TasksStep
<1>3. \/ UNCHANGED TP!table
      \/ \E r \in Requests, u \in TaskIds : TP!Adds(r, u)
      \/ \E r \in Requests, u \in TaskIds : TP!Edits(r, u)
      \/ \E r \in Requests, D \in SUBSET TaskIds : TP!Drops(r, D)
  BY <1>1, <1>2, TP!TableStep
<1>4. NoAccount \notin [id : UserIds, tenant : Tenants]
  BY TaskFlowAssumption DEF T!TasksAssumption
<1>5. /\ tasks \in [TaskIds -> T!Rows \cup {NoTask}]
      /\ T!Live \subseteq used
      /\ \A u \in T!Live : T!Holder(tasks[u]) # NoAccount
  BY <1>4 DEF T!IInv, T!TypeOK, T!LiveIsUsed, T!TasksBelongToAccounts
<1>6. ~ UNCHANGED TP!table
  BY DEF TP!table
<1>7. ASSUME NEW r \in Requests, NEW u \in TaskIds, TP!Adds(r, u)
      PROVE  /\ T!Acting(r) /\ caller[r] # NoAccount
             /\ \A row \in {tasks[t], tasks'[t]} \ {NoTask} : T!Holder(row) = caller[r]
  <2>1. PICK row \in TP!Rows : TP!Holder(row) = caller[r] /\ tasks' = [tasks EXCEPT ![u] = row]
    BY <1>7 DEF TP!Adds
  <2>2. u = t /\ tasks'[t] = row /\ T!Holder(row) = caller[r]
    BY <1>5, <2>1 DEF TP!Holder, T!Holder
  <2>3. tasks[t] = NoTask
    BY <1>5, <1>7, <2>2 DEF TP!Adds, T!Live
  <2>4. T!Acting(r) /\ caller[r] # NoAccount
    BY <1>4, <1>7, SameTasks DEF TP!Adds
  <2> QED BY <2>2, <2>3, <2>4
<1>8. ASSUME NEW r \in Requests, NEW u \in TaskIds, TP!Edits(r, u)
      PROVE  /\ T!Acting(r) /\ caller[r] # NoAccount
             /\ \A row \in {tasks[t], tasks'[t]} \ {NoTask} : T!Holder(row) = caller[r]
  <2>1. PICK row \in TP!Rows : /\ TP!Holder(row) = TP!Holder(tasks[u])
                               /\ tasks' = [tasks EXCEPT ![u] = row]
    BY <1>8 DEF TP!Edits
  <2>2. u = t /\ tasks'[t] = row
    BY <1>5, <2>1
  <2>3. T!Acting(r) /\ tasks[t] # NoTask /\ TP!Holder(tasks[t]) = caller[r]
    BY <1>8, <2>2, SameTasks DEF TP!Edits, TP!Live
  <2>4. T!Holder(tasks[t]) = caller[r] /\ T!Holder(tasks'[t]) = caller[r]
    BY <2>1, <2>2, <2>3 DEF TP!Holder, T!Holder
  <2> QED BY <1>5, <2>3, <2>4 DEF T!Live
<1>9. ASSUME NEW r \in Requests, NEW D \in SUBSET TaskIds, TP!Drops(r, D)
      PROVE  /\ T!Acting(r) /\ caller[r] # NoAccount
             /\ \A row \in {tasks[t], tasks'[t]} \ {NoTask} : T!Holder(row) = caller[r]
  <2>1. t \in D /\ tasks'[t] = NoTask
    BY <1>9 DEF TP!Drops
  <2>2. T!Acting(r) /\ caller[r] # NoAccount /\ TP!Holder(tasks[t]) = caller[r]
    BY <1>4, <1>9, <2>1, SameTasks DEF TP!Drops
  <2> QED BY <2>1, <2>2 DEF TP!Holder, T!Holder
<1> QED BY <1>3, <1>6, <1>7, <1>8, <1>9

(* A row that is added or edited is its owner's, within the owner's tenant. *)
LEMMA TraceStep ==
    ASSUME S!IInv, T!IInv, HandlersActForUsers, TasksTraceToTenant, [Next]_vars
    PROVE  TasksTraceToTenant'
<1> SUFFICES ASSUME NEW t \in TaskIds, tasks'[t] # NoTask
             PROVE  /\ users'[tasks'[t].owner] # NoUser
                    /\ users'[tasks'[t].owner].tenant = tasks'[t].tenant
  BY DEF TasksTraceToTenant, T!Live
<1>1. CASE tasks'[t] = tasks[t]
  <2>1. t \in T!Live /\ tasks[t] \in T!Rows
    BY <1>1 DEF T!Live, T!IInv, T!TypeOK
  <2>2. tasks[t].owner \in UserIds
    BY <2>1 DEF T!Rows
  <2> QED BY <1>1, <2>1, <2>2, UsersStay DEF TasksTraceToTenant
<1>2. CASE tasks'[t] # tasks[t]
  <2>1. PICK r \in Requests : caller[r] # NoAccount /\ T!Holder(tasks'[t]) = caller[r]
    BY <1>2, RowStep
  <2>2. users[user[r]] # NoUser /\ caller[r] = [id |-> user[r], tenant |-> users[user[r]].tenant]
    BY <2>1 DEF HandlersActForUsers, ActsForUser
  <2>3. tasks'[t].owner = user[r] /\ tasks'[t].tenant = users[user[r]].tenant
    BY <2>1, <2>2 DEF T!Holder
  <2>4. user[r] \in UserIds
    BY <2>1, <2>2 DEF T!IInv, T!TypeOK
  <2> QED BY <2>2, <2>3, <2>4, UsersStay
<1> QED BY <1>1, <1>2

-----------------------------------------------------------------------------
(* The inductive invariant holds, and with it the properties. *)

(* main.py:223-246 and 316-465 together: each keeps its own invariant, and *)
(* handlers and rows keep to the user and the tenant of their request.     *)
THEOREM Invariance == Spec => []IInv
<1>1. Init => HandlersActForUsers /\ TasksTraceToTenant
  BY DEF Init, T!Init, HandlersActForUsers, TasksTraceToTenant, T!Live
<1>2. S!IInv /\ T!IInv /\ HandlersActForUsers /\ TasksTraceToTenant /\ [Next]_vars
        => HandlersActForUsers' /\ TasksTraceToTenant'
  BY ActingStep, TraceStep
<1> QED BY <1>1, <1>2, SessionsHold, TasksHold, PTL DEF Spec, IInv

(* Owner and tenant of every stored task are those of a stored user. *)
THEOREM TracesToTenant == Spec => []TasksTraceToTenant
<1>1. IInv => TasksTraceToTenant
  BY DEF IInv
<1> QED BY Invariance, <1>1, PTL

(* The account a handler works for is of the customer whose address was    *)
(* called, and is the one the token names.                                 *)
LEMMA HandlersActAtHome ==
    ASSUME IInv, NEW r \in Requests, caller[r] # NoAccount
    PROVE  /\ caller[r].id = claims[tok[r]].sub
           /\ caller[r].tenant = host[r]
           /\ ~ late[r]
<1>1. ActsForUser(r)
  BY DEF IInv, HandlersActForUsers
<1>2. S!Admitted(r)
  BY <1>1 DEF ActsForUser, S!Admitted, S!Guarded
<1>3. user[r] = claims[tok[r]].sub /\ users[user[r]].tenant = host[r]
  BY <1>2 DEF IInv, S!IInv, S!AnsweredAtOwnAddress
<1>4. ~ late[r]
  BY <1>2 DEF IInv, S!IInv, S!LateStopsShort
<1> QED BY <1>1, <1>3, <1>4 DEF ActsForUser

(* The tenant whose features a handler asks for, that of the address, is   *)
(* the tenant of the account it works for.                                 *)
THEOREM CallersAtHome == Spec => []CallersAreAtHome
<1>1. IInv => CallersAreAtHome
  BY HandlersActAtHome DEF CallersAreAtHome
<1> QED BY Invariance, <1>1, PTL

(* A request that has begun to work on tasks has an account to do it for.  *)
LEMMA BusyHasCaller ==
    ASSUME IInv, NEW r \in Requests, stage[r] # "idle"
    PROVE  caller[r] # NoAccount
<1>1. caller[r] \in [id : UserIds, tenant : Tenants]
  BY DEF IInv, T!IInv, T!StagesAreEarned
<1>2. NoAccount \notin [id : UserIds, tenant : Tenants]
  BY TaskFlowAssumption DEF T!TasksAssumption
<1> QED BY <1>1, <1>2

(* No answer carries a row of another customer than the one whose address  *)
(* was called, though the row is read by id alone after a write.           *)
THEOREM StaysInTenant == Spec => []RepliesStayInTenant
<1>1. IInv => RepliesStayInTenant
  <2> SUFFICES ASSUME IInv, NEW r \in Requests, NEW row \in shown[r]
               PROVE  row.tenant = host[r]
    BY DEF RepliesStayInTenant
  <2>1. stage[r] # "idle"
    BY DEF IInv, T!IInv, T!StagesAreEarned
  <2>2. T!Holder(row) = caller[r]
    BY DEF IInv, T!IInv, T!RepliesShowOwnRows
  <2> QED BY <2>1, <2>2, BusyHasCaller, HandlersActAtHome DEF T!Holder
<1> QED BY Invariance, <1>1, PTL

(* A request that arrives after a logout with its token was answered never *)
(* gets as far as a task.                                                  *)
THEOREM LogoutStopsTasks == Spec => []LoggedOutTouchesNothing
<1>1. IInv => LoggedOutTouchesNothing
  BY BusyHasCaller, HandlersActAtHome DEF LoggedOutTouchesNothing
<1> QED BY Invariance, <1>1, PTL

(* A row of the tasks table is written only by a request at the address of *)
(* the row's tenant, with a token of the row's owner.                      *)
THEOREM OwnAddressWrites == Spec => WritesAtOwnAddress
<1>1. IInv /\ [Next]_vars =>
        [\A t \in TaskIds : tasks'[t] # tasks[t] =>
            \E r \in Requests :
                /\ stage'[r] # stage[r]
                /\ \A row \in {tasks[t], tasks'[t]} \ {NoTask} :
                    host[r] = row.tenant /\ claims[tok[r]].sub = row.owner]_vars
  <2> SUFFICES ASSUME IInv, [Next]_vars, NEW t \in TaskIds, tasks'[t] # tasks[t]
               PROVE  \E r \in Requests :
                          /\ stage'[r] # stage[r]
                          /\ \A row \in {tasks[t], tasks'[t]} \ {NoTask} :
                              host[r] = row.tenant /\ claims[tok[r]].sub = row.owner
    OBVIOUS
  <2>1. PICK r \in Requests :
            /\ T!Acting(r) /\ caller[r] # NoAccount
            /\ \A row \in {tasks[t], tasks'[t]} \ {NoTask} : T!Holder(row) = caller[r]
    BY RowStep DEF IInv
  <2>2. caller[r].id = claims[tok[r]].sub /\ caller[r].tenant = host[r]
    BY <2>1, HandlersActAtHome
  <2>3. ASSUME NEW row \in {tasks[t], tasks'[t]} \ {NoTask}
        PROVE  host[r] = row.tenant /\ claims[tok[r]].sub = row.owner
    <3>1. caller[r] = [id |-> row.owner, tenant |-> row.tenant]
      BY <2>1 DEF T!Holder
    <3> QED BY <2>2, <3>1
  <2> QED BY <2>1, <2>3 DEF T!Acting
<1> QED BY Invariance, <1>1, PTL DEF Spec, WritesAtOwnAddress
=============================================================================
