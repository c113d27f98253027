------------------------------ MODULE TaskFlow ------------------------------
(***************************************************************************)
(* The service: every task handler runs behind current_user, in the same   *)
(* request.  Sessions decides who is calling, Tasks what the handler does; *)
(* here a request moves through both, and they share the thread, the       *)
(* answer and the restarts.                                                *)
(***************************************************************************)
CONSTANTS
    Requests, Called,
    Tenants, UserIds, Usernames, Jtis, DemoUser, DemoName, TestEndpoints,
    NoTenant, NoUser, NoToken, BadToken,
    RawTitles, Normalised, Queries, Containing,
    TaskIds, Descriptions, Drafts, Patches, Filters, BulkTenants,
    Absent, NoTask, NoId, NoAccount

VARIABLES
    users, claims, expired, revoked, step, endpoint, host, tok, user, reply,
    loggedOut, late,
    tasks, used, stage, op, caller, tid, patch, pending, answer, shown, wrote

S == INSTANCE Sessions
T == INSTANCE Tasks WITH Accounts <- [id : UserIds, tenant : Tenants]

ASSUME TaskFlowAssumption ==
    S!SessionsAssumption /\ T!RulesAssumption /\ T!TasksAssumption

sessionVars == <<users, claims, expired, revoked, step, endpoint, host, tok,
                 user, reply, loggedOut, late>>
taskVars == <<tasks, used, stage, op, caller, tid, patch, pending, answer,
              shown, wrote>>
vars == <<sessionVars, taskVars>>

Init == S!Init /\ T!Init

(* What happens before a task handler runs, and to other endpoints. *)
SessionOnly(r) ==
    /\ \/ \E e \in Called, h \in S!Hosts, t \in S!Bearers : S!Receive(r, e, h, t)
       \/ S!DecodeToken(r)
       \/ S!CheckRevoked(r)
       \/ S!Logout(r)
       \/ endpoint[r] = "me" /\ S!Serve(r)
       \/ \E h \in S!Hosts, n \in Usernames :
            \/ \E good \in BOOLEAN : S!Login(r, h, n, good)
            \/ S!CreateTestUser(r, h, n)
    /\ UNCHANGED taskVars

(* Fault: the handler is entered as soon as the token decodes. *)
EnterEarly(r) ==
    \/ /\ endpoint[r] = "tasks" /\ step[r] = "check_revoked"
       /\ step' = [step EXCEPT ![r] = "handler"]
       /\ user' = [user EXCEPT ![r] = claims[tok[r]].sub]
       /\ \E o \in T!Ops : T!Begin(r, o, [id |-> user'[r], tenant |-> claims[tok[r]].tenant])
       /\ UNCHANGED <<users, claims, expired, revoked, endpoint, host, tok, reply, loggedOut, late>>
    \/ endpoint[r] # "tasks" /\ S!LoadUser(r) /\ UNCHANGED taskVars

(* current_user returns, and the user it returns is the handler's. *)
EnterHandler(r) ==
    /\ S!LoadUser(r)
    /\ IF endpoint[r] = "tasks" /\ step'[r] = "handler"
       THEN \E o \in T!Ops : T!Begin(r, o, [id |-> user'[r], tenant |-> users[user'[r]].tenant])
       ELSE UNCHANGED taskVars

(* The task handler; its answer is the answer to the request. *)
TaskStep(r) ==
    /\ T!Serve(r)
    /\ IF stage'[r] = "replied" THEN S!Serve(r) ELSE UNCHANGED sessionVars

Close(r) ==
    /\ S!Close(r)
    /\ IF stage[r] = "replied" THEN T!Close(r) ELSE UNCHANGED taskVars

Expire(j) == S!Expire(j) /\ UNCHANGED taskVars

(* Fault: init_db drops the tables before it creates them. *)
RestartEmpty ==
    /\ S!Restart
    /\ T!NoRequest(Requests)
    /\ tasks' = [t \in TaskIds |-> NoTask]
    /\ UNCHANGED used

Restart == S!Restart /\ T!Restart

Next ==
    \/ \E r \in Requests : SessionOnly(r) \/ EnterHandler(r) \/ TaskStep(r) \/ Close(r)
    \/ \E j \in Jtis : Expire(j)
    \/ Restart

Spec == Init /\ [][Next]_vars

-----------------------------------------------------------------------------
(* Properties *)

(* The service is a Sessions and a Tasks at once, so what those modules    *)
(* establish of each holds of the two together.                            *)
ImplementsSessions == S!Spec
ImplementsTasks    == T!Spec

(* models.py:40-45.  A task can always be traced to one customer: its      *)
(* owner exists, and the tenant stored with it is the owner's.             *)
TasksTraceToTenant ==
    \A t \in T!Live :
        /\ users[tasks[t].owner] # NoUser
        /\ users[tasks[t].owner].tenant = tasks[t].tenant

(* main.py:199-204.  Whatever becomes of a row of the tasks table, it is   *)
(* the doing of a request at the address of the row's tenant, with a token *)
(* of the row's owner.                                                     *)
WritesAtOwnAddress ==
    [][\A t \in TaskIds : tasks'[t] # tasks[t] =>
        \E r \in Requests :
            /\ stage'[r] # stage[r]
            /\ \A row \in {tasks[t], tasks'[t]} \ {NoTask} :
                host[r] = row.tenant /\ claims[tok[r]].sub = row.owner]_vars

(* No answer carries a row of another customer than the one whose address  *)
(* was called.                                                             *)
RepliesStayInTenant ==
    \A r \in Requests : \A row \in shown[r] : row.tenant = host[r]

(* models.py:96-107.  A request that arrives after a logout with its token *)
(* has been answered neither reads nor writes a task.                      *)
LoggedOutTouchesNothing ==
    \A r \in Requests : late[r] => stage[r] = "idle"

(* main.py:456 looks at the features of the tenant of the address, Tasks at *)
(* those of the caller's: a handler only ever runs where they are the same. *)
CallersAreAtHome ==
    \A r \in Requests : caller[r] # NoAccount => caller[r].tenant = host[r]

-----------------------------------------------------------------------------
(* The inductive invariant behind the properties above: those of the two   *)
(* parts, and what ties them together.                                     *)

(* The handler of a request works for the account that current_user has    *)
(* returned for it, and is the only thing the request is doing.            *)
ActsForUser(r) ==
    /\ endpoint[r] = "tasks"
    /\ \/ step[r] = "handler" /\ stage[r] # "replied"
       \/ step[r] = "replied" /\ stage[r] = "replied" /\ reply[r] = "ok"
    /\ users[user[r]] # NoUser
    /\ caller[r] = [id |-> user[r], tenant |-> users[user[r]].tenant]

HandlersActForUsers == \A r \in Requests : caller[r] # NoAccount => ActsForUser(r)

IInv ==
    /\ S!IInv
    /\ T!IInv
    /\ HandlersActForUsers
    /\ TasksTraceToTenant
=============================================================================
