-------------------------------- MODULE Tasks --------------------------------
(***************************************************************************)
(* The task endpoints of app/main.py, from create_task to bulk_delete_done,*)
(* over the tasks table.  A request enters with the account current_user   *)
(* returned.  Its session reads the row, checks and edits the copy in      *)
(* memory, and commits one statement: what another session commits between *)
(* the read and the write is not seen, and nothing is locked.              *)
(*                                                                         *)
(* The session has its connection from current_user and keeps it until the *)
(* commit.  Its write may wait in vain for the lock, and the refresh after *)
(* it for another connection: a 500, "timed_out" here, to be told from the *)
(* 500 of a row that is gone, "server_error".                              *)
(***************************************************************************)
EXTENDS Rules

CONSTANTS
    Requests,      \* slots for requests in flight
    Accounts,      \* [id, tenant] of every user a request may act for
    TaskIds,       \* bound on tasks ever created
    Descriptions,
    Drafts,        \* bodies of POST /tasks that clients send
    Patches,       \* bodies of PATCH /tasks/{id} that clients send
    Filters,       \* query strings of GET /tasks that clients send
    BulkTenants,   \* tenants whose file lists the feature bulk_delete
    Absent,        \* None: the client sent no such field
    NoTask, NoId, NoAccount

Optional(S) == S \cup {Absent}
Fields  == [title : Optional(RawTitles), description : Optional(Descriptions),
            status : Optional(TaskStatus)]
NoFields == [title |-> Absent, description |-> Absent, status |-> Absent]
Rows    == [owner : {a.id : a \in Accounts}, tenant : {a.tenant : a \in Accounts},
            title : Titles, description : Descriptions, status : TaskStatus]

ASSUME TasksAssumption ==
    /\ \A a \in Accounts : a = [id |-> a.id, tenant |-> a.tenant]
    /\ "" \in Descriptions
    /\ Drafts \subseteq [title : RawTitles, description : Optional(Descriptions)]
    /\ Patches \subseteq Fields
    /\ Filters \subseteq [status : TaskStatus \cup {"any"}, query : Queries \cup {"any"}]
    /\ Absent \notin RawTitles \cup Descriptions \cup TaskStatus
    /\ NoTask \notin Rows
    /\ NoId \notin TaskIds
    /\ NoAccount \notin Accounts

VARIABLES
    tasks,     \* the tasks table
    used,      \* ids given out so far; uuid4 gives none twice
    stage,     \* where each request stands
    op,        \* the endpoint it called
    caller,    \* the account it acts for
    tid,       \* the id of the row its session holds
    patch,     \* the body of a PATCH
    pending,   \* the columns the session will write, Absent if untouched
    answer,    \* the code of the reply, "ok" for a success, or the kind of a 500
    shown,     \* the rows in the reply
    wrote      \* history: the request has committed a change

table   == <<tasks, used>>
session == <<tid, patch, pending>>
vars == <<tasks, used, stage, op, caller, tid, patch, pending, answer, shown, wrote>>

Ops      == {"create", "list", "get", "update", "delete", "bulk"}
Refusals == {"title_empty", "illegal_transition", "task_not_found", "feature_not_enabled"}
Errors   == {"server_error", "timed_out"}     \* a 500, both

Init ==
    /\ tasks = [t \in TaskIds |-> NoTask]
    /\ used = {}
    /\ stage = [r \in Requests |-> "idle"]
    /\ op = [r \in Requests |-> "none"]
    /\ caller = [r \in Requests |-> NoAccount]
    /\ tid = [r \in Requests |-> NoId]
    /\ patch = [r \in Requests |-> NoFields]
    /\ pending = [r \in Requests |-> NoFields]
    /\ answer = [r \in Requests |-> "none"]
    /\ shown = [r \in Requests |-> {}]
    /\ wrote = [r \in Requests |-> FALSE]

-----------------------------------------------------------------------------
(* Request plumbing *)

Goto(r, s) ==
    /\ stage' = [stage EXCEPT ![r] = s]
    /\ UNCHANGED <<answer, shown>>

Reply(r, code, rows) ==
    /\ stage' = [stage EXCEPT ![r] = "replied"]
    /\ answer' = [answer EXCEPT ![r] = code]
    /\ shown' = [shown EXCEPT ![r] = rows]

Wrote(r) == wrote' = [wrote EXCEPT ![r] = TRUE]

(* current_user has returned a; the handler of o begins. *)
Begin(r, o, a) ==
    /\ stage[r] = "idle"
    /\ op' = [op EXCEPT ![r] = o]
    /\ caller' = [caller EXCEPT ![r] = a]
    /\ Goto(r, "handler")
    /\ UNCHANGED <<table, session, wrote>>

Handling(r, o) == stage[r] = "handler" /\ op[r] = o

Live == {t \in TaskIds : tasks[t] # NoTask}

(* Fault: the owner of the row is not compared with the caller. *)
SameTenant(a, row) == row.tenant = a.tenant

(* _owned_task's comparison of owner and tenant. *)
Owns(a, row) == row.owner = a.id /\ row.tenant = a.tenant

(* busy_timeout is over before the write lock is free: OperationalError,    *)
(* and nothing is written.                                                 *)
LockTimeout(r) == Reply(r, "timed_out", {}) /\ UNCHANGED <<table, session, wrote>>

(* The ids _owned_task finds for the caller; any other is a 404. *)
OwnTasks(r) == {t \in Live : Owns(caller[r], tasks[t])}

-----------------------------------------------------------------------------
(* create_task *)

(* Fault: the tenant is a default, not the caller's. *)
DefaultTenantRow(a, d) ==
    [owner |-> a.id, tenant |-> (CHOOSE b \in Accounts : TRUE).tenant,
     title |-> Normalised[d.title], description |-> "", status |-> "todo"]

NewRow(a, d) ==
    [owner |-> a.id, tenant |-> a.tenant, title |-> Normalised[d.title],
     description |-> IF d.description = Absent THEN "" ELSE d.description,
     status |-> "todo"]

(* Fault: the id of a deleted task is given out again. *)
FreeIds == TaskIds \ Live

(* uuid4 gives an id that no task has or had. *)
FreshIds == TaskIds \ used

CreateTask(r, d) ==
    /\ Handling(r, "create")
    /\ \/ /\ ~ usable_title(d.title)
          /\ Reply(r, "title_empty", {})
          /\ UNCHANGED <<table, session, wrote>>
       \/ usable_title(d.title) /\ LockTimeout(r)
       \/ /\ usable_title(d.title)
          /\ \E t \in FreshIds :
                /\ tasks' = [tasks EXCEPT ![t] = NewRow(caller[r], d)]
                /\ used' = used \cup {t}
                /\ tid' = [tid EXCEPT ![r] = t]
          /\ Wrote(r)
          /\ Goto(r, "refresh")
          /\ UNCHANGED <<patch, pending>>
    /\ UNCHANGED <<op, caller>>

-----------------------------------------------------------------------------
(* list_tasks and get_task *)

Kept(row, f) == matches_filter(row.status, row.title, f.status, f.query)

ListTasks(r, f) ==
    /\ Handling(r, "list")
    /\ Reply(r, "ok", {tasks[t] : t \in {u \in OwnTasks(r) : Kept(tasks[u], f)}})
    /\ UNCHANGED <<table, session, wrote, op, caller>>

GetTask(r, t) ==
    /\ Handling(r, "get")
    /\ \/ t \notin OwnTasks(r) /\ Reply(r, "task_not_found", {})
       \/ t \in OwnTasks(r) /\ Reply(r, "ok", {tasks[t]})
    /\ UNCHANGED <<table, session, wrote, op, caller>>

-----------------------------------------------------------------------------
(* update_task *)

(* What the handler assigns: the title tidied, the rest as sent. *)
Assigned(p) ==
    [p EXCEPT !.title = IF p.title = Absent THEN Absent ELSE Normalised[p.title]]

Changed(new, old) == IF new = old THEN Absent ELSE new
Updated(new, old) == IF new = Absent THEN old ELSE new

(* Fault: a PUT, writing every column of the copy the session holds. *)
WholeRow(row, p) ==
    [title |-> Updated(Assigned(p).title, row.title),
     description |-> Updated(p.description, row.description),
     status |-> Updated(p.status, row.status)]

(* The session writes the columns whose value the assignments changed. *)
Dirty(row, p) ==
    [title |-> Changed(Assigned(p).title, row.title),
     description |-> Changed(p.description, row.description),
     status |-> Changed(p.status, row.status)]

Apply(row, d) ==
    [row EXCEPT !.title = Updated(d.title, @),
                !.description = Updated(d.description, @),
                !.status = Updated(d.status, @)]

TitleRefused(p) == p.title # Absent /\ ~ usable_title(p.title)
MoveRefused(p, row) == p.status # Absent /\ ~ can_transition(row.status, p.status)

(* The check that refuses the request, in the order of the code. *)
Verdict(r, t, p) ==
    IF t \notin OwnTasks(r) THEN "task_not_found"
    ELSE IF TitleRefused(p) THEN "title_empty"
    ELSE IF MoveRefused(p, tasks[t]) THEN "illegal_transition"
    ELSE "ok"

(* The session holds row t, with the changes made by p. *)
Hold(r, t, p) ==
    /\ tid' = [tid EXCEPT ![r] = t]
    /\ patch' = [patch EXCEPT ![r] = p]
    /\ pending' = [pending EXCEPT ![r] = Dirty(tasks[t], p)]
    /\ Goto(r, IF Dirty(tasks[t], p) = NoFields THEN "refresh" ELSE "commit")

(* Fault: the title is flushed before the move is checked. *)
FlushEarly(r, t, p) ==
    /\ Handling(r, "update")
    /\ \/ /\ Verdict(r, t, p) = "illegal_transition" /\ p.title # Absent
          /\ tasks' = [tasks EXCEPT ![t].title = Assigned(p).title]
          /\ Wrote(r)
          /\ Reply(r, "illegal_transition", {})
          /\ UNCHANGED <<used, session>>
       \/ Verdict(r, t, p) = "ok" /\ Hold(r, t, p) /\ UNCHANGED <<table, wrote>>
    /\ UNCHANGED <<op, caller>>

(* SELECT and the checks.  Nothing is flushed before all have passed. *)
LoadForUpdate(r, t, p) ==
    /\ Handling(r, "update")
    /\ \/ /\ Verdict(r, t, p) # "ok"
          /\ Reply(r, Verdict(r, t, p), {})
          /\ UNCHANGED session
       \/ Verdict(r, t, p) = "ok" /\ Hold(r, t, p)
    /\ UNCHANGED <<table, wrote, op, caller>>

(* UPDATE ... WHERE id and COMMIT.  If the row is gone the session raises  *)
(* StaleDataError, which reaches the client as a 500.                      *)
CommitUpdate(r) ==
    /\ stage[r] = "commit"
    /\ \/ /\ tasks[tid[r]] = NoTask
          /\ Reply(r, "server_error", {})
          /\ UNCHANGED <<table, wrote>>
       \/ /\ tasks[tid[r]] # NoTask
          /\ tasks' = [tasks EXCEPT ![tid[r]] = Apply(@, pending[r])]
          /\ Wrote(r)
          /\ Goto(r, "refresh")
          /\ UNCHANGED used
       \/ LockTimeout(r)
    /\ UNCHANGED <<session, op, caller>>

(* db.refresh reads the row again by id, in create_task and update_task.   *)
(* The commit gave the connection back; there may be none to be had now.   *)
Refresh(r) ==
    /\ stage[r] = "refresh"
    /\ \/ Reply(r, "timed_out", {})
       \/ tasks[tid[r]] = NoTask /\ Reply(r, "server_error", {})
       \/ tasks[tid[r]] # NoTask /\ Reply(r, "ok", {tasks[tid[r]]})
    /\ UNCHANGED <<table, session, wrote, op, caller>>

-----------------------------------------------------------------------------
(* delete_task *)

LoadForDelete(r, t) ==
    /\ Handling(r, "delete")
    /\ \/ /\ t \notin OwnTasks(r)
          /\ Reply(r, "task_not_found", {})
          /\ UNCHANGED tid
       \/ /\ t \in OwnTasks(r)
          /\ tid' = [tid EXCEPT ![r] = t]
          /\ Goto(r, "remove")
    /\ UNCHANGED <<table, patch, pending, wrote, op, caller>>

(* DELETE ... WHERE id and COMMIT.  No row to delete is only a warning.    *)
CommitDelete(r) ==
    /\ stage[r] = "remove"
    /\ \/ /\ tasks[tid[r]] # NoTask
          /\ tasks' = [tasks EXCEPT ![tid[r]] = NoTask]
          /\ Wrote(r)
          /\ Reply(r, "ok", {})
       \/ tasks[tid[r]] = NoTask /\ Reply(r, "ok", {}) /\ UNCHANGED <<tasks, wrote>>
       \/ LockTimeout(r)
    /\ UNCHANGED <<used, session, op, caller>>

-----------------------------------------------------------------------------
(* bulk_delete_done: the feature check, then one DELETE statement.  The    *)
(* feature is that of the tenant of the address, which is the caller's: see *)
(* CallersAreAtHome in TaskFlow.                                           *)

(* Fault: the status is not part of the WHERE clause. *)
Everything(r) == OwnTasks(r)

Finished(r) == {t \in OwnTasks(r) : tasks[t].status = "done"}

BulkDelete(r) ==
    /\ Handling(r, "bulk")
    /\ \/ /\ caller[r].tenant \notin BulkTenants
          /\ Reply(r, "feature_not_enabled", {})
          /\ UNCHANGED <<tasks, wrote>>
       \/ caller[r].tenant \in BulkTenants /\ LockTimeout(r)
       \/ /\ caller[r].tenant \in BulkTenants
          /\ tasks' = [t \in TaskIds |-> IF t \in Finished(r) THEN NoTask ELSE tasks[t]]
          /\ wrote' = [wrote EXCEPT ![r] = Finished(r) # {}]
          /\ Reply(r, "ok", {})
    /\ UNCHANGED <<used, session, op, caller>>

-----------------------------------------------------------------------------
NoRequest(R) ==
    /\ stage' = [r \in Requests |-> IF r \in R THEN "idle" ELSE stage[r]]
    /\ op' = [r \in Requests |-> IF r \in R THEN "none" ELSE op[r]]
    /\ caller' = [r \in Requests |-> IF r \in R THEN NoAccount ELSE caller[r]]
    /\ tid' = [r \in Requests |-> IF r \in R THEN NoId ELSE tid[r]]
    /\ patch' = [r \in Requests |-> IF r \in R THEN NoFields ELSE patch[r]]
    /\ pending' = [r \in Requests |-> IF r \in R THEN NoFields ELSE pending[r]]
    /\ answer' = [r \in Requests |-> IF r \in R THEN "none" ELSE answer[r]]
    /\ shown' = [r \in Requests |-> IF r \in R THEN {} ELSE shown[r]]
    /\ wrote' = [r \in Requests |-> IF r \in R THEN FALSE ELSE wrote[r]]

(* The answer has been delivered, the session closed. *)
Close(r) ==
    /\ stage[r] = "replied"
    /\ NoRequest({r})
    /\ UNCHANGED table

(* The server stops and starts: sessions are lost, the table is not. *)
Restart == NoRequest(Requests) /\ UNCHANGED table

Serve(r) ==
    \/ \E d \in Drafts : CreateTask(r, d)
    \/ \E f \in Filters : ListTasks(r, f)
    \/ \E t \in TaskIds : GetTask(r, t) \/ LoadForDelete(r, t)
    \/ \E t \in TaskIds, p \in Patches : LoadForUpdate(r, t, p)
    \/ CommitUpdate(r)
    \/ Refresh(r)
    \/ CommitDelete(r)
    \/ BulkDelete(r)

Next ==
    \/ \E r \in Requests :
        \/ \E o \in Ops, a \in Accounts : Begin(r, o, a)
        \/ Serve(r)
        \/ Close(r)
    \/ Restart

Spec == Init /\ [][Next]_vars

-----------------------------------------------------------------------------
(* Properties *)

TypeOK ==
    /\ tasks \in [TaskIds -> Rows \cup {NoTask}]
    /\ used \subseteq TaskIds
    /\ stage \in [Requests -> {"idle", "handler", "commit", "refresh", "remove", "replied"}]
    /\ op \in [Requests -> Ops \cup {"none"}]
    /\ caller \in [Requests -> Accounts \cup {NoAccount}]
    /\ tid \in [Requests -> TaskIds \cup {NoId}]
    /\ patch \in [Requests -> Fields]
    /\ pending \in [Requests -> Fields]
    /\ answer \in [Requests -> Refusals \cup Errors \cup {"none", "ok"}]
    /\ shown \in [Requests -> SUBSET Rows]
    /\ wrote \in [Requests -> BOOLEAN]

(* This step is one of request r, whatever the others do. *)
Acting(r) == stage'[r] # stage[r]

(* The account a row belongs to. *)
Holder(row) == [id |-> row.owner, tenant |-> row.tenant]

(* models.py:40-45, 76-79.  Owner and tenant of a task are those of one    *)
(* account, whoever wrote the row last.                                    *)
TasksBelongToAccounts ==
    \A t \in Live : Holder(tasks[t]) \in Accounts

(* main.py:374-389.  Ownership is checked when the row is read and relied  *)
(* on when it is written: a row changes or goes only by a request of the   *)
(* account that owns it at that moment.                                    *)
OnlyOwnersWrite ==
    [][\A t \in Live : tasks'[t] # tasks[t] =>
        \E r \in Requests : Acting(r) /\ caller[r] = Holder(tasks[t])]_vars

(* db.refresh reads by id alone.  Still no reply shows a row that is not   *)
(* the caller's.                                                           *)
RepliesShowOwnRows ==
    \A r \in Requests : \A row \in shown[r] : Holder(row) = caller[r]

(* schemas.py:98-100.  A PATCH changes only the fields its body carries,   *)
(* so it does not clobber another client's concurrent edit of the others.  *)
OnlyAskedFieldsChange ==
    [][\A t \in Live : tasks'[t] \notin {tasks[t], NoTask} =>
        \E r \in Requests :
            /\ Acting(r) /\ tid[r] = t
            /\ \A f \in {"title", "description", "status"} :
                tasks'[t][f] \in {tasks[t][f], Assigned(patch[r])[f]}]_vars

(* main.py:411-413.  A request that is refused has changed nothing. *)
RefusalsLeaveNoTrace ==
    \A r \in Requests : answer[r] \in Refusals => ~ wrote[r]

(* main.py:424-425.  Only a time-out spares the row: any other 500 of a    *)
(* task endpoint means that the row was deleted while the request was      *)
(* being served, and it is gone for good.                                  *)
OnlyTimeoutsSpareTheRow ==
    \A r \in Requests : answer[r] = "server_error" =>
        tid[r] \in used /\ tasks[tid[r]] = NoTask

(* main.py:438-465.  Rows go by a DELETE of that row or by a bulk delete,  *)
(* which takes finished tasks only, and only for a customer that has the   *)
(* feature.                                                                *)
DeletesAreAskedFor ==
    [][\A t \in Live : tasks'[t] = NoTask =>
        \E r \in Requests :
            /\ Acting(r)
            /\ \/ op[r] = "delete" /\ tid[r] = t
               \/ op[r] = "bulk" /\ tasks[t].status = "done"
                    /\ tasks[t].tenant \in BulkTenants]_vars

-----------------------------------------------------------------------------
(* The inductive invariant behind the properties above *)

(* Ids in the table have been given out. *)
LiveIsUsed == Live \subseteq used

(* A request under way acts for an account, has neither answered nor, until *)
(* it has a row in hand, written anything.                                 *)
StagesAreEarned ==
    \A r \in Requests :
        /\ stage[r] # "idle" => caller[r] \in Accounts
        /\ stage[r] # "replied" => shown[r] = {} /\ answer[r] = "none"
        /\ stage[r] \in {"idle", "handler"} => ~ wrote[r]

(* What _owned_task checked at the SELECT is true at the COMMIT: the row in *)
(* hand is the caller's until it is deleted, and is never another's after. *)
RowInHand ==
    \A r \in Requests : stage[r] \in {"commit", "refresh", "remove"} =>
        /\ tid[r] \in used
        /\ tasks[tid[r]] # NoTask => Holder(tasks[tid[r]]) = caller[r]

(* Each stage belongs to its endpoints, and what is to be written is what  *)
(* the body asks for and the table accepts.                                *)
PendingIsAsked ==
    \A r \in Requests :
        /\ pending[r].title \in Optional(Titles)
        /\ \A f \in {"title", "description", "status"} :
               pending[r][f] \in {Absent, Assigned(patch[r])[f]}
        /\ stage[r] = "remove" => op[r] = "delete"

IInv ==
    /\ TypeOK
    /\ TasksBelongToAccounts
    /\ LiveIsUsed
    /\ StagesAreEarned
    /\ RowInHand
    /\ PendingIsAsked
    /\ RepliesShowOwnRows
    /\ RefusalsLeaveNoTrace
    /\ OnlyTimeoutsSpareTheRow

-----------------------------------------------------------------------------
(* What the table says of each task, in the terms of TaskLifecycle. *)
Ages == [t \in TaskIds |->
            IF t \notin used THEN "unborn" ELSE IF tasks[t] = NoTask THEN "dead" ELSE "live"]
Holders  == [t \in TaskIds |-> IF tasks[t] = NoTask THEN NoAccount ELSE Holder(tasks[t])]
Statuses == [t \in TaskIds |-> IF tasks[t] = NoTask THEN "none" ELSE tasks[t].status]

(* A task is created, held by one account, and deleted once. *)
Lifecycle == INSTANCE TaskLifecycle WITH age <- Ages, holder <- Holders, status <- Statuses

ImplementsLifecycle == Lifecycle!Spec

(* The move that update_task has checked is still open when it commits it. *)
(* With two requests in flight this fails, and FollowsStatusMachine with it.*)
CheckedMoveStaysOpen ==
    \A r \in Requests : stage[r] = "commit" =>
        /\ tid[r] \in Live
        /\ \/ pending[r].status = Absent
           \/ Lifecycle!Legal(tasks[tid[r]].status, pending[r].status)

(* rules.py:32-41, test_rules.py:109-110: no task goes from todo to done   *)
(* or from done to todo.                                                   *)
FollowsStatusMachine == Lifecycle!LegalSpec
=============================================================================
