---------------------------- MODULE TasksProofs ----------------------------
(***************************************************************************)
(* What module Tasks guarantees for every number of requests, accounts and *)
(* tasks and every set of bodies: its types, the inductive invariant IInv, *)
(* the safety and action properties that follow from it, and that the      *)
(* handlers implement TaskLifecycle.                                       *)
(***************************************************************************)
EXTENDS Tasks, TLAPS

(* Next, one disjunct per action. *)
LEMMA NextCases ==
    ASSUME Next
    PROVE  \/ \E r \in Requests, o \in Ops, a \in Accounts : Begin(r, o, a)
           \/ \E r \in Requests, d \in Drafts : CreateTask(r, d)
           \/ \E r \in Requests, f \in Filters : ListTasks(r, f)
           \/ \E r \in Requests, t \in TaskIds : GetTask(r, t)
           \/ \E r \in Requests, t \in TaskIds : LoadForDelete(r, t)
           \/ \E r \in Requests, t \in TaskIds, p \in Patches : LoadForUpdate(r, t, p)
           \/ \E r \in Requests : CommitUpdate(r)
           \/ \E r \in Requests : Refresh(r)
           \/ \E r \in Requests : CommitDelete(r)
           \/ \E r \in Requests : BulkDelete(r)
           \/ \E r \in Requests : Close(r)
           \/ Restart
<1> QED BY DEF Next, Serve

-----------------------------------------------------------------------------
(* Titles, rows and bodies *)

(* What normalise_title leaves of a usable title is a title to store. *)
LEMMA UsableIsTitle ==
    ASSUME NEW raw \in RawTitles, usable_title(raw)
    PROVE  Normalised[raw] \in Titles
<1> QED BY RulesAssumption DEF usable_title, Titles

(* The row create_task stores is the caller's. *)
LEMMA NewRowIsOwn ==
    ASSUME NEW a \in Accounts, NEW d \in Drafts, usable_title(d.title)
    PROVE  NewRow(a, d) \in Rows /\ Holder(NewRow(a, d)) = a /\ NewRow(a, d).status = "todo"
<1>1. d.title \in RawTitles /\ d.description \in Optional(Descriptions)
  BY TasksAssumption
<1>2. Normalised[d.title] \in Titles
  BY <1>1, UsableIsTitle
<1>3. a = [id |-> a.id, tenant |-> a.tenant]
  BY TasksAssumption
<1> QED BY <1>1, <1>2, <1>3, TasksAssumption DEF NewRow, Rows, Holder, Optional, TaskStatus

(* Owning a row is being the account it belongs to. *)
LEMMA OwnerHolds ==
    ASSUME NEW a \in Accounts, NEW row
    PROVE  Owns(a, row) <=> Holder(row) = a
<1>1. a = [id |-> a.id, tenant |-> a.tenant]
  BY TasksAssumption
<1> QED BY <1>1 DEF Owns, Holder

(* An UPDATE of some columns leaves a row of the table, with its owner and *)
(* tenant, and each column either as it was or as asked.                   *)
LEMMA ApplyKeepsRow ==
    ASSUME NEW row \in Rows, NEW d \in Fields, d.title \in Optional(Titles)
    PROVE  /\ Apply(row, d) \in Rows
           /\ Holder(Apply(row, d)) = Holder(row)
           /\ \A f \in {"title", "description", "status"} :
                  Apply(row, d)[f] = IF d[f] = Absent THEN row[f] ELSE d[f]
<1>1. /\ Updated(d.title, row.title) \in Titles
      /\ Updated(d.description, row.description) \in Descriptions
      /\ Updated(d.status, row.status) \in TaskStatus
  BY DEF Fields, Optional, Updated, Rows
<1>2. Apply(row, d) \in Rows
  BY <1>1 DEF Apply, Rows
<1>3. /\ Apply(row, d).owner = row.owner
      /\ Apply(row, d).tenant = row.tenant
      /\ Apply(row, d).title = Updated(d.title, row.title)
      /\ Apply(row, d).description = Updated(d.description, row.description)
      /\ Apply(row, d).status = Updated(d.status, row.status)
  BY <1>1 DEF Apply, Rows
<1> QED BY <1>2, <1>3 DEF Holder, Updated

(* What update_task is about to write is what was asked for, and fits. *)
LEMMA DirtyIsAsked ==
    ASSUME NEW row \in Rows, NEW p \in Patches, ~ TitleRefused(p)
    PROVE  /\ Dirty(row, p) \in Fields
           /\ Dirty(row, p).title \in Optional(Titles)
           /\ \A f \in {"title", "description", "status"} :
                  Dirty(row, p)[f] \in {Absent, Assigned(p)[f]}
<1>1. p \in Fields
  BY TasksAssumption
<1>2. Assigned(p) = [title |-> IF p.title = Absent THEN Absent ELSE Normalised[p.title],
                     description |-> p.description, status |-> p.status]
  BY <1>1 DEF Assigned, Fields
<1>3. p.title # Absent => Normalised[p.title] \in Titles
  BY <1>1, UsableIsTitle DEF TitleRefused, Fields, Optional
<1>4. Titles \subseteq RawTitles
  BY DEF Titles
<1> QED BY <1>1, <1>2, <1>3, <1>4 DEF Dirty, Changed, Fields, Optional

-----------------------------------------------------------------------------
(* What a step does to the table: nothing, or one of these three. *)

(* Request r stores a new task of its caller. *)
Adds(r, t) ==
    /\ t \in TaskIds \ used
    /\ caller[r] \in Accounts /\ Acting(r)
    /\ \E row \in Rows :
          /\ Holder(row) = caller[r] /\ row.status = "todo"
          /\ tasks' = [tasks EXCEPT ![t] = row]
    /\ used' = used \cup {t}

(* Request r writes columns of the row it has in hand. *)
Edits(r, t) ==
    /\ t \in Live /\ tid[r] = t /\ Acting(r) /\ Holder(tasks[t]) = caller[r]
    /\ \E row \in Rows :
          /\ Holder(row) = Holder(tasks[t])
          /\ \A f \in {"title", "description", "status"} :
                row[f] \in {tasks[t][f], Assigned(patch[r])[f]}
          /\ tasks' = [tasks EXCEPT ![t] = row]
    /\ UNCHANGED used

(* Request r deletes tasks of its caller, as its endpoint may. *)
Drops(r, S) ==
    /\ S \subseteq Live /\ Acting(r) /\ caller[r] \in Accounts
    /\ \A t \in S :
          /\ Holder(tasks[t]) = caller[r]
          /\ \/ op[r] = "delete" /\ tid[r] = t
             \/ op[r] = "bulk" /\ tasks[t].status = "done" /\ tasks[t].tenant \in BulkTenants
    /\ tasks' = [t \in TaskIds |-> IF t \in S THEN NoTask ELSE tasks[t]]
    /\ UNCHANGED used

(* What one step can do to the table. *)
LEMMA TableStep ==
    ASSUME IInv, [Next]_vars
    PROVE  \/ UNCHANGED table
           \/ \E r \in Requests, t \in TaskIds : Adds(r, t)
           \/ \E r \in Requests, t \in TaskIds : Edits(r, t)
           \/ \E r \in Requests, S \in SUBSET TaskIds : Drops(r, S)
<1> USE DEF IInv, table
<1>1. CASE UNCHANGED vars
  BY <1>1 DEF vars
<1>2. ASSUME NEW r \in Requests, NEW d \in Drafts, CreateTask(r, d)
      PROVE  UNCHANGED table \/ \E t \in TaskIds : Adds(r, t)
  <2>1. caller[r] \in Accounts
    BY <1>2 DEF CreateTask, Handling, StagesAreEarned
  <2>2. CASE usable_title(d.title) /\ ~ UNCHANGED table
    <3>1. PICK t \in FreshIds : /\ tasks' = [tasks EXCEPT ![t] = NewRow(caller[r], d)]
                                /\ used' = used \cup {t}
      BY <1>2, <2>2 DEF CreateTask, LockTimeout
    <3>2. Acting(r)
      BY <1>2, <2>2 DEF CreateTask, LockTimeout, Handling, Goto, Acting, TypeOK
    <3> QED BY <2>1, <2>2, <3>1, <3>2, NewRowIsOwn DEF Adds, FreshIds
  <2>3. CASE ~ usable_title(d.title)
    BY <1>2, <2>3 DEF CreateTask
  <2> QED BY <2>2, <2>3
<1>3. ASSUME NEW r \in Requests, CommitUpdate(r)
      PROVE  UNCHANGED table \/ \E t \in TaskIds : Edits(r, t)
  <2>1. CASE tasks[tid[r]] = NoTask
    BY <1>3, <2>1 DEF CommitUpdate, LockTimeout
  <2>2. CASE tasks[tid[r]] # NoTask /\ ~ UNCHANGED table
    <3> DEFINE t == tid[r]
    <3>1. t \in TaskIds /\ t \in Live /\ tasks[t] \in Rows /\ Holder(tasks[t]) = caller[r]
      BY <1>3, <2>2 DEF CommitUpdate, RowInHand, TypeOK, Live
    <3>2. tasks' = [tasks EXCEPT ![t] = Apply(tasks[t], pending[r])] /\ UNCHANGED used
      BY <1>3, <2>2 DEF CommitUpdate, LockTimeout
    <3>3. Acting(r)
      BY <1>3, <2>2 DEF CommitUpdate, LockTimeout, Goto, Acting, TypeOK
    <3>4. pending[r] \in Fields /\ pending[r].title \in Optional(Titles)
      BY DEF TypeOK, PendingIsAsked
    <3>5. Apply(tasks[t], pending[r]) \in Rows
          /\ Holder(Apply(tasks[t], pending[r])) = Holder(tasks[t])
      BY <3>1, <3>4, ApplyKeepsRow
    <3>6. \A f \in {"title", "description", "status"} :
              Apply(tasks[t], pending[r])[f] \in {tasks[t][f], Assigned(patch[r])[f]}
      BY <3>1, <3>4, ApplyKeepsRow DEF PendingIsAsked
    <3> QED BY <3>1, <3>2, <3>3, <3>5, <3>6 DEF Edits
  <2> QED BY <2>1, <2>2
<1>4. ASSUME NEW r \in Requests, CommitDelete(r)
      PROVE  UNCHANGED table \/ \E S \in SUBSET TaskIds : Drops(r, S)
  <2>1. CASE tasks[tid[r]] = NoTask
    BY <1>4, <2>1 DEF CommitDelete, LockTimeout
  <2>2. CASE tasks[tid[r]] # NoTask /\ ~ UNCHANGED table
    <3> DEFINE t == tid[r]
    <3>1. /\ t \in Live /\ Holder(tasks[t]) = caller[r] /\ caller[r] \in Accounts
          /\ op[r] = "delete"
      BY <1>4, <2>2 DEF CommitDelete, RowInHand, TypeOK, Live, StagesAreEarned, PendingIsAsked
    <3>2. tasks' = [tasks EXCEPT ![t] = NoTask] /\ UNCHANGED used
      BY <1>4, <2>2 DEF CommitDelete, LockTimeout
    <3>3. tasks' = [u \in TaskIds |-> IF u \in {t} THEN NoTask ELSE tasks[u]]
      BY <3>2 DEF TypeOK
    <3>4. Acting(r)
      BY <1>4 DEF CommitDelete, LockTimeout, Reply, Acting, TypeOK
    <3> QED BY <3>1, <3>2, <3>3, <3>4 DEF Drops, Live
  <2> QED BY <2>1, <2>2
<1>5. ASSUME NEW r \in Requests, BulkDelete(r)
      PROVE  UNCHANGED table \/ \E S \in SUBSET TaskIds : Drops(r, S)
  <2>1. CASE caller[r].tenant \notin BulkTenants
    BY <1>5, <2>1 DEF BulkDelete
  <2>2. CASE caller[r].tenant \in BulkTenants /\ ~ UNCHANGED table
    <3>1. caller[r] \in Accounts /\ op[r] = "bulk"
      BY <1>5 DEF BulkDelete, Handling, StagesAreEarned
    <3>2. Acting(r)
      BY <1>5 DEF BulkDelete, LockTimeout, Handling, Reply, Acting, TypeOK
    <3>3. /\ tasks' = [t \in TaskIds |-> IF t \in Finished(r) THEN NoTask ELSE tasks[t]]
          /\ UNCHANGED used
      BY <1>5, <2>2 DEF BulkDelete, LockTimeout
    <3>4. Finished(r) \subseteq Live /\ Live \subseteq TaskIds
      BY DEF Finished, OwnTasks, Live
    <3>5. ASSUME NEW t \in Finished(r)
          PROVE  /\ Holder(tasks[t]) = caller[r]
                 /\ tasks[t].status = "done" /\ tasks[t].tenant \in BulkTenants
      BY <2>2, <3>1, OwnerHolds DEF Finished, OwnTasks, Owns
    <3> QED BY <3>1, <3>2, <3>3, <3>4, <3>5 DEF Drops
  <2> QED BY <2>1, <2>2
<1>6. CASE \/ \E r \in Requests, o \in Ops, a \in Accounts : Begin(r, o, a)
           \/ \E r \in Requests, f \in Filters : ListTasks(r, f)
           \/ \E r \in Requests, t \in TaskIds : GetTask(r, t)
           \/ \E r \in Requests, t \in TaskIds : LoadForDelete(r, t)
           \/ \E r \in Requests, t \in TaskIds, p \in Patches : LoadForUpdate(r, t, p)
           \/ \E r \in Requests : Refresh(r)
           \/ \E r \in Requests : Close(r)
           \/ Restart
  BY <1>6 DEF Begin, ListTasks, GetTask, LoadForDelete, LoadForUpdate, Refresh, Close, Restart
<1> QED BY <1>1, <1>2, <1>3, <1>4, <1>5, <1>6, NextCases

(* Whoever acts, ids stay given out, deleted tasks stay deleted, and a row *)
(* that is still there is still its holder's.                              *)
LEMMA TableKeeps ==
    ASSUME IInv, [Next]_vars
    PROVE  /\ used \subseteq used'
           /\ \A t \in used : tasks[t] = NoTask => tasks'[t] = NoTask
           /\ \A t \in used : tasks'[t] # NoTask => Holder(tasks'[t]) = Holder(tasks[t])
<1> USE DEF IInv, TypeOK
<1>1. CASE UNCHANGED table
  BY <1>1 DEF table, Holder
<1>2. ASSUME NEW r \in Requests, NEW t \in TaskIds, Adds(r, t)
      PROVE  /\ used \subseteq used'
             /\ \A u \in used : tasks'[u] = tasks[u]
  BY <1>2 DEF Adds
<1>3. ASSUME NEW r \in Requests, NEW t \in TaskIds, Edits(r, t)
      PROVE  /\ used' = used
             /\ \A u \in used : tasks[u] = NoTask => tasks'[u] = NoTask
             /\ \A u \in used : Holder(tasks'[u]) = Holder(tasks[u])
  BY <1>3 DEF Edits, Live
<1>4. ASSUME NEW r \in Requests, NEW S \in SUBSET TaskIds, Drops(r, S)
      PROVE  /\ used' = used
             /\ \A u \in used : tasks'[u] \in {tasks[u], NoTask}
  BY <1>4 DEF Drops
<1> QED BY <1>1, <1>2, <1>3, <1>4, TableStep DEF Holder

(* The table keeps its type and its rows belong to accounts. *)
LEMMA TableTyped ==
    ASSUME IInv, [Next]_vars
    PROVE  /\ tasks' \in [TaskIds -> Rows \cup {NoTask}] /\ used' \subseteq TaskIds
           /\ TasksBelongToAccounts' /\ LiveIsUsed'
<1> USE TasksAssumption DEF IInv, TypeOK, TasksBelongToAccounts, LiveIsUsed, Live
<1>1. CASE UNCHANGED table
  BY <1>1 DEF table, Holder
<1>2. ASSUME NEW r \in Requests, NEW t \in TaskIds, Adds(r, t)
      PROVE  /\ tasks' \in [TaskIds -> Rows \cup {NoTask}] /\ used' \subseteq TaskIds
             /\ TasksBelongToAccounts' /\ LiveIsUsed'
  <2>1. PICK row \in Rows : Holder(row) = caller[r] /\ tasks' = [tasks EXCEPT ![t] = row]
    BY <1>2 DEF Adds
  <2>2. t \in TaskIds \ used /\ caller[r] \in Accounts /\ used' = used \cup {t}
    BY <1>2 DEF Adds
  <2>3. /\ tasks'[t] = row
        /\ \A u \in TaskIds \ {t} : tasks'[u] = tasks[u]
    BY <2>1
  <2>4. tasks' \in [TaskIds -> Rows \cup {NoTask}]
    BY <2>1
  <2>5. TasksBelongToAccounts'
    BY <2>1, <2>2, <2>3 DEF Holder
  <2>6. LiveIsUsed' /\ used' \subseteq TaskIds
    BY <2>2, <2>3
  <2> QED BY <2>4, <2>5, <2>6
<1>3. ASSUME NEW r \in Requests, NEW t \in TaskIds, Edits(r, t)
      PROVE  /\ tasks' \in [TaskIds -> Rows \cup {NoTask}] /\ used' \subseteq TaskIds
             /\ TasksBelongToAccounts' /\ LiveIsUsed'
  BY <1>3 DEF Edits
<1>4. ASSUME NEW r \in Requests, NEW S \in SUBSET TaskIds, Drops(r, S)
      PROVE  /\ tasks' \in [TaskIds -> Rows \cup {NoTask}] /\ used' \subseteq TaskIds
             /\ TasksBelongToAccounts' /\ LiveIsUsed'
  BY <1>4 DEF Drops
<1> QED BY <1>1, <1>2, <1>3, <1>4, TableStep

-----------------------------------------------------------------------------
(* What is known of one request; IInv is this of each, and of the table.   *)

Sound(q) ==
    /\ stage[q] # "idle" => caller[q] \in Accounts
    /\ stage[q] # "replied" => shown[q] = {} /\ answer[q] = "none"
    /\ stage[q] \in {"idle", "handler"} => ~ wrote[q]
    /\ stage[q] \in {"commit", "refresh", "remove"} =>
          /\ tid[q] \in used
          /\ tasks[tid[q]] # NoTask => Holder(tasks[tid[q]]) = caller[q]
    /\ pending[q].title \in Optional(Titles)
    /\ \A f \in {"title", "description", "status"} :
          pending[q][f] \in {Absent, Assigned(patch[q])[f]}
    /\ stage[q] = "remove" => op[q] = "delete"
    /\ \A row \in shown[q] : Holder(row) = caller[q]
    /\ answer[q] \in Refusals => ~ wrote[q]
    /\ answer[q] = "server_error" => tid[q] \in used /\ tasks[tid[q]] = NoTask

(* The inductive invariant, one request at a time. *)
LEMMA SoundRequests ==
    IInv <=> /\ TypeOK /\ TasksBelongToAccounts /\ LiveIsUsed
             /\ \A q \in Requests : Sound(q)
<1> QED BY DEF IInv, Sound, StagesAreEarned, RowInHand, PendingIsAsked, RepliesShowOwnRows,
               RefusalsLeaveNoTrace, OnlyTimeoutsSpareTheRow

(* Nothing has been read, asked or answered for request q. *)
Blank(q) ==
    /\ stage[q] = "idle" /\ op[q] = "none" /\ caller[q] = NoAccount /\ tid[q] = NoId
    /\ patch[q] = NoFields /\ pending[q] = NoFields
    /\ answer[q] = "none" /\ shown[q] = {} /\ wrote[q] = FALSE

(* A request that has not begun has nothing to keep. *)
LEMMA BlankIsSound == \A q \in Requests : Blank(q) => Sound(q)
<1> SUFFICES ASSUME NEW q \in Requests, Blank(q) PROVE Sound(q)
  OBVIOUS
<1>1. NoFields.title = Absent /\ NoFields.description = Absent /\ NoFields.status = Absent
  BY DEF NoFields
<1>2. \A f \in {"title", "description", "status"} : NoFields[f] = Absent
  BY <1>1
<1> QED BY <1>1, <1>2 DEF Blank, Sound, Optional, Refusals

(* The steps of one request leave the variables of every other as they are. *)
Untouched(q) ==
    /\ stage'[q] = stage[q] /\ op'[q] = op[q] /\ caller'[q] = caller[q] /\ tid'[q] = tid[q]
    /\ patch'[q] = patch[q] /\ pending'[q] = pending[q] /\ answer'[q] = answer[q]
    /\ shown'[q] = shown[q] /\ wrote'[q] = wrote[q]

(* A step of another request leaves this one sound. *)
LEMMA UntouchedStaysSound ==
    ASSUME IInv, [Next]_vars, NEW q \in Requests, Untouched(q)
    PROVE  Sound(q)'
<1>1. Sound(q)
  BY SoundRequests
<1> QED BY <1>1, TableKeeps DEF Untouched, Sound

(* A step of request r that leaves the others alone, keeps the types and   *)
(* is right about r, is right about every request.                         *)
LEMMA LocalStep ==
    ASSUME IInv, [Next]_vars, NEW r \in Requests, TypeOK', Sound(r)',
           \A q \in Requests \ {r} : Untouched(q)
    PROVE  IInv'
<1>1. \A q \in Requests : Sound(q)'
  BY UntouchedStaysSound
<1>2. (IInv <=> /\ TypeOK /\ TasksBelongToAccounts /\ LiveIsUsed
                /\ \A q \in Requests : Sound(q))'
  BY SoundRequests, PTL
<1> QED BY <1>1, <1>2, TableTyped

(* Ending requests, one or all, keeps the invariant. *)
LEMMA NoRequestStep ==
    ASSUME IInv, [Next]_vars, NEW R \in SUBSET Requests, NoRequest(R)
    PROVE  IInv'
<1>1. NoFields \in Fields
  BY DEF NoFields, Fields, Optional
<1>2. TypeOK'
  <2>1. /\ tasks' \in [TaskIds -> Rows \cup {NoTask}] /\ used' \subseteq TaskIds
    BY TableTyped
  <2> QED BY <1>1, <2>1 DEF NoRequest, IInv, TypeOK
<1>3. \A q \in Requests \ R : Untouched(q)
  BY DEF NoRequest, Untouched
<1>4. \A q \in R : Blank(q)'
  BY DEF NoRequest, Blank
<1>5. (\A q \in Requests : Blank(q) => Sound(q))'
  BY BlankIsSound, PTL
<1>6. \A q \in Requests : Sound(q)'
  BY <1>3, <1>4, <1>5, UntouchedStaysSound
<1>7. (IInv <=> /\ TypeOK /\ TasksBelongToAccounts /\ LiveIsUsed
                /\ \A q \in Requests : Sound(q))'
  BY SoundRequests, PTL
<1> QED BY <1>2, <1>6, <1>7, TableTyped

(* Every step keeps the inductive invariant. *)
LEMMA InvStep ==
    ASSUME IInv, [Next]_vars
    PROVE  IInv'
<1> tasks' \in [TaskIds -> Rows \cup {NoTask}] /\ used' \subseteq TaskIds
  BY TableTyped
<1> USE DEF TypeOK, session, table
<1> TypeOK /\ \A q \in Requests : Sound(q)
  BY SoundRequests
<1>1. CASE UNCHANGED vars
  BY <1>1 DEF vars, IInv, TasksBelongToAccounts, LiveIsUsed, Live, StagesAreEarned, RowInHand,
              PendingIsAsked, RepliesShowOwnRows, RefusalsLeaveNoTrace, OnlyTimeoutsSpareTheRow
<1>2. ASSUME NEW r \in Requests, NEW o \in Ops, NEW a \in Accounts, Begin(r, o, a)
      PROVE  IInv'
  <2>1. TypeOK'
    BY <1>2 DEF Begin, Goto
  <2>2. Sound(r)'
    BY <1>2 DEF Begin, Goto, Sound, Refusals
  <2>3. \A q \in Requests \ {r} : Untouched(q)
    BY <1>2 DEF Begin, Goto, Untouched
  <2> QED BY <2>1, <2>2, <2>3, LocalStep
<1>3. ASSUME NEW r \in Requests, NEW d \in Drafts, CreateTask(r, d)
      PROVE  IInv'
  <2>1. TypeOK'
    BY <1>3 DEF CreateTask, LockTimeout, Reply, Goto, Wrote, FreshIds, Refusals, Errors
  <2>2. Sound(r)'
    <3>1. CASE ~ usable_title(d.title)
      BY <1>3, <3>1 DEF CreateTask, Handling, Reply, Sound, Refusals
    <3>2. CASE usable_title(d.title) /\ LockTimeout(r)
      BY <1>3, <3>2 DEF CreateTask, LockTimeout, Handling, Reply, Sound, Refusals
    <3>3. CASE usable_title(d.title) /\ ~ LockTimeout(r)
      <4>1. PICK t \in FreshIds : /\ tasks' = [tasks EXCEPT ![t] = NewRow(caller[r], d)]
                                  /\ used' = used \cup {t}
                                  /\ tid' = [tid EXCEPT ![r] = t]
        BY <1>3, <3>3 DEF CreateTask
      <4>2. Holder(NewRow(caller[r], d)) = caller[r]
        BY <1>3, <3>3, NewRowIsOwn DEF CreateTask, Handling, Sound
      <4>3. tid'[r] \in used' /\ Holder(tasks'[tid'[r]]) = caller[r]
        BY <4>1, <4>2 DEF FreshIds
      <4> QED BY <1>3, <3>3, <4>3 DEF CreateTask, Handling, Goto, Sound, Refusals, Holder
    <3> QED BY <3>1, <3>2, <3>3
  <2>3. \A q \in Requests \ {r} : Untouched(q)
    BY <1>3 DEF CreateTask, LockTimeout, Reply, Goto, Wrote, Untouched
  <2> QED BY <2>1, <2>2, <2>3, LocalStep
<1>4. ASSUME NEW r \in Requests, NEW f \in Filters, ListTasks(r, f)
      PROVE  IInv'
  <2>1. \A t \in OwnTasks(r) : tasks[t] \in Rows /\ Holder(tasks[t]) = caller[r]
    BY <1>4, OwnerHolds DEF ListTasks, Handling, Sound, OwnTasks, Live
  <2>2. TypeOK'
    BY <1>4, <2>1 DEF ListTasks, Reply
  <2>3. Sound(r)'
    BY <1>4, <2>1 DEF ListTasks, Handling, Reply, Sound, Refusals, Holder
  <2>4. \A q \in Requests \ {r} : Untouched(q)
    BY <1>4 DEF ListTasks, Reply, Untouched
  <2> QED BY <2>2, <2>3, <2>4, LocalStep
<1>5. ASSUME NEW r \in Requests, NEW t \in TaskIds, GetTask(r, t)
      PROVE  IInv'
  <2>1. t \in OwnTasks(r) => tasks[t] \in Rows /\ Holder(tasks[t]) = caller[r]
    BY <1>5, OwnerHolds DEF GetTask, Handling, Sound, OwnTasks, Live
  <2>2. TypeOK'
    BY <1>5, <2>1 DEF GetTask, Reply, Refusals
  <2>3. Sound(r)'
    BY <1>5, <2>1 DEF GetTask, Handling, Reply, Sound, Refusals, Holder
  <2>4. \A q \in Requests \ {r} : Untouched(q)
    BY <1>5 DEF GetTask, Reply, Untouched
  <2> QED BY <2>2, <2>3, <2>4, LocalStep
<1>6. ASSUME NEW r \in Requests, NEW t \in TaskIds, LoadForDelete(r, t)
      PROVE  IInv'
  <2>1. t \in OwnTasks(r) => t \in used /\ Holder(tasks[t]) = caller[r]
    BY <1>6, OwnerHolds DEF LoadForDelete, Handling, Sound, OwnTasks, IInv, LiveIsUsed
  <2>2. TypeOK'
    BY <1>6 DEF LoadForDelete, Reply, Goto, Refusals
  <2>3. Sound(r)'
    BY <1>6, <2>1 DEF LoadForDelete, Handling, Reply, Goto, Sound, Refusals, Holder
  <2>4. \A q \in Requests \ {r} : Untouched(q)
    BY <1>6 DEF LoadForDelete, Reply, Goto, Untouched
  <2> QED BY <2>2, <2>3, <2>4, LocalStep
<1>7. ASSUME NEW r \in Requests, NEW t \in TaskIds, NEW p \in Patches, LoadForUpdate(r, t, p)
      PROVE  IInv'
  <2>1. \A q \in Requests \ {r} : Untouched(q)
    BY <1>7 DEF LoadForUpdate, Reply, Hold, Goto, Untouched
  <2>2. CASE Verdict(r, t, p) = "ok"
    <3>1. t \in OwnTasks(r) /\ ~ TitleRefused(p)
      BY <2>2 DEF Verdict
    <3>2. t \in used /\ tasks[t] \in Rows /\ Holder(tasks[t]) = caller[r]
      BY <1>7, <3>1, OwnerHolds DEF LoadForUpdate, Handling, Sound, OwnTasks, Live, IInv, LiveIsUsed
    <3> DEFINE D == Dirty(tasks[t], p)
    <3>3. /\ D \in Fields /\ D.title \in Optional(Titles)
          /\ \A f \in {"title", "description", "status"} : D[f] \in {Absent, Assigned(p)[f]}
      BY <3>1, <3>2, DirtyIsAsked
    <3>4. p \in Fields
      BY TasksAssumption
    <3>5. /\ tid' = [tid EXCEPT ![r] = t]
          /\ patch' = [patch EXCEPT ![r] = p]
          /\ pending' = [pending EXCEPT ![r] = D]
          /\ \E s \in {"refresh", "commit"} : stage' = [stage EXCEPT ![r] = s]
          /\ UNCHANGED <<answer, shown, tasks, used, wrote, op, caller>>
          /\ stage[r] = "handler"
      BY <1>7, <2>2 DEF LoadForUpdate, Handling, Hold, Goto
    <3> HIDE DEF D
    <3>6. TypeOK'
      BY <3>3, <3>4, <3>5
    <3>7. Sound(r)'
      BY <3>2, <3>3, <3>5 DEF Sound, Refusals, Holder
    <3> QED BY <2>1, <3>6, <3>7, LocalStep
  <2>3. CASE Verdict(r, t, p) # "ok"
    <3>1. Verdict(r, t, p) \in Refusals
      BY <2>3 DEF Verdict, Refusals
    <3>2. TypeOK'
      BY <1>7, <2>3, <3>1 DEF LoadForUpdate, Reply
    <3>3. Sound(r)'
      BY <1>7, <2>3, <3>1 DEF LoadForUpdate, Handling, Reply, Sound, Refusals
    <3> QED BY <2>1, <3>2, <3>3, LocalStep
  <2> QED BY <2>2, <2>3
<1>8. ASSUME NEW r \in Requests, CommitUpdate(r)
      PROVE  IInv'
  <2>1. TypeOK'
    BY <1>8 DEF CommitUpdate, LockTimeout, Reply, Goto, Wrote, Errors
  <2>2. Sound(r)'
    BY <1>8, TableKeeps DEF CommitUpdate, LockTimeout, Reply, Goto, Wrote, Sound, Refusals
  <2>3. \A q \in Requests \ {r} : Untouched(q)
    BY <1>8 DEF CommitUpdate, LockTimeout, Reply, Goto, Wrote, Untouched
  <2> QED BY <2>1, <2>2, <2>3, LocalStep
<1>9. ASSUME NEW r \in Requests, Refresh(r)
      PROVE  IInv'
  <2>1. tasks[tid[r]] # NoTask => tasks[tid[r]] \in Rows /\ Holder(tasks[tid[r]]) = caller[r]
    BY <1>9 DEF Refresh, Sound
  <2>2. TypeOK'
    BY <1>9, <2>1 DEF Refresh, Reply, Errors
  <2>3. Sound(r)'
    BY <1>9, <2>1 DEF Refresh, Reply, Sound, Refusals, Holder
  <2>4. \A q \in Requests \ {r} : Untouched(q)
    BY <1>9 DEF Refresh, Reply, Untouched
  <2> QED BY <2>2, <2>3, <2>4, LocalStep
<1>10. ASSUME NEW r \in Requests, CommitDelete(r)
       PROVE  IInv'
  <2>1. TypeOK'
    BY <1>10 DEF CommitDelete, LockTimeout, Reply, Wrote, Errors
  <2>2. Sound(r)'
    BY <1>10 DEF CommitDelete, LockTimeout, Reply, Wrote, Sound, Refusals
  <2>3. \A q \in Requests \ {r} : Untouched(q)
    BY <1>10 DEF CommitDelete, LockTimeout, Reply, Wrote, Untouched
  <2> QED BY <2>1, <2>2, <2>3, LocalStep
<1>11. ASSUME NEW r \in Requests, BulkDelete(r)
       PROVE  IInv'
  <2>1. TypeOK'
    BY <1>11 DEF BulkDelete, LockTimeout, Reply, Refusals, Errors
  <2>2. Sound(r)'
    BY <1>11 DEF BulkDelete, LockTimeout, Handling, Reply, Sound, Refusals
  <2>3. \A q \in Requests \ {r} : Untouched(q)
    BY <1>11 DEF BulkDelete, LockTimeout, Reply, Untouched
  <2> QED BY <2>1, <2>2, <2>3, LocalStep
<1>12. ASSUME NEW r \in Requests, Close(r) PROVE IInv'
  BY <1>12, NoRequestStep DEF Close
<1>13. CASE Restart
  BY <1>13, NoRequestStep DEF Restart
<1> QED BY <1>1, <1>2, <1>3, <1>4, <1>5, <1>6, <1>7, <1>8, <1>9, <1>10, <1>11, <1>12,
           <1>13, NextCases

(* The inductive invariant holds of an empty table. *)
LEMMA InvInit == Init => IInv
<1> SUFFICES ASSUME Init PROVE IInv
  OBVIOUS
<1>1. \A q \in Requests : Sound(q)
  BY BlankIsSound DEF Init, Blank
<1>2. NoFields \in Fields
  BY DEF NoFields, Fields, Optional
<1>3. TypeOK
  BY <1>2 DEF Init, TypeOK
<1>4. TasksBelongToAccounts /\ LiveIsUsed
  BY DEF Init, TasksBelongToAccounts, LiveIsUsed, Live
<1> QED BY <1>1, <1>3, <1>4, SoundRequests

(* IInv is an invariant: the base of the theorems below. *)
THEOREM Invariance == Spec => []IInv
<1>1. IInv /\ [Next]_vars => IInv'
  BY InvStep
<1> QED BY InvInit, <1>1, PTL DEF Spec

-----------------------------------------------------------------------------
(* Stored rows fit the table, and every variable of a request its type. *)
THEOREM Typing == Spec => []TypeOK
<1>1. IInv => TypeOK
  BY DEF IInv
<1> QED BY Invariance, <1>1, PTL

(* Owner and tenant of every stored task are those of one account. *)
THEOREM Belonging == Spec => []TasksBelongToAccounts
<1>1. IInv => TasksBelongToAccounts
  BY DEF IInv
<1> QED BY Invariance, <1>1, PTL

(* No reply shows a row of another account, though db.refresh reads by id. *)
THEOREM OwnRows == Spec => []RepliesShowOwnRows
<1>1. IInv => RepliesShowOwnRows
  BY DEF IInv
<1> QED BY Invariance, <1>1, PTL

(* A request that is refused has written nothing. *)
THEOREM CleanRefusals == Spec => []RefusalsLeaveNoTrace
<1>1. IInv => RefusalsLeaveNoTrace
  BY DEF IInv
<1> QED BY Invariance, <1>1, PTL

(* A 500 from a task endpoint means that its row was deleted meanwhile, or  *)
(* that the lock or a connection was not to be had in time.                *)
THEOREM OtherErrorsMeanGone == Spec => []OnlyTimeoutsSpareTheRow
<1>1. IInv => OnlyTimeoutsSpareTheRow
  BY DEF IInv
<1> QED BY Invariance, <1>1, PTL

-----------------------------------------------------------------------------
(* What a step may never do: from TableStep. *)

(* A row changes or goes only by a request of the account that owns it at  *)
(* that moment, although the owner was checked at an earlier SELECT.       *)
THEOREM OwnersOnly == Spec => OnlyOwnersWrite
<1>1. IInv /\ [Next]_vars =>
        [\A t \in Live : tasks'[t] # tasks[t] =>
            \E r \in Requests : Acting(r) /\ caller[r] = Holder(tasks[t])]_vars
  <2> SUFFICES ASSUME IInv, Next, NEW t \in Live, tasks'[t] # tasks[t]
               PROVE  \E r \in Requests : Acting(r) /\ caller[r] = Holder(tasks[t])
    OBVIOUS
  <2> USE DEF IInv, TypeOK
  <2>1. ~ UNCHANGED table
    BY DEF table
  <2>2. ~ \E r \in Requests, u \in TaskIds : Adds(r, u)
    BY DEF Adds, LiveIsUsed
  <2>3. ASSUME NEW r \in Requests, NEW u \in TaskIds, Edits(r, u)
        PROVE  Acting(r) /\ caller[r] = Holder(tasks[t])
    BY <2>3 DEF Edits, Live
  <2>4. ASSUME NEW r \in Requests, NEW S \in SUBSET TaskIds, Drops(r, S)
        PROVE  Acting(r) /\ caller[r] = Holder(tasks[t])
    BY <2>4 DEF Drops, Live
  <2> QED BY <2>1, <2>2, <2>3, <2>4, TableStep
<1> QED BY Invariance, <1>1, PTL DEF Spec, OnlyOwnersWrite

(* A PATCH changes only the columns its body carries. *)
THEOREM PartialUpdate == Spec => OnlyAskedFieldsChange
<1>1. IInv /\ [Next]_vars =>
        [\A t \in Live : tasks'[t] \notin {tasks[t], NoTask} =>
            \E r \in Requests :
                /\ Acting(r) /\ tid[r] = t
                /\ \A f \in {"title", "description", "status"} :
                    tasks'[t][f] \in {tasks[t][f], Assigned(patch[r])[f]}]_vars
  <2> SUFFICES ASSUME IInv, Next, NEW t \in Live, tasks'[t] \notin {tasks[t], NoTask}
               PROVE  \E r \in Requests :
                          /\ Acting(r) /\ tid[r] = t
                          /\ \A f \in {"title", "description", "status"} :
                              tasks'[t][f] \in {tasks[t][f], Assigned(patch[r])[f]}
    OBVIOUS
  <2> USE DEF IInv, TypeOK
  <2>1. ~ UNCHANGED table
    BY DEF table
  <2>2. ~ \E r \in Requests, u \in TaskIds : Adds(r, u)
    BY DEF Adds, LiveIsUsed
  <2>3. ~ \E r \in Requests, S \in SUBSET TaskIds : Drops(r, S)
    BY DEF Drops, Live
  <2>4. PICK r \in Requests, u \in TaskIds : Edits(r, u)
    BY <2>1, <2>2, <2>3, TableStep
  <2>5. u = t
    BY <2>4 DEF Edits, Live
  <2>6. \A f \in {"title", "description", "status"} :
            tasks'[t][f] \in {tasks[t][f], Assigned(patch[r])[f]}
    BY <2>4, <2>5 DEF Edits
  <2> QED BY <2>4, <2>5, <2>6 DEF Edits
<1> QED BY Invariance, <1>1, PTL DEF Spec, OnlyAskedFieldsChange

(* Rows go by a DELETE of that row, or finished ones by a bulk delete of a *)
(* customer that has the feature.                                          *)
THEOREM AskedDeletes == Spec => DeletesAreAskedFor
<1>1. IInv /\ [Next]_vars =>
        [\A t \in Live : tasks'[t] = NoTask =>
            \E r \in Requests :
                /\ Acting(r)
                /\ \/ op[r] = "delete" /\ tid[r] = t
                   \/ op[r] = "bulk" /\ tasks[t].status = "done"
                        /\ tasks[t].tenant \in BulkTenants]_vars
  <2> SUFFICES ASSUME IInv, Next, NEW t \in Live, tasks'[t] = NoTask
               PROVE  \E r \in Requests :
                          /\ Acting(r)
                          /\ \/ op[r] = "delete" /\ tid[r] = t
                             \/ op[r] = "bulk" /\ tasks[t].status = "done"
                                  /\ tasks[t].tenant \in BulkTenants
    OBVIOUS
  <2> USE TasksAssumption DEF IInv, TypeOK
  <2>1. ~ UNCHANGED table
    BY DEF table, Live
  <2>2. ~ \E r \in Requests, u \in TaskIds : Adds(r, u)
    BY DEF Adds, LiveIsUsed, Live
  <2>3. ~ \E r \in Requests, u \in TaskIds : Edits(r, u)
    BY DEF Edits, Live
  <2>4. PICK r \in Requests, S \in SUBSET TaskIds : Drops(r, S)
    BY <2>1, <2>2, <2>3, TableStep
  <2>5. t \in S
    BY <2>4 DEF Drops, Live
  <2> QED BY <2>4, <2>5 DEF Drops
<1> QED BY Invariance, <1>1, PTL DEF Spec, DeletesAreAskedFor

-----------------------------------------------------------------------------
(* The handlers implement TaskLifecycle: requests and sessions are seen as *)
(* steps that add a task, move its status, or remove some.                 *)

(* What the mapping makes of a task is determined by its row and by        *)
(* whether its id has been given out.                                      *)
LEMMA MappedElsewhere ==
    ASSUME NEW t \in TaskIds, tasks'[t] = tasks[t], t \in used' <=> t \in used
    PROVE  Ages'[t] = Ages[t] /\ Holders'[t] = Holders[t] /\ Statuses'[t] = Statuses[t]
<1> QED BY DEF Ages, Holders, Statuses, Holder

(* So a step that changes only the tasks S changes only their images.      *)
LEMMA MappedStep ==
    ASSUME NEW S \in SUBSET TaskIds,
           \A u \in TaskIds \ S : tasks'[u] = tasks[u] /\ (u \in used' <=> u \in used)
    PROVE  /\ Ages' = [t \in TaskIds |-> IF t \in S THEN Ages'[t] ELSE Ages[t]]
           /\ Holders' = [t \in TaskIds |-> IF t \in S THEN Holders'[t] ELSE Holders[t]]
           /\ Statuses' = [t \in TaskIds |-> IF t \in S THEN Statuses'[t] ELSE Statuses[t]]
<1>1. \A u \in TaskIds \ S :
          Ages'[u] = Ages[u] /\ Holders'[u] = Holders[u] /\ Statuses'[u] = Statuses[u]
  BY MappedElsewhere
<1>2. /\ Ages' = [t \in TaskIds |-> Ages'[t]]
      /\ Holders' = [t \in TaskIds |-> Holders'[t]]
      /\ Statuses' = [t \in TaskIds |-> Statuses'[t]]
  BY DEF Ages, Holders, Statuses
<1>3. Ages' = [t \in TaskIds |-> IF t \in S THEN Ages'[t] ELSE Ages[t]]
  BY <1>1, <1>2
<1>4. Holders' = [t \in TaskIds |-> IF t \in S THEN Holders'[t] ELSE Holders[t]]
  BY <1>1, <1>2
<1>5. Statuses' = [t \in TaskIds |-> IF t \in S THEN Statuses'[t] ELSE Statuses[t]]
  BY <1>1, <1>2
<1> QED BY <1>3, <1>4, <1>5

(* A step that touches one task changes the lifecycle of that one only. *)
LEMMA MappedOne ==
    ASSUME NEW t \in TaskIds,
           \A u \in TaskIds \ {t} : tasks'[u] = tasks[u] /\ (u \in used' <=> u \in used)
    PROVE  /\ Ages' = [Ages EXCEPT ![t] = Ages'[t]]
           /\ Holders' = [Holders EXCEPT ![t] = Holders'[t]]
           /\ Statuses' = [Statuses EXCEPT ![t] = Statuses'[t]]
           /\ Ages'[t] = Ages[t] => Ages' = Ages
           /\ Holders'[t] = Holders[t] => Holders' = Holders
<1>1. /\ Ages = [u \in TaskIds |-> Ages[u]] /\ Ages' = [u \in TaskIds |-> Ages'[u]]
      /\ Holders = [u \in TaskIds |-> Holders[u]] /\ Holders' = [u \in TaskIds |-> Holders'[u]]
      /\ Statuses = [u \in TaskIds |-> Statuses[u]] /\ Statuses' = [u \in TaskIds |-> Statuses'[u]]
  BY DEF Ages, Holders, Statuses
<1>2. \A u \in TaskIds \ {t} :
          Ages'[u] = Ages[u] /\ Holders'[u] = Holders[u] /\ Statuses'[u] = Statuses[u]
  BY MappedElsewhere
<1>3. /\ Ages' = [Ages EXCEPT ![t] = Ages'[t]]
      /\ Ages'[t] = Ages[t] => Ages' = Ages
  BY <1>1, <1>2
<1>4. /\ Holders' = [Holders EXCEPT ![t] = Holders'[t]]
      /\ Holders'[t] = Holders[t] => Holders' = Holders
  BY <1>1, <1>2
<1>5. Statuses' = [Statuses EXCEPT ![t] = Statuses'[t]]
  BY <1>1, <1>2
<1> QED BY <1>3, <1>4, <1>5

(* The three changes of the table, each a step of a lifecycle. *)
LEMMA AddsIsAdd ==
    ASSUME IInv, NEW r \in Requests, NEW t \in TaskIds, Adds(r, t)
    PROVE  Lifecycle!AddOrRemove
<1>1. PICK row \in Rows : /\ Holder(row) = caller[r] /\ row.status = "todo"
                          /\ tasks' = [tasks EXCEPT ![t] = row]
  BY DEF Adds
<1>2. t \notin used /\ used' = used \cup {t} /\ tasks'[t] = row /\ row # NoTask
  BY <1>1, TasksAssumption DEF Adds, IInv, TypeOK
<1>3. /\ Ages[t] = "unborn" /\ Ages'[t] = "live"
      /\ Holders'[t] = caller[r] /\ Statuses'[t] = "todo"
  BY <1>1, <1>2 DEF Ages, Holders, Statuses, Holder
<1>4. /\ Ages' = [Ages EXCEPT ![t] = Ages'[t]]
      /\ Holders' = [Holders EXCEPT ![t] = Holders'[t]]
      /\ Statuses' = [Statuses EXCEPT ![t] = Statuses'[t]]
  BY <1>1, <1>2, MappedOne
<1>5. Lifecycle!Add(t, caller[r]) /\ caller[r] \in Accounts
  BY <1>3, <1>4 DEF Adds, Lifecycle!Add
<1> QED BY <1>5 DEF Lifecycle!AddOrRemove

(* An UPDATE is a move of the lifecycle, or a stutter. *)
LEMMA EditsIsMove ==
    ASSUME IInv, NEW r \in Requests, NEW t \in TaskIds, Edits(r, t)
    PROVE  /\ Lifecycle!Move(t, tasks'[t].status)
           /\ tasks'[t] # NoTask /\ tasks'[t].status \in {"todo", "in_progress", "done"}
           /\ tasks'[t].status = tasks[t].status => UNCHANGED Lifecycle!vars
<1>1. PICK row \in Rows : Holder(row) = Holder(tasks[t]) /\ tasks' = [tasks EXCEPT ![t] = row]
  BY DEF Edits
<1>2. tasks[t] # NoTask /\ t \in used /\ used' = used /\ tasks'[t] = row /\ row # NoTask
  BY <1>1, TasksAssumption DEF Edits, IInv, TypeOK, LiveIsUsed, Live
<1>3. /\ Ages[t] = "live" /\ Ages'[t] = "live" /\ Holders'[t] = Holders[t]
      /\ Statuses[t] = tasks[t].status /\ Statuses'[t] = row.status
  BY <1>1, <1>2 DEF Ages, Holders, Statuses, Holder
<1>4. Statuses' = [Statuses EXCEPT ![t] = row.status] /\ Ages' = Ages /\ Holders' = Holders
  BY <1>1, <1>2, <1>3, MappedOne
<1>5. row.status = tasks[t].status => Statuses' = Statuses
  BY <1>3, <1>4 DEF Statuses
<1>6. row.status \in {"todo", "in_progress", "done"}
  BY DEF Rows, TaskStatus
<1> QED BY <1>2, <1>3, <1>4, <1>5, <1>6 DEF Lifecycle!Move, Lifecycle!vars

(* A DELETE is a removal by the holder. *)
LEMMA DropsIsRemove ==
    ASSUME IInv, NEW r \in Requests, NEW S \in SUBSET TaskIds, Drops(r, S)
    PROVE  Lifecycle!AddOrRemove
<1>1. /\ caller[r] \in Accounts /\ S \subseteq Live /\ S \subseteq used
      /\ \A t \in S : Holder(tasks[t]) = caller[r]
      /\ tasks' = [t \in TaskIds |-> IF t \in S THEN NoTask ELSE tasks[t]]
      /\ used' = used
  BY DEF Drops, IInv, LiveIsUsed
<1>2. \A t \in S : /\ Ages[t] = "live" /\ Holders[t] = caller[r]
                   /\ Ages'[t] = "dead" /\ Holders'[t] = NoAccount /\ Statuses'[t] = "none"
  BY <1>1 DEF Ages, Holders, Statuses, Live
<1>3. /\ Ages' = [t \in TaskIds |-> IF t \in S THEN Ages'[t] ELSE Ages[t]]
      /\ Holders' = [t \in TaskIds |-> IF t \in S THEN Holders'[t] ELSE Holders[t]]
      /\ Statuses' = [t \in TaskIds |-> IF t \in S THEN Statuses'[t] ELSE Statuses[t]]
  BY <1>1, MappedStep
<1>4. Ages' = [t \in TaskIds |-> IF t \in S THEN "dead" ELSE Ages[t]]
  BY <1>2, <1>3
<1>5. Holders' = [t \in TaskIds |-> IF t \in S THEN NoAccount ELSE Holders[t]]
  BY <1>2, <1>3
<1>6. Statuses' = [t \in TaskIds |-> IF t \in S THEN "none" ELSE Statuses[t]]
  BY <1>2, <1>3
<1>7. Lifecycle!Remove(S, caller[r])
  BY <1>2, <1>4, <1>5, <1>6 DEF Lifecycle!Remove
<1> QED BY <1>1, <1>7 DEF Lifecycle!AddOrRemove

(* Where the table rests, so does the lifecycle. *)
LEMMA MappedStutter ==
    ASSUME UNCHANGED table
    PROVE  UNCHANGED Lifecycle!vars
<1> QED BY DEF table, Lifecycle!vars, Ages, Holders, Statuses, Holder

(* Creating, editing and deleting tasks are a lifecycle's steps; all else  *)
(* that requests do is a stutter.                                          *)
THEOREM Implements == Spec => ImplementsLifecycle
<1>1. Init => Lifecycle!Init
  BY DEF Init, Lifecycle!Init, Ages, Holders, Statuses
<1>2. IInv /\ [Next]_vars => [Lifecycle!Next]_(Lifecycle!vars)
  <2> SUFFICES ASSUME IInv, [Next]_vars
               PROVE  [Lifecycle!Next]_(Lifecycle!vars)
    OBVIOUS
  <2>1. CASE UNCHANGED table
    BY <2>1, MappedStutter
  <2>2. CASE \E r \in Requests, t \in TaskIds : Adds(r, t)
    BY <2>2, AddsIsAdd DEF Lifecycle!Next
  <2>3. CASE \E r \in Requests, t \in TaskIds : Edits(r, t)
    BY <2>3, EditsIsMove DEF Lifecycle!Next
  <2>4. CASE \E r \in Requests, S \in SUBSET TaskIds : Drops(r, S)
    BY <2>4, DropsIsRemove DEF Lifecycle!Next
  <2> QED BY <2>1, <2>2, <2>3, <2>4, TableStep
<1> QED BY Invariance, <1>1, <1>2, PTL DEF Spec, ImplementsLifecycle, Lifecycle!Spec

-----------------------------------------------------------------------------
(* One request at a time keeps the status machine. *)

(* A request comes to its COMMIT by the checks of update_task only.        *)
LEMMA CommitIsEarned ==
    ASSUME IInv, [Next]_vars, NEW r \in Requests, stage'[r] = "commit"
    PROVE  \/ stage[r] = "commit"
           \/ \E t \in TaskIds, p \in Patches : LoadForUpdate(r, t, p)
<1> USE DEF IInv, TypeOK, Goto, Reply
<1>1. CASE UNCHANGED vars
  BY <1>1 DEF vars
<1>2. CASE \/ \E q \in Requests, o \in Ops, a \in Accounts : Begin(q, o, a)
           \/ \E q \in Requests, d \in Drafts : CreateTask(q, d)
  BY <1>2 DEF Begin, CreateTask, LockTimeout
<1>3. CASE \/ \E q \in Requests, f \in Filters : ListTasks(q, f)
           \/ \E q \in Requests, t \in TaskIds : GetTask(q, t)
           \/ \E q \in Requests, t \in TaskIds : LoadForDelete(q, t)
  BY <1>3 DEF ListTasks, GetTask, LoadForDelete
<1>4. ASSUME NEW q \in Requests, NEW t \in TaskIds, NEW p \in Patches, LoadForUpdate(q, t, p)
      PROVE  q = r \/ stage[r] = "commit"
  BY <1>4 DEF LoadForUpdate, Hold
<1>5. CASE \E q \in Requests : CommitUpdate(q) \/ Refresh(q) \/ CommitDelete(q) \/ BulkDelete(q)
  BY <1>5 DEF CommitUpdate, Refresh, CommitDelete, BulkDelete, LockTimeout
<1>6. ASSUME NEW R \in SUBSET Requests, NoRequest(R)
      PROVE  stage[r] = "commit"
  <2>1. stage'[r] = IF r \in R THEN "idle" ELSE stage[r]
    BY <1>6 DEF NoRequest
  <2> QED BY <2>1
<1>7. CASE (\E q \in Requests : Close(q)) \/ Restart
  <2>1. \E R \in SUBSET Requests : NoRequest(R)
    BY <1>7 DEF Close, Restart
  <2> QED BY <2>1, <1>6
<1> QED BY <1>1, <1>2, <1>3, <1>4, <1>5, <1>7, NextCases

(* Every step of the only request there is takes it out of its COMMIT. *)
LEMMA CommitEnds ==
    ASSUME \A q, r \in Requests : q = r, IInv, [Next]_vars,
           NEW r \in Requests, stage[r] = "commit", stage'[r] = "commit"
    PROVE  UNCHANGED <<tasks, tid, pending>>
<1> USE DEF IInv, TypeOK, Goto, Reply
<1>1. CASE UNCHANGED vars
  BY <1>1 DEF vars
<1>2. ASSUME NEW q \in Requests, CommitUpdate(q) PROVE FALSE
  BY <1>2 DEF CommitUpdate, LockTimeout
<1>3. ASSUME NEW q \in Requests,
             \/ \E o \in Ops, a \in Accounts : Begin(q, o, a)
             \/ \E d \in Drafts : CreateTask(q, d)
             \/ \E f \in Filters : ListTasks(q, f)
             \/ \E t \in TaskIds : GetTask(q, t) \/ LoadForDelete(q, t)
             \/ \E t \in TaskIds, p \in Patches : LoadForUpdate(q, t, p)
             \/ Refresh(q) \/ CommitDelete(q) \/ BulkDelete(q) \/ Close(q)
      PROVE  FALSE
  <2>1. stage[q] # "commit"
    BY <1>3 DEF Begin, CreateTask, ListTasks, GetTask, LoadForDelete, LoadForUpdate, Refresh,
                CommitDelete, BulkDelete, Close, Handling
  <2> QED BY <2>1
<1>4. CASE Restart
  BY <1>4 DEF Restart, NoRequest
<1> QED BY <1>1, <1>2, <1>3, <1>4, NextCases

(* With one request, the move checked at the SELECT is open at the COMMIT. *)
LEMMA OpenStep ==
    ASSUME \A q, r \in Requests : q = r, IInv, CheckedMoveStaysOpen, [Next]_vars
    PROVE  CheckedMoveStaysOpen'
<1> SUFFICES ASSUME NEW r \in Requests, stage'[r] = "commit"
             PROVE  /\ tasks'[tid'[r]] # NoTask /\ tid'[r] \in TaskIds
                    /\ \/ pending'[r].status = Absent
                       \/ Lifecycle!Legal(tasks'[tid'[r]].status, pending'[r].status)
  BY DEF CheckedMoveStaysOpen, Live
<1>1. CASE stage[r] = "commit"
  <2>1. UNCHANGED <<tasks, tid, pending>>
    BY <1>1, CommitEnds
  <2> QED BY <1>1, <2>1 DEF CheckedMoveStaysOpen, Live
<1>2. ASSUME NEW t \in TaskIds, NEW p \in Patches, LoadForUpdate(r, t, p)
      PROVE  /\ tasks'[tid'[r]] # NoTask /\ tid'[r] \in TaskIds
             /\ \/ pending'[r].status = Absent
                \/ Lifecycle!Legal(tasks'[tid'[r]].status, pending'[r].status)
  <2>1. Verdict(r, t, p) = "ok" /\ Hold(r, t, p) /\ tasks' = tasks
    BY <1>2 DEF LoadForUpdate, Reply, table, IInv, TypeOK
  <2>2. t \in Live /\ ~ MoveRefused(p, tasks[t])
    BY <2>1 DEF Verdict, OwnTasks
  <2>3. tid'[r] = t /\ pending'[r] = Dirty(tasks[t], p)
    BY <2>1 DEF Hold, IInv, TypeOK
  <2>4. tasks[t].status \in TaskStatus /\ p.status \in Optional(TaskStatus)
    BY <2>2, TasksAssumption DEF IInv, TypeOK, Rows, Live, Fields
  <2>5. pending'[r].status = Changed(p.status, tasks[t].status)
    BY <2>3 DEF Dirty
  <2>6. CASE p.status = Absent \/ p.status = tasks[t].status
    BY <2>1, <2>2, <2>3, <2>5, <2>6 DEF Changed, Live
  <2>7. CASE p.status # Absent /\ p.status # tasks[t].status
    <3>1. p.status \in ALLOWED_TRANSITIONS[tasks[t].status]
      BY <2>2, <2>7 DEF MoveRefused, can_transition
    <3>2. Lifecycle!Legal(tasks[t].status, p.status)
      BY <2>4, <3>1 DEF ALLOWED_TRANSITIONS, TaskStatus, Lifecycle!Legal
    <3> QED BY <2>1, <2>2, <2>3, <2>5, <2>7, <3>2 DEF Changed, Live
  <2> QED BY <2>6, <2>7
<1> QED BY <1>1, <1>2, CommitIsEarned

(* What a step does to the status of a task is what was checked. *)
LEMMA StatusStep ==
    ASSUME IInv, CheckedMoveStaysOpen, [Next]_vars, NEW t \in Live,
           tasks'[t] # NoTask, tasks'[t].status # tasks[t].status
    PROVE  Lifecycle!Legal(tasks[t].status, tasks'[t].status)
<1> USE DEF IInv, TypeOK
<1>1. CASE UNCHANGED vars
  BY <1>1 DEF vars
<1>2. ASSUME NEW r \in Requests, CommitUpdate(r)
      PROVE  Lifecycle!Legal(tasks[t].status, tasks'[t].status)
  <2>1. /\ tid[r] = t /\ tasks[t] \in Rows
        /\ tasks' = [tasks EXCEPT ![t] = Apply(tasks[t], pending[r])]
    BY <1>2 DEF CommitUpdate, LockTimeout, Live, table
  <2>2. pending[r] \in Fields /\ pending[r].title \in Optional(Titles)
    BY DEF PendingIsAsked
  <2>3. tasks'[t] = Apply(tasks[t], pending[r])
    BY <2>1
  <2>4. tasks'[t]["status"] = IF pending[r]["status"] = Absent THEN tasks[t]["status"]
                              ELSE pending[r]["status"]
    BY <2>1, <2>2, <2>3, ApplyKeepsRow
  <2>5. pending[r].status # Absent /\ tasks'[t].status = pending[r].status
    BY <2>4
  <2> QED BY <1>2, <2>1, <2>5 DEF CheckedMoveStaysOpen, CommitUpdate
<1>3. ASSUME NEW r \in Requests, NEW d \in Drafts, CreateTask(r, d)
      PROVE  tasks'[t] = tasks[t]
  BY <1>3 DEF CreateTask, LockTimeout, FreshIds, LiveIsUsed, table
<1>4. ASSUME NEW r \in Requests, CommitDelete(r) \/ BulkDelete(r)
      PROVE  tasks'[t] \in {tasks[t], NoTask}
  BY <1>4 DEF CommitDelete, BulkDelete, LockTimeout, Live, table
<1>5. CASE \/ \E r \in Requests, o \in Ops, a \in Accounts : Begin(r, o, a)
           \/ \E r \in Requests, f \in Filters : ListTasks(r, f)
           \/ \E r \in Requests, u \in TaskIds : GetTask(r, u)
           \/ \E r \in Requests, u \in TaskIds : LoadForDelete(r, u)
           \/ \E r \in Requests, u \in TaskIds, p \in Patches : LoadForUpdate(r, u, p)
           \/ \E r \in Requests : Refresh(r)
           \/ \E r \in Requests : Close(r)
           \/ Restart
  BY <1>5 DEF Begin, ListTasks, GetTask, LoadForDelete, LoadForUpdate, Refresh, Close, Restart, table
<1> QED BY <1>1, <1>2, <1>3, <1>4, <1>5, NextCases

(* As long as requests are served one at a time, every change of status is *)
(* one that app/rules.py allows; it is the overlap of two that breaks it.  *)
THEOREM SerialStatusMachine ==
    ASSUME \A q, r \in Requests : q = r
    PROVE  Spec => FollowsStatusMachine
<1>1. Init => Lifecycle!Init
  BY DEF Init, Lifecycle!Init, Ages, Holders, Statuses
<1>2. Init => CheckedMoveStaysOpen
  BY DEF Init, CheckedMoveStaysOpen
<1>3. IInv /\ CheckedMoveStaysOpen /\ [Next]_vars => CheckedMoveStaysOpen'
  BY OpenStep
<1>4. IInv /\ CheckedMoveStaysOpen /\ [Next]_vars => [Lifecycle!LegalNext]_(Lifecycle!vars)
  <2> SUFFICES ASSUME IInv, CheckedMoveStaysOpen, [Next]_vars
               PROVE  [Lifecycle!LegalNext]_(Lifecycle!vars)
    OBVIOUS
  <2>1. CASE UNCHANGED table
    BY <2>1, MappedStutter
  <2>2. CASE \E r \in Requests, t \in TaskIds : Adds(r, t)
    BY <2>2, AddsIsAdd DEF Lifecycle!LegalNext
  <2>3. ASSUME NEW r \in Requests, NEW t \in TaskIds, Edits(r, t)
        PROVE  [Lifecycle!LegalNext]_(Lifecycle!vars)
    <3>1. t \in Live /\ Statuses[t] = tasks[t].status
      BY <2>3 DEF Edits, Statuses, Live
    <3>2. CASE tasks'[t].status = tasks[t].status
      BY <2>3, <3>2, EditsIsMove
    <3>3. CASE tasks'[t].status # tasks[t].status
      <4>1. Lifecycle!Legal(Statuses[t], tasks'[t].status)
        BY <2>3, <3>1, <3>3, EditsIsMove, StatusStep
      <4> QED BY <2>3, <4>1, EditsIsMove DEF Lifecycle!LegalNext
    <3> QED BY <3>2, <3>3
  <2>4. CASE \E r \in Requests, S \in SUBSET TaskIds : Drops(r, S)
    BY <2>4, DropsIsRemove DEF Lifecycle!LegalNext
  <2> QED BY <2>1, <2>2, <2>3, <2>4, TableStep
<1> QED BY Invariance, <1>1, <1>2, <1>3, <1>4, PTL
        DEF Spec, FollowsStatusMachine, Lifecycle!LegalSpec
=============================================================================
