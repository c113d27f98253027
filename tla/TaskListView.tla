---------------------------- MODULE TaskListView ----------------------------
(***************************************************************************)
(* The task page (app/static/tasks.js) of one signed-in account, and the   *)
(* server behind it.  Every click and key press starts an event handler    *)
(* that awaits one or two answers; handlers run side by side, and their    *)
(* requests are served and answered in any order.  Each request is one     *)
(* step of the server here; Tasks.tla looks inside.                        *)
(***************************************************************************)
EXTENDS Rules, Functions

CONSTANTS
    TaskIds,
    Handlers,     \* activations of an event handler that are under way at once
    BulkDelete    \* whether the tenant has the feature bulk_delete

ASSUME TaskListViewAssumption == BulkDelete \in BOOLEAN

VARIABLES
    store,           \* the account's tasks, as the server has them
    search, chosen,  \* the two controls above the list
    field,           \* the title in the create form
    list,            \* the rows shown: what was told of some tasks
    error,           \* whether the error is shown
    button,          \* whether the bulk-delete button is shown
    call,            \* where each handler is
    newest,          \* history: the handler that asked for a list last
    current,         \* history: the rows are the answer newest asked for
    doubt            \* history: a change or a loss that newest cannot know of

controls == <<search, chosen>>
history  == <<newest, current, doubt>>
vars == <<store, controls, field, list, error, button, call, history>>

Free == [at |-> "free"]
Unborn == [status |-> "unborn"]
Gone   == [status |-> "gone"]
Task   == [title : Titles, status : TaskStatus]
Lives(t) == store[t] \in Task

NEXT_STATUS == [todo |-> "in_progress", in_progress |-> "done", done |-> "in_progress"]

currentQuery == [wanted |-> chosen, text |-> search]

Goto(h, c) == call' = [call EXCEPT ![h] = c]

-----------------------------------------------------------------------------
(* The server *)

Select(q) ==
    [t \in {t \in TaskIds : Lives(t) /\ matches_filter(store[t].status, store[t].title, q.wanted, q.text)}
        |-> store[t]]

Accepts(op) ==
    \/ op.do = "create" /\ usable_title(op.title) /\ Unborn \in Range(store)
    \/ op.do = "move" /\ Lives(op.task) /\ can_transition(store[op.task].status, op.to)
    \/ op.do = "delete" /\ Lives(op.task)
    \/ op.do = "bulk"

Apply(op) ==
    \/ /\ op.do = "create"
       /\ \E t \in TaskIds :
             /\ store[t] = Unborn
             /\ store' = [store EXCEPT ![t] = [title |-> Normalised[op.title], status |-> "todo"]]
    \/ op.do = "move" /\ store' = [store EXCEPT ![op.task].status = op.to]
    \/ op.do = "delete" /\ store' = [store EXCEPT ![op.task] = Gone]
    \/ /\ op.do = "bulk"
       /\ store' = [t \in TaskIds |-> IF store[t].status = "done" THEN Gone ELSE store[t]]

ServeAction(h) ==
    /\ call[h].at = "acting"
    /\ \/ Accepts(call[h].op) /\ Apply(call[h].op)
       \/ ~Accepts(call[h].op) /\ UNCHANGED store
    /\ Goto(h, [at |-> "acted", op |-> call[h].op, ok |-> Accepts(call[h].op)])
    /\ UNCHANGED <<controls, field, list, error, button, history>>

ServeList(h) ==
    /\ call[h].at = "listing"
    /\ Goto(h, [at |-> "listed", caught |-> call[h].caught, rows |-> Select(call[h].query)])
    /\ UNCHANGED <<store, controls, field, list, error, button, history>>

(* Another client of the account: a second tab, or the API. *)
Elsewhere ==
    /\ \E op \in [do : {"create"}, title : Titles] \cup [do : {"delete"}, task : TaskIds]
                     \cup [do : {"move"}, task : TaskIds, to : TaskStatus] :
          Accepts(op) /\ Apply(op)
    /\ doubt' = TRUE
    /\ UNCHANGED <<controls, field, list, error, button, call, newest, current>>

-----------------------------------------------------------------------------
(* The page *)

(* refresh up to its await.  Only a caller with a try sees it fail. *)
Ask(h, q, caught) ==
    /\ Goto(h, [at |-> "listing", caught |-> caught, query |-> q])
    /\ newest' = h /\ current' = FALSE /\ doubt' = FALSE

(* The page loads and asks for the list. *)
Init ==
    /\ store \in [TaskIds -> Task \cup {Unborn}]
    /\ search = "any" /\ chosen = "any"
    /\ field = "" /\ list = << >> /\ error = FALSE /\ button = FALSE
    /\ newest \in Handlers
    /\ call = [h \in Handlers |->
                  IF h = newest THEN [at |-> "listing", caught |-> FALSE, query |-> currentQuery]
                  ELSE Free]
    /\ current = FALSE /\ doubt = FALSE

BrandingArrives ==
    /\ BulkDelete /\ ~button
    /\ button' = TRUE
    /\ UNCHANGED <<store, controls, field, list, error, call, history>>

TypeSearch(h, text) ==
    /\ call[h] = Free /\ text # search
    /\ search' = text
    /\ Ask(h, [currentQuery EXCEPT !.text = text], FALSE)
    /\ UNCHANGED <<store, chosen, field, list, error, button>>

ChooseStatus(h, wanted) ==
    /\ call[h] = Free /\ wanted # chosen
    /\ chosen' = wanted
    /\ Ask(h, [currentQuery EXCEPT !.wanted = wanted], FALSE)
    /\ UNCHANGED <<store, search, field, list, error, button>>

TypeTitle(title) ==
    /\ field' = title
    /\ UNCHANGED <<store, controls, list, error, button, call, history>>

(* mutate up to its first await. *)
Mutate(h, op) ==
    /\ call[h] = Free
    /\ error' = FALSE
    /\ Goto(h, [at |-> "acting", op |-> op])
    /\ UNCHANGED <<store, controls, field, list, button, history>>

(* The field is required: the browser does not submit it empty. *)
Submit(h) == field # "" /\ Mutate(h, [do |-> "create", title |-> field])

(* Fault: Reopen puts a finished task back to todo. *)
ClickReset(h, t) ==
    /\ t \in DOMAIN list
    /\ Mutate(h, [do |-> "move", task |-> t,
                  to |-> IF list[t].status = "done" THEN "todo" ELSE NEXT_STATUS[list[t].status]])

ClickAdvance(h, t) ==
    /\ t \in DOMAIN list
    /\ Mutate(h, [do |-> "move", task |-> t, to |-> NEXT_STATUS[list[t].status]])

ClickDelete(h, t) == t \in DOMAIN list /\ Mutate(h, [do |-> "delete", task |-> t])

ClickBulk(h) == button /\ Mutate(h, [do |-> "bulk"])

(* Fault: the error is hidden once the action has succeeded. *)
ActedThenHide(h) ==
    /\ call[h].at = "acted" /\ call[h].ok
    /\ field' = IF call[h].op.do = "create" THEN "" ELSE field
    /\ Ask(h, currentQuery, TRUE)
    /\ error' = FALSE
    /\ UNCHANGED <<store, controls, list, button>>

(* The action has succeeded: empty the form it came from, ask for the list. *)
Acted(h) ==
    /\ call[h].at = "acted" /\ call[h].ok
    /\ field' = IF call[h].op.do = "create" THEN "" ELSE field
    /\ Ask(h, currentQuery, TRUE)
    /\ UNCHANGED <<store, controls, list, error, button>>

Refused(h) ==
    /\ call[h].at = "acted" /\ ~call[h].ok
    /\ error' = TRUE
    /\ Goto(h, Free)
    /\ UNCHANGED <<store, controls, field, list, button, history>>

(* Fault: the rows are added to those already there. *)
ListAppended(h) ==
    /\ call[h].at = "listed"
    /\ list' = [t \in DOMAIN list \cup DOMAIN call[h].rows |->
                   IF t \in DOMAIN call[h].rows THEN call[h].rows[t] ELSE list[t]]
    /\ current' = (h = newest)
    /\ Goto(h, Free)
    /\ UNCHANGED <<store, controls, field, error, button, newest, doubt>>

ListArrives(h) ==
    /\ call[h].at = "listed"
    /\ list' = call[h].rows
    /\ current' = (h = newest)
    /\ Goto(h, Free)
    /\ UNCHANGED <<store, controls, field, error, button, newest, doubt>>

(* A request or its answer is lost.  Inside mutate that is caught and      *)
(* shown; in a refresh of its own nothing catches it.                      *)
Lose(h) ==
    /\ call[h] # Free
    /\ error' = (error \/ call[h].at \in {"acting", "acted"} \/ call[h].caught)
    /\ doubt' = (doubt \/ call[h].at = "acted" \/ h = newest)
    /\ Goto(h, Free)
    /\ UNCHANGED <<store, controls, field, list, button, newest, current>>

Answer(h) ==
    \/ ServeAction(h) \/ ServeList(h)
    \/ Acted(h) \/ Refused(h) \/ ListArrives(h)

Next ==
    \/ Elsewhere \/ BrandingArrives
    \/ \E title \in RawTitles : TypeTitle(title)
    \/ \E h \in Handlers :
        \/ \E text \in Queries \cup {"any"} : TypeSearch(h, text)
        \/ \E wanted \in TaskStatus \cup {"any"} : ChooseStatus(h, wanted)
        \/ Submit(h) \/ ClickBulk(h)
        \/ \E t \in TaskIds : ClickAdvance(h, t) \/ ClickDelete(h, t)
        \/ Answer(h) \/ Lose(h)

Spec == Init /\ [][Next]_vars

-----------------------------------------------------------------------------
(* Properties *)

(* tasks.js:54-69 asks for the list after every action, with the controls  *)
(* as they then are.  So the answer to the last request for a list is the  *)
(* list of what the server has and the controls say, unless an action      *)
(* served since is still to be answered, or someone else has made a        *)
(* change: however many clicks overlap, and wherever they are served.      *)
LastAnswerIsTheList ==
    current /\ ~doubt /\ (\A h \in Handlers : call[h].at # "acted") => list = Select(currentQuery)

(* tasks.js:61-69.  An action that fails, in any of its two requests, is   *)
(* reported, and the report stays until the user acts again: another       *)
(* handler that ends well does not take it away.                           *)
FailuresAreReported ==
    [][/\ error /\ ~error' => \E h \in Handlers : call[h] = Free /\ call'[h].at = "acting"
       /\ \A h \in Handlers :
             (call[h].at \in {"acting", "acted"} \/ (call[h].at = "listing" /\ call[h].caught))
                 /\ call'[h] = Free => error']_vars

(* tasks.js:4, 37-42.  The button sends the status that follows the one    *)
(* shown, which may be long out of date.  It is never refused for that,    *)
(* except where the task is gone or was moved back to todo elsewhere.      *)
StaleAdvanceIsLegal ==
    [][\A h \in Handlers :
          LET op == call[h].op IN
          /\ call[h].at = "acting" /\ call'[h].at = "acted"
          /\ op.do = "move" /\ ~call'[h].ok
          => store[op.task] = Gone \/ (store[op.task].status = "todo" /\ op.to = "done")]_vars

-----------------------------------------------------------------------------
(* The inductive invariant behind the properties above *)

Ops == [do : {"create"}, title : RawTitles] \cup [do : {"bulk"}]
         \cup [do : {"move"}, task : TaskIds, to : {"in_progress", "done"}]
         \cup [do : {"delete"}, task : TaskIds]
Queried == [wanted : TaskStatus \cup {"any"}, text : Queries \cup {"any"}]
Answers  == UNION {[T -> Task] : T \in SUBSET TaskIds}
Calls    == {Free} \cup [at : {"acting"}, op : Ops] \cup [at : {"acted"}, op : Ops, ok : BOOLEAN]
              \cup [at : {"listing"}, caught : BOOLEAN, query : Queried]
              \cup [at : {"listed"}, caught : BOOLEAN, rows : Answers]

TypeOK ==
    /\ store \in [TaskIds -> Task \cup {Unborn, Gone}]
    /\ currentQuery \in Queried
    /\ field \in RawTitles
    /\ DOMAIN list \subseteq TaskIds /\ \A t \in DOMAIN list : list[t] \in Task
    /\ error \in BOOLEAN /\ button \in BOOLEAN
    /\ call \in [Handlers -> Calls]
    /\ newest \in Handlers /\ current \in BOOLEAN /\ doubt \in BOOLEAN

(* What the page shows, or is about to show or to act on, has existed.     *)
OnlyKnownTasks ==
    /\ \A t \in DOMAIN list : store[t] # Unborn
    /\ \A h \in Handlers :
        /\ call[h].at = "listed" => \A t \in DOMAIN call[h].rows : store[t] # Unborn
        /\ call[h].at \in {"acting", "acted"} /\ call[h].op.do = "move" => store[call[h].op.task] # Unborn

(* Nothing has happened that the last request for a list may have missed.  *)
Settled == ~doubt /\ \A h \in Handlers : call[h].at = "acted" => ~call[h].ok

(* The last request for a list asks for what the controls say; its answer, *)
(* on the way or shown, is what the server has.                            *)
NewestIsRight ==
    /\ call[newest].at = "listing" => call[newest].query = currentQuery /\ ~current
    /\ call[newest].at = "listed" => ~current
    /\ Settled /\ call[newest].at = "listed" => call[newest].rows = Select(currentQuery)
    /\ Settled /\ current => list = Select(currentQuery)

IInv == TypeOK /\ OnlyKnownTasks /\ NewestIsRight
=============================================================================
