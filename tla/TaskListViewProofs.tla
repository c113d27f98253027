-------------------------- MODULE TaskListViewProofs --------------------------
(***************************************************************************)
(* What module TaskListView guarantees for every number of tasks and of    *)
(* overlapping handlers: its types, the inductive invariant IInv, and the  *)
(* three properties of the page.                                           *)
(***************************************************************************)
EXTENDS TaskListView, SequenceTheorems, TLAPS

(* Next, one disjunct per action. *)
LEMMA NextCases ==
    ASSUME Next
    PROVE  \/ Elsewhere \/ BrandingArrives
           \/ \E title \in RawTitles : TypeTitle(title)
           \/ \E h \in Handlers, text \in Queries \cup {"any"} : TypeSearch(h, text)
           \/ \E h \in Handlers, wanted \in TaskStatus \cup {"any"} : ChooseStatus(h, wanted)
           \/ \E h \in Handlers : Submit(h) \/ ClickBulk(h)
           \/ \E h \in Handlers, t \in TaskIds : ClickAdvance(h, t) \/ ClickDelete(h, t)
           \/ \E h \in Handlers : ServeAction(h)
           \/ \E h \in Handlers : ServeList(h)
           \/ \E h \in Handlers : Acted(h)
           \/ \E h \in Handlers : Refused(h)
           \/ \E h \in Handlers : ListArrives(h)
           \/ \E h \in Handlers : Lose(h)
<1> QED BY DEF Next, Answer

-----------------------------------------------------------------------------
(* What the operators of the model return. *)

(* The stage of a call says what it carries. *)
LEMMA CallFields ==
    ASSUME NEW c \in Calls
    PROVE  /\ c.at \in {"free", "acting", "acted", "listing", "listed"}
           /\ c.at = "free" <=> c = Free
           /\ c.at \in {"acting", "acted"} => c.op \in Ops
           /\ c.at = "acted" => c.ok \in BOOLEAN
           /\ c.at \in {"listing", "listed"} => c.caught \in BOOLEAN
           /\ c.at = "listing" => c.query \in Queried
           /\ c.at = "listed" => c.rows \in Answers
<1> QED BY DEF Calls, Free

(* An answer to a request for the list holds tasks that exist. *)
LEMMA SelectIsAnswer ==
    ASSUME TypeOK, NEW q
    PROVE  /\ Select(q) \in Answers
           /\ \A t \in DOMAIN Select(q) : store[t] # Unborn
<1> DEFINE T == {t \in TaskIds : Lives(t) /\ matches_filter(store[t].status, store[t].title, q.wanted, q.text)}
<1>1. Select(q) \in [T -> Task] /\ T \in SUBSET TaskIds
  BY DEF Select, Lives
<1>2. \A t \in T : store[t] # Unborn
  BY DEF Lives, Task, Unborn
<1> QED BY <1>1, <1>2 DEF Answers

(* The actions the server takes, those of other clients included. *)
AnyOps == [do : {"create"}, title : RawTitles] \cup [do : {"bulk"}]
            \cup [do : {"move"}, task : TaskIds, to : TaskStatus]
            \cup [do : {"delete"}, task : TaskIds]

(* No action takes a task back to what it was before it was created. *)
LEMMA ApplyKeepsStore ==
    ASSUME TypeOK, NEW op \in AnyOps, Accepts(op), Apply(op)
    PROVE  /\ store' \in [TaskIds -> Task \cup {Unborn, Gone}]
           /\ \A t \in TaskIds : store'[t] = Unborn => store[t] = Unborn
<1> USE DEF TypeOK
<1> Gone # Unborn /\ Unborn \notin Task
  BY DEF Gone, Unborn, Task
<1>1. CASE op.do = "create"
  <2>1. op.title \in RawTitles /\ usable_title(op.title)
    BY <1>1 DEF AnyOps, Accepts
  <2>2. [title |-> Normalised[op.title], status |-> "todo"] \in Task
    BY <2>1, RulesAssumption DEF Task, Titles, usable_title, TaskStatus
  <2> QED BY <1>1, <2>2 DEF Apply
<1>2. CASE op.do = "move"
  <2>1. op.task \in TaskIds /\ op.to \in TaskStatus /\ store[op.task] \in Task
    BY <1>2 DEF AnyOps, Accepts, Lives
  <2>2. [store[op.task] EXCEPT !.status = op.to] \in Task
    BY <2>1 DEF Task
  <2>3. store' = [store EXCEPT ![op.task] = [store[op.task] EXCEPT !.status = op.to]]
    BY <1>2 DEF Apply
  <2> QED BY <2>1, <2>2, <2>3
<1>3. CASE op.do = "delete"
  BY <1>3 DEF Apply
<1>4. CASE op.do = "bulk"
  BY <1>4 DEF Apply
<1> QED BY <1>1, <1>2, <1>3, <1>4 DEF AnyOps

(* What a step does to the store and to what is known of it. *)
LEMMA StoreStep ==
    ASSUME TypeOK, [Next]_vars
    PROVE  /\ store' \in [TaskIds -> Task \cup {Unborn, Gone}]
           /\ \A t \in TaskIds : store'[t] = Unborn => store[t] = Unborn
           /\ store' = store \/ doubt' \/ \E h \in Handlers : call'[h].at = "acted" /\ call'[h].ok
<1>1. CASE UNCHANGED vars
  BY <1>1 DEF vars, TypeOK
<1>2. CASE Elsewhere
  <2>1. PICK op \in [do : {"create"}, title : Titles] \cup [do : {"delete"}, task : TaskIds]
                     \cup [do : {"move"}, task : TaskIds, to : TaskStatus] :
            Accepts(op) /\ Apply(op)
    BY <1>2 DEF Elsewhere
  <2>2. op \in AnyOps
    BY DEF AnyOps, Titles
  <2> QED BY <1>2, <2>1, <2>2, ApplyKeepsStore DEF Elsewhere
<1>3. ASSUME NEW h \in Handlers, ServeAction(h), Accepts(call[h].op)
      PROVE  /\ store' \in [TaskIds -> Task \cup {Unborn, Gone}]
             /\ \A t \in TaskIds : store'[t] = Unborn => store[t] = Unborn
             /\ call'[h].at = "acted" /\ call'[h].ok
  <2>1. call[h].at = "acting" /\ Apply(call[h].op)
    BY <1>3 DEF ServeAction
  <2>2. call[h].op \in AnyOps
    BY <2>1, CallFields DEF TypeOK, Ops, AnyOps, TaskStatus
  <2>3. call'[h].at = "acted" /\ call'[h].ok
    BY <1>3 DEF ServeAction, Goto, TypeOK
  <2> QED BY <1>3, <2>1, <2>2, <2>3, ApplyKeepsStore
<1>4. ASSUME NEW h \in Handlers, ServeAction(h), ~ Accepts(call[h].op)
      PROVE  /\ store' = store
             /\ store' \in [TaskIds -> Task \cup {Unborn, Gone}]
  BY <1>4 DEF ServeAction, TypeOK
<1>5. CASE \/ BrandingArrives
           \/ \E title \in RawTitles : TypeTitle(title)
           \/ \E h \in Handlers, text \in Queries \cup {"any"} : TypeSearch(h, text)
           \/ \E h \in Handlers, wanted \in TaskStatus \cup {"any"} : ChooseStatus(h, wanted)
           \/ \E h \in Handlers : Submit(h) \/ ClickBulk(h)
           \/ \E h \in Handlers, t \in TaskIds : ClickAdvance(h, t) \/ ClickDelete(h, t)
           \/ \E h \in Handlers : ServeList(h)
           \/ \E h \in Handlers : Acted(h)
           \/ \E h \in Handlers : Refused(h)
           \/ \E h \in Handlers : ListArrives(h)
           \/ \E h \in Handlers : Lose(h)
  <2>1. store' = store
    BY <1>5 DEF BrandingArrives, TypeTitle, TypeSearch, ChooseStatus, Submit, ClickBulk,
                ClickAdvance, ClickDelete, Mutate, ServeList, Acted, Refused, ListArrives, Lose
  <2> QED BY <2>1 DEF TypeOK
<1> QED BY <1>1, <1>2, <1>3, <1>4, <1>5, NextCases

(* The clicks that start an action, with the action they start. *)
LEMMA Clicks ==
    ASSUME TypeOK, NEW h \in Handlers,
           \/ Submit(h) \/ ClickBulk(h)
           \/ \E t \in TaskIds : ClickAdvance(h, t) \/ ClickDelete(h, t)
    PROVE  \E op \in Ops :
               /\ Mutate(h, op)
               /\ op.do = "move" => op.task \in DOMAIN list
<1>1. CASE Submit(h)
  <2>1. [do |-> "create", title |-> field] \in Ops
    BY DEF Ops, TypeOK
  <2> QED BY <1>1, <2>1 DEF Submit
<1>2. CASE ClickBulk(h)
  <2>1. [do |-> "bulk"] \in Ops
    BY DEF Ops
  <2> QED BY <1>2, <2>1 DEF ClickBulk
<1>3. ASSUME NEW t \in TaskIds, ClickAdvance(h, t)
      PROVE  \E op \in Ops : Mutate(h, op) /\ (op.do = "move" => op.task \in DOMAIN list)
  <2> DEFINE op == [do |-> "move", task |-> t, to |-> NEXT_STATUS[list[t].status]]
  <2>1. t \in DOMAIN list /\ Mutate(h, op)
    BY <1>3 DEF ClickAdvance
  <2>2. list[t].status \in TaskStatus
    BY <2>1 DEF TypeOK, Task
  <2>3. NEXT_STATUS[list[t].status] \in {"in_progress", "done"}
    BY <2>2 DEF NEXT_STATUS, TaskStatus
  <2>4. op \in Ops
    BY <2>3 DEF Ops
  <2> QED BY <2>1, <2>4
<1>4. ASSUME NEW t \in TaskIds, ClickDelete(h, t)
      PROVE  \E op \in Ops : Mutate(h, op) /\ (op.do = "move" => op.task \in DOMAIN list)
  <2>1. [do |-> "delete", task |-> t] \in Ops
    BY DEF Ops
  <2> QED BY <1>4, <2>1 DEF ClickDelete
<1> QED BY <1>1, <1>2, <1>3, <1>4

-----------------------------------------------------------------------------
(* The inductive invariant. *)

(* Every step keeps the types. *)
LEMMA TypeStep ==
    ASSUME TypeOK, [Next]_vars
    PROVE  TypeOK'
<1>1. store' \in [TaskIds -> Task \cup {Unborn, Gone}]
  BY StoreStep
<1> USE DEF TypeOK, Ask, Goto, controls, history, currentQuery, Queried
<1>2. CASE UNCHANGED vars
  BY <1>2 DEF vars
<1>3. CASE Elsewhere \/ BrandingArrives \/ \E title \in RawTitles : TypeTitle(title)
  BY <1>1, <1>3 DEF Elsewhere, BrandingArrives, TypeTitle
<1>4. ASSUME NEW h \in Handlers, NEW q \in Queried, NEW b \in BOOLEAN
      PROVE  [at |-> "listing", caught |-> b, query |-> q] \in Calls
  BY DEF Calls
<1>5. ASSUME NEW h \in Handlers, NEW text \in Queries \cup {"any"}, TypeSearch(h, text)
      PROVE  TypeOK'
  <2>1. [currentQuery EXCEPT !.text = text] \in Queried
    OBVIOUS
  <2> QED BY <1>1, <1>4, <1>5, <2>1 DEF TypeSearch
<1>6. ASSUME NEW h \in Handlers, NEW wanted \in TaskStatus \cup {"any"}, ChooseStatus(h, wanted)
      PROVE  TypeOK'
  <2>1. [currentQuery EXCEPT !.wanted = wanted] \in Queried
    OBVIOUS
  <2> QED BY <1>1, <1>4, <1>6, <2>1 DEF ChooseStatus
<1>7. ASSUME NEW h \in Handlers, NEW op \in Ops, Mutate(h, op)
      PROVE  TypeOK'
  <2>1. [at |-> "acting", op |-> op] \in Calls
    BY DEF Calls
  <2> QED BY <1>1, <1>7, <2>1 DEF Mutate
<1>8. ASSUME NEW h \in Handlers, ServeAction(h)
      PROVE  TypeOK'
  <2>1. [at |-> "acted", op |-> call[h].op, ok |-> Accepts(call[h].op)] \in Calls
    <3>1. call[h].op \in Ops
      BY <1>8, CallFields DEF ServeAction
    <3>2. Accepts(call[h].op) \in BOOLEAN
      BY DEF Accepts, Lives, usable_title, can_transition
    <3> QED BY <3>1, <3>2 DEF Calls
  <2> QED BY <1>1, <1>8, <2>1 DEF ServeAction, Goto
<1>9. ASSUME NEW h \in Handlers, ServeList(h)
      PROVE  TypeOK'
  <2>1. [at |-> "listed", caught |-> call[h].caught, rows |-> Select(call[h].query)] \in Calls
    <3>1. call[h].caught \in BOOLEAN
      BY <1>9, CallFields DEF ServeList
    <3> QED BY <3>1, SelectIsAnswer DEF Calls
  <2> QED BY <1>1, <1>9, <2>1 DEF ServeList, Goto
<1>10. ASSUME NEW h \in Handlers, Acted(h)
       PROVE  TypeOK'
  BY <1>1, <1>4, <1>10, RulesAssumption DEF Acted
<1>11. Free \in Calls
  BY DEF Calls
<1>12. ASSUME NEW h \in Handlers, Refused(h)
       PROVE  TypeOK'
  BY <1>1, <1>11, <1>12 DEF Refused
<1>13. ASSUME NEW h \in Handlers, ListArrives(h)
       PROVE  TypeOK'
  <2>1. call[h].rows \in Answers
    BY <1>13, CallFields DEF ListArrives
  <2>2. /\ DOMAIN call[h].rows \subseteq TaskIds
        /\ \A t \in DOMAIN call[h].rows : call[h].rows[t] \in Task
    BY <2>1 DEF Answers
  <2> QED BY <1>1, <1>11, <1>13, <2>2 DEF ListArrives
<1>14. ASSUME NEW h \in Handlers, Lose(h)
       PROVE  TypeOK'
  BY <1>1, <1>11, <1>14 DEF Lose
<1> QED BY <1>2, <1>3, <1>5, <1>6, <1>7, <1>8, <1>9, <1>10, <1>12, <1>13, <1>14, NextCases, Clicks

(* OnlyKnownTasks, of one call. *)
Known(h) ==
    /\ call[h].at = "listed" => \A t \in DOMAIN call[h].rows : store[t] # Unborn
    /\ call[h].at \in {"acting", "acted"} /\ call[h].op.do = "move" => store[call[h].op.task] # Unborn

(* What the page shows or acts on stays known to the service. *)
LEMMA KnownStep ==
    ASSUME TypeOK, OnlyKnownTasks, [Next]_vars
    PROVE  OnlyKnownTasks'
<1> SUFFICES /\ \A t \in DOMAIN list' : store'[t] # Unborn
             /\ \A h \in Handlers : Known(h)'
  BY DEF OnlyKnownTasks, Known
<1> TypeOK'
  BY TypeStep
<1>1. \A t \in TaskIds : store[t] # Unborn => store'[t] # Unborn
  BY StoreStep
<1>2. /\ \A t \in DOMAIN list : t \in TaskIds /\ store[t] # Unborn
      /\ \A h \in Handlers : Known(h)
  BY DEF OnlyKnownTasks, Known, TypeOK
<1>3. list' = list => \A t \in DOMAIN list' : store'[t] # Unborn
  BY <1>1, <1>2
<1>4. ASSUME NEW h \in Handlers, call'[h] = call[h]
      PROVE  Known(h)'
  <2>1. CASE call[h].at = "listed"
    <3>1. DOMAIN call[h].rows \subseteq TaskIds
      BY <2>1, CallFields DEF TypeOK, Answers
    <3> QED BY <1>1, <1>2, <1>4, <2>1, <3>1 DEF Known
  <2>2. CASE call[h].at \in {"acting", "acted"} /\ call[h].op.do = "move"
    <3>1. call[h].op \in Ops
      BY <2>2, CallFields DEF TypeOK
    <3>2. call[h].op.task \in TaskIds
      BY <2>2, <3>1 DEF Ops
    <3> QED BY <1>1, <1>2, <1>4, <2>2, <3>2 DEF Known
  <2> QED BY <1>4, <2>1, <2>2 DEF Known
<1>5. ASSUME NEW h \in Handlers, NEW c, call' = [call EXCEPT ![h] = c], Known(h)'
      PROVE  \A g \in Handlers : Known(g)'
  BY <1>4, <1>5 DEF TypeOK
<1>6. ASSUME NEW h \in Handlers, NEW c, call' = [call EXCEPT ![h] = c],
             c.at \in {"free", "listing"}
      PROVE  \A g \in Handlers : Known(g)'
  <2>1. call'[h] = c
    BY <1>6 DEF TypeOK
  <2> QED BY <1>5, <1>6, <2>1 DEF Known
<1>7. CASE \/ UNCHANGED vars
           \/ Elsewhere \/ BrandingArrives
           \/ \E title \in RawTitles : TypeTitle(title)
  <2>1. call' = call /\ list' = list
    BY <1>7 DEF vars, Elsewhere, BrandingArrives, TypeTitle
  <2> QED BY <1>3, <1>4, <2>1
<1>8. CASE \/ \E h \in Handlers, text \in Queries \cup {"any"} : TypeSearch(h, text)
           \/ \E h \in Handlers, wanted \in TaskStatus \cup {"any"} : ChooseStatus(h, wanted)
           \/ \E h \in Handlers : Acted(h)
  <2>1. list' = list
    BY <1>8 DEF TypeSearch, ChooseStatus, Acted
  <2>2. PICK h, q, b : h \in Handlers /\ Ask(h, q, b)
    BY <1>8 DEF TypeSearch, ChooseStatus, Acted
  <2>3. call' = [call EXCEPT ![h] = [at |-> "listing", caught |-> b, query |-> q]]
    BY <2>2 DEF Ask, Goto
  <2> QED BY <1>3, <1>6, <2>1, <2>2, <2>3
<1>9. ASSUME NEW h \in Handlers, NEW op \in Ops, Mutate(h, op), op.do = "move" => op.task \in DOMAIN list
      PROVE  /\ \A t \in DOMAIN list' : store'[t] # Unborn
             /\ \A g \in Handlers : Known(g)'
  <2>1. /\ list' = list
        /\ call' = [call EXCEPT ![h] = [at |-> "acting", op |-> op]]
        /\ call'[h] = [at |-> "acting", op |-> op]
    BY <1>9 DEF Mutate, Goto, TypeOK
  <2>2. Known(h)'
    BY <1>1, <1>2, <1>9, <2>1 DEF Known
  <2> QED BY <1>3, <1>5, <2>1, <2>2
<1>10. ASSUME NEW h \in Handlers, ServeAction(h)
       PROVE  /\ \A t \in DOMAIN list' : store'[t] # Unborn
              /\ \A g \in Handlers : Known(g)'
  <2> DEFINE c == [at |-> "acted", op |-> call[h].op, ok |-> Accepts(call[h].op)]
  <2>1. list' = list /\ call' = [call EXCEPT ![h] = c] /\ call'[h] = c
    BY <1>10 DEF ServeAction, Goto, TypeOK
  <2>2. call[h].at = "acting" /\ call[h].op \in Ops
    BY <1>10, CallFields DEF ServeAction, TypeOK
  <2>3. call[h].op.do = "move" => call[h].op.task \in TaskIds /\ store[call[h].op.task] # Unborn
    BY <1>2, <2>2 DEF Known, Ops
  <2>4. Known(h)'
    BY <1>1, <2>1, <2>3 DEF Known
  <2> HIDE DEF c
  <2> QED BY <1>3, <1>5, <2>1, <2>4
<1>11. ASSUME NEW h \in Handlers, ServeList(h)
       PROVE  /\ \A t \in DOMAIN list' : store'[t] # Unborn
              /\ \A g \in Handlers : Known(g)'
  <2> DEFINE c == [at |-> "listed", caught |-> call[h].caught, rows |-> Select(call[h].query)]
  <2>1. list' = list /\ call' = [call EXCEPT ![h] = c] /\ call'[h] = c /\ store' = store
    BY <1>11 DEF ServeList, Goto, TypeOK
  <2>2. Known(h)'
    BY <2>1, SelectIsAnswer DEF Known
  <2> HIDE DEF c
  <2> QED BY <1>3, <1>5, <2>1, <2>2
<1>12. ASSUME NEW h \in Handlers, Refused(h) \/ Lose(h)
       PROVE  /\ \A t \in DOMAIN list' : store'[t] # Unborn
              /\ \A g \in Handlers : Known(g)'
  <2>1. list' = list /\ call' = [call EXCEPT ![h] = Free]
    BY <1>12 DEF Refused, Lose, Goto
  <2> QED BY <1>3, <1>6, <2>1 DEF Free
<1>13. ASSUME NEW h \in Handlers, ListArrives(h)
       PROVE  /\ \A t \in DOMAIN list' : store'[t] # Unborn
              /\ \A g \in Handlers : Known(g)'
  <2>1. list' = call[h].rows /\ call' = [call EXCEPT ![h] = Free] /\ store' = store
    BY <1>13 DEF ListArrives, Goto
  <2>2. \A t \in DOMAIN list' : store'[t] # Unborn
    BY <1>2, <1>13, <2>1 DEF ListArrives, Known
  <2> QED BY <1>6, <2>1, <2>2 DEF Free
<1> QED BY <1>7, <1>8, <1>9, <1>10, <1>11, <1>12, <1>13, NextCases, Clicks

(* A step that leaves store and controls alone leaves the right list.      *)
LEMMA SameSelection ==
    ASSUME store' = store, controls' = controls
    PROVE  currentQuery' = currentQuery /\ Select(currentQuery)' = Select(currentQuery)
<1> QED BY DEF Select, Lives, currentQuery, controls

(* Nothing is settled by a call that moves on other than by being answered.*)
LEMMA StaysUnsettled ==
    ASSUME TypeOK, NEW h \in Handlers, NEW c, call' = [call EXCEPT ![h] = c],
           doubt => doubt', call[h].at = "acted" => ~ call[h].ok
    PROVE  Settled' => Settled
<1> QED BY DEF Settled, TypeOK

(* The newest request for a list, and its answer, stay right. *)
LEMMA NewestStep ==
    ASSUME TypeOK, NewestIsRight, [Next]_vars
    PROVE  NewestIsRight'
<1> USE DEF TypeOK
<1> newest \in Handlers
  OBVIOUS
<1>1. CASE \/ UNCHANGED vars \/ BrandingArrives
           \/ \E title \in RawTitles : TypeTitle(title)
  <2>1. UNCHANGED <<store, controls, list, call, newest, current, doubt>>
    BY <1>1 DEF vars, BrandingArrives, TypeTitle, history
  <2>2. Settled' <=> Settled
    BY <2>1 DEF Settled
  <2> QED BY <2>1, <2>2, SameSelection DEF NewestIsRight
<1>2. CASE Elsewhere
  <2>1. UNCHANGED <<controls, list, call, newest, current>> /\ ~ Settled'
    BY <1>2 DEF Elsewhere, Settled
  <2>2. currentQuery' = currentQuery
    BY <2>1 DEF currentQuery, controls
  <2> QED BY <2>1, <2>2 DEF NewestIsRight
<1>3. CASE \/ \E h \in Handlers, text \in Queries \cup {"any"} : TypeSearch(h, text)
           \/ \E h \in Handlers, wanted \in TaskStatus \cup {"any"} : ChooseStatus(h, wanted)
           \/ \E h \in Handlers : Acted(h)
  <2>1. PICK h \in Handlers, b \in BOOLEAN : Ask(h, currentQuery', b)
    <3>1. ASSUME NEW h \in Handlers, NEW text \in Queries \cup {"any"}, TypeSearch(h, text)
          PROVE  Ask(h, currentQuery', FALSE)
      <4>1. currentQuery' = [currentQuery EXCEPT !.text = text]
        BY <3>1 DEF TypeSearch, currentQuery
      <4> QED BY <3>1, <4>1 DEF TypeSearch
    <3>2. ASSUME NEW h \in Handlers, NEW wanted \in TaskStatus \cup {"any"}, ChooseStatus(h, wanted)
          PROVE  Ask(h, currentQuery', FALSE)
      <4>1. currentQuery' = [currentQuery EXCEPT !.wanted = wanted]
        BY <3>2 DEF ChooseStatus, currentQuery
      <4> QED BY <3>2, <4>1 DEF ChooseStatus
    <3>3. ASSUME NEW h \in Handlers, Acted(h)
          PROVE  Ask(h, currentQuery', TRUE)
      <4>1. currentQuery' = currentQuery
        BY <3>3 DEF Acted, currentQuery, controls
      <4> QED BY <3>3, <4>1 DEF Acted
    <3> QED BY <1>3, <3>1, <3>2, <3>3
  <2>2. newest' = h /\ call'[h] = [at |-> "listing", caught |-> b, query |-> currentQuery'] /\ ~ current'
    BY <2>1 DEF Ask, Goto
  <2> QED BY <2>2 DEF NewestIsRight
<1>4. ASSUME NEW h \in Handlers, NEW op \in Ops, Mutate(h, op)
      PROVE  NewestIsRight'
  <2>1. /\ UNCHANGED <<store, controls, list, newest, current, doubt>>
        /\ call' = [call EXCEPT ![h] = [at |-> "acting", op |-> op]]
        /\ call[h].at = "free"
    BY <1>4 DEF Mutate, Goto, Free, history
  <2>2. Settled' => Settled
    BY <2>1, StaysUnsettled
  <2> QED BY <2>1, <2>2, SameSelection DEF NewestIsRight
<1>5. ASSUME NEW h \in Handlers, ServeAction(h)
      PROVE  NewestIsRight'
  <2> DEFINE c == [at |-> "acted", op |-> call[h].op, ok |-> Accepts(call[h].op)]
  <2>1. /\ UNCHANGED <<controls, list, newest, current, doubt>>
        /\ call[h].at = "acting"
        /\ call' = [call EXCEPT ![h] = c]
        /\ call'[h].at = "acted"
    BY <1>5 DEF ServeAction, Goto, history
  <2>2. currentQuery' = currentQuery
    BY <2>1 DEF currentQuery, controls
  <2>3. CASE Accepts(call[h].op)
    <3>1. call'[h].ok
      BY <2>1, <2>3
    <3>2. ~ Settled'
      BY <2>1, <3>1 DEF Settled
    <3> HIDE DEF c
    <3> QED BY <2>1, <2>2, <3>2 DEF NewestIsRight
  <2>4. CASE ~ Accepts(call[h].op)
    <3>1. store' = store
      BY <1>5, <2>4 DEF ServeAction
    <3> HIDE DEF c
    <3>2. Settled' => Settled
      BY <2>1, StaysUnsettled
    <3> QED BY <2>1, <3>1, <3>2, SameSelection DEF NewestIsRight
  <2> QED BY <2>3, <2>4
<1>6. ASSUME NEW h \in Handlers, ServeList(h)
      PROVE  NewestIsRight'
  <2> DEFINE c == [at |-> "listed", caught |-> call[h].caught, rows |-> Select(call[h].query)]
  <2>1. /\ UNCHANGED <<store, controls, list, newest, current, doubt>>
        /\ call[h].at = "listing"
        /\ call' = [call EXCEPT ![h] = c]
        /\ call'[h].at = "listed" /\ call'[h].rows = Select(call[h].query)
    BY <1>6 DEF ServeList, Goto, history
  <2> HIDE DEF c
  <2>2. Settled' => Settled
    BY <2>1, StaysUnsettled
  <2> QED BY <2>1, <2>2, SameSelection DEF NewestIsRight
<1>7. ASSUME NEW h \in Handlers, Refused(h)
      PROVE  NewestIsRight'
  <2>1. /\ UNCHANGED <<store, controls, list, newest, current, doubt>>
        /\ ~ call[h].ok
        /\ call' = [call EXCEPT ![h] = Free] /\ Free.at = "free"
    BY <1>7 DEF Refused, Goto, Free, history
  <2>2. Settled' => Settled
    BY <2>1, StaysUnsettled
  <2> QED BY <2>1, <2>2, SameSelection DEF NewestIsRight
<1>8. ASSUME NEW h \in Handlers, ListArrives(h)
      PROVE  NewestIsRight'
  <2>1. /\ UNCHANGED <<store, controls, newest, doubt>>
        /\ call[h].at = "listed" /\ list' = call[h].rows /\ current' = (h = newest)
        /\ call' = [call EXCEPT ![h] = Free] /\ Free.at = "free"
    BY <1>8 DEF ListArrives, Goto, Free
  <2>2. Settled' => Settled
    BY <2>1, StaysUnsettled
  <2> QED BY <2>1, <2>2, SameSelection DEF NewestIsRight
<1>9. ASSUME NEW h \in Handlers, Lose(h)
      PROVE  NewestIsRight'
  <2>1. /\ UNCHANGED <<store, controls, list, newest, current>>
        /\ doubt' = (doubt \/ call[h].at = "acted" \/ h = newest)
        /\ call' = [call EXCEPT ![h] = Free] /\ Free.at = "free"
    BY <1>9 DEF Lose, Goto, Free
  <2>2. CASE doubt'
    <3>1. ~ Settled' /\ currentQuery' = currentQuery
      BY <2>1, <2>2, SameSelection DEF Settled
    <3> QED BY <2>1, <3>1 DEF NewestIsRight
  <2>3. CASE ~ doubt'
    <3>1. ~ doubt /\ call[h].at # "acted" /\ h # newest
      BY <2>1, <2>3
    <3>2. Settled' => Settled
      BY <2>1, <3>1, StaysUnsettled
    <3> QED BY <2>1, <3>1, <3>2, SameSelection DEF NewestIsRight
  <2> QED BY <2>2, <2>3
<1> QED BY <1>1, <1>2, <1>3, <1>4, <1>5, <1>6, <1>7, <1>8, <1>9, NextCases, Clicks

(* tasks.js and the service behind it keep the page's inductive invariant. *)
THEOREM Invariance == Spec => []IInv
<1>1. Init => IInv
  <2> SUFFICES ASSUME Init PROVE IInv
    OBVIOUS
  <2>1. currentQuery \in Queried
    BY DEF Init, currentQuery, Queried
  <2>2. /\ Free \in Calls
        /\ [at |-> "listing", caught |-> FALSE, query |-> currentQuery] \in Calls
    BY <2>1 DEF Calls
  <2>3. DOMAIN list = {}
    <3>1. << >> \in Seq({}) /\ Len(<< >>) = 0
      BY EmptySeq
    <3>2. DOMAIN << >> = 1 .. 0
      BY <3>1, LenProperties
    <3>3. 1 .. 0 = {}
      OBVIOUS
    <3>4. list = << >>
      BY DEF Init
    <3> QED BY <3>2, <3>3, <3>4
  <2>4. TypeOK
    BY <2>1, <2>2, <2>3, RulesAssumption DEF Init, TypeOK
  <2>5. OnlyKnownTasks
    BY <2>3 DEF Init, OnlyKnownTasks, Free
  <2>6. NewestIsRight
    BY DEF Init, NewestIsRight
  <2> QED BY <2>4, <2>5, <2>6 DEF IInv
<1>2. IInv /\ [Next]_vars => IInv'
  BY TypeStep, KnownStep, NewestStep DEF IInv
<1> QED BY <1>1, <1>2, PTL DEF Spec

(* The types of the page and of its calls. *)
THEOREM Typing == Spec => []TypeOK
<1>1. IInv => TypeOK
  BY DEF IInv
<1> QED BY Invariance, <1>1, PTL

-----------------------------------------------------------------------------
(* The properties of the page. *)

(* A handler goes on by its own steps only. *)
LEMMA OwnStep ==
    ASSUME TypeOK, [Next]_vars, NEW h \in Handlers, call'[h] # call[h]
    PROVE  \/ call[h] = Free
           \/ ServeAction(h) \/ ServeList(h) \/ Acted(h) \/ Refused(h) \/ ListArrives(h)
           \/ Lose(h) /\ call'[h] = Free
<1> USE DEF TypeOK, Ask, Goto
<1>1. ~ (\/ UNCHANGED vars \/ Elsewhere \/ BrandingArrives
         \/ \E title \in RawTitles : TypeTitle(title))
  BY DEF vars, Elsewhere, BrandingArrives, TypeTitle
<1>2. CASE \/ \E g \in Handlers, text \in Queries \cup {"any"} : TypeSearch(g, text)
           \/ \E g \in Handlers, wanted \in TaskStatus \cup {"any"} : ChooseStatus(g, wanted)
           \/ \E g \in Handlers, op \in Ops : Mutate(g, op)
  BY <1>2 DEF TypeSearch, ChooseStatus, Mutate
<1>3. ASSUME NEW g \in Handlers,
             \/ ServeAction(g) \/ ServeList(g) \/ Acted(g) \/ Refused(g)
             \/ ListArrives(g) \/ Lose(g)
      PROVE  g = h
  BY <1>3 DEF ServeAction, ServeList, Acted, Refused, ListArrives, Lose
<1>4. Lose(h) => call'[h] = Free
  BY DEF Lose
<1> QED BY <1>1, <1>2, <1>3, <1>4, NextCases, Clicks

(* However many handlers overlap and however their answers are reordered,  *)
(* the answer to the last request for a list is what the server has and    *)
(* the controls ask for, once no action waits to be followed up.           *)
THEOREM LastAnswer == Spec => []LastAnswerIsTheList
<1>1. IInv => LastAnswerIsTheList
  BY DEF IInv, NewestIsRight, Settled, LastAnswerIsTheList
<1> QED BY Invariance, <1>1, PTL

(* The status the button sends is refused only for a task that is gone, or *)
(* was moved back to todo, however old the row it was read from.           *)
THEOREM StaleAdvances == Spec => StaleAdvanceIsLegal
<1>1. IInv /\ [Next]_vars =>
        [\A h \in Handlers :
            LET op == call[h].op IN
            /\ call[h].at = "acting" /\ call'[h].at = "acted"
            /\ op.do = "move" /\ ~call'[h].ok
            => store[op.task] = Gone \/ (store[op.task].status = "todo" /\ op.to = "done")]_vars
  <2> SUFFICES ASSUME IInv, [Next]_vars, NEW h \in Handlers,
                      call[h].at = "acting", call'[h].at = "acted",
                      call[h].op.do = "move", ~ call'[h].ok
               PROVE  \/ store[call[h].op.task] = Gone
                      \/ store[call[h].op.task].status = "todo" /\ call[h].op.to = "done"
    OBVIOUS
  <2> USE DEF IInv, TypeOK
  <2> DEFINE op == call[h].op
  <2>1. op \in Ops
    BY CallFields
  <2>2. op.task \in TaskIds /\ op.to \in {"in_progress", "done"} /\ store[op.task] # Unborn
    BY <2>1 DEF Ops, OnlyKnownTasks
  <2>3. ServeAction(h)
    <3>1. TypeOK /\ call'[h] # call[h] /\ call[h] # Free /\ call'[h] # Free
      BY DEF Free
    <3>2. ~ ServeList(h) /\ ~ Acted(h) /\ ~ Refused(h) /\ ~ ListArrives(h)
      BY DEF ServeList, Acted, Refused, ListArrives
    <3> HIDE DEF TypeOK
    <3> QED BY <3>1, <3>2, OwnStep
  <2>4. ~ Accepts(op)
    BY <2>3 DEF ServeAction, Goto
  <2>5. Lives(op.task) => ~ can_transition(store[op.task].status, op.to)
    BY <2>4 DEF Accepts
  <2>6. CASE store[op.task] # Gone
    <3>1. store[op.task] \in Task /\ store[op.task].status \in TaskStatus
      BY <2>2, <2>6 DEF Task
    <3>2. ~ can_transition(store[op.task].status, op.to)
      BY <2>5, <3>1 DEF Lives
    <3> QED BY <2>2, <3>1, <3>2 DEF can_transition, ALLOWED_TRANSITIONS, TaskStatus
  <2> QED BY <2>6
<1> QED BY Invariance, <1>1, PTL DEF Spec, StaleAdvanceIsLegal

(* Only a new action takes the error away; a request that fails under an   *)
(* action, or under the refresh that follows it, shows it.                 *)
THEOREM FailuresShow == Spec => FailuresAreReported
<1>1. IInv /\ [Next]_vars =>
        [/\ error /\ ~error' => \E h \in Handlers : call[h] = Free /\ call'[h].at = "acting"
         /\ \A h \in Handlers :
               (call[h].at \in {"acting", "acted"} \/ (call[h].at = "listing" /\ call[h].caught))
                   /\ call'[h] = Free => error']_vars
  <2> SUFFICES ASSUME TypeOK, [Next]_vars
               PROVE  /\ error /\ ~error' => \E h \in Handlers : call[h] = Free /\ call'[h].at = "acting"
                      /\ \A h \in Handlers :
                            (call[h].at \in {"acting", "acted"} \/ (call[h].at = "listing" /\ call[h].caught))
                                /\ call'[h] = Free => error'
    BY DEF IInv
  <2>1. ASSUME error, ~ error'
        PROVE  \E h \in Handlers : call[h] = Free /\ call'[h].at = "acting"
    <3>1. ~ (\/ UNCHANGED vars \/ Elsewhere \/ BrandingArrives
             \/ \E title \in RawTitles : TypeTitle(title)
             \/ \E h \in Handlers, text \in Queries \cup {"any"} : TypeSearch(h, text)
             \/ \E h \in Handlers, wanted \in TaskStatus \cup {"any"} : ChooseStatus(h, wanted))
      BY <2>1 DEF vars, Elsewhere, BrandingArrives, TypeTitle, TypeSearch, ChooseStatus
    <3>2. ASSUME NEW h \in Handlers
          PROVE  ~ (\/ ServeAction(h) \/ ServeList(h) \/ Acted(h) \/ Refused(h)
                    \/ ListArrives(h) \/ Lose(h))
      BY <2>1 DEF ServeAction, ServeList, Acted, Refused, ListArrives, Lose
    <3>3. PICK h \in Handlers, op \in Ops : Mutate(h, op)
      BY <3>1, <3>2, NextCases, Clicks
    <3> QED BY <3>3 DEF Mutate, Goto, TypeOK
  <2>2. ASSUME NEW h \in Handlers, call'[h] = Free,
               call[h].at \in {"acting", "acted"} \/ (call[h].at = "listing" /\ call[h].caught)
        PROVE  error'
    <3>1. call'[h].at = "free" /\ call[h] # Free /\ call[h].at # "listed"
      BY <2>2 DEF Free
    <3>2. ServeAction(h) \/ ServeList(h) \/ Acted(h) \/ Refused(h) \/ ListArrives(h) \/ Lose(h)
      BY <2>2, <3>1, OwnStep
    <3>3. ~ ServeAction(h) /\ ~ ServeList(h)
      BY <3>1 DEF ServeAction, ServeList, Goto, TypeOK
    <3>4. ~ Acted(h) /\ ~ ListArrives(h)
      <4>1. ASSUME Acted(h) PROVE call'[h].at = "listing"
        <5>1. call' = [call EXCEPT ![h] = [at |-> "listing", caught |-> TRUE, query |-> currentQuery]]
          BY <4>1 DEF Acted, Ask, Goto
        <5> QED BY <5>1 DEF TypeOK
      <4>2. ListArrives(h) => call[h].at = "listed"
        BY DEF ListArrives
      <4> QED BY <3>1, <4>1, <4>2
    <3>5. Refused(h) => error'
      BY DEF Refused
    <3>6. Lose(h) => error'
      BY <2>2 DEF Lose
    <3> QED BY <3>2, <3>3, <3>4, <3>5, <3>6
  <2> QED BY <2>1, <2>2
<1> QED BY Invariance, <1>1, PTL DEF Spec, FailuresAreReported
=============================================================================
