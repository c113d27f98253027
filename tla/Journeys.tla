------------------------------ MODULE Journeys ------------------------------
(***************************************************************************)
(* A browser test (suites/journey) at work on the task page: its steps are *)
(* the methods of the page object TasksPage, one after the other.  A click *)
(* waits for its target and an expectation retries until it holds, so a    *)
(* step that can never be done is a test that times out.                   *)
(***************************************************************************)
EXTENDS TaskListView, Sequences, FiniteSets

CONSTANT Scripts    \* the tests: sequences of steps

VARIABLES
    script,  \* the test that runs
    pos,     \* its next step
    filled   \* whether add_task has filled in the form and has yet to click

jvars == <<vars, script, pos, filled>>

Step == script[pos]
AtStep(name) == pos <= Len(script) /\ Step.do = name
Done == pos' = pos + 1 /\ UNCHANGED <<script, filled>>

(* signed_in: a new account on its task page.  wait_until_loaded waits for *)
(* the form, which is part of the page, and not for the list.              *)
JInit ==
    /\ Init /\ store = [t \in TaskIds |-> Unborn]
    /\ script \in Scripts /\ pos = 1 /\ filled = FALSE

row(title) == {t \in DOMAIN list : list[t].title = title}

FillTitle ==
    /\ AtStep("add_task") /\ ~filled
    /\ TypeTitle(Step.title)
    /\ filled' = TRUE /\ UNCHANGED <<script, pos>>

ClickAdd ==
    /\ AtStep("add_task") /\ filled
    /\ IF field = "" THEN UNCHANGED vars ELSE \E h \in Handlers : Submit(h)
    /\ filled' = FALSE /\ pos' = pos + 1 /\ UNCHANGED script

Advance ==
    AtStep("advance") /\ (\E h \in Handlers, t \in row(Step.title) : ClickAdvance(h, t)) /\ Done

Delete ==
    AtStep("delete") /\ (\E h \in Handlers, t \in row(Step.title) : ClickDelete(h, t)) /\ Done

BulkDeleteDone ==
    AtStep("bulk_delete_done") /\ (\E h \in Handlers : ClickBulk(h)) /\ Done

Search ==
    AtStep("search") /\ (\E h \in Handlers : TypeSearch(h, Step.text)) /\ Done

FilterStatus ==
    AtStep("filter_status") /\ (\E h \in Handlers : ChooseStatus(h, Step.status)) /\ Done

(* to_have_text on status_of, to_have_count on items, and the error.       *)
ExpectStatus ==
    /\ AtStep("status_of")
    /\ \E t \in row(Step.title) : list[t].status = Step.status
    /\ Done /\ UNCHANGED vars

ExpectCount ==
    /\ AtStep("items") /\ Cardinality(DOMAIN list) = Step.count
    /\ Done /\ UNCHANGED vars

ExpectError == AtStep("error") /\ error /\ Done /\ UNCHANGED vars

TestStep ==
    \/ FillTitle \/ ClickAdd \/ Advance \/ Delete \/ BulkDeleteDone
    \/ Search \/ FilterStatus
    \/ ExpectStatus \/ ExpectCount \/ ExpectError

Respond(h) == Answer(h) /\ UNCHANGED <<script, pos, filled>>
Brand == BrandingArrives /\ UNCHANGED <<script, pos, filled>>

JNext == TestStep \/ Brand \/ \E h \in Handlers : Respond(h)

(* The test goes on when it can, and the server answers every request.     *)
JFairness ==
    /\ WF_jvars(TestStep) /\ WF_jvars(Brand)
    /\ \A h \in Handlers : WF_jvars(Respond(h))

JSpec == JInit /\ [][JNext]_jvars /\ JFairness

-----------------------------------------------------------------------------
(* Property *)

(* test_journeys.py:85-142.  Every expectation of a journey comes true and *)
(* every click finds its row, so that the test ends.                       *)
JourneyEnds == <>(pos > Len(script))
=============================================================================
