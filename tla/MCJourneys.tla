----------------------------- MODULE MCJourneys -----------------------------
(* The journeys of suites/journey/test_journeys.py:85-155 that click, and     *)
(* one that presses the bulk-delete button.  Three handlers: a test never     *)
(* has more requests under way, the list of the page's start included.        *)
EXTENDS Journeys

MCRawTitles  == {"", " ", "milk", "dog"}
MCNormalised == [t \in MCRawTitles |-> IF t = " " THEN "" ELSE t]
MCQueries    == {"milk"}
MCContaining == [q \in MCQueries |-> {"milk"}]

add(t)       == [do |-> "add_task", title |-> t]
advance(t)   == [do |-> "advance", title |-> t]
count(n)     == [do |-> "items", count |-> n]
status(t, s) == [do |-> "status_of", title |-> t, status |-> s]

TwoTasks == <<add("dog"), count(1), add("milk"), count(2)>>

MCScripts == {
    <<add("milk"), status("milk", "todo"), advance("milk"), status("milk", "in_progress"),
      advance("milk"), status("milk", "done"), [do |-> "delete", title |-> "milk"], count(0)>>,
    TwoTasks \o <<[do |-> "search", text |-> "milk"], count(1), status("milk", "todo")>>,
    TwoTasks \o <<advance("milk"), status("milk", "in_progress"),
                  [do |-> "filter_status", status |-> "in_progress"], count(1),
                  status("milk", "in_progress")>>,
    <<add(" "), [do |-> "error"]>>,
    TwoTasks \o <<advance("dog"), status("dog", "in_progress"), advance("dog"), status("dog", "done"),
                  [do |-> "bulk_delete_done"], count(1), status("milk", "todo")>>}
=============================================================================
