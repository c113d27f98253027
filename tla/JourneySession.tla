--------------------------- MODULE JourneySession ---------------------------
(***************************************************************************)
(* The session fixtures of suites/journey/conftest.py: a server process on *)
(* a port that was free, polled until it answers, one HTTP client for each *)
(* customer on demand, and everything taken down again.  Other programs on *)
(* the machine may take the port.                                          *)
(***************************************************************************)
EXTENDS Naturals

CONSTANTS
    Customers,
    MaxPolls     \* polls before the deadline of _wait_until_ready

VARIABLES
    external,  \* whether TASKFLOW_BASE_URL is set: no server is started
    phase,     \* where the fixtures are
    polls,
    proc,      \* the server process
    port,      \* who listens on server_port
    clients    \* customers in transport_for's cache: their clients are open

vars == <<external, phase, polls, proc, port, clients>>

Init ==
    /\ external \in BOOLEAN
    /\ phase = "start" /\ polls = 0 /\ proc = "none" /\ port = "nobody"
    /\ clients = {}

Session == <<external, phase, polls, clients>>

(* The server process: it starts, listens, may die, and heeds SIGTERM or   *)
(* not.                                                                    *)
Listen ==
    /\ proc = "starting"
    /\ IF port = "nobody" THEN proc' = "serving" /\ port' = "ours"
       ELSE proc' = "dead" /\ UNCHANGED port
    /\ UNCHANGED Session

Dead == proc' = "dead" /\ port' = IF port = "ours" THEN "nobody" ELSE port

Die == proc \in {"starting", "serving"} /\ Dead /\ UNCHANGED Session

TakePort ==
    /\ port = "nobody" /\ port' = "stranger"
    /\ UNCHANGED <<Session, proc>>

Goto(p) == phase' = p /\ UNCHANGED <<external, clients>>

(* _free_port has closed its socket; nothing holds the port now. *)
Launch ==
    /\ phase = "start"
    /\ \/ external /\ Goto("testing") /\ UNCHANGED proc
       \/ ~external /\ Goto("polling") /\ proc' = "starting"
    /\ UNCHANGED <<polls, port>>

PollProcess ==
    /\ phase = "polling" /\ polls < MaxPolls
    /\ Goto(IF proc = "dead" THEN "stopping" ELSE "asking")
    /\ UNCHANGED <<polls, proc, port>>

(* Any server that answers will do; ours may be too slow to answer. *)
AskServer ==
    /\ phase = "asking"
    /\ \/ port # "nobody" /\ Goto("testing") /\ UNCHANGED polls
       \/ Goto("polling") /\ polls' = polls + 1
    /\ UNCHANGED <<proc, port>>

Deadline ==
    /\ phase = "polling" /\ polls = MaxPolls
    /\ Goto("stopping")
    /\ UNCHANGED <<polls, proc, port>>

(* transport_for: one client per customer, on demand. *)
BuildClient(c) ==
    /\ phase = "testing" /\ c \notin clients
    /\ clients' = clients \cup {c}
    /\ UNCHANGED <<external, phase, polls, proc, port>>

(* The tests are over.  The clients go first, then the server they use. *)
CloseClients ==
    /\ phase = "testing"
    /\ clients' = {}
    /\ phase' = (IF external THEN "ended" ELSE "stopping")
    /\ UNCHANGED <<external, polls, proc, port>>

Reap ==
    /\ phase = "stopping" /\ proc = "dead"
    /\ Goto("ended")
    /\ UNCHANGED <<polls, proc, port>>

(* Fault: a server that does not heed SIGTERM is left to itself. *)
Abandon ==
    /\ phase = "stopping" /\ proc # "dead"
    /\ Goto("ended")
    /\ UNCHANGED <<polls, proc, port>>

(* SIGTERM was not heeded for ten seconds. *)
Kill ==
    /\ phase = "stopping" /\ proc # "dead"
    /\ Goto("ended") /\ Dead
    /\ UNCHANGED polls

Fixtures == Launch \/ PollProcess \/ AskServer \/ Deadline \/ Reap \/ Kill

Next ==
    \/ Listen \/ Die \/ TakePort
    \/ Fixtures \/ CloseClients
    \/ \E c \in Customers : BuildClient(c)

(* The fixtures go on by themselves, except while the tests run. *)
Fairness == WF_vars(Fixtures)

Spec == Init /\ [][Next]_vars /\ Fairness

-----------------------------------------------------------------------------
(* Property *)

(* conftest.py:57-85 and 144-163, fixtures.py:212-216.  The wait for the   *)
(* server ends, ready or given up; what was given up, or has been used, is *)
(* taken down; and however the session ends, it leaves no server process   *)
(* and no open client.                                                     *)
SessionsEndClean ==
    /\ phase = "polling" ~> phase \in {"testing", "stopping"}
    /\ phase = "stopping" ~> phase = "ended"
    /\ [](phase = "ended" => proc \in {"none", "dead"} /\ clients = {})
=============================================================================
