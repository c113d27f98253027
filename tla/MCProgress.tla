------------------------------ MODULE MCProgress ------------------------------
(* Where somebody waits for somebody else: requests for workers, connections  *)
(* and the write lock (ConnectionPool), two tabs for their logins and logouts *)
(* (BrowserSession), the test session for its server (JourneySession), and a  *)
(* user for a logout to take effect (Sessions).  They share no state, so a    *)
(* behaviour is one of them, and part says which; the others are at rest.     *)
EXTENDS ConnectionPool, BrowserSession

(* Four requests, two workers, two connections: both workers can wait for a   *)
(* connection while both connections are held by requests that wait for a     *)
(* worker, and two requests can meet at the write lock.  Two tabs, two tokens *)
(* and two clicks, in one tab or in both: one tab can sign in or out while    *)
(* the other awaits an answer, and the stored token need not be the one sent. *)
CONSTANTS
    Customers, MaxPolls,  \* JourneySession
    Callers, Jtis, custa, demo_a, NoTenant, NoUser, NoToken, BadToken  \* Sessions

VARIABLES
    part,
    external, phase, polls, proc, port, clients,
    users, claims, expired, revoked, step, endpoint, host, tok, user, reply,
    loggedOut, late

harnessVars == <<external, phase, polls, proc, port, clients>>
userVars    == <<users, claims, expired, revoked, step, endpoint, host, tok,
                 user, reply, loggedOut, late>>

Harness == INSTANCE JourneySession

(* One customer and its demo account; two callers, who may hold one token. *)
Users == INSTANCE Sessions WITH
    Requests <- Callers, Called <- {"me", "tasks", "logout"}, Tenants <- {custa},
    UserIds <- {demo_a}, Usernames <- {"demo"}, DemoName <- "demo",
    DemoUser <- [t \in {custa} |-> demo_a], TestEndpoints <- TRUE

-----------------------------------------------------------------------------

HarnessAtRest ==
    /\ external = TRUE /\ phase = "ended" /\ polls = 0
    /\ proc = "none" /\ port = "nobody" /\ clients = {}

MCInit ==
    /\ part \in {"pool", "tabs", "harness", "users"}
    /\ Init /\ TabInit /\ Users!Init
    /\ IF part = "harness" THEN Harness!Init ELSE HarnessAtRest

MCNext ==
    /\ UNCHANGED part
    /\ \/ part = "pool" /\ Next /\ UNCHANGED <<tabVars, harnessVars, userVars>>
       \/ part = "tabs" /\ TabNext /\ UNCHANGED <<vars, harnessVars, userVars>>
       \/ part = "harness" /\ Harness!Next /\ UNCHANGED <<vars, tabVars, userVars>>
       \/ part = "users" /\ Users!Running /\ UNCHANGED <<vars, tabVars, harnessVars>>

(* What is at rest has no step that fairness asks for: a login page awaits    *)
(* nothing, and no request is under way.                                      *)
MCSpec ==
    /\ MCInit /\ [][MCNext]_<<part, vars, tabVars, harnessVars, userVars>>
    /\ Users!Fairness /\ Fairness /\ TabFairness /\ Harness!Fairness

(* main.py:284-302.  A logout that was let in has ended its token in the end, *)
(* or is answered with the 500 of a time-out.                                 *)
LogoutTakesEffect == Users!LogoutTakesEffect

(* conftest.py:57-163.  The test session ends, and leaves nothing behind.     *)
SessionsEndClean == Harness!SessionsEndClean
=============================================================================
