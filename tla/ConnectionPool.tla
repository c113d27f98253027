--------------------------- MODULE ConnectionPool ---------------------------
(***************************************************************************)
(* What a request needs to run, and in which order it takes it: a worker   *)
(* thread of FastAPI's pool, a connection of SQLAlchemy's, and SQLite's    *)
(* write lock (app/db.py; main.py's handlers).                             *)
(*                                                                         *)
(* current_user and the handler are two jobs for the worker pool.  The     *)
(* session keeps the connection of current_user's SELECT while the handler *)
(* waits for a worker; a commit gives it back, and the refresh after it    *)
(* asks for one again.  Both limits and both time-outs are the libraries': *)
(* 40 workers, 5 + 10 connections, 30 s for a connection; db.py sets 5 s   *)
(* for the lock.                                                           *)
(***************************************************************************)
EXTENDS Naturals, FiniteSets

CONSTANTS Requests, Workers, PoolSize

ASSUME PoolAssumption ==
    /\ IsFiniteSet(Requests)
    /\ Workers \in Nat \ {0} /\ PoolSize \in Nat \ {0}

VARIABLES
    stage,    \* where each request stands
    conn,     \* requests whose session has a connection checked out
    outcome   \* how the request ends

vars == <<stage, conn, outcome>>

OnWorker == {"auth", "handler", "locking", "writing", "refresh"}
Stages   == OnWorker \cup {"idle", "await_auth", "await_handler", "closing"}
Outcomes == {"none", "ok", "refused", "pool_timeout", "busy"}

At(r, s)    == stage[r] = s
Active      == {r \in Requests : ~ At(r, "idle")}
FreeWorker  == Cardinality({r \in Requests : stage[r] \in OnWorker}) < Workers
Exhausted   == Cardinality(conn) >= PoolSize
Locked      == \E r \in Requests : At(r, "writing")

Init ==
    /\ stage = [r \in Requests |-> "idle"]
    /\ conn = {}
    /\ outcome = [r \in Requests |-> "none"]

Goto(r, s) == stage' = [stage EXCEPT ![r] = s] /\ UNCHANGED outcome

(* The handler returns or raises: its worker is free, the session is not   *)
(* closed yet.                                                             *)
Finish(r, o) ==
    /\ stage' = [stage EXCEPT ![r] = "closing"]
    /\ outcome' = [outcome EXCEPT ![r] = o]

-----------------------------------------------------------------------------

Arrive(r) == At(r, "idle") /\ Goto(r, "await_auth") /\ UNCHANGED conn

(* The worker pool hands a free worker to a job that waits for one. *)
StartAuth(r)    == At(r, "await_auth") /\ FreeWorker /\ Goto(r, "auth") /\ UNCHANGED conn
StartHandler(r) == At(r, "await_handler") /\ FreeWorker /\ Goto(r, "handler") /\ UNCHANGED conn

(* current_user refuses a token before any query. *)
RefuseToken(r) == At(r, "auth") /\ Finish(r, "refused") /\ UNCHANGED conn

(* The queries of current_user, which may refuse the token after all; the  *)
(* connection stays with the session.                                      *)
Authenticate(r) ==
    /\ At(r, "auth") /\ ~ Exhausted
    /\ conn' = conn \cup {r}
    /\ Goto(r, "await_handler") \/ Finish(r, "refused")

(* A worker that waits for a connection gives up: TimeoutError, a 500.  In *)
(* refresh that is after the commit.                                       *)
PoolTimeout(r) ==
    /\ stage[r] \in {"auth", "refresh"} /\ Exhausted
    /\ Finish(r, "pool_timeout")
    /\ UNCHANGED conn

(* A handler that reads, or refuses, ends here. *)
ReadOnly(r) == At(r, "handler") /\ Finish(r, "ok") /\ UNCHANGED conn

BeginWrite(r) == At(r, "handler") /\ Goto(r, "locking") /\ UNCHANGED conn

TakeLock(r) == At(r, "locking") /\ ~ Locked /\ Goto(r, "writing") /\ UNCHANGED conn

(* Fault: a busy lock is tried again for ever. *)
RetryLock(r) == At(r, "locking") /\ Locked /\ UNCHANGED vars

(* busy_timeout runs out: OperationalError, a 500, nothing written. *)
BusyTimeout(r) == At(r, "locking") /\ Locked /\ Finish(r, "busy") /\ UNCHANGED conn

(* COMMIT: the lock is free and the connection back in the pool.  A delete *)
(* is done, a create or an update refreshes its row.                       *)
Commit(r) ==
    /\ At(r, "writing")
    /\ conn' = conn \ {r}
    /\ Goto(r, "refresh") \/ Finish(r, "ok")

Refresh(r) ==
    /\ At(r, "refresh") /\ ~ Exhausted
    /\ conn' = conn \cup {r}
    /\ Finish(r, "ok")

(* Fault: without the finally, only a handler that returns closes its session. *)
CloseOnSuccess(r) ==
    /\ At(r, "closing")
    /\ conn' = IF outcome[r] = "ok" THEN conn \ {r} ELSE conn
    /\ stage' = [stage EXCEPT ![r] = "idle"]
    /\ outcome' = [outcome EXCEPT ![r] = "none"]

(* Fault: get_db returns the session instead of yielding it. *)
NeverClosed(r) ==
    /\ At(r, "closing")
    /\ stage' = [stage EXCEPT ![r] = "idle"]
    /\ outcome' = [outcome EXCEPT ![r] = "none"]
    /\ UNCHANGED conn

(* get_db's finally: session.close(), however the handler ended. *)
Close(r) ==
    /\ At(r, "closing")
    /\ conn' = conn \ {r}
    /\ stage' = [stage EXCEPT ![r] = "idle"]
    /\ outcome' = [outcome EXCEPT ![r] = "none"]

-----------------------------------------------------------------------------

OnWorkerStep(r) ==
    \/ RefuseToken(r) \/ Authenticate(r) \/ PoolTimeout(r)
    \/ ReadOnly(r) \/ BeginWrite(r) \/ TakeLock(r) \/ BusyTimeout(r)
    \/ Commit(r) \/ Refresh(r)

Next ==
    \E r \in Requests :
        Arrive(r) \/ StartAuth(r) \/ StartHandler(r) \/ OnWorkerStep(r) \/ Close(r)

Spec == Init /\ [][Next]_vars

(* Workers run, the worker pool serves its queue in order, and time passes *)
(* for whoever waits.                                                      *)
Fairness ==
    \A r \in Requests :
        /\ SF_vars(StartAuth(r) \/ StartHandler(r))
        /\ WF_vars(OnWorkerStep(r) \/ Close(r))

FairSpec == Spec /\ Fairness

-----------------------------------------------------------------------------
(* Properties *)

TypeOK ==
    /\ stage \in [Requests -> Stages]
    /\ conn \subseteq Requests
    /\ outcome \in [Requests -> Outcomes]

(* db.py:90-92.  The pool is never overdrawn, and a request that has ended, *)
(* in whatever way, holds none of it.                                      *)
ConnectionsComeBack ==
    /\ Cardinality(conn) <= PoolSize
    /\ conn \subseteq Active

(* The same, seen by the next client: as long as no more requests are in   *)
(* flight than the pool has connections, none is refused for want of one.  *)
NoRefusalWithinPool ==
    [][(\E r \in Requests : outcome'[r] = "pool_timeout" /\ outcome[r] = "none")
        => Cardinality(Active) > PoolSize]_vars

(* db.py:59-60.  Whoever waits for the write lock, a worker or a           *)
(* connection is answered in the end, even if every worker waits for a     *)
(* connection and every connection for a worker.                           *)
EveryRequestEnds == \A r \in Requests : r \in Active ~> r \notin Active

=============================================================================
