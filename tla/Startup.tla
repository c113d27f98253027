------------------------------ MODULE Startup ------------------------------
(***************************************************************************)
(* The lifespan of app/main.py up to its yield, in several processes that  *)
(* start on one database file: create the tables that are missing, each    *)
(* with its indexes, load the tenants, then add one demo user per tenant.  *)
(* A process may be killed at any point.                                   *)
(* Names that every module has start with Db here, so that a model can     *)
(* extend this one and TenantRegistry, the other half of lifespan.         *)
(***************************************************************************)
EXTENDS Naturals, Functions

CONSTANTS
    Processes,
    Tables,    \* the tables in the order create_all makes them
    Indexes,   \* the indexes of every table
    Tenants    \* the tenants in the order their files are loaded

(* No table is listed twice, and no index has two tables. *)
ASSUME SchemaAssumption ==
    /\ \A i, j \in DOMAIN Tables : Tables[i] = Tables[j] => i = j
    /\ \A t, u \in Range(Tables) : Indexes[t] \cap Indexes[u] # {} => t = u

VARIABLES
    tables, indexes, demos,  \* the database: what is made of its schema, and
                             \* the tenants that have a demo user
    at,             \* where each process is
    left,           \* places in Tables still to make, or in Tenants to look at
    indexing,       \* indexes still to make of the table it has just made
    adding,         \* tenants whose demo user it is about to add
    alone           \* history: no other process has run since it started

dbVars == <<tables, indexes, demos, at, left, indexing, adding, alone>>

DbInit ==
    /\ tables = {} /\ indexes = {} /\ demos = {}
    /\ at = [p \in Processes |-> "down"]
    /\ left = [p \in Processes |-> {}]
    /\ indexing = [p \in Processes |-> {}]
    /\ adding = [p \in Processes |-> {}]
    /\ alone = [p \in Processes |-> FALSE]

Goto(p, s) == at' = [at EXCEPT ![p] = s]

(* The place that comes next; what is to do is done in order. *)
Upcoming(p, i) == i \in left[p] /\ \A j \in left[p] : i <= j

Done(p, i) == left' = [left EXCEPT ![p] = @ \ {i}]

Running == {p \in Processes : at[p] \notin {"down", "failed", "refused"}}

Start(p) ==
    /\ p \notin Running
    /\ Goto(p, "started")
    /\ alone' = [q \in Processes |-> q = p /\ Running = {}]
    /\ UNCHANGED <<tables, indexes, demos, left, indexing, adding>>

(* Fault: create_all without a look at what is there. *)
MakeAll(p) ==
    /\ at[p] = "started"
    /\ left' = [left EXCEPT ![p] = DOMAIN Tables]
    /\ indexing' = [indexing EXCEPT ![p] = {}]
    /\ Goto(p, "creating")
    /\ UNCHANGED <<tables, indexes, demos, adding, alone>>

(* create_all looks at all tables first, and at no index. *)
LookForTables(p) ==
    /\ at[p] = "started"
    /\ left' = [left EXCEPT ![p] = {i \in DOMAIN Tables : Tables[i] \notin tables}]
    /\ indexing' = [indexing EXCEPT ![p] = {}]
    /\ Goto(p, "creating")
    /\ UNCHANGED <<tables, indexes, demos, adding, alone>>

(* Fault: a table that exists already ends create_all quietly. *)
CreateOrGoOn(p) ==
    /\ at[p] = "creating" /\ indexing[p] = {}
    /\ \E i \in DOMAIN Tables :
        /\ Upcoming(p, i)
        /\ IF Tables[i] \in tables
           THEN left' = [left EXCEPT ![p] = {}] /\ UNCHANGED <<tables, indexing>>
           ELSE /\ tables' = tables \cup {Tables[i]} /\ Done(p, i)
                /\ indexing' = [indexing EXCEPT ![p] = Indexes[Tables[i]]]
    /\ UNCHANGED <<indexes, demos, at, adding, alone>>

(* Each CREATE TABLE is committed by itself; one that exists is an error.  *)
CreateTable(p) ==
    /\ at[p] = "creating" /\ indexing[p] = {}
    /\ \E i \in DOMAIN Tables :
        /\ Upcoming(p, i)
        /\ IF Tables[i] \in tables
           THEN Goto(p, "failed") /\ UNCHANGED <<tables, left, indexing>>
           ELSE /\ tables' = tables \cup {Tables[i]} /\ Done(p, i) /\ UNCHANGED at
                /\ indexing' = [indexing EXCEPT ![p] = Indexes[Tables[i]]]
    /\ UNCHANGED <<indexes, demos, adding, alone>>

(* So is each CREATE INDEX of a new table, in the order of a Python set.   *)
(* One left out by a crash is left out for good: the table is there now.   *)
CreateIndex(p) ==
    /\ at[p] = "creating"
    /\ \E x \in indexing[p] :
        /\ indexing' = [indexing EXCEPT ![p] = @ \ {x}]
        /\ IF x \in indexes
           THEN Goto(p, "failed") /\ UNCHANGED indexes
           ELSE indexes' = indexes \cup {x} /\ UNCHANGED at
    /\ UNCHANGED <<tables, demos, left, adding, alone>>

(* The tenants are loaded next; a bad file among them ends the start.      *)
LoadTenants(p) ==
    /\ at[p] = "creating" /\ left[p] = {} /\ indexing[p] = {}
    /\ left' = [left EXCEPT ![p] = DOMAIN Tenants]
    /\ adding' = [adding EXCEPT ![p] = {}]
    /\ Goto(p, "seeding") \/ Goto(p, "refused")
    /\ UNCHANGED <<tables, indexes, demos, indexing, alone>>

LookForDemo(p) ==
    /\ at[p] = "seeding"
    /\ \E i \in DOMAIN Tenants :
        /\ Upcoming(p, i)
        /\ adding' = [adding EXCEPT ![p] = @ \cup ({Tenants[i]} \ demos)]
        /\ Done(p, i)
    /\ UNCHANGED <<tables, indexes, demos, at, indexing, alone>>

(* One transaction, which uq_user_tenant_username refuses as a whole.      *)
CommitDemos(p) ==
    /\ at[p] = "seeding" /\ left[p] = {}
    /\ IF adding[p] \cap demos = {}
       THEN Goto(p, "serving") /\ demos' = demos \cup adding[p]
       ELSE Goto(p, "failed") /\ UNCHANGED demos
    /\ UNCHANGED <<tables, indexes, left, indexing, adding, alone>>

(* Another process has kept the database for five seconds, busy_timeout.   *)
LockTimeout(p) ==
    /\ at[p] \in {"started", "creating", "seeding"} /\ Running # {p}
    /\ Goto(p, "failed")
    /\ UNCHANGED <<tables, indexes, demos, left, indexing, adding, alone>>

(* The process is stopped or killed; what it has committed stays.          *)
Crash(p) ==
    /\ p \in Running
    /\ Goto(p, "down")
    /\ UNCHANGED <<tables, indexes, demos, left, indexing, adding, alone>>

Step(p) ==
    \/ LookForTables(p) \/ CreateTable(p) \/ CreateIndex(p) \/ LoadTenants(p)
    \/ LookForDemo(p) \/ CommitDemos(p) \/ LockTimeout(p)

DbNext == \E p \in Processes : Start(p) \/ Step(p) \/ Crash(p)

DbSpec == DbInit /\ [][DbNext]_dbVars

-----------------------------------------------------------------------------
(* Properties *)

(* main.py:60-71.  A process that serves has every table and every demo    *)
(* user, whatever other processes have done or left undone.                *)
ServingIsComplete ==
    (\E p \in Processes : at[p] = "serving") => tables = Range(Tables) /\ demos = Range(Tenants)

(* main.py:68-70.  A start that the tenant files allow fails only when     *)
(* another process runs at the same time: the tables and demo users that a *)
(* crash has left out are made now, and those it has made are no error.    *)
LoneStartSucceeds == \A p \in Processes : at[p] = "failed" => ~alone[p]

-----------------------------------------------------------------------------
(* The inductive invariants behind the two properties *)

DbTypeOK ==
    /\ tables \subseteq Range(Tables) /\ demos \subseteq Range(Tenants)
    /\ at \in [Processes -> {"down", "started", "creating", "seeding", "serving",
                             "failed", "refused"}]
    /\ left \in [Processes -> SUBSET (DOMAIN Tables \cup DOMAIN Tenants)]
    /\ indexes \subseteq UNION {Indexes[t] : t \in tables}
    /\ indexing \in [Processes -> SUBSET UNION {Indexes[t] : t \in tables}]
    /\ adding \in [Processes -> SUBSET Range(Tenants)]
    /\ alone \in [Processes -> BOOLEAN]

(* What a process has not got on its list is in the database, or will be   *)
(* by its commit.                                                          *)
NothingIsForgotten ==
    \A p \in Processes :
        /\ at[p] = "creating" => \A i \in DOMAIN Tables \ left[p] : Tables[i] \in tables
        /\ at[p] \in {"seeding", "serving"} => tables = Range(Tables)
        /\ at[p] = "seeding" => \A i \in DOMAIN Tenants \ left[p] : Tenants[i] \in demos \cup adding[p]
        /\ at[p] = "serving" => demos = Range(Tenants)

(* A process that runs alone finds the database as it has seen it. *)
NothingIsStale ==
    \A p \in Processes : alone[p] =>
        /\ at[p] # "failed"
        /\ p \in Running => Running = {p}
        /\ at[p] = "creating" =>
               /\ left[p] \subseteq {i \in DOMAIN Tables : Tables[i] \notin tables}
               /\ indexing[p] \cap indexes = {}
        /\ at[p] = "seeding" => adding[p] \cap demos = {}
=============================================================================
