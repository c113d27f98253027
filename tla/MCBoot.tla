-------------------------------- MODULE MCBoot --------------------------------
(* The two things a service does before its first request: it loads the      *)
(* tenant files (TenantRegistry) and prepares the database (Startup).  They   *)
(* share no state, so a behaviour is one of them, and part says which.        *)
(*                                                                            *)
(* Two tenant files and three spellings of two host names.  Beside the good   *)
(* files there is one that shares the other's host name in another case, one  *)
(* with the other's id, and one without a host name.  Three processes: two    *)
(* that race for the database, and one that starts when they are half way.    *)
(* The tables of app/models.py, and two tenants, so that each racer can be    *)
(* first at one of them.                                                      *)
EXTENDS TenantRegistry, Startup

CONSTANTS
    acme, Acme, globex,   \* two spellings of one host name, and another
    text1, text2, number2 \* id: "1", id: "2" and id: 2

VARIABLE part

MCHostnames == {acme, Acme, globex}
MCLower == [n \in MCHostnames |-> IF n = Acme THEN acme ELSE n]
MCRawIds == {text1, text2, number2}
MCStr == [x \in MCRawIds |-> IF x = text1 THEN 1 ELSE 2]
MCDocs ==
    {[id |-> text1, hostname |-> acme], [id |-> text1, hostname |-> NoHost],
     [id |-> text2, hostname |-> Acme], [id |-> number2, hostname |-> globex]}

MCTables  == <<"users", "tasks", "revoked_tokens">>
MCIndexes == [t \in {"users", "tasks", "revoked_tokens"} |->
    CASE t = "users" -> {"ix_users_tenant_id", "ix_users_username"}
      [] t = "tasks" -> {"ix_tasks_owner_id", "ix_tasks_tenant_id"}
      [] OTHER       -> {}]
MCTenants == <<1, 2>>

MCInit ==
    /\ part \in {"files", "database"}
    /\ Init /\ DbInit
    /\ part = "database" => Present = {}

MCNext ==
    /\ UNCHANGED part
    /\ \/ part = "files" /\ Next /\ UNCHANGED dbVars
       \/ part = "database" /\ DbNext /\ UNCHANGED vars

MCSpec == MCInit /\ [][MCNext]_<<part, vars, dbVars>>
=============================================================================
