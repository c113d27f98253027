---------------------------- MODULE StartupProofs ----------------------------
(***************************************************************************)
(* What module Startup guarantees for every number of processes, tables    *)
(* and tenants: a process that serves found or made everything it needs,   *)
(* and one that nobody disturbs comes that far.                            *)
(***************************************************************************)
EXTENDS Startup, TLAPS

(* DbNext, one disjunct per action, each with its process. *)
LEMMA NextCases ==
    ASSUME DbNext
    PROVE  \E p \in Processes :
               \/ Start(p) \/ LookForTables(p) \/ CreateTable(p) \/ CreateIndex(p)
               \/ LoadTenants(p) \/ LookForDemo(p) \/ CommitDemos(p) \/ LockTimeout(p) \/ Crash(p)
<1> QED BY DEF DbNext, Step

(* Of the database a step adds at most what it should hold. *)
LEMMA DatabaseGrows ==
    ASSUME DbTypeOK, [DbNext]_dbVars
    PROVE  /\ tables \subseteq tables' /\ tables' \subseteq Range(Tables)
           /\ demos \subseteq demos' /\ demos' \subseteq Range(Tenants)
<1> USE DEF DbTypeOK
<1>1. CASE UNCHANGED dbVars
  BY <1>1 DEF dbVars
<1>2. ASSUME NEW p \in Processes, CreateTable(p)
      PROVE  tables \subseteq tables' /\ tables' \subseteq Range(Tables) /\ demos' = demos
  BY <1>2 DEF CreateTable, Range
<1>3. ASSUME NEW p \in Processes, CommitDemos(p)
      PROVE  demos \subseteq demos' /\ demos' \subseteq Range(Tenants) /\ tables' = tables
  BY <1>3 DEF CommitDemos
<1>4. ASSUME NEW p \in Processes,
             \/ Start(p) \/ LookForTables(p) \/ CreateIndex(p) \/ LoadTenants(p)
             \/ LookForDemo(p) \/ LockTimeout(p) \/ Crash(p)
      PROVE  UNCHANGED <<tables, demos>>
  BY <1>4 DEF Start, LookForTables, CreateIndex, LoadTenants, LookForDemo, LockTimeout, Crash
<1> QED BY <1>1, <1>2, <1>3, <1>4, NextCases

(* The types of start-up, main.py:60-71, for any number of processes. *)
THEOREM Typing == DbSpec => []DbTypeOK
<1>1. DbInit => DbTypeOK
  BY DEF DbInit, DbTypeOK
<1>2. DbTypeOK /\ [DbNext]_dbVars => DbTypeOK'
  <2> SUFFICES ASSUME DbTypeOK, [DbNext]_dbVars PROVE DbTypeOK'
    OBVIOUS
  <2>1. tables' \subseteq Range(Tables) /\ demos' \subseteq Range(Tenants)
    BY DatabaseGrows
  <2> USE DEF DbTypeOK, Goto, Done
  <2>2. CASE UNCHANGED dbVars
    BY <2>2 DEF dbVars
  <2>3. ASSUME NEW p \in Processes, Start(p) PROVE DbTypeOK'
    BY <2>3 DEF Start
  <2>4. ASSUME NEW p \in Processes, LookForTables(p) PROVE DbTypeOK'
    BY <2>4 DEF LookForTables
  <2>5. ASSUME NEW p \in Processes, CreateTable(p) PROVE DbTypeOK'
    <3>1. UNION {Indexes[t] : t \in tables} \subseteq UNION {Indexes[t] : t \in tables'}
      BY DatabaseGrows
    <3>2. /\ at' \in [Processes -> {"down", "started", "creating", "seeding", "serving",
                                    "failed", "refused"}]
          /\ left' \in [Processes -> SUBSET (DOMAIN Tables \cup DOMAIN Tenants)]
          /\ indexes' = indexes /\ adding' = adding /\ alone' = alone
      BY <2>5 DEF CreateTable
    <3>3. indexing' \in [Processes -> SUBSET UNION {Indexes[t] : t \in tables'}]
      BY <2>5, <3>1 DEF CreateTable
    <3> QED BY <2>1, <3>1, <3>2, <3>3
  <2>6. ASSUME NEW p \in Processes, LoadTenants(p) PROVE DbTypeOK'
    BY <2>6 DEF LoadTenants
  <2>9. ASSUME NEW p \in Processes, CreateIndex(p) PROVE DbTypeOK'
    BY <2>9 DEF CreateIndex
  <2>7. ASSUME NEW p \in Processes, LookForDemo(p) PROVE DbTypeOK'
    BY <2>7 DEF LookForDemo, Range
  <2>8. ASSUME NEW p \in Processes, CommitDemos(p) \/ LockTimeout(p) \/ Crash(p) PROVE DbTypeOK'
    BY <2>1, <2>8 DEF CommitDemos, LockTimeout, Crash
  <2> QED BY <2>2, <2>3, <2>4, <2>5, <2>6, <2>7, <2>8, <2>9, NextCases
<1> QED BY <1>1, <1>2, PTL DEF DbSpec

-----------------------------------------------------------------------------
(* A process that serves has everything. *)

(* What is not on a process's list is there, and stays: this holds however *)
(* far other processes, killed or not, have come.                          *)
LEMMA ForgetsNothing ==
    ASSUME DbTypeOK, NothingIsForgotten, [DbNext]_dbVars
    PROVE  NothingIsForgotten'
<1> SUFFICES ASSUME NEW q \in Processes
             PROVE
        /\ at'[q] = "creating" => \A i \in DOMAIN Tables \ left'[q] : Tables[i] \in tables'
        /\ at'[q] \in {"seeding", "serving"} => tables' = Range(Tables)
        /\ at'[q] = "seeding" => \A i \in DOMAIN Tenants \ left'[q] : Tenants[i] \in demos' \cup adding'[q]
        /\ at'[q] = "serving" => demos' = Range(Tenants)
  BY DEF NothingIsForgotten
<1> USE DEF DbTypeOK, NothingIsForgotten, Goto, Done
<1>1. /\ tables \subseteq tables' /\ tables' \subseteq Range(Tables)
      /\ demos \subseteq demos' /\ demos' \subseteq Range(Tenants)
  BY DatabaseGrows
<1>2. CASE at'[q] = at[q] /\ left'[q] = left[q] /\ adding'[q] = adding[q]
  BY <1>1, <1>2
<1>3. CASE at'[q] \in {"started", "down", "failed", "refused"}
  BY <1>3
<1>4. CASE UNCHANGED dbVars
  BY <1>2, <1>4 DEF dbVars
<1>5. ASSUME NEW p \in Processes,
             \/ Start(p) \/ LookForTables(p) \/ CreateTable(p) \/ CreateIndex(p)
             \/ LoadTenants(p) \/ LookForDemo(p) \/ CommitDemos(p) \/ LockTimeout(p) \/ Crash(p),
             q # p
      PROVE  at'[q] = at[q] /\ left'[q] = left[q] /\ adding'[q] = adding[q]
  BY <1>5 DEF Start, LookForTables, CreateTable, CreateIndex, LoadTenants, LookForDemo,
              CommitDemos, LockTimeout, Crash
<1>6. CASE Start(q) \/ LockTimeout(q) \/ Crash(q)
  BY <1>3, <1>6 DEF Start, LockTimeout, Crash
<1>7. CASE LookForTables(q)
  BY <1>7 DEF LookForTables
<1>8. CASE CreateTable(q)
  <2>1. PICK i \in DOMAIN Tables :
            /\ Upcoming(q, i)
            /\ IF Tables[i] \in tables
               THEN Goto(q, "failed") /\ UNCHANGED <<tables, left, indexing>>
               ELSE /\ tables' = tables \cup {Tables[i]} /\ Done(q, i) /\ UNCHANGED at
                    /\ indexing' = [indexing EXCEPT ![q] = Indexes[Tables[i]]]
    BY <1>8 DEF CreateTable
  <2>2. CASE Tables[i] \in tables
    BY <1>3, <2>1, <2>2
  <2>3. CASE Tables[i] \notin tables
    BY <1>8, <2>1, <2>3 DEF CreateTable
  <2> QED BY <2>2, <2>3
<1>9. CASE LoadTenants(q)
  <2>1. at'[q] \in {"seeding", "refused"} /\ left'[q] = DOMAIN Tenants /\ tables' = tables
    BY <1>9 DEF LoadTenants
  <2>2. tables = Range(Tables)
    BY <1>1, <1>9 DEF LoadTenants, Range
  <2> QED BY <2>1, <2>2
<1>12. CASE CreateIndex(q)
  <2>1. at'[q] \in {"creating", "failed"} /\ at[q] = "creating" /\ UNCHANGED <<tables, left>>
    BY <1>12 DEF CreateIndex
  <2> QED BY <2>1
<1>10. CASE LookForDemo(q)
  <2>1. PICK i \in DOMAIN Tenants :
            /\ adding' = [adding EXCEPT ![q] = @ \cup ({Tenants[i]} \ demos)]
            /\ Done(q, i)
    BY <1>10 DEF LookForDemo
  <2>2. at[q] = "seeding" /\ UNCHANGED <<tables, demos, at>>
    BY <1>10 DEF LookForDemo
  <2> QED BY <2>1, <2>2
<1>11. CASE CommitDemos(q)
  <2>1. CASE adding[q] \cap demos = {}
    <3>1. at'[q] = "serving" /\ demos' = demos \cup adding[q] /\ tables' = tables
      BY <1>11, <2>1 DEF CommitDemos
    <3>2. at[q] = "seeding" /\ \A i \in DOMAIN Tenants : Tenants[i] \in demos \cup adding[q]
      BY <1>11 DEF CommitDemos
    <3>3. demos' = Range(Tenants)
      BY <1>1, <3>1, <3>2 DEF Range
    <3> QED BY <3>1, <3>2, <3>3
  <2>2. CASE adding[q] \cap demos # {}
    BY <1>3, <1>11, <2>2 DEF CommitDemos
  <2> QED BY <2>1, <2>2
<1> QED BY <1>2, <1>4, <1>5, <1>6, <1>7, <1>8, <1>9, <1>10, <1>11, <1>12, NextCases

(* A process that serves has every table and every demo user, whatever the *)
(* others have done, left undone or done at the same time.                 *)
THEOREM CompleteWhenServing == DbSpec => []ServingIsComplete
<1>1. DbInit => NothingIsForgotten
  BY DEF DbInit, NothingIsForgotten
<1>2. DbTypeOK /\ NothingIsForgotten /\ [DbNext]_dbVars => NothingIsForgotten'
  BY ForgetsNothing
<1>3. NothingIsForgotten => ServingIsComplete
  BY DEF NothingIsForgotten, ServingIsComplete
<1> QED BY Typing, <1>1, <1>2, <1>3, PTL DEF DbSpec

-----------------------------------------------------------------------------
(* A process that nobody disturbs does not fail. *)

(* While one process runs alone, no other takes a step but to start, which *)
(* ends its being alone.                                                   *)
LEMMA OnlyStepOfTheLone ==
    ASSUME DbTypeOK, NothingIsStale, NEW p \in Processes, NEW q \in Processes, q # p,
           \/ LookForTables(p) \/ CreateTable(p) \/ CreateIndex(p) \/ LoadTenants(p)
           \/ LookForDemo(p) \/ CommitDemos(p) \/ LockTimeout(p) \/ Crash(p),
           alone'[q]
    PROVE  alone[q] /\ q \notin Running /\ at'[q] = at[q]
<1>1. p \in Running
  BY DEF LookForTables, CreateTable, CreateIndex, LoadTenants, LookForDemo, CommitDemos,
         LockTimeout, Crash, Running
<1>2. alone[q] /\ at'[q] = at[q]
  BY DEF LookForTables, CreateTable, CreateIndex, LoadTenants, LookForDemo, CommitDemos,
         LockTimeout, Crash, Goto, DbTypeOK
<1> QED BY <1>1, <1>2 DEF NothingIsStale

(* What a lone process has seen stays true until another starts. *)
LEMMA StaysFresh ==
    ASSUME DbTypeOK, NothingIsStale, [DbNext]_dbVars
    PROVE  NothingIsStale'
<1> SUFFICES ASSUME NEW q \in Processes, alone'[q]
             PROVE  /\ at'[q] # "failed"
                    /\ q \in Running' => Running' = {q}
                    /\ at'[q] = "creating" =>
                           /\ left'[q] \subseteq {i \in DOMAIN Tables : Tables[i] \notin tables'}
                           /\ indexing'[q] \cap indexes' = {}
                    /\ at'[q] = "seeding" => adding'[q] \cap demos' = {}
  BY DEF NothingIsStale
<1> USE DEF DbTypeOK, Goto, Done
<1>1. CASE UNCHANGED dbVars
  BY <1>1 DEF dbVars, NothingIsStale, Running
<1>2. ASSUME NEW p \in Processes, Start(p)
      PROVE  q = p /\ at'[q] = "started" /\ Running' = {q}
  BY <1>2 DEF Start, Running
<1>3. ASSUME NEW p \in Processes, q # p,
             \/ LookForTables(p) \/ CreateTable(p) \/ CreateIndex(p) \/ LoadTenants(p)
             \/ LookForDemo(p) \/ CommitDemos(p) \/ LockTimeout(p) \/ Crash(p)
      PROVE  at'[q] \in {"down", "refused"} /\ q \notin Running'
  <2>1. alone[q] /\ q \notin Running /\ at'[q] = at[q]
    BY <1>3, OnlyStepOfTheLone
  <2> QED BY <2>1 DEF NothingIsStale, Running
<1>4. ASSUME \/ LookForTables(q) \/ CreateTable(q) \/ CreateIndex(q) \/ LoadTenants(q)
             \/ LookForDemo(q) \/ CommitDemos(q) \/ LockTimeout(q)
      PROVE  /\ alone[q] /\ Running = {q}
             /\ q \in Running' => Running' = {q}
  <2>1. alone[q] /\ q \in Running
    BY <1>4 DEF LookForTables, CreateTable, CreateIndex, LoadTenants, LookForDemo, CommitDemos,
                LockTimeout, Running
  <2>2. Running = {q}
    BY <2>1 DEF NothingIsStale
  <2>3. \A p \in Processes \ {q} : at'[p] = at[p]
    BY <1>4 DEF LookForTables, CreateTable, CreateIndex, LoadTenants, LookForDemo, CommitDemos,
                LockTimeout
  <2> QED BY <2>1, <2>2, <2>3 DEF Running
<1>5. CASE LookForTables(q)
  BY <1>4, <1>5 DEF LookForTables
<1>6. CASE CreateTable(q)
  <2>1. /\ at[q] = "creating"
        /\ left[q] \subseteq {i \in DOMAIN Tables : Tables[i] \notin tables}
    BY <1>4, <1>6 DEF CreateTable, NothingIsStale
  <2>2. PICK i \in DOMAIN Tables :
            /\ i \in left[q] /\ tables' = tables \cup {Tables[i]} /\ Done(q, i) /\ UNCHANGED at
            /\ indexing' = [indexing EXCEPT ![q] = Indexes[Tables[i]]] /\ indexes' = indexes
    BY <1>6, <2>1 DEF CreateTable, Upcoming
  <2>3. \A j \in left[q] \ {i} : Tables[j] # Tables[i]
    BY <2>1, SchemaAssumption
  <2>4. Indexes[Tables[i]] \cap indexes = {}
    <3>1. Tables[i] \in Range(Tables) \ tables
      BY <2>1, <2>2 DEF Range
    <3>2. \A t \in tables : Indexes[t] \cap Indexes[Tables[i]] = {}
      BY <3>1, SchemaAssumption
    <3> QED BY <3>2
  <2> QED BY <1>4, <1>6, <2>1, <2>2, <2>3, <2>4
<1>7. CASE LoadTenants(q)
  BY <1>4, <1>7 DEF LoadTenants
<1>11. CASE CreateIndex(q)
  <2>1. PICK x \in indexing[q] :
            /\ indexing' = [indexing EXCEPT ![q] = @ \ {x}]
            /\ IF x \in indexes
               THEN Goto(q, "failed") /\ UNCHANGED indexes
               ELSE indexes' = indexes \cup {x} /\ UNCHANGED at
    BY <1>11 DEF CreateIndex
  <2>2. indexing[q] \cap indexes = {} /\ at[q] = "creating" /\ UNCHANGED <<tables, left>>
        /\ left[q] \subseteq {i \in DOMAIN Tables : Tables[i] \notin tables}
    BY <1>4, <1>11 DEF CreateIndex, NothingIsStale
  <2> QED BY <1>4, <1>11, <2>1, <2>2
<1>12. CASE LockTimeout(q)
  BY <1>4, <1>12 DEF LockTimeout
<1>8. CASE LookForDemo(q)
  <2>1. at[q] = "seeding" /\ at' = at /\ demos' = demos
    BY <1>8 DEF LookForDemo
  <2>2. adding[q] \cap demos = {}
    BY <1>4, <1>8, <2>1 DEF NothingIsStale
  <2>3. adding'[q] \cap demos = {}
    BY <1>8, <2>2 DEF LookForDemo
  <2> QED BY <1>4, <1>8, <2>1, <2>3
<1>9. CASE CommitDemos(q)
  <2>1. adding[q] \cap demos = {}
    BY <1>4, <1>9 DEF CommitDemos, NothingIsStale
  <2> QED BY <1>4, <1>9, <2>1 DEF CommitDemos
<1>10. CASE Crash(q)
  BY <1>10 DEF Crash, Running
<1> QED BY <1>1, <1>2, <1>3, <1>5, <1>6, <1>7, <1>8, <1>9, <1>10, <1>11, <1>12, NextCases

(* A start that the tenant files allow fails only when another process     *)
(* runs at the same time: the tables and demo users a crash has left out   *)
(* are made, and those it has made are no error.                           *)
THEOREM LoneStart == DbSpec => []LoneStartSucceeds
<1>1. DbInit => NothingIsStale
  BY DEF DbInit, NothingIsStale
<1>2. DbTypeOK /\ NothingIsStale /\ [DbNext]_dbVars => NothingIsStale'
  BY StaysFresh
<1>3. NothingIsStale => LoneStartSucceeds
  BY DEF NothingIsStale, LoneStartSucceeds
<1> QED BY Typing, <1>1, <1>2, <1>3, PTL DEF DbSpec
=============================================================================
