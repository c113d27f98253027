------------------------ MODULE ConnectionPoolProofs ------------------------
(***************************************************************************)
(* What module ConnectionPool guarantees for every number of requests,     *)
(* workers and connections: the safety of the pool.  That requests end is  *)
(* a matter of fairness and is model-checked.                              *)
(***************************************************************************)
EXTENDS ConnectionPool, FiniteSetTheorems, TLAPS

(* The stages in which a session may have a connection checked out. *)
Checked == {"await_handler", "handler", "locking", "writing", "closing"}

HoldersRun == \A r \in conn : stage[r] \in Checked

IInv == TypeOK /\ HoldersRun /\ Cardinality(conn) <= PoolSize

(* At first nobody holds a connection or a worker. *)
LEMMA IInvInit == Init => IInv
BY PoolAssumption, FS_EmptySet DEF Init, IInv, TypeOK, HoldersRun, Stages, Outcomes

(* A step that takes no connection leaves the pool no fuller. *)
LEMMA FewerHeld ==
    ASSUME IInv, conn' \subseteq conn
    PROVE  Cardinality(conn') <= PoolSize
<1>1. IsFiniteSet(conn) /\ Cardinality(conn') <= Cardinality(conn)
  BY PoolAssumption, FS_Subset DEF IInv, TypeOK
<1>2. Cardinality(conn) \in Nat /\ Cardinality(conn') \in Nat
  BY <1>1, FS_Subset, FS_CardinalityType
<1> QED BY <1>1, <1>2, PoolAssumption DEF IInv

(* The one connection taken was free. *)
LEMMA OneMoreHeld ==
    ASSUME IInv, ~ Exhausted, NEW r \in Requests
    PROVE  Cardinality(conn \cup {r}) <= PoolSize
<1>1. IsFiniteSet(conn)
  BY PoolAssumption, FS_Subset DEF IInv, TypeOK
<1>2. Cardinality(conn) \in Nat /\ Cardinality(conn) < PoolSize
  BY <1>1, FS_CardinalityType, PoolAssumption DEF Exhausted
<1>3. Cardinality(conn \cup {r}) = IF r \in conn THEN Cardinality(conn) ELSE Cardinality(conn) + 1
  BY <1>1, FS_AddElement
<1> QED BY <1>2, <1>3, PoolAssumption

(* Connections are taken and given back as the stages of requests say. *)
LEMMA IInvStep == IInv /\ [Next]_vars => IInv'
<1> SUFFICES ASSUME IInv, [Next]_vars PROVE IInv'
  OBVIOUS
<1> USE DEF IInv, TypeOK, HoldersRun, Stages, OnWorker, Outcomes, Checked, At
<1>1. ASSUME NEW r \in Requests,
             Arrive(r) \/ StartAuth(r) \/ StartHandler(r) \/ RefuseToken(r) \/ PoolTimeout(r)
               \/ ReadOnly(r) \/ BeginWrite(r) \/ TakeLock(r) \/ BusyTimeout(r)
      PROVE  IInv'
  BY <1>1 DEF Arrive, StartAuth, StartHandler, RefuseToken, PoolTimeout, ReadOnly, BeginWrite,
     TakeLock, BusyTimeout, Goto, Finish
<1>2. ASSUME NEW r \in Requests, Authenticate(r) \/ Refresh(r) PROVE IInv'
  <2>1. Cardinality(conn') <= PoolSize
    BY <1>2, OneMoreHeld DEF Authenticate, Refresh
  <2> QED BY <1>2, <2>1 DEF Authenticate, Refresh, Goto, Finish
<1>3. ASSUME NEW r \in Requests, Commit(r) \/ Close(r) PROVE IInv'
  <2>1. conn' = conn \ {r}
    BY <1>3 DEF Commit, Close
  <2>2. Cardinality(conn') <= PoolSize
    BY <2>1, FewerHeld
  <2> QED BY <1>3, <2>1, <2>2 DEF Commit, Close, Goto, Finish
<1>4. CASE UNCHANGED vars
  BY <1>4 DEF vars
<1> QED BY <1>1, <1>2, <1>3, <1>4 DEF Next, OnWorkerStep

(* The invariant behind the theorems below. *)
THEOREM Invariance == Spec => []IInv
<1>1. Init => IInv
  BY IInvInit
<1>2. IInv /\ [Next]_vars => IInv'
  BY IInvStep
<1> QED BY <1>1, <1>2, PTL DEF Spec

(* Every variable keeps its type. *)
THEOREM Typing == Spec => []TypeOK
<1>1. IInv => TypeOK
  BY DEF IInv
<1> QED BY <1>1, Invariance, PTL

(* db.py:90-92, for every number of requests: the pool is never overdrawn, *)
(* and a request that has ended holds none of it.                          *)
THEOREM ComesBack == Spec => []ConnectionsComeBack
<1>1. IInv => ConnectionsComeBack
  BY DEF IInv, TypeOK, HoldersRun, Checked, ConnectionsComeBack, Active, At
<1> QED BY <1>1, Invariance, PTL

(* For every size of the pool: no request is refused for want of a         *)
(* connection unless more are in flight than there are connections.        *)
THEOREM NoRefusal == Spec => NoRefusalWithinPool
<1> DEFINE Crowded == (\E r \in Requests : outcome'[r] = "pool_timeout" /\ outcome[r] = "none")
                          => Cardinality(Active) > PoolSize
<1>1. ASSUME IInv, NEW r \in Requests, PoolTimeout(r) PROVE Cardinality(Active) > PoolSize
  <2>1. conn \subseteq Active \ {r} /\ r \in Active
    BY <1>1 DEF IInv, TypeOK, HoldersRun, Checked, Active, At, PoolTimeout
  <2>2. IsFiniteSet(Active) /\ IsFiniteSet(Active \ {r})
    BY PoolAssumption, FS_Subset DEF Active
  <2>3. Cardinality(conn) <= Cardinality(Active \ {r}) /\ IsFiniteSet(conn)
    BY <2>1, <2>2, FS_Subset
  <2>4. Cardinality(Active \ {r}) = Cardinality(Active) - 1
    BY <2>1, <2>2, FS_RemoveElement
  <2>5. Cardinality(conn) \in Nat /\ Cardinality(Active) \in Nat
    BY <2>2, <2>3, FS_CardinalityType
  <2>6. Cardinality(conn) >= PoolSize
    BY <1>1 DEF PoolTimeout, Exhausted
  <2> QED BY <2>3, <2>4, <2>5, <2>6, PoolAssumption
<1>2. ASSUME IInv, [Next]_vars, NEW r \in Requests, outcome'[r] = "pool_timeout", outcome[r] = "none"
      PROVE  \E q \in Requests : PoolTimeout(q)
  BY <1>2 DEF IInv, TypeOK, Next, OnWorkerStep, vars, Arrive, StartAuth, StartHandler, RefuseToken,
     Authenticate, ReadOnly, BeginWrite, TakeLock, BusyTimeout, Commit, Refresh, Close, Goto, Finish
<1>3. IInv /\ [Next]_vars => [Crowded]_vars
  BY <1>1, <1>2
<1> QED BY <1>3, Invariance, PTL DEF Spec, NoRefusalWithinPool
=============================================================================
