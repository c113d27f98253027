--------------------------- MODULE SessionsProofs ---------------------------
(***************************************************************************)
(* What module Sessions guarantees for every number of requests, tenants,  *)
(* users and tokens: its types, and the inductive invariant IInv with the  *)
(* safety properties that follow from it.                                  *)
(***************************************************************************)
EXTENDS Sessions, TLAPS

(* Next, one disjunct per action. *)
LEMMA NextCases ==
    ASSUME Next
    PROVE  \/ \E r \in Requests, e \in Called, h \in Hosts, t \in Bearers : Receive(r, e, h, t)
           \/ \E r \in Requests : DecodeToken(r)
           \/ \E r \in Requests : CheckRevoked(r)
           \/ \E r \in Requests : LoadUser(r)
           \/ \E r \in Requests : Serve(r)
           \/ \E r \in Requests : CurrentJti(r)
           \/ \E r \in Requests : LookupRevoked(r)
           \/ \E r \in Requests : InsertRevoked(r)
           \/ \E r \in Requests : AnswerLogout(r)
           \/ \E r \in Requests, h \in Hosts, n \in Usernames, good \in BOOLEAN :
                  Login(r, h, n, good)
           \/ \E r \in Requests, h \in Hosts, n \in Usernames : CreateTestUser(r, h, n)
           \/ \E r \in Requests : Close(r)
           \/ \E j \in Jtis : Expire(j)
           \/ Restart
<1> QED BY DEF Next, Running, RequestStep, CurrentUser, Logout

(* seed_demo_users on an empty table gives every tenant its demo account. *)
LEMMA SeedsEmpty ==
    ASSUME NEW us, us = [u \in UserIds |-> NoUser]
    PROVE  /\ Seeded(us) \in [UserIds -> Accounts \cup {NoUser}]
           /\ \A t \in Tenants : Seeded(us)[DemoUser[t]] = [tenant |-> t, name |-> DemoName]
<1> USE SessionsAssumption
<1>1. \A t \in Tenants : ~ Registered(us, t, DemoName)
  BY DEF Registered
<1>2. \A t \in Tenants : (CHOOSE s \in Tenants : DemoUser[t] = DemoUser[s]) = t
  OBVIOUS
<1>3. \A t \in Tenants : Seeded(us)[DemoUser[t]] = [tenant |-> t, name |-> DemoName]
  BY <1>1, <1>2 DEF Seeded
<1>4. \A u \in UserIds : Seeded(us)[u] \in Accounts \cup {NoUser}
  BY <1>1 DEF Seeded, Accounts
<1> QED BY <1>3, <1>4 DEF Seeded

(* Once every tenant has its demo account, seed_demo_users changes nothing. *)
LEMMA SeedsOnce ==
    ASSUME TypeOK, DemoAccountsStand
    PROVE  Seeded(users) = users
<1> USE SessionsAssumption
<1>1. \A t \in Tenants : Registered(users, t, DemoName)
  <2> TAKE t \in Tenants
  <2>1. DemoUser[t] \in UserIds /\ users[DemoUser[t]] = [tenant |-> t, name |-> DemoName]
    BY DEF DemoAccountsStand
  <2>2. users[DemoUser[t]] # NoUser
    BY <2>1 DEF Accounts
  <2> QED BY <2>1, <2>2 DEF Registered
<1>2. Seeded(users) = [u \in UserIds |-> users[u]]
  BY <1>1 DEF Seeded
<1> QED BY <1>2 DEF TypeOK

-----------------------------------------------------------------------------
(* Types.  Restart needs DemoAccountsStand and LoadUser needs TokenInHand,  *)
(* so the three go together.                                               *)

Typed == TypeOK /\ DemoAccountsStand /\ TokenInHand

(* The service starts with its demo accounts and no token. *)
LEMMA TypedInit == Init => Typed
<1> SUFFICES ASSUME Init PROVE Typed
  OBVIOUS
<1> USE SessionsAssumption
<1>3. TokenInHand
  BY DEF Init, TokenInHand
<1>1. TypeOK
  BY SeedsEmpty DEF Init, TypeOK, Steps, Endpoints, Hosts, Bearers, Replies
<1>2. DemoAccountsStand
  BY SeedsEmpty DEF Init, DemoAccountsStand
<1> QED BY <1>1, <1>2, <1>3 DEF Typed

(* Every step keeps the types, the demo accounts and the tokens in hand. *)
LEMMA TypedStep == Typed /\ [Next]_vars => Typed'
<1> SUFFICES ASSUME TypeOK, DemoAccountsStand, TokenInHand, [Next]_vars PROVE Typed'
  BY DEF Typed
<1> USE SessionsAssumption DEF TypeOK, Accounts, Claims, Hosts, Bearers, Guarded,
        Endpoints, Steps, Replies, Refusals, Errors, rows, asked, Typed
<1>1. CASE UNCHANGED vars
  BY <1>1 DEF vars, DemoAccountsStand, TokenInHand
<1>2. ASSUME NEW r \in Requests, NEW e \in Called, NEW h \in Hosts, NEW t \in Bearers,
             Receive(r, e, h, t)
      PROVE  Typed'
  <2>1. e \in {"me", "tasks", "logout"}
    OBVIOUS
  <2>2. TypeOK'
    BY <1>2, <2>1 DEF Receive
  <2>3. DemoAccountsStand' /\ TokenInHand'
    BY <1>2 DEF Receive, DemoAccountsStand, TokenInHand
  <2> QED BY <2>2, <2>3
<1>3. ASSUME NEW r \in Requests, DecodeToken(r) PROVE Typed'
  <2>1. Headers(r) \in Replies
    BY DEF Headers
  <2>2. Headers(r) = "ok" => tok[r] \in Jtis
    BY DEF Headers
  <2> QED BY <1>3, <2>1, <2>2 DEF DecodeToken, Goto, Answer, DemoAccountsStand, TokenInHand
<1>4. ASSUME NEW r \in Requests, CheckRevoked(r) PROVE Typed'
  BY <1>4 DEF CheckRevoked, Goto, Answer, DemoAccountsStand, TokenInHand
<1>5. ASSUME NEW r \in Requests, LoadUser(r) PROVE Typed'
  <2>1. claims[tok[r]] \in Claims /\ tok[r] \in Jtis
    BY <1>5 DEF LoadUser, TokenInHand
  <2>2. claims[tok[r]].sub \in UserIds
    BY <2>1
  <2>3. TypeOK'
    BY <1>5, <2>2 DEF LoadUser, Goto, Answer
  <2>4. DemoAccountsStand' /\ TokenInHand'
    BY <1>5, <2>1 DEF LoadUser, Goto, Answer, DemoAccountsStand, TokenInHand
  <2> QED BY <2>3, <2>4
<1>6. ASSUME NEW r \in Requests, Serve(r) PROVE Typed'
  BY <1>6 DEF Serve, Answer, DemoAccountsStand, TokenInHand
<1>7. ASSUME NEW r \in Requests, CurrentJti(r) PROVE Typed'
  BY <1>7 DEF CurrentJti, Goto, Answer, DemoAccountsStand, TokenInHand
<1>8. ASSUME NEW r \in Requests, LookupRevoked(r) PROVE Typed'
  BY <1>8 DEF LookupRevoked, Goto, DemoAccountsStand, TokenInHand
<1>9. ASSUME NEW r \in Requests, InsertRevoked(r) PROVE Typed'
  BY <1>9 DEF InsertRevoked, Goto, Answer, DemoAccountsStand, TokenInHand
<1>10. ASSUME NEW r \in Requests, AnswerLogout(r) PROVE Typed'
  BY <1>10 DEF AnswerLogout, DemoAccountsStand, TokenInHand
<1>11. ASSUME NEW r \in Requests, NEW h \in Hosts, NEW n \in Usernames, NEW good \in BOOLEAN,
              Login(r, h, n, good)
       PROVE  Typed'
  <2>1. /\ claims' \in [Jtis -> Claims \cup {NoToken}]
        /\ \A j \in Jtis : claims[j] # NoToken => claims'[j] = claims[j]
    <3>1. CASE UNCHANGED claims
      BY <3>1
    <3>2. ASSUME NEW u \in UserIds, NEW j \in Jtis, Matches(u, n, h), h # NoTenant,
                 CreateToken(j, u, h)
          PROVE  /\ claims' \in [Jtis -> Claims \cup {NoToken}]
                 /\ \A k \in Jtis : claims[k] # NoToken => claims'[k] = claims[k]
      BY <3>2 DEF CreateToken
    <3> QED BY <1>11, <3>1, <3>2 DEF Login
  <2>2. TypeOK'
    BY <1>11, <2>1 DEF Login, Arrive, Answer
  <2>3. DemoAccountsStand'
    BY <1>11 DEF Login, DemoAccountsStand
  <2>4. TokenInHand'
    BY <1>11, <2>1 DEF Login, Arrive, Answer, TokenInHand
  <2> QED BY <2>2, <2>3, <2>4
<1>12. ASSUME NEW r \in Requests, NEW h \in Hosts, NEW n \in Usernames, CreateTestUser(r, h, n)
       PROVE  Typed'
  BY <1>12 DEF CreateTestUser, AddUser, Arrive, Answer, DemoAccountsStand, TokenInHand
<1>13. ASSUME NEW r \in Requests, Close(r) PROVE Typed'
  BY <1>13 DEF Close, NoRequest, DemoAccountsStand, TokenInHand
<1>14. ASSUME NEW j \in Jtis, Expire(j) PROVE Typed'
  BY <1>14 DEF Expire, DemoAccountsStand, TokenInHand
<1>15. CASE Restart
  <2>1. users' = users
    BY <1>15, SeedsOnce DEF Restart
  <2> QED BY <1>15, <2>1 DEF Restart, NoRequest, DemoAccountsStand, TokenInHand
<1> QED BY <1>1, <1>2, <1>3, <1>4, <1>5, <1>6, <1>7, <1>8, <1>9, <1>10, <1>11,
           <1>12, <1>13, <1>14, <1>15, NextCases

(* Every variable of the request path and of the tables keeps its type. *)
THEOREM Typing == Spec => []TypeOK
<1>1. Typed => TypeOK
  BY DEF Typed
<1> QED BY TypedInit, TypedStep, <1>1, PTL DEF Spec

-----------------------------------------------------------------------------
(* The tables only grow: accounts and tokens stay what they were. *)

(* No step changes an account or a token that exists. *)
LEMMA TablesGrow ==
    ASSUME Typed, [Next]_vars
    PROVE  /\ \A u \in UserIds : users[u] # NoUser => users'[u] = users[u]
           /\ \A j \in Jtis : claims[j] # NoToken => claims'[j] = claims[j]
           /\ revoked \subseteq revoked'
<1> USE DEF Typed, TypeOK, rows
<1>1. CASE UNCHANGED vars
  BY <1>1 DEF vars
<1>2. ASSUME NEW r \in Requests, NEW h \in Hosts, NEW n \in Usernames, NEW good \in BOOLEAN,
             Login(r, h, n, good)
      PROVE  /\ UNCHANGED <<users, revoked>>
             /\ \A j \in Jtis : claims[j] # NoToken => claims'[j] = claims[j]
  BY <1>2 DEF Login, CreateToken
<1>3. ASSUME NEW r \in Requests, NEW h \in Hosts, NEW n \in Usernames, CreateTestUser(r, h, n)
      PROVE  /\ UNCHANGED <<claims, revoked>>
             /\ \A u \in UserIds : users[u] # NoUser => users'[u] = users[u]
  BY <1>3 DEF CreateTestUser, AddUser
<1>4. CASE Restart
  BY <1>4, SeedsOnce DEF Restart
<1>5. ASSUME NEW r \in Requests, InsertRevoked(r)
      PROVE  UNCHANGED <<users, claims>> /\ revoked \subseteq revoked'
  BY <1>5 DEF InsertRevoked
<1>6. CASE \E r \in Requests, e \in Called, h \in Hosts, t \in Bearers : Receive(r, e, h, t)
  BY <1>6 DEF Receive
<1>7. CASE \E r \in Requests : \/ DecodeToken(r) \/ CheckRevoked(r) \/ LoadUser(r) \/ Serve(r)
                                \/ CurrentJti(r) \/ LookupRevoked(r) \/ AnswerLogout(r)
                                \/ Close(r)
  BY <1>7 DEF DecodeToken, CheckRevoked, LoadUser, Serve, CurrentJti, LookupRevoked,
              AnswerLogout, Close
<1>8. CASE \E j \in Jtis : Expire(j)
  BY <1>8 DEF Expire
<1> QED BY <1>1, <1>2, <1>3, <1>4, <1>5, <1>6, <1>7, <1>8, NextCases

(* login finds the user within the tenant of the host and puts both in the *)
(* token; no step changes an account or a token afterwards.                *)
LEMMA TokensStep ==
    ASSUME Typed, TokensNameTheirAccount, [Next]_vars
    PROVE  TokensNameTheirAccount'
<1> USE SessionsAssumption DEF Typed, TypeOK, rows, TokensNameTheirAccount
<1>1. ASSUME NEW j \in Jtis, claims[j] # NoToken
      PROVE  /\ users'[claims'[j].sub] # NoUser
             /\ users'[claims'[j].sub].tenant = claims'[j].tenant
  <2>1. claims[j].sub \in UserIds
    BY <1>1 DEF Claims
  <2> QED BY <1>1, <2>1, TablesGrow
<1>2. ASSUME NEW j \in Jtis, claims[j] = NoToken, claims'[j] # NoToken
      PROVE  /\ users'[claims'[j].sub] # NoUser
             /\ users'[claims'[j].sub].tenant = claims'[j].tenant
  <2>1. PICK r \in Requests, h \in Hosts, n \in Usernames, good \in BOOLEAN :
              Login(r, h, n, good)
    <3>1. ~ Restart /\ ~ UNCHANGED vars
      BY <1>2 DEF Restart, vars
    <3>2. ~ \E r \in Requests, h \in Hosts, n \in Usernames : CreateTestUser(r, h, n)
      BY <1>2 DEF CreateTestUser
    <3>3. ~ \E r \in Requests, e \in Called, h \in Hosts, t \in Bearers : Receive(r, e, h, t)
      BY <1>2 DEF Receive
    <3>4. ~ \E r \in Requests : \/ DecodeToken(r) \/ CheckRevoked(r) \/ LoadUser(r)
                                 \/ Serve(r) \/ CurrentJti(r) \/ LookupRevoked(r)
                                 \/ InsertRevoked(r) \/ AnswerLogout(r) \/ Close(r)
      BY <1>2 DEF DecodeToken, CheckRevoked, LoadUser, Serve, CurrentJti, LookupRevoked,
                  InsertRevoked, AnswerLogout, Close
    <3>5. ~ \E i \in Jtis : Expire(i)
      BY <1>2 DEF Expire
    <3> QED BY <3>1, <3>2, <3>3, <3>4, <3>5, NextCases
  <2>2. PICK u \in UserIds, i \in Jtis : Matches(u, n, h) /\ CreateToken(i, u, h)
    BY <1>2, <2>1 DEF Login
  <2>3. i = j /\ claims'[j] = [sub |-> u, tenant |-> h]
    BY <1>2, <2>2 DEF CreateToken
  <2> QED BY <2>1, <2>2, <2>3 DEF Login, Matches
<1> QED BY <1>1, <1>2

(* A token and the account it names always agree on the tenant, so neither *)
(* unknown_user nor the second tenant_mismatch of current_user is given.   *)
THEOREM TokensAgree == Spec => []TokensNameTheirAccount
<1>1. Init => TokensNameTheirAccount
  BY DEF Init, TokensNameTheirAccount
<1>2. Typed /\ TokensNameTheirAccount /\ [Next]_vars => TokensNameTheirAccount'
  BY TokensStep
<1> QED BY TypedInit, TypedStep, <1>1, <1>2, PTL DEF Spec

-----------------------------------------------------------------------------
(* The unique constraint keeps what seeding begins with. *)

(* The demo accounts of the first start are of different tenants. *)
LEMMA NamesInit == Init => OneAccountPerName
<1> SUFFICES ASSUME Init, NEW u \in UserIds, NEW v \in UserIds, users[u] # NoUser, users[u] = users[v]
             PROVE  u = v
  BY DEF OneAccountPerName
<1> USE SessionsAssumption
<1> DEFINE none == [w \in UserIds |-> NoUser]
<1>1. users = Seeded(none)
  BY DEF Init
<1>2. ASSUME NEW w \in UserIds, users[w] # NoUser
      PROVE  \E t \in Tenants : w = DemoUser[t]
  BY <1>1, <1>2 DEF Seeded
<1>3. \A t \in Tenants : users[DemoUser[t]] = [tenant |-> t, name |-> DemoName]
  BY <1>1, SeedsEmpty
<1>4. PICK t \in Tenants : u = DemoUser[t]
  BY <1>2
<1>5. PICK s \in Tenants : v = DemoUser[s]
  BY <1>2
<1>6. [tenant |-> t, name |-> DemoName].tenant = [tenant |-> s, name |-> DemoName].tenant
  BY <1>3, <1>4, <1>5
<1> QED BY <1>4, <1>5, <1>6

(* A new account has a name that is not taken; a restart adds none. *)
LEMMA NamesStep ==
    ASSUME Typed, OneAccountPerName, [Next]_vars
    PROVE  OneAccountPerName'
<1> USE SessionsAssumption DEF Typed, TypeOK, rows
<1>1. CASE UNCHANGED users
  BY <1>1 DEF OneAccountPerName
<1>2. ASSUME NEW r \in Requests, NEW h \in Hosts, NEW n \in Usernames, CreateTestUser(r, h, n)
      PROVE  OneAccountPerName'
  <2>1. CASE UNCHANGED users
    BY <1>1, <2>1
  <2>2. CASE ~ Registered(users, h, n) /\ AddUser(h, n)
    <3>1. PICK w \in UserIds : users' = [users EXCEPT ![w] = [tenant |-> h, name |-> n]]
      BY <2>2 DEF AddUser
    <3>2. \A u \in UserIds : users[u] # NoUser => users[u] # [tenant |-> h, name |-> n]
      BY <2>2 DEF Registered
    <3> QED BY <3>1, <3>2 DEF OneAccountPerName
  <2> QED BY <1>2, <2>1, <2>2 DEF CreateTestUser
<1>3. CASE Restart
  BY <1>1, <1>3, SeedsOnce DEF Restart
<1>4. CASE \E r \in Requests, e \in Called, h \in Hosts, t \in Bearers : Receive(r, e, h, t)
  BY <1>1, <1>4 DEF Receive
<1>5. CASE \E r \in Requests : \/ DecodeToken(r) \/ CheckRevoked(r) \/ LoadUser(r) \/ Serve(r)
                                \/ CurrentJti(r) \/ LookupRevoked(r) \/ InsertRevoked(r)
                                \/ AnswerLogout(r) \/ Close(r)
  BY <1>1, <1>5 DEF DecodeToken, CheckRevoked, LoadUser, Serve, CurrentJti, LookupRevoked,
                    InsertRevoked, AnswerLogout, Close
<1>6. CASE \E r \in Requests, h \in Hosts, n \in Usernames, good \in BOOLEAN : Login(r, h, n, good)
  BY <1>1, <1>6 DEF Login
<1>7. CASE \E j \in Jtis : Expire(j)
  BY <1>1, <1>7 DEF Expire
<1> QED BY <1>1, <1>2, <1>3, <1>4, <1>5, <1>6, <1>7, NextCases DEF vars

(* No customer ever has two accounts of one name, so the first account that *)
(* login's query finds is the only one.                                    *)
THEOREM NamesAreUnique == Spec => []OneAccountPerName
<1>1. Typed /\ OneAccountPerName /\ [Next]_vars => OneAccountPerName'
  BY NamesStep
<1> QED BY TypedInit, TypedStep, NamesInit, <1>1, PTL DEF Spec

-----------------------------------------------------------------------------
(* The request path.  What a request has been through is read off its      *)
(* step; the other requests' steps leave it alone, and the tables they     *)
(* change only grow.                                                       *)

Path == /\ StepsAreEarned
        /\ AnsweredAtOwnAddress
        /\ LogoutIsDurable
        /\ LostRacesEndTheToken
        /\ LateStopsShort

(* At first no request has come any way. *)
LEMMA PathInit == Init => Path
BY DEF Init, Path, StepsAreEarned, AnsweredAtOwnAddress, LogoutIsDurable,
       LostRacesEndTheToken, LateStopsShort, Admitted, Guarded

(* Every step of the code establishes what the next one relies on. *)
LEMMA PathStep ==
    ASSUME Typed, TokensNameTheirAccount, Path, [Next]_vars
    PROVE  Path'
<1> USE SessionsAssumption DEF Typed, TypeOK, TokenInHand, Path, StepsAreEarned,
        AnsweredAtOwnAddress, LogoutIsDurable, LostRacesEndTheToken, LateStopsShort,
        Admitted, Guarded, rows, asked
<1> /\ \A u \in UserIds : users[u] # NoUser => users'[u] = users[u]
    /\ \A j \in Jtis : claims[j] # NoToken => claims'[j] = claims[j]
    /\ revoked \subseteq revoked'
  BY TablesGrow
<1>1. CASE UNCHANGED vars
  BY <1>1 DEF vars
<1>2. ASSUME NEW r \in Requests, NEW e \in Called, NEW h \in Hosts, NEW t \in Bearers,
             Receive(r, e, h, t)
      PROVE  Path'
  <2>1. UNCHANGED <<users, claims, expired, revoked, user, reply, loggedOut>>
    BY <1>2 DEF Receive
  <2>2. \A q \in Requests \ {r} : /\ step'[q] = step[q] /\ endpoint'[q] = endpoint[q]
                                 /\ host'[q] = host[q] /\ tok'[q] = tok[q] /\ late'[q] = late[q]
    BY <1>2 DEF Receive
  <2>3. /\ step'[r] = "arrived" /\ reply[r] = "none"
        /\ endpoint'[r] \in {"me", "tasks", "logout"}
        /\ late'[r] => tok'[r] \in loggedOut
    BY <1>2 DEF Receive
  <2> QED BY <2>1, <2>2, <2>3
<1>3. ASSUME NEW r \in Requests, DecodeToken(r) PROVE Path'
  <2>1. Headers(r) # "server_error"
    BY DEF Headers
  <2> QED BY <1>3, <2>1 DEF DecodeToken, Goto, Answer
<1>4. ASSUME NEW r \in Requests, CheckRevoked(r) PROVE Path'
  BY <1>4 DEF CheckRevoked, Goto, Answer, AtOwnAddress
<1>5. ASSUME NEW r \in Requests, LoadUser(r) PROVE Path'
  <2>1. UNCHANGED <<users, claims, expired, revoked, endpoint, host, tok, late, loggedOut>>
    BY <1>5 DEF LoadUser, Goto, Answer
  <2>2. tok[r] \in Jtis /\ ~ late[r] /\ reply[r] = "none" /\ endpoint[r] \in {"me", "tasks", "logout"}
    BY <1>5 DEF LoadUser
  <2>3. /\ \A q \in Requests \ {r} : step'[q] = step[q] /\ reply'[q] = reply[q] /\ user'[q] = user[q]
        /\ \/ step'[r] = "replied" /\ reply'[r] \in {"unknown_user", "tenant_mismatch"}
           \/ /\ step'[r] = "handler" /\ reply'[r] = "none"
              /\ user'[r] = claims[tok[r]].sub
              /\ users[user'[r]].tenant = host[r]
    BY <1>5, <2>2 DEF LoadUser, Goto, Answer, AtOwnAddress
  <2> QED BY <2>1, <2>2, <2>3
<1>6. ASSUME NEW r \in Requests, Serve(r) PROVE Path'
  BY <1>6 DEF Serve, Answer
<1>7. ASSUME NEW r \in Requests, CurrentJti(r) PROVE Path'
  BY <1>7 DEF CurrentJti, Goto, Answer
<1>8. ASSUME NEW r \in Requests, LookupRevoked(r) PROVE Path'
  BY <1>8 DEF LookupRevoked, Goto
<1>9. ASSUME NEW r \in Requests, InsertRevoked(r) PROVE Path'
  BY <1>9 DEF InsertRevoked, Goto, Answer
<1>10. ASSUME NEW r \in Requests, AnswerLogout(r) PROVE Path'
  BY <1>10 DEF AnswerLogout
<1>11. ASSUME NEW r \in Requests, NEW h \in Hosts, NEW n \in Usernames, NEW good \in BOOLEAN,
              Login(r, h, n, good)
       PROVE  Path'
  BY <1>11 DEF Login, Arrive, Answer
<1>12. ASSUME NEW r \in Requests, NEW h \in Hosts, NEW n \in Usernames, CreateTestUser(r, h, n)
       PROVE  Path'
  <2>1. UNCHANGED <<claims, expired, revoked, tok, late, user, loggedOut>>
    BY <1>12 DEF CreateTestUser, AddUser, Arrive, Answer
  <2>2. \A q \in Requests \ {r} : /\ step'[q] = step[q] /\ endpoint'[q] = endpoint[q]
                                 /\ host'[q] = host[q] /\ reply'[q] = reply[q]
    BY <1>12 DEF CreateTestUser, AddUser, Arrive, Answer
  <2>3. step'[r] = "replied" /\ endpoint'[r] = "test_users"
    BY <1>12 DEF CreateTestUser, AddUser, Arrive, Answer
  <2>4. ASSUME NEW q \in Requests, Admitted(q)
        PROVE  users'[user[q]] = users[user[q]]
    <3>1. tok[q] \in Jtis /\ claims[tok[q]] # NoToken /\ user[q] = claims[tok[q]].sub
      BY <2>4
    <3>2. user[q] \in UserIds
      BY <3>1 DEF Claims
    <3>3. users[user[q]] # NoUser
      BY <3>1 DEF TokensNameTheirAccount
    <3> QED BY <3>2, <3>3
  <2> QED BY <2>1, <2>2, <2>3, <2>4
<1>13. ASSUME NEW r \in Requests, Close(r) PROVE Path'
  BY <1>13 DEF Close, NoRequest
<1>14. ASSUME NEW j \in Jtis, Expire(j) PROVE Path'
  BY <1>14 DEF Expire
<1>15. CASE Restart
  BY <1>15 DEF Restart, NoRequest
<1> QED BY <1>1, <1>2, <1>3, <1>4, <1>5, <1>6, <1>7, <1>8, <1>9, <1>10, <1>11,
           <1>12, <1>13, <1>14, <1>15, NextCases

(* IInv is an invariant: the base of the safety theorems below. *)
THEOREM Invariance == Spec => []IInv
<1>1. Init => TokensNameTheirAccount
  BY DEF Init, TokensNameTheirAccount
<1>2. Typed /\ TokensNameTheirAccount /\ Path /\ [Next]_vars
        => TokensNameTheirAccount' /\ Path'
  BY TokensStep, PathStep
<1>3. Typed /\ TokensNameTheirAccount /\ OneAccountPerName /\ Path => IInv
  BY DEF IInv, Typed, Path
<1> QED BY TypedInit, TypedStep, PathInit, NamesAreUnique, <1>1, <1>2, <1>3, PTL DEF Spec

-----------------------------------------------------------------------------
(* current_user lets nobody in at another customer's address, nor for a    *)
(* user other than the one the token names.                                *)
THEOREM OwnAddress == Spec => []AnsweredAtOwnAddress
<1>1. IInv => AnsweredAtOwnAddress
  BY DEF IInv
<1> QED BY Invariance, <1>1, PTL

(* After a logout has been answered 204, nothing that arrives with the     *)
(* token is let in, across any races with requests in flight and restarts. *)
THEOREM LogoutFinality == Spec => []LogoutIsFinal
<1>1. IInv => LogoutIsFinal
  BY DEF IInv, LateStopsShort, LogoutIsFinal
<1> QED BY Invariance, <1>1, PTL

(* A token whose logout was answered 204 is in revoked_tokens and stays. *)
THEOREM LogoutDurability == Spec => []LogoutIsDurable
<1>1. IInv => LogoutIsDurable
  BY DEF IInv
<1> QED BY Invariance, <1>1, PTL

(* A logout whose 500 is not a time-out has left the token revoked or      *)
(* expired: it was second at the primary key, or late for the second decode.*)
THEOREM LostRaces == Spec => []LostRacesEndTheToken
<1>1. IInv => LostRacesEndTheToken
  BY DEF IInv
<1> QED BY Invariance, <1>1, PTL

(* No step revokes a token other than by a logout that presents it. *)
THEOREM OneDevice == Spec => OnlyThisToken
<1>1. IInv /\ [Next]_vars =>
        [\A j \in revoked' \ revoked :
            \E r \in Requests : Admitted(r) /\ endpoint[r] = "logout" /\ tok[r] = j]_vars
  <2> SUFFICES ASSUME IInv, Next, NEW j \in revoked' \ revoked
               PROVE  \E r \in Requests : Admitted(r) /\ endpoint[r] = "logout" /\ tok[r] = j
    OBVIOUS
  <2>1. PICK r \in Requests : InsertRevoked(r)
    <3>1. ~ Restart
      BY DEF Restart
    <3>2. ~ \E r \in Requests, h \in Hosts, n \in Usernames, good \in BOOLEAN : Login(r, h, n, good)
      BY DEF Login
    <3>3. ~ \E r \in Requests, h \in Hosts, n \in Usernames : CreateTestUser(r, h, n)
      BY DEF CreateTestUser
    <3>4. ~ \E r \in Requests, e \in Called, h \in Hosts, t \in Bearers : Receive(r, e, h, t)
      BY DEF Receive, rows
    <3>5. ~ \E r \in Requests : \/ DecodeToken(r) \/ CheckRevoked(r) \/ LoadUser(r)
                                 \/ Serve(r) \/ CurrentJti(r) \/ LookupRevoked(r)
                                 \/ AnswerLogout(r) \/ Close(r)
      BY DEF DecodeToken, CheckRevoked, LoadUser, Serve, CurrentJti, LookupRevoked,
             AnswerLogout, Close, rows
    <3>6. ~ \E i \in Jtis : Expire(i)
      BY DEF Expire
    <3> QED BY <3>1, <3>2, <3>3, <3>4, <3>5, <3>6, NextCases
  <2>2. tok[r] = j /\ step[r] = "insert"
    BY <2>1 DEF InsertRevoked
  <2>3. endpoint[r] = "logout"
    BY <2>2 DEF IInv, StepsAreEarned
  <2> QED BY <2>2, <2>3 DEF Admitted, Guarded
<1> QED BY Invariance, <1>1, PTL DEF Spec, OnlyThisToken
=============================================================================
