------------------------------ MODULE Sessions ------------------------------
(***************************************************************************)
(* Who is calling, and from which customer's address: app/main.py from     *)
(* current_tenant to me, app/auth.py's tokens, and the users and           *)
(* revoked_tokens tables of app/models.py.                                 *)
(*                                                                         *)
(* Requests are served by a thread pool, one database session each.  A     *)
(* SELECT runs in autocommit and sees the last commit, so every read is a  *)
(* step of its own; a single INSERT with its COMMIT is one step.           *)
(*                                                                         *)
(* Whoever needs a connection from the pool, or the write lock, may wait   *)
(* in vain: others hold them, here or in another process (ConnectionPool). *)
(* A time-out is a 500 like any other; its reply is "timed_out" here, so   *)
(* that properties can tell it from the 500 of an exception that the       *)
(* request has brought on itself, "server_error".                          *)
(***************************************************************************)
EXTENDS FiniteSets

CONSTANTS
    Requests,        \* slots for requests in flight
    Called,          \* the endpoints behind current_user that clients call
    Tenants,         \* customers the service knows
    UserIds,         \* bound on users ever created
    Usernames,
    Jtis,            \* bound on tokens ever issued
    DemoUser,        \* the id usr_demo_<tenant> of each tenant's demo account
    DemoName,        \* the username "demo"
    TestEndpoints,   \* ENABLE_TEST_ENDPOINTS is exactly "true"
    NoTenant,        \* a Host header that names no customer
    NoUser,          \* no row in the users table
    NoToken,         \* no bearer token; a jti not issued yet
    BadToken         \* a bearer token that does not verify

Guarded  == {"me", "tasks", "logout"}     \* endpoints behind current_user
Accounts == [tenant : Tenants, name : Usernames]
Claims   == [sub : UserIds, tenant : Tenants]
Hosts    == Tenants \cup {NoTenant}
Bearers  == Jtis \cup {NoToken, BadToken}

ASSUME SessionsAssumption ==
    /\ Called \subseteq Guarded
    /\ DemoUser \in [Tenants -> UserIds]
    /\ \A t1, t2 \in Tenants : DemoUser[t1] = DemoUser[t2] => t1 = t2
    /\ DemoName \in Usernames
    /\ TestEndpoints \in BOOLEAN
    /\ NoTenant \notin Tenants
    /\ NoUser \notin UserIds \cup Accounts
    /\ NoToken \notin Jtis \cup Claims
    /\ BadToken \notin Jtis \cup {NoToken}

VARIABLES
    users,      \* the users table
    claims,     \* what each issued token says (sub and tenant)
    expired,    \* tokens past their exp
    revoked,    \* the revoked_tokens table
    step,       \* where each request stands
    endpoint, host, tok,  \* what it asks for, at which address, with which token
    user,       \* the account current_user returned
    reply,      \* the code of the answer, "ok" for a success, or the kind of a 500
    loggedOut,  \* history: tokens for which a logout was answered 204
    late        \* history: the request arrived after such an answer

rows == <<users, claims, expired, revoked>>
vars == <<users, claims, expired, revoked, step, endpoint, host, tok, user,
          reply, loggedOut, late>>

Endpoints == Guarded \cup {"login", "test_users", "none"}
Steps     == {"idle", "arrived", "check_revoked", "load_user", "handler",
              "lookup", "insert", "committed", "replied"}
Refusals  == {"unknown_tenant", "missing_token", "invalid_token",
              "token_expired", "token_revoked", "tenant_mismatch",
              "unknown_user", "invalid_credentials", "not_found"}
Errors    == {"server_error", "timed_out"}     \* a 500, both
Replies   == Refusals \cup Errors \cup {"none", "ok"}

-----------------------------------------------------------------------------
(* The users table *)

Registered(us, t, n) ==
    \E u \in UserIds : us[u] # NoUser /\ us[u].tenant = t /\ us[u].name = n

(* seed_demo_users: every tenant without a "demo" account gets one. *)
Seeded(us) ==
    [u \in UserIds |->
        IF \E t \in Tenants : u = DemoUser[t] /\ ~ Registered(us, t, DemoName)
        THEN [tenant |-> CHOOSE t \in Tenants : u = DemoUser[t], name |-> DemoName]
        ELSE us[u]]

(* Fault: every address accepts every tenant. *)
AtAnyAddress(r, t) == TRUE

(* The one comparison both tenant checks of current_user make. *)
AtOwnAddress(r, t) == t = host[r]

Init ==
    /\ users = Seeded([u \in UserIds |-> NoUser])
    /\ claims = [j \in Jtis |-> NoToken]
    /\ expired = {} /\ revoked = {} /\ loggedOut = {}
    /\ step = [r \in Requests |-> "idle"]
    /\ endpoint = [r \in Requests |-> "none"]
    /\ host = [r \in Requests |-> NoTenant]
    /\ tok = [r \in Requests |-> NoToken]
    /\ user = [r \in Requests |-> NoUser]
    /\ reply = [r \in Requests |-> "none"]
    /\ late = [r \in Requests |-> FALSE]

-----------------------------------------------------------------------------
(* Request plumbing *)

Goto(r, s) ==
    /\ step' = [step EXCEPT ![r] = s]
    /\ UNCHANGED <<reply, loggedOut>>

Answer(r, a) ==
    /\ step' = [step EXCEPT ![r] = "replied"]
    /\ reply' = [reply EXCEPT ![r] = a]
    /\ UNCHANGED loggedOut

asked == <<endpoint, host, tok, late>>

(* A request for a guarded endpoint arrives.  Clients present no token, a  *)
(* token that does not verify, or one that login has issued.               *)
Receive(r, e, h, t) ==
    /\ step[r] = "idle"
    /\ t \in Jtis => claims[t] # NoToken
    /\ step' = [step EXCEPT ![r] = "arrived"]
    /\ endpoint' = [endpoint EXCEPT ![r] = e]
    /\ host' = [host EXCEPT ![r] = h]
    /\ tok' = [tok EXCEPT ![r] = t]
    /\ late' = [late EXCEPT ![r] = t \in loggedOut]
    /\ UNCHANGED <<rows, user, reply, loggedOut>>

-----------------------------------------------------------------------------
(* current_tenant, then current_user: the checks in the order of the code. *)

(* What current_tenant and decode_token make of the headers, "ok" if they  *)
(* raise nothing.                                                          *)
Headers(r) ==
    IF host[r] = NoTenant THEN "unknown_tenant"
    ELSE IF tok[r] = NoToken THEN "missing_token"
    ELSE IF tok[r] = BadToken THEN "invalid_token"
    ELSE IF tok[r] \in expired THEN "token_expired"
    ELSE "ok"

DecodeToken(r) ==
    /\ step[r] = "arrived"
    /\ \/ Headers(r) = "ok" /\ Goto(r, "check_revoked")
       \/ Headers(r) # "ok" /\ Answer(r, Headers(r))
    /\ UNCHANGED <<rows, asked, user>>

(* Fault: the revoked_tokens table is not consulted. *)
CheckTenantOnly(r) ==
    /\ step[r] = "check_revoked"
    /\ IF AtOwnAddress(r, claims[tok[r]].tenant)
       THEN Goto(r, "load_user")
       ELSE Answer(r, "tenant_mismatch")
    /\ UNCHANGED <<rows, asked, user>>

(* SELECT from revoked_tokens, for which the session needs a connection;   *)
(* then the token's tenant against the host.                               *)
CheckRevoked(r) ==
    /\ step[r] = "check_revoked"
    /\ \/ Answer(r, "timed_out")
       \/ tok[r] \in revoked /\ Answer(r, "token_revoked")
       \/ /\ tok[r] \notin revoked
          /\ ~ AtOwnAddress(r, claims[tok[r]].tenant)
          /\ Answer(r, "tenant_mismatch")
       \/ /\ tok[r] \notin revoked
          /\ AtOwnAddress(r, claims[tok[r]].tenant)
          /\ Goto(r, "load_user")
    /\ UNCHANGED <<rows, asked, user>>

(* Fault: the row is returned where the id is expected. *)
LoadRow(r) ==
    /\ step[r] = "load_user"
    /\ user' = [user EXCEPT ![r] = users[claims[tok[r]].sub]]
    /\ Goto(r, "handler")
    /\ UNCHANGED <<rows, asked>>

(* SELECT from users, then the stored user's tenant against the host. *)
LoadUser(r) ==
    /\ step[r] = "load_user"
    /\ LET u == claims[tok[r]].sub IN
       \/ users[u] = NoUser /\ Answer(r, "unknown_user") /\ UNCHANGED user
       \/ /\ users[u] # NoUser
          /\ ~ AtOwnAddress(r, users[u].tenant)
          /\ Answer(r, "tenant_mismatch")
          /\ UNCHANGED user
       \/ /\ users[u] # NoUser
          /\ AtOwnAddress(r, users[u].tenant)
          /\ user' = [user EXCEPT ![r] = u]
          /\ Goto(r, "handler")
    /\ UNCHANGED <<rows, asked>>

-----------------------------------------------------------------------------
(* The handlers behind current_user *)

(* me, and a task handler, whose work is the subject of module Tasks. *)
Serve(r) ==
    /\ step[r] = "handler"
    /\ endpoint[r] \in {"me", "tasks"}
    /\ Answer(r, "ok")
    /\ UNCHANGED <<rows, asked, user>>

(* _current_jti decodes the token a second time and catches nothing. *)
CurrentJti(r) ==
    /\ step[r] = "handler"
    /\ endpoint[r] = "logout"
    /\ \/ tok[r] \in expired /\ Answer(r, "server_error")
       \/ tok[r] \notin expired /\ Goto(r, "lookup")
    /\ UNCHANGED <<rows, asked, user>>

(* Fault: logout answers without writing anything. *)
SkipRevoked(r) ==
    /\ step[r] = "lookup"
    /\ Goto(r, "committed")
    /\ UNCHANGED <<rows, asked, user>>

(* logout: db.get(RevokedToken, jti). *)
LookupRevoked(r) ==
    /\ step[r] = "lookup"
    /\ Goto(r, IF tok[r] \in revoked THEN "committed" ELSE "insert")
    /\ UNCHANGED <<rows, asked, user>>

(* Fault: every token of the user is revoked. *)
RevokeEveryDevice(r) ==
    /\ step[r] = "insert"
    /\ revoked' = revoked \cup {j \in Jtis : claims[j] # NoToken /\ claims[j].sub = user[r]}
    /\ Goto(r, "committed")
    /\ UNCHANGED <<users, claims, expired, asked, user>>

(* Fault: the table has one row for each user, not for each token. *)
InsertPerUser(r) ==
    /\ step[r] = "insert"
    /\ \/ /\ \A j \in revoked : claims[j].sub # user[r]
          /\ revoked' = revoked \cup {tok[r]}
          /\ Goto(r, "committed")
       \/ /\ \E j \in revoked : claims[j].sub = user[r]
          /\ Answer(r, "server_error")
          /\ UNCHANGED revoked
    /\ UNCHANGED <<users, claims, expired, asked, user>>

(* logout: INSERT and COMMIT.  The primary key refuses a second row, and   *)
(* the IntegrityError reaches the client as a 500; so does the             *)
(* OperationalError of a wait for the write lock that is over.             *)
InsertRevoked(r) ==
    /\ step[r] = "insert"
    /\ \/ /\ tok[r] \notin revoked
          /\ revoked' = revoked \cup {tok[r]}
          /\ Goto(r, "committed")
       \/ tok[r] \in revoked /\ Answer(r, "server_error") /\ UNCHANGED revoked
       \/ Answer(r, "timed_out") /\ UNCHANGED revoked
    /\ UNCHANGED <<users, claims, expired, asked, user>>

(* logout returns, and its 204 goes out. *)
AnswerLogout(r) ==
    /\ step[r] = "committed"
    /\ step' = [step EXCEPT ![r] = "replied"]
    /\ reply' = [reply EXCEPT ![r] = "ok"]
    /\ loggedOut' = loggedOut \cup {tok[r]}
    /\ UNCHANGED <<rows, asked, user>>

-----------------------------------------------------------------------------
(* The handlers that need no token.  Each makes one database statement,    *)
(* and may wait in vain for its connection or for the lock.                *)

Arrive(r, e, h) ==
    /\ step[r] = "idle"
    /\ endpoint' = [endpoint EXCEPT ![r] = e]
    /\ host' = [host EXCEPT ![r] = h]
    /\ UNCHANGED <<tok, late, user>>

(* Fault: the lookup is not scoped to the tenant. *)
MatchesAnywhere(u, n, h) == users[u] # NoUser /\ users[u].name = n

(* The account login finds: the username within the tenant of the host. *)
Matches(u, n, h) == users[u] # NoUser /\ users[u].tenant = h /\ users[u].name = n

(* create_token: a fresh jti, for this user at this tenant. *)
CreateToken(j, u, h) ==
    /\ claims[j] = NoToken
    /\ claims' = [claims EXCEPT ![j] = [sub |-> u, tenant |-> h]]

Login(r, h, n, passwordRight) ==
    /\ Arrive(r, "login", h)
    /\ \/ h = NoTenant /\ Answer(r, "unknown_tenant") /\ UNCHANGED claims
       \/ h # NoTenant /\ Answer(r, "timed_out") /\ UNCHANGED claims
       \/ /\ h # NoTenant
          /\ ~ passwordRight \/ \A u \in UserIds : ~ Matches(u, n, h)
          /\ Answer(r, "invalid_credentials")
          /\ UNCHANGED claims
       \/ /\ h # NoTenant
          /\ passwordRight
          /\ \E u \in UserIds, j \in Jtis : Matches(u, n, h) /\ CreateToken(j, u, h)
          /\ Answer(r, "ok")
    /\ UNCHANGED <<users, expired, revoked>>

AddUser(h, n) ==
    \E u \in UserIds :
        /\ users[u] = NoUser
        /\ users' = [users EXCEPT ![u] = [tenant |-> h, name |-> n]]

(* Fault: no unique constraint on (tenant_id, username). *)
CreateAnyUser(r, h, n) ==
    /\ Arrive(r, "test_users", h)
    /\ \/ h = NoTenant /\ Answer(r, "unknown_tenant") /\ UNCHANGED users
       \/ h # NoTenant /\ ~ TestEndpoints /\ Answer(r, "not_found") /\ UNCHANGED users
       \/ h # NoTenant /\ TestEndpoints /\ AddUser(h, n) /\ Answer(r, "ok")
    /\ UNCHANGED <<claims, expired, revoked>>

(* create_test_user: the environment gate, then an INSERT under the unique *)
(* constraint on (tenant_id, username), then a refresh that needs a        *)
(* connection again.                                                       *)
CreateTestUser(r, h, n) ==
    /\ Arrive(r, "test_users", h)
    /\ \/ h = NoTenant /\ Answer(r, "unknown_tenant") /\ UNCHANGED users
       \/ h # NoTenant /\ ~ TestEndpoints /\ Answer(r, "not_found") /\ UNCHANGED users
       \/ /\ h # NoTenant /\ TestEndpoints
          /\ Registered(users, h, n)
          /\ Answer(r, "server_error")
          /\ UNCHANGED users
       \/ /\ h # NoTenant /\ TestEndpoints
          /\ Answer(r, "timed_out")
          /\ UNCHANGED users
       \/ /\ h # NoTenant /\ TestEndpoints
          /\ ~ Registered(users, h, n)
          /\ AddUser(h, n)
          /\ Answer(r, "ok") \/ Answer(r, "timed_out")
    /\ UNCHANGED <<claims, expired, revoked>>

-----------------------------------------------------------------------------
(* The rest of the world *)

(* TOKEN_TTL_MINUTES pass. *)
Expire(j) ==
    /\ claims[j] # NoToken
    /\ j \notin expired
    /\ expired' = expired \cup {j}
    /\ UNCHANGED <<users, claims, revoked, step, asked, user, reply, loggedOut>>

NoRequest(R) ==
    /\ step' = [r \in Requests |-> IF r \in R THEN "idle" ELSE step[r]]
    /\ endpoint' = [r \in Requests |-> IF r \in R THEN "none" ELSE endpoint[r]]
    /\ host' = [r \in Requests |-> IF r \in R THEN NoTenant ELSE host[r]]
    /\ tok' = [r \in Requests |-> IF r \in R THEN NoToken ELSE tok[r]]
    /\ user' = [r \in Requests |-> IF r \in R THEN NoUser ELSE user[r]]
    /\ reply' = [r \in Requests |-> IF r \in R THEN "none" ELSE reply[r]]
    /\ late' = [r \in Requests |-> IF r \in R THEN FALSE ELSE late[r]]
    /\ UNCHANGED loggedOut

(* The answer has been delivered; the slot is free again. *)
Close(r) ==
    /\ step[r] = "replied"
    /\ NoRequest({r})
    /\ UNCHANGED rows

(* The server stops and starts again: requests in flight are lost, the     *)
(* database survives, and lifespan seeds the demo accounts.                *)
Restart ==
    /\ NoRequest(Requests)
    /\ users' = Seeded(users)
    /\ UNCHANGED <<claims, expired, revoked>>

CurrentUser(r) == DecodeToken(r) \/ CheckRevoked(r) \/ LoadUser(r)
Logout(r) == CurrentJti(r) \/ LookupRevoked(r) \/ InsertRevoked(r) \/ AnswerLogout(r)

RequestStep(r) == CurrentUser(r) \/ Serve(r) \/ Logout(r)

(* What a server that stays up may do. *)
Running ==
    \/ \E r \in Requests :
        \/ \E e \in Called, h \in Hosts, t \in Bearers : Receive(r, e, h, t)
        \/ RequestStep(r)
        \/ \E h \in Hosts, n \in Usernames :
            \/ \E good \in BOOLEAN : Login(r, h, n, good)
            \/ CreateTestUser(r, h, n)
        \/ Close(r)
    \/ \E j \in Jtis : Expire(j)

Next == Running \/ Restart

Spec == Init /\ [][Next]_vars

(* A server that stays up schedules every request it has taken on: a       *)
(* thread of the pool runs the handler until it returns.                   *)
Fairness == \A r \in Requests : WF_vars(RequestStep(r))

FairSpec == Init /\ [][Running]_vars /\ Fairness

-----------------------------------------------------------------------------
(* Properties *)

TypeOK ==
    /\ users \in [UserIds -> Accounts \cup {NoUser}]
    /\ claims \in [Jtis -> Claims \cup {NoToken}]
    /\ expired \subseteq Jtis /\ revoked \subseteq Jtis /\ loggedOut \subseteq Jtis
    /\ step \in [Requests -> Steps]
    /\ endpoint \in [Requests -> Endpoints]
    /\ host \in [Requests -> Hosts]
    /\ tok \in [Requests -> Bearers]
    /\ user \in [Requests -> UserIds \cup {NoUser}]
    /\ reply \in [Requests -> Replies]
    /\ late \in [Requests -> BOOLEAN]

(* current_user has let the request in, and it is served or was. *)
Admitted(r) ==
    /\ endpoint[r] \in Guarded
    /\ \/ step[r] \in {"handler", "lookup", "insert", "committed"}
       \/ reply[r] \in {"ok", "server_error"}

(* main.py:192-204.  A request that was let in acts for the user its token *)
(* names, and that user belongs to the customer whose address it came to.  *)
AnsweredAtOwnAddress ==
    \A r \in Requests : Admitted(r) =>
        /\ tok[r] \in Jtis
        /\ user[r] = claims[tok[r]].sub
        /\ users[user[r]].tenant = host[r]

(* main.py:236-240.  The claim in a token and the stored user never        *)
(* disagree about the tenant, so the last two refusals of current_user,    *)
(* unknown_user and the second tenant_mismatch, are never given.           *)
TokensNameTheirAccount ==
    \A j \in Jtis : claims[j] # NoToken =>
        /\ users[claims[j].sub] # NoUser
        /\ users[claims[j].sub].tenant = claims[j].tenant

(* models.py:96-107.  Once a logout has been answered 204, no request that *)
(* arrives with that token is let in, whatever was in flight meanwhile and *)
(* however often the server restarts.                                      *)
LogoutIsFinal == \A r \in Requests : late[r] => ~ Admitted(r)

(* A token whose logout was answered is in the table: the 204 never runs   *)
(* ahead of the commit, and no restart forgets it.                         *)
LogoutIsDurable == loggedOut \subseteq revoked

(* models.py:55, main.py:505.  However many requests create users at once, *)
(* and however often the service starts and seeds, one username leads to   *)
(* one account of a customer: login cannot let anyone into another's.      *)
OneAccountPerName ==
    \A u, v \in UserIds : users[u] # NoUser /\ users[u] = users[v] => u = v

(* main.py:292-294.  A token is revoked only by a logout that presents it: *)
(* signing out on one device signs no other device out.                    *)
OnlyThisToken ==
    [][\A j \in revoked' \ revoked :
        \E r \in Requests : Admitted(r) /\ endpoint[r] = "logout" /\ tok[r] = j]_vars

(* main.py:296.  A logout that ends in a 500, and not by a time-out, has   *)
(* lost a race with another logout or with the clock, and the token is     *)
(* unusable all the same.  (After a time-out it may well be in use.)       *)
LostRacesEndTheToken ==
    \A r \in Requests :
        endpoint[r] = "logout" /\ reply[r] = "server_error" =>
            tok[r] \in revoked \cup expired

(* A logout that was let in leaves its token unusable in the end, or tells *)
(* its client that it has timed out, provided the server stays up.         *)
LogoutTakesEffect ==
    \A r \in Requests, j \in Jtis :
        endpoint[r] = "logout" /\ step[r] = "handler" /\ tok[r] = j
            ~> \/ j \in revoked \cup expired
               \/ endpoint[r] = "logout" /\ tok[r] = j /\ reply[r] = "timed_out"

-----------------------------------------------------------------------------
(* The inductive invariant behind LogoutIsFinal and AnsweredAtOwnAddress *)

(* Every tenant has kept the demo account it was seeded with. *)
DemoAccountsStand ==
    \A t \in Tenants : users[DemoUser[t]] = [tenant |-> t, name |-> DemoName]

(* A request is past decode_token only with a token that was issued. *)
TokenInHand ==
    \A r \in Requests :
        /\ tok[r] \in Jtis => claims[tok[r]] # NoToken
        /\ step[r] \notin {"idle", "arrived", "replied"} => tok[r] \in Jtis

(* How far a request has come says what is known of it. *)
StepsAreEarned ==
    \A r \in Requests :
        /\ step[r] # "replied" => reply[r] = "none"
        /\ step[r] \notin {"idle", "replied"} => endpoint[r] \in Guarded
        /\ step[r] = "load_user" => claims[tok[r]].tenant = host[r]
        /\ step[r] \in {"lookup", "insert", "committed"} => endpoint[r] = "logout"
        /\ step[r] = "committed" => tok[r] \in revoked

(* A late request never gets past the look into revoked_tokens. *)
LateStopsShort ==
    \A r \in Requests : late[r] =>
        tok[r] \in loggedOut /\ step[r] # "load_user" /\ ~ Admitted(r)

IInv ==
    /\ TypeOK
    /\ DemoAccountsStand
    /\ TokenInHand
    /\ TokensNameTheirAccount
    /\ OneAccountPerName
    /\ StepsAreEarned
    /\ AnsweredAtOwnAddress
    /\ LogoutIsDurable
    /\ LostRacesEndTheToken
    /\ LateStopsShort

-----------------------------------------------------------------------------
(* What comments and a test say of logout, and the code does not do. *)

(* test_auth.py:119, main.py:296: "a client retrying logout after a        *)
(* dropped connection must not 500", here with a token that is not expired *)
(* and a database that is not busy.                                        *)
LogoutRetryNever500 ==
    \A r \in Requests :
        endpoint[r] = "logout" /\ tok[r] \notin expired => reply[r] # "server_error"

(* main.py:248: _current_jti is "safe to decode without error handling",   *)
(* because current_user "has already validated the token".                 *)
SafeToDecodeAgain ==
    \A r \in Requests :
        endpoint[r] = "logout" /\ step[r] = "handler" => tok[r] \notin expired
=============================================================================
