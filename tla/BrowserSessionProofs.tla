-------------------------- MODULE BrowserSessionProofs --------------------------
(***************************************************************************)
(* What module BrowserSession guarantees for every number of tabs, clicks  *)
(* and sign-ins: a logout that the service has not failed has ended the    *)
(* token it was clicked for.                                               *)
(***************************************************************************)
EXTENDS BrowserSession, TLAPS

(* TabNext, one disjunct per action. *)
LEMMA NextCases ==
    ASSUME TabNext
    PROVE  \/ \E x \in valid : Expire(x)
           \/ \E t \in Tabs :
                  \/ OpenLogin(t) \/ OpenTasks(t) \/ RequireSession(t)
                  \/ ServeMe(t) \/ MeFails(t)
           \/ \E t \in Tabs, c \in Clicks : SignIn(t, c) \/ LogOut(t, c)
           \/ \E c \in Clicks :
                  \/ ServeLogin(c) \/ RefuseLogin(c) \/ ServeLogout(c) \/ LoseAct(c)
                  \/ LoginSucceeds(c) \/ LoginFails(c) \/ LogoutEnds(c)
<1> QED BY DEF TabNext, Load, Settle

(* What a call carries, unless it is none. *)
LEMMA CallFields ==
    ASSUME NEW K \in SUBSET {"me", "login", "logout"}, NEW call \in Calls(K)
    PROVE  /\ call.kind \in K \cup {"none"}
           /\ call.kind # "none" <=> call # NoCall
           /\ call # NoCall =>
                 /\ call \in [tab : Tabs, kind : K, token : Tokens, mine : Tokens,
                              at : {"sent", "ok", "refused", "failed"}]
                 /\ call.tab \in Tabs /\ call.token \in Tokens /\ call.mine \in Tokens
<1> QED BY DEF Calls, NoCall

(* A call that goes out carries tokens that were issued. *)
LEMMA RequestIsCall ==
    ASSUME NEW t \in Tabs, NEW K, NEW kind \in K, NEW token \in Tokens
    PROVE  Request(t, kind, token) \in Calls(K)
<1> QED BY DEF Request, Calls

(* What has become of a call changes nothing else about it. *)
LEMMA AnsweredIsCall ==
    ASSUME NEW K \in SUBSET {"me", "login", "logout"}, NEW call \in Calls(K), call # NoCall,
           NEW s \in {"sent", "ok", "refused", "failed"}
    PROVE  [call EXCEPT !.at = s] \in Calls(K)
<1> QED BY CallFields DEF Calls

(* A page that is left forgets what it awaited, and nothing else.          *)
LEMMA GoIsTyped ==
    ASSUME TabTypeOK, NEW t \in Tabs, NEW p \in {"login", "opening", "tasks"},
           NEW call \in Calls({"me"}), Go(t, p, call)
    PROVE  /\ page' \in [Tabs -> {"login", "opening", "tasks"}]
           /\ me' \in [Tabs -> Calls({"me"})]
           /\ act' \in [Clicks -> Calls({"login", "logout"})]
<1> NoCall \in Calls({"login", "logout"})
  BY DEF Calls
<1> QED BY DEF TabTypeOK, Go

(* Every step keeps the types. *)
LEMMA TypeStep ==
    ASSUME TabTypeOK, [TabNext]_tabVars
    PROVE  TabTypeOK'
<1> USE DEF TabTypeOK
<1> NoCall \in Calls({"me"}) /\ NoCall \in Calls({"login", "logout"})
  BY DEF Calls
<1> 0 \in Tokens
  BY DEF Tokens
<1>1. issued' = issued => /\ Tokens' = Tokens
                          /\ Calls({"me"})' = Calls({"me"})
                          /\ Calls({"login", "logout"})' = Calls({"login", "logout"})
  BY DEF Tokens, Calls
<1>2. CASE UNCHANGED tabVars
  BY <1>1, <1>2 DEF tabVars
<1>3. ASSUME NEW x \in valid, Expire(x) PROVE TabTypeOK'
  BY <1>1, <1>3 DEF Expire
<1>4. ASSUME NEW t \in Tabs, OpenLogin(t) \/ OpenTasks(t) \/ MeFails(t) PROVE TabTypeOK'
  <2>1. /\ \E p \in {"login", "opening"} : Go(t, p, NoCall)
        /\ stored' \in {0, stored} /\ UNCHANGED <<issued, valid>>
    BY <1>4 DEF OpenLogin, OpenTasks, MeFails
  <2> QED BY <1>1, <2>1, GoIsTyped
<1>5. ASSUME NEW t \in Tabs, RequireSession(t) PROVE TabTypeOK'
  <2>1. Request(t, "me", stored) \in Calls({"me"})
    BY RequestIsCall
  <2>2. /\ Go(t, "login", NoCall) \/ Go(t, "tasks", Request(t, "me", stored))
        /\ UNCHANGED <<stored, issued, valid>>
    BY <1>5 DEF RequireSession
  <2> QED BY <1>1, <2>1, <2>2, GoIsTyped
<1>6. ASSUME NEW t \in Tabs, ServeMe(t) PROVE TabTypeOK'
  <2>1. me[t] # NoCall
    BY <1>6 DEF ServeMe, NoCall
  <2>2. \A s \in {"ok", "failed"} : [me[t] EXCEPT !.at = s] \in Calls({"me"})
    BY <2>1, AnsweredIsCall
  <2>3. \E call \in Calls({"me"}) : AwaitMe(t, call)
    BY <1>6, <2>2 DEF ServeMe
  <2>4. UNCHANGED <<stored, issued, valid>>
    BY <1>6 DEF ServeMe
  <2> QED BY <1>1, <2>3, <2>4 DEF AwaitMe
<1>7. ASSUME NEW t \in Tabs, NEW c \in Clicks, SignIn(t, c) \/ LogOut(t, c) PROVE TabTypeOK'
  <2>1. /\ Request(t, "login", 0) \in Calls({"login", "logout"})
        /\ Request(t, "logout", stored) \in Calls({"login", "logout"})
    BY RequestIsCall
  <2> QED BY <1>1, <1>7, <2>1 DEF SignIn, LogOut, AwaitAct
<1>8. ASSUME NEW c \in Clicks, ServeLogin(c) PROVE TabTypeOK'
  <2>1. act[c] \in [tab : Tabs, kind : {"login", "logout"}, token : Tokens, mine : Tokens,
                    at : {"sent", "ok", "refused", "failed"}]
    BY <1>8, CallFields DEF ServeLogin, Awaits, NoCall
  <2>2. issued + 1 \in Tokens' \ {0} /\ Tokens \subseteq Tokens' /\ issued' \in Nat
    BY <1>8 DEF ServeLogin, Tokens
  <2>3. [act[c] EXCEPT !.at = "ok", !.token = issued + 1] \in Calls({"login", "logout"})'
    BY <2>1, <2>2 DEF Calls
  <2>4. /\ Calls({"me"}) \subseteq Calls({"me"})'
        /\ Calls({"login", "logout"}) \subseteq Calls({"login", "logout"})'
    BY <2>2 DEF Calls
  <2>5. /\ me' \in [Tabs -> Calls({"me"})'] /\ act' \in [Clicks -> Calls({"login", "logout"})']
        /\ page' = page
    BY <1>8, <2>3, <2>4 DEF ServeLogin, AwaitAct
  <2>6. stored' \in Tokens' /\ valid' \subseteq Tokens' \ {0}
    BY <1>8, <2>2 DEF ServeLogin
  <2> QED BY <2>2, <2>5, <2>6
<1>9. ASSUME NEW c \in Clicks, RefuseLogin(c) \/ ServeLogout(c) \/ LoseAct(c) \/ LoginFails(c)
      PROVE  TabTypeOK'
  <2>1. act[c] # NoCall
    BY <1>9 DEF RefuseLogin, ServeLogout, LoseAct, LoginFails, Awaits, NoCall
  <2>2. \A s \in {"ok", "refused", "failed"} :
            [act[c] EXCEPT !.at = s] \in Calls({"login", "logout"})
    BY <2>1, AnsweredIsCall
  <2>3. \E call \in Calls({"login", "logout"}) : AwaitAct(c, call)
    BY <1>9, <2>2 DEF RefuseLogin, ServeLogout, LoseAct, LoginFails
  <2>4. valid' \subseteq valid /\ UNCHANGED <<stored, issued>>
    BY <1>9 DEF RefuseLogin, ServeLogout, LoseAct, LoginFails
  <2> QED BY <1>1, <2>3, <2>4 DEF AwaitAct
<1>10. ASSUME NEW c \in Clicks, LoginSucceeds(c) \/ LogoutEnds(c) PROVE TabTypeOK'
  <2>1. act[c].tab \in Tabs /\ act[c].token \in Tokens
    BY <1>10, CallFields DEF LoginSucceeds, LogoutEnds, Awaits, NoCall
  <2>2. /\ \E p \in {"login", "opening"} : Go(act[c].tab, p, NoCall)
        /\ stored' \in {0, act[c].token} /\ UNCHANGED <<issued, valid>>
    BY <1>10 DEF LoginSucceeds, LogoutEnds
  <2> QED BY <1>1, <2>1, <2>2, GoIsTyped
<1> QED BY <1>2, <1>3, <1>4, <1>5, <1>6, <1>7, <1>8, <1>9, <1>10, NextCases

-----------------------------------------------------------------------------
(* What the invariant says of one logout. *)
Right(c) ==
    act[c].kind = "logout" =>
        /\ act[c].token = act[c].mine
        /\ act[c].at \in {"ok", "refused"} => act[c].mine \notin valid

(* Tokens are accepted from their issue until they are ended, once: a call *)
(* that is left alone, or forgotten, stays right.                          *)
LEMMA StaysRight ==
    ASSUME TabTypeOK, NEW c \in Clicks, Right(c), act'[c] \in {act[c], NoCall},
           \/ valid' \subseteq valid
           \/ valid' = valid \cup {issued + 1}
    PROVE  Right(c)'
<1>1. act[c].kind = "logout" => act[c].mine \in Tokens
  BY CallFields DEF TabTypeOK, NoCall
<1>2. act[c].kind = "logout" => act[c].mine # issued + 1
  BY <1>1 DEF TabTypeOK, Tokens
<1> QED BY <1>2 DEF Right, NoCall

(* No step makes a logout carry another token, or answers it, other than   *)
(* with an error of the service, for a live one.                           *)
LEMMA RightStep ==
    ASSUME TabTypeOK, \A c \in Clicks : Right(c), [TabNext]_tabVars
    PROVE  \A c \in Clicks : Right(c)'
<1> TAKE d \in Clicks
<1> USE DEF TabTypeOK, Awaits
<1>1. CASE UNCHANGED tabVars \/ \E x \in valid : Expire(x)
  BY <1>1, StaysRight DEF tabVars, Expire
<1>2. ASSUME NEW t \in Tabs,
             \/ OpenLogin(t) \/ OpenTasks(t) \/ RequireSession(t)
             \/ ServeMe(t) \/ MeFails(t)
      PROVE  Right(d)'
  <2>1. valid' = valid /\ act'[d] \in {act[d], NoCall}
    BY <1>2 DEF OpenLogin, OpenTasks, RequireSession, ServeMe, MeFails,
                Go, AwaitMe
  <2> QED BY <2>1, StaysRight
<1>3. ASSUME NEW t \in Tabs, NEW c \in Clicks, SignIn(t, c) \/ LogOut(t, c)
      PROVE  Right(d)'
  <2>1. PICK kind, token : act' = [act EXCEPT ![c] = Request(t, kind, token)]
    BY <1>3 DEF SignIn, LogOut, AwaitAct
  <2>2. valid' = valid
    BY <1>3 DEF SignIn, LogOut
  <2> QED BY <2>1, <2>2, StaysRight DEF Right, Request
<1>4. ASSUME NEW c \in Clicks, ServeLogin(c)
      PROVE  Right(d)'
  <2>1. act[c].kind = "login" /\ act[c] \in Calls({"login", "logout"})
    BY <1>4 DEF ServeLogin
  <2>2. valid' = valid \cup {issued + 1}
        /\ act' = [act EXCEPT ![c] = [act[c] EXCEPT !.at = "ok", !.token = issued + 1]]
    BY <1>4 DEF ServeLogin, AwaitAct
  <2>3. CASE d = c
    BY <2>1, <2>2, <2>3, CallFields DEF Right, NoCall
  <2>4. CASE d # c
    BY <2>2, <2>4, StaysRight
  <2> QED BY <2>3, <2>4
<1>5. ASSUME NEW c \in Clicks, RefuseLogin(c) \/ LoseAct(c)
      PROVE  Right(d)'
  <2>1. /\ valid' = valid /\ act[c] # NoCall /\ act[c] \in Calls({"login", "logout"})
        /\ act' = [act EXCEPT ![c] = [act[c] EXCEPT !.at = "failed"]]
    BY <1>5 DEF RefuseLogin, LoseAct, AwaitAct, NoCall
  <2>2. CASE d = c
    <3>1. act'[c].token = act[c].token /\ act'[c].mine = act[c].mine
          /\ act'[c].kind = act[c].kind /\ act'[c].at = "failed"
      BY <2>1, CallFields
    <3> QED BY <2>2, <3>1 DEF Right
  <2>3. CASE d # c
    BY <2>1, <2>3, StaysRight
  <2> QED BY <2>2, <2>3
<1>6. ASSUME NEW c \in Clicks, ServeLogout(c)
      PROVE  Right(d)'
  <2>1. PICK s \in {"ok", "refused", "failed"} :
            act' = [act EXCEPT ![c] = [act[c] EXCEPT !.at = s]]
    BY <1>6 DEF ServeLogout, AwaitAct
  <2>2. valid' \subseteq valid
    BY <1>6 DEF ServeLogout
  <2>3. CASE d = c
    <3>1. act[c].kind = "logout" /\ act[c].token = act[c].mine /\ act[c] # NoCall
      BY <1>6, <2>3 DEF ServeLogout, Right, NoCall
    <3>2. act'[c].token = act[c].token /\ act'[c].mine = act[c].mine /\ act'[c].at = s
      BY <2>1, <3>1, CallFields
    <3>3. act'[c].at \in {"ok", "refused"} => act[c].token \notin valid'
      BY <1>6, <3>1, CallFields DEF ServeLogout, AwaitAct
    <3> QED BY <2>3, <3>1, <3>2, <3>3 DEF Right
  <2>4. CASE d # c
    BY <2>1, <2>2, <2>4, StaysRight
  <2> QED BY <2>3, <2>4
<1>7. ASSUME NEW c \in Clicks, LoginSucceeds(c) \/ LoginFails(c) \/ LogoutEnds(c)
      PROVE  Right(d)'
  <2>1. valid' = valid /\ act'[d] \in {act[d], NoCall}
    BY <1>7 DEF LoginSucceeds, LoginFails, LogoutEnds, Go, AwaitAct
  <2> QED BY <2>1, StaysRight
<1> QED BY <1>1, <1>2, <1>3, <1>4, <1>5, <1>6, <1>7, NextCases

(* The inductive invariant is one about each click. *)
LEMMA RightClicks == TabIInv <=> TabTypeOK /\ \A c \in Clicks : Right(c)
BY DEF TabIInv, LogoutCarriesIt, LogoutKillsItsToken, Right, Awaits

(* app.js, tasks.js:87-117 and the service keep a logout tied to the token *)
(* that was stored when the user clicked.                                  *)
THEOREM Invariance == TabSpec => []TabIInv
<1>1. TabInit => TabIInv
  <2> SUFFICES ASSUME TabInit PROVE TabIInv
    OBVIOUS
  <2>1. TabTypeOK
    BY DEF TabInit, TabTypeOK, Tokens, Calls
  <2>2. \A c \in Clicks : Right(c)
    BY DEF TabInit, Right, NoCall
  <2> QED BY <2>1, <2>2, RightClicks
<1>2. TabIInv /\ [TabNext]_tabVars => TabIInv'
  <2>1. (TabIInv <=> TabTypeOK /\ \A c \in Clicks : Right(c))'
    BY RightClicks, PTL
  <2> QED BY <2>1, RightClicks, TypeStep, RightStep
<1> QED BY <1>1, <1>2, PTL DEF TabSpec

(* A logout answered 204, or 401, has ended the token that was stored when *)
(* the user clicked, whatever the tabs have sent, signed in or dropped     *)
(* meanwhile; of one that the service failed nothing is claimed.           *)
THEOREM LogoutKills == TabSpec => []LogoutKillsItsToken
<1>1. TabIInv => LogoutKillsItsToken
  BY DEF TabIInv
<1> QED BY Invariance, <1>1, PTL
=============================================================================
