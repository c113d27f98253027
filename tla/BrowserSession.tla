--------------------------- MODULE BrowserSession ---------------------------
(***************************************************************************)
(* The access token in localStorage, which all tabs of a browser share,    *)
(* and the pages that use it: app/static/login.js, tasks.js and app.js.    *)
(* A call carries the token that is stored when it is made; its handler    *)
(* dies when its tab goes to another page.  Such a call may still be       *)
(* served: a logout then ends its token as Expire does, and the token of a *)
(* login reaches no page.  The form and the button stay enabled while an   *)
(* answer is awaited, so one page may await several.                       *)
(***************************************************************************)
EXTENDS Naturals

CONSTANTS
    Tabs,
    Clicks,     \* slots for submits and clicks whose answer a page awaits
    MaxTokens   \* bound on sign-ins

VARIABLES
    stored,  \* localStorage "access_token"; 0 when absent
    issued,  \* tokens issued: 1..issued
    valid,   \* tokens the server accepts
    page,    \* what each tab shows; "opening" on the way to tasks.html
    me,      \* the GET /me each page awaits
    act      \* the logins and logouts awaited, each by the page of its tab

tabVars == <<stored, issued, valid, page, me, act>>

NoCall == [kind |-> "none"]

TabInit ==
    /\ stored = 0 /\ issued = 0 /\ valid = {}
    /\ page = [t \in Tabs |-> "login"]
    /\ me = [t \in Tabs |-> NoCall]
    /\ act = [c \in Clicks |-> NoCall]

Awaits(c, kind, s) == act[c].kind = kind /\ act[c].at = s

(* Tab t goes to page p, and what the old page awaited is forgotten.       *)
Go(t, p, call) ==
    /\ page' = [page EXCEPT ![t] = p]
    /\ me' = [me EXCEPT ![t] = call]
    /\ act' = [c \in Clicks |->
                  IF act[c] # NoCall /\ act[c].tab = t THEN NoCall ELSE act[c]]
AwaitMe(t, call)  == me' = [me EXCEPT ![t] = call] /\ UNCHANGED <<page, act>>
AwaitAct(c, call) == act' = [act EXCEPT ![c] = call] /\ UNCHANGED <<page, me>>

(* The token sent, and the one stored at the time; login needs neither.     *)
Request(t, kind, token) ==
    [tab |-> t, kind |-> kind, token |-> token, mine |-> token, at |-> "sent"]

(* The user goes to a page. *)
OpenLogin(t) == Go(t, "login", NoCall) /\ UNCHANGED <<stored, issued, valid>>
OpenTasks(t) == Go(t, "opening", NoCall) /\ UNCHANGED <<stored, issued, valid>>

(* tasks.html loads: without a token it turns to the login page, with one  *)
(* it asks whose it is.                                                    *)
RequireSession(t) ==
    /\ page[t] = "opening"
    /\ \/ stored = 0 /\ Go(t, "login", NoCall)
       \/ stored # 0 /\ Go(t, "tasks", Request(t, "me", stored))
    /\ UNCHANGED <<stored, issued, valid>>

SignIn(t, c) ==
    /\ page[t] = "login" /\ act[c] = NoCall
    /\ AwaitAct(c, Request(t, "login", 0))
    /\ UNCHANGED <<stored, issued, valid>>

(* Fault: the token is dropped first. *)
LogOutDroppingFirst(t, c) ==
    /\ page[t] = "tasks" /\ act[c] = NoCall
    /\ AwaitAct(c, [Request(t, "logout", stored) EXCEPT !.token = 0])
    /\ UNCHANGED <<stored, issued, valid>>

LogOut(t, c) ==
    /\ page[t] = "tasks" /\ act[c] = NoCall
    /\ AwaitAct(c, Request(t, "logout", stored))
    /\ UNCHANGED <<stored, issued, valid>>

-----------------------------------------------------------------------------
(* The server *)

ServeLogin(c) ==
    /\ Awaits(c, "login", "sent") /\ issued < MaxTokens
    /\ issued' = issued + 1 /\ valid' = valid \cup {issued + 1}
    /\ AwaitAct(c, [act[c] EXCEPT !.at = "ok", !.token = issued + 1])
    /\ UNCHANGED <<stored>>

(* A 401 or a 500: the page tells no error from another, nor from a call   *)
(* that is lost.                                                           *)
RefuseLogin(c) ==
    /\ Awaits(c, "login", "sent")
    /\ AwaitAct(c, [act[c] EXCEPT !.at = "failed"])
    /\ UNCHANGED <<stored, issued, valid>>

(* The page does no more with a good answer; one that is lost is a failure. *)
ServeMe(t) ==
    /\ me[t].kind = "me" /\ me[t].at = "sent"
    /\ \/ me[t].token \in valid /\ AwaitMe(t, NoCall)
       \/ AwaitMe(t, [me[t] EXCEPT !.at = "failed"])
    /\ UNCHANGED <<stored, issued, valid>>

(* A dead token is a 401, and a 204 kills a live one.  With either the     *)
(* service may time out: a 500 leaves the token as it is.                  *)
ServeLogout(c) ==
    /\ Awaits(c, "logout", "sent")
    /\ \/ /\ act[c].token \in valid /\ valid' = valid \ {act[c].token}
          /\ AwaitAct(c, [act[c] EXCEPT !.at = "ok"])
       \/ /\ act[c].token \notin valid /\ UNCHANGED valid
          /\ AwaitAct(c, [act[c] EXCEPT !.at = "refused"])
       \/ AwaitAct(c, [act[c] EXCEPT !.at = "failed"]) /\ UNCHANGED valid
    /\ UNCHANGED <<stored, issued>>

Expire(x) == x \in valid /\ valid' = valid \ {x} /\ UNCHANGED <<stored, issued, page, me, act>>

(* The call fails before it is served, or its answer is lost. *)
LoseAct(c) ==
    /\ act[c] # NoCall /\ AwaitAct(c, [act[c] EXCEPT !.at = "failed"])
    /\ UNCHANGED <<stored, issued, valid>>

-----------------------------------------------------------------------------
(* The pages *)

LoginSucceeds(c) ==
    /\ Awaits(c, "login", "ok")
    /\ stored' = act[c].token
    /\ Go(act[c].tab, "opening", NoCall)
    /\ UNCHANGED <<issued, valid>>

LoginFails(c) ==
    /\ Awaits(c, "login", "failed")
    /\ AwaitAct(c, NoCall)
    /\ UNCHANGED <<stored, issued, valid>>

(* Whatever is stored by now is dropped. *)
MeFails(t) ==
    /\ me[t].kind = "me" /\ me[t].at = "failed"
    /\ stored' = 0
    /\ Go(t, "login", NoCall)
    /\ UNCHANGED <<issued, valid>>

(* Fault: a call that fails leaves the page as it is. *)
LogoutIfAnswered(c) ==
    \/ Awaits(c, "logout", "ok")
       /\ stored' = 0 /\ Go(act[c].tab, "login", NoCall) /\ UNCHANGED <<issued, valid>>
    \/ (Awaits(c, "logout", "refused") \/ Awaits(c, "logout", "failed"))
       /\ AwaitAct(c, NoCall) /\ UNCHANGED <<stored, issued, valid>>

LogoutEnds(c) ==
    /\ act[c].kind = "logout" /\ act[c].at # "sent"
    /\ stored' = 0
    /\ Go(act[c].tab, "login", NoCall)
    /\ UNCHANGED <<issued, valid>>

-----------------------------------------------------------------------------

(* A click, and the load of a page, on their way to their end. *)
Settle(c) ==
    \/ ServeLogin(c) \/ RefuseLogin(c) \/ ServeLogout(c)
    \/ LoginSucceeds(c) \/ LoginFails(c) \/ LogoutEnds(c)

Load(t) == RequireSession(t) \/ ServeMe(t) \/ MeFails(t)

TabNext ==
    \/ \E x \in valid : Expire(x)
    \/ \E t \in Tabs :
        \/ OpenLogin(t) \/ OpenTasks(t) \/ Load(t)
        \/ \E c \in Clicks : SignIn(t, c) \/ LogOut(t, c)
    \/ \E c \in Clicks : LoseAct(c) \/ Settle(c)

TabSpec == TabInit /\ [][TabNext]_tabVars

(* A call is answered, or found lost, in the end, and the browser goes on. *)
TabFairness ==
    /\ \A t \in Tabs : WF_tabVars(Load(t))
    /\ \A c \in Clicks : WF_tabVars(Settle(c))

-----------------------------------------------------------------------------
(* Properties *)

(* tasks.js:87-95.  A logout answered 204, or 401, means that the token    *)
(* stored when the user clicked is dead, whatever this tab and the others  *)
(* have sent, signed in or dropped meanwhile.  "The revoke call failed",   *)
(* tasks.js:91, means nothing: the token may live on.                      *)
LogoutKillsItsToken ==
    \A c \in Clicks :
        Awaits(c, "logout", "ok") \/ Awaits(c, "logout", "refused")
            => act[c].mine \notin valid

(* tasks.js:91-92 and 113-117.  A page loaded with a dead token does not   *)
(* stay, and the user who has clicked "Log out" is "never stranded in a    *)
(* half-signed-in state": the page is left, whatever becomes of the call.  *)
DeadPagesAreLeft ==
    \A t \in Tabs :
        \/ me[t].kind = "me" /\ me[t].at = "sent" /\ me[t].token \notin valid
        \/ \E c \in Clicks : act[c].kind = "logout" /\ act[c].tab = t
        ~> page[t] # "tasks"

-----------------------------------------------------------------------------
(* The inductive invariant behind LogoutKillsItsToken *)

Tokens == 0 .. issued     \* 0 where there is none
Calls(kinds) ==
    {NoCall} \cup [tab : Tabs, kind : kinds, token : Tokens, mine : Tokens,
                   at : {"sent", "ok", "refused", "failed"}]

TabTypeOK ==
    /\ issued \in Nat
    /\ stored \in Tokens
    /\ valid \subseteq Tokens \ {0}
    /\ page \in [Tabs -> {"login", "opening", "tasks"}]
    /\ me \in [Tabs -> Calls({"me"})]
    /\ act \in [Clicks -> Calls({"login", "logout"})]

(* A logout ends the token that was stored when the user clicked. *)
LogoutCarriesIt == \A c \in Clicks : act[c].kind = "logout" => act[c].token = act[c].mine

TabIInv == TabTypeOK /\ LogoutCarriesIt /\ LogoutKillsItsToken
=============================================================================
