-------------------------- MODULE DashboardSession --------------------------
(***************************************************************************)
(* The dashboard's session: the tokens in localStorage, which every call   *)
(* carries and any call that is answered 401 renews (services/api.js),     *)
(* login, logout and the check on start (hooks/useAuth.jsx), the routes    *)
(* (App.jsx), the login and setup pages, and what the server does about    *)
(* them (server/app/api/auth.py).  A token is the number of the pair it    *)
(* was issued in.  A step is a browser task, or as much of a request as    *)
(* can be told apart by another.                                           *)
(***************************************************************************)
EXTENDS Naturals, FiniteSets

CONSTANTS
    Admins,         \* those who may fill in the setup form, each with a name
    MaxPairs,       \* bound on the pairs of tokens issued
    MaxCalls,       \* bound on the calls under way
    MaxTrouble      \* bound on expiries and losses, together

ASSUME SessionAssumption == IsFiniteSet(Admins) /\ MaxCalls \in Nat

VARIABLES
    proctors,       \* the server's accounts
    setups,         \* setup requests: admin -> "none", "sent", "checked", "answered"
    issuedPairs,    \* pairs of tokens issued so far
    staleAccess,    \* access tokens up to this one have expired
    staleRefresh,   \* and refresh tokens up to this one
    accessToken, refreshToken,      \* in localStorage; 0: none
    user, loading,  \* the state of AuthProvider
    onLogin,        \* the address is /login, or another one that needs a session
    calls,          \* calls under way: [no, me, token, at, retried, refresh]
    trouble, lossSeen

tokenVars == <<accessToken, refreshToken>>
serverVars == <<proctors, issuedPairs, staleAccess, staleRefresh>>
sessionVars == <<serverVars, setups, tokenVars, user, loading, onLogin, calls, trouble, lossSeen>>

Trouble == trouble < MaxTrouble /\ trouble' = trouble + 1

-----------------------------------------------------------------------------
(* initial_setup, in two steps with an await between: is there an account? *)
(* Then one is inserted.                                                   *)
SubmitSetup(a) ==
    /\ setups[a] = "none"
    /\ setups' = [setups EXCEPT ![a] = "sent"]
    /\ UNCHANGED <<serverVars, tokenVars, user, loading, onLogin, calls, trouble, lossSeen>>

CheckNoProctor(a) ==
    /\ setups[a] = "sent"
    /\ setups' = [setups EXCEPT ![a] = IF proctors = {} THEN "checked" ELSE "answered"]
    /\ UNCHANGED <<serverVars, tokenVars, user, loading, onLogin, calls, trouble, lossSeen>>

initial_setup(a) ==
    /\ setups[a] = "checked"
    /\ setups' = [setups EXCEPT ![a] = "answered"]
    /\ proctors' = proctors \union {a}
    /\ UNCHANGED <<issuedPairs, staleAccess, staleRefresh, tokenVars, user, loading, onLogin,
                   calls, trouble, lossSeen>>

-----------------------------------------------------------------------------
(* ProtectedRoute, and the login page, which leads on once logged in.      *)
ShowsApp == ~loading /\ user /\ ~onLogin
ShowsLogin == ~loading /\ ~user

Free == 1..MaxCalls \ {c.no : c \in calls}
NewCall(no, me) ==
    [no |-> no, me |-> me, token |-> accessToken, at |-> "sent", retried |-> FALSE, refresh |-> 0]
Replace(c, new) == calls' = (calls \ {c}) \union {new}

(* Any call of a page, with the token of the moment.                       *)
CallApi ==
    /\ ShowsApp /\ \E no \in Free : calls' = calls \union {NewCall(no, FALSE)}
    /\ UNCHANGED <<serverVars, setups, tokenVars, user, loading, onLogin, trouble, lossSeen>>

(* get_current_user: a call without a valid token is answered 401 (403, if *)
(* it has none at all, which no renewal follows).                          *)
Authorised(c) == c.token > staleAccess

Served(c) ==
    /\ c.at = "sent"
    /\ Replace(c, [c EXCEPT !.at = IF Authorised(c) THEN "ok" ELSE IF c.token = 0 THEN "error" ELSE "401"])
    /\ UNCHANGED <<serverVars, setups, tokenVars, user, loading, onLogin, trouble, lossSeen>>

(* The interceptor: the first 401 of a call renews the tokens.             *)
Unauthorised(c) ==
    /\ c.at = "401"
    /\ Replace(c, IF refreshToken # 0 /\ ~c.retried
                  THEN [c EXCEPT !.at = "refresh", !.retried = TRUE, !.refresh = refreshToken]
                  ELSE [c EXCEPT !.at = "error"])
    /\ UNCHANGED <<serverVars, setups, tokenVars, user, loading, onLogin, trouble, lossSeen>>

OnlyTheLast(token) == token = issuedPairs /\ token > staleRefresh  \* seeded fault: a refresh token serves once

(* refresh_token: any that has not expired will do, again and again.       *)
Renewable(token) == token > staleRefresh

Renewed(c) ==
    /\ c.at = "refresh"
    /\ IF Renewable(c.refresh)
       THEN /\ issuedPairs < MaxPairs /\ issuedPairs' = issuedPairs + 1
            /\ Replace(c, [c EXCEPT !.at = "renewed", !.token = issuedPairs'])
       ELSE UNCHANGED issuedPairs /\ Replace(c, [c EXCEPT !.at = "refused"])
    /\ UNCHANGED <<proctors, staleAccess, staleRefresh, setups, tokenVars, user, loading, onLogin,
                   trouble, lossSeen>>

(* The new pair is kept, even after a logout, and the call sent again.     *)
TokensStored(c) ==
    /\ c.at = "renewed"
    /\ accessToken' = c.token /\ refreshToken' = c.token
    /\ Replace(c, [c EXCEPT !.at = "sent"])
    /\ UNCHANGED <<serverVars, setups, user, loading, onLogin, trouble, lossSeen>>

(* No renewal: the tokens of the moment go, and the page is loaded anew,   *)
(* which ends every call.                                                  *)
BackToLogin(c) ==
    /\ c.at = "refused"
    /\ accessToken' = 0 /\ refreshToken' = 0
    /\ user' = FALSE /\ loading' = FALSE /\ onLogin' = TRUE /\ calls' = {}
    /\ UNCHANGED <<serverVars, setups, trouble, lossSeen>>

(* The promise of the call settles.  checkAuth takes any error for the end *)
(* of the session.                                                         *)
Settled(c) ==
    /\ c.at \in {"ok", "error"}
    /\ calls' = calls \ {c}
    /\ IF c.me /\ c.at = "error" THEN accessToken' = 0 /\ refreshToken' = 0 ELSE UNCHANGED tokenVars
    /\ user' = (user \/ (c.me /\ c.at = "ok"))
    /\ loading' = (loading /\ ~c.me)
    /\ onLogin' = (onLogin /\ ~user')
    /\ UNCHANGED <<serverVars, setups, trouble, lossSeen>>

(* A message is lost: the call ends in an error; a renewal is given up.    *)
Lost(c) ==
    /\ Trouble /\ c.at \in {"sent", "ok", "401", "refresh", "renewed"}
    /\ Replace(c, [c EXCEPT !.at = IF c.at \in {"refresh", "renewed"} THEN "refused" ELSE "error"])
    /\ lossSeen' = TRUE
    /\ UNCHANGED <<serverVars, setups, tokenVars, user, loading, onLogin>>

-----------------------------------------------------------------------------
(* LoginPage: the pair is stored, and checkAuth asks who it is for.        *)
login ==
    /\ ShowsLogin /\ proctors # {} /\ issuedPairs < MaxPairs
    /\ \A c \in calls : ~c.me
    /\ issuedPairs' = issuedPairs + 1
    /\ accessToken' = issuedPairs' /\ refreshToken' = issuedPairs'
    /\ \E no \in Free : calls' = calls \union {[NewCall(no, TRUE) EXCEPT !.token = issuedPairs']}
    /\ UNCHANGED <<proctors, staleAccess, staleRefresh, setups, user, loading, onLogin, trouble, lossSeen>>

logout ==
    /\ ShowsApp
    /\ accessToken' = 0 /\ refreshToken' = 0 /\ user' = FALSE /\ onLogin' = TRUE
    /\ UNCHANGED <<serverVars, setups, loading, calls, trouble, lossSeen>>

(* The page is loaded again: checkAuth, if there is a token.               *)
Reload ==
    /\ ~loading /\ Trouble
    /\ user' = FALSE
    /\ loading' = (accessToken # 0)
    /\ calls' = IF accessToken = 0 THEN {} ELSE {NewCall(1, TRUE)}
    /\ onLogin' = (onLogin \/ accessToken = 0)
    /\ UNCHANGED <<serverVars, setups, tokenVars, lossSeen>>

AccessExpires ==
    /\ Trouble /\ staleAccess < issuedPairs
    /\ staleAccess' = issuedPairs
    /\ UNCHANGED <<proctors, issuedPairs, staleRefresh, setups, tokenVars, user, loading, onLogin,
                   calls, lossSeen>>

RefreshExpires ==
    /\ Trouble /\ staleRefresh < issuedPairs
    /\ staleRefresh' = issuedPairs /\ staleAccess' = issuedPairs
    /\ UNCHANGED <<proctors, issuedPairs, setups, tokenVars, user, loading, onLogin, calls, lossSeen>>

SessionInit ==
    /\ proctors = {} /\ setups = [a \in Admins |-> "none"]
    /\ issuedPairs = 0 /\ staleAccess = 0 /\ staleRefresh = 0
    /\ accessToken = 0 /\ refreshToken = 0
    /\ user = FALSE /\ loading = FALSE /\ onLogin = TRUE
    /\ calls = {} /\ trouble = 0 /\ lossSeen = FALSE

SessionNext ==
    \/ \E a \in Admins : SubmitSetup(a) \/ CheckNoProctor(a) \/ initial_setup(a)
    \/ CallApi \/ login \/ logout \/ Reload \/ AccessExpires \/ RefreshExpires
    \/ \E c \in calls : \/ Served(c) \/ Unauthorised(c) \/ Renewed(c) \/ TokensStored(c)
                         \/ BackToLogin(c) \/ Settled(c) \/ Lost(c)

SessionSpec == SessionInit /\ [][SessionNext]_sessionVars

-----------------------------------------------------------------------------
(***************************************************************************)
(* A session that can be renewed is kept (api.js:25-52): an answer 401     *)
(* ends in the login page only if the refresh token that was sent has      *)
(* expired or a message was lost, although calls answered 401 at the same  *)
(* time each renew the session for themselves, with a token that another   *)
(* of them has replaced by then.  (checkAuth takes any error of its call   *)
(* for the end, useAuth.jsx:20-27: it is not part of this.)                *)
(***************************************************************************)
SessionIsKept ==
    [][\A c \in calls : BackToLogin(c) => c.refresh <= staleRefresh \/ lossSeen]_sessionVars
=============================================================================
