--------------------------- MODULE AdminPagesProofs ---------------------------
(***************************************************************************)
(* What holds of the dashboard's frame and its administrators' pages       *)
(* however many there are of each thing: the session, the WebSocket of a   *)
(* page, the policy editor, the settings and the competitions.             *)
(***************************************************************************)
EXTENDS DashboardSession, SettingsForm, PolicyEditor, CompetitionsPages, DashboardSocket, SequenceTheorems,
        ProofLemmas, TLAPS

-----------------------------------------------------------------------------
(***************************************************************************)
(* The session.  A renewal is refused because the token it was asked with  *)
(* has expired, and it stays expired; or a message was lost.               *)
(***************************************************************************)
Places == {"sent", "ok", "401", "refresh", "renewed", "refused", "error"}
Call == [no : Nat, me : BOOLEAN, token : Nat, at : Places, retried : BOOLEAN, refresh : Nat]

SessionTyped ==
    /\ calls \subseteq Call
    /\ issuedPairs \in Nat /\ accessToken \in Nat /\ refreshToken \in Nat
    /\ staleRefresh \in 0..issuedPairs

IsDue(c) == c.at = "refused" => c.refresh <= staleRefresh \/ lossSeen

SessionInv == SessionTyped /\ \A c \in calls : IsDue(c)

LEMMA MovedCall ==
    ASSUME NEW c \in Call, NEW at \in Places
    PROVE  LET p == [c EXCEPT !.at = at]
           IN  p \in Call /\ p.at = at /\ p.refresh = c.refresh
BY DEF Call

(* A call put in the place of another, while nothing expires.              *)
LEMMA CallReplaced ==
    ASSUME SessionInv, NEW c \in calls, NEW new \in Call, IsDue(new)', Replace(c, new),
           UNCHANGED <<accessToken, refreshToken, staleRefresh>>,
           issuedPairs' \in Nat, issuedPairs' >= issuedPairs, lossSeen => lossSeen'
    PROVE  SessionInv'
<1>1. calls' \subseteq calls \union {new}
    BY DEF Replace
<1>2. SessionTyped'
    BY <1>1 DEF SessionInv, SessionTyped
<1>3. \A d \in calls : IsDue(d)'
    BY DEF SessionInv, IsDue
<1> QED BY <1>1, <1>2, <1>3 DEF SessionInv

(* No new call, while nothing expires.                                     *)
LEMMA CallsLeft ==
    ASSUME SessionInv, calls' \subseteq calls, UNCHANGED <<issuedPairs, lossSeen>>,
           accessToken' \in {0, accessToken}, refreshToken' \in {0, refreshToken},
           staleRefresh' \in {staleRefresh, issuedPairs}
    PROVE  SessionInv'
<1>1. SessionTyped'
    BY DEF SessionInv, SessionTyped
<1>2. \A d \in calls : IsDue(d)'
  <2> SUFFICES ASSUME NEW d \in calls PROVE IsDue(d)'
      OBVIOUS
  <2>1. d.refresh \in Nat /\ staleRefresh \in Nat /\ staleRefresh <= staleRefresh'
      BY DEF SessionInv, SessionTyped, Call
  <2> QED BY <2>1 DEF SessionInv, SessionTyped, IsDue
<1> QED BY <1>1, <1>2 DEF SessionInv

LEMMA NewCallTyped ==
    ASSUME SessionTyped, NEW no \in Nat, NEW me \in BOOLEAN, NEW token \in Nat
    PROVE  /\ NewCall(no, me) \in Call /\ NewCall(no, me).at = "sent"
           /\ LET p == [NewCall(no, me) EXCEPT !.token = token]
              IN  p \in Call /\ p.at = "sent"
BY DEF SessionTyped, NewCall, Call, Places

LEMMA FreeIsNat == Free \subseteq Nat
BY SessionAssumption DEF Free

(* What a call meets on its way.                                           *)
LEMMA ServedKeeps ==
    ASSUME SessionInv, NEW c \in calls, Served(c) \/ Lost(c)
    PROVE  SessionInv'
<1>1. c \in Call
    BY DEF SessionInv, SessionTyped
<1>2. CASE Served(c)
  <2>1. PICK at \in {"ok", "error", "401"} : Replace(c, [c EXCEPT !.at = at])
    <3>1. CASE Authorised(c)
        BY <1>2, <3>1 DEF Served
    <3>2. CASE ~Authorised(c) /\ c.token = 0
        BY <1>2, <3>2 DEF Served
    <3>3. CASE ~Authorised(c) /\ c.token # 0
        BY <1>2, <3>3 DEF Served
    <3> QED BY <3>1, <3>2, <3>3
  <2> DEFINE new == [c EXCEPT !.at = at]
  <2>2. at \in Places
      BY DEF Places
  <2>3. new \in Call /\ new.at = at
      BY <1>1, <2>2, MovedCall, Zenon
  <2> HIDE DEF new
  <2>4. IsDue(new)'
      BY <2>3 DEF IsDue
  <2>5. Replace(c, new)
      BY <2>1 DEF new
  <2>6. UNCHANGED <<accessToken, refreshToken, staleRefresh, issuedPairs, lossSeen>>
      BY <1>2 DEF Served, serverVars, tokenVars
  <2>7. issuedPairs' \in Nat /\ issuedPairs' >= issuedPairs
      BY <2>6 DEF SessionInv, SessionTyped
  <2> QED BY <2>3, <2>4, <2>5, <2>6, <2>7, CallReplaced
<1>3. CASE Lost(c)
  <2>1. PICK at \in {"refused", "error"} : Replace(c, [c EXCEPT !.at = at])
      BY <1>3 DEF Lost
  <2> DEFINE new == [c EXCEPT !.at = at]
  <2>2. at \in Places
      BY DEF Places
  <2>3. new \in Call
      BY <1>1, <2>2, MovedCall, Zenon
  <2> HIDE DEF new
  <2>4. lossSeen' /\ UNCHANGED <<accessToken, refreshToken, staleRefresh, issuedPairs>>
      BY <1>3 DEF Lost, serverVars, tokenVars
  <2>5. IsDue(new)'
      BY <2>4 DEF IsDue
  <2>6. Replace(c, new)
      BY <2>1 DEF new
  <2>7. issuedPairs' \in Nat /\ issuedPairs' >= issuedPairs
      BY <2>4 DEF SessionInv, SessionTyped
  <2> QED BY <2>3, <2>4, <2>5, <2>6, <2>7, CallReplaced
<1> QED BY <1>2, <1>3

(* A first 401 asks for a renewal with the token of the moment.            *)
LEMMA UnauthorisedKeeps ==
    ASSUME SessionInv, NEW c \in calls, Unauthorised(c)
    PROVE  SessionInv'
<1>1. c \in Call /\ refreshToken \in Nat
    BY DEF SessionInv, SessionTyped
<1> DEFINE asked == [c EXCEPT !.at = "refresh"]
           again == [asked EXCEPT !.retried = TRUE]
           renewing == [again EXCEPT !.refresh = refreshToken]
           failed == [c EXCEPT !.at = "error"]
<1>2. renewing \in Call /\ renewing.at = "refresh"
  <2>1. asked \in Call /\ asked.at = "refresh"
      BY <1>1 DEF Call, Places
  <2> HIDE DEF asked
  <2>2. again \in Call /\ again.at = "refresh"
      BY <2>1 DEF Call
  <2> HIDE DEF again
  <2> QED BY <1>1, <2>2 DEF Call
<1>3. failed \in Call /\ failed.at = "error"
    BY <1>1 DEF Call, Places
<1>4. Replace(c, renewing) \/ Replace(c, failed)
    BY Zenon DEF Unauthorised
<1> HIDE DEF renewing, failed
<1>5. PICK new \in Call : new.at # "refused" /\ Replace(c, new)
    BY <1>2, <1>3, <1>4
<1>6. UNCHANGED <<accessToken, refreshToken, staleRefresh, issuedPairs, lossSeen>>
    BY DEF Unauthorised, serverVars, tokenVars
<1>7. issuedPairs' \in Nat /\ issuedPairs' >= issuedPairs
    BY <1>6 DEF SessionInv, SessionTyped
<1>8. IsDue(new)'
    BY <1>5 DEF IsDue
<1> QED BY <1>5, <1>6, <1>7, <1>8, CallReplaced

(* A renewal is refused if the token it was asked with has expired.        *)
LEMMA RenewedKeeps ==
    ASSUME SessionInv, NEW c \in calls, Renewed(c)
    PROVE  SessionInv'
<1>1. c \in Call /\ issuedPairs \in Nat /\ c.refresh \in Nat /\ staleRefresh \in Nat
    BY DEF SessionInv, SessionTyped, Call
<1>2. UNCHANGED <<accessToken, refreshToken, staleRefresh, lossSeen>>
    BY DEF Renewed, tokenVars
<1>3. CASE Renewable(c.refresh)
  <2> DEFINE there == [c EXCEPT !.at = "renewed"]
             new == [there EXCEPT !.token = issuedPairs']
  <2>1. issuedPairs' = issuedPairs + 1 /\ Replace(c, new)
      BY <1>3, Zenon DEF Renewed
  <2>2. issuedPairs' \in Nat /\ issuedPairs' >= issuedPairs
      BY <1>1, <2>1
  <2>3. there \in Call /\ there.at = "renewed"
      BY <1>1 DEF Call, Places
  <2> HIDE DEF there
  <2>4. new \in Call /\ new.at = "renewed"
      BY <2>2, <2>3 DEF Call
  <2> HIDE DEF new
  <2>5. PICK p \in Call : p.at = "renewed" /\ Replace(c, p)
      BY <2>1, <2>4
  <2>6. IsDue(p)'
      BY <2>5 DEF IsDue
  <2> QED BY <1>2, <2>1, <2>2, <2>5, <2>6, CallReplaced
<1>4. CASE ~Renewable(c.refresh)
  <2> DEFINE new == [c EXCEPT !.at = "refused"]
  <2>1. issuedPairs' = issuedPairs /\ Replace(c, new)
      BY <1>4, Zenon DEF Renewed
  <2>2. issuedPairs' \in Nat /\ issuedPairs' >= issuedPairs
      BY <1>1, <2>1
  <2>3. new \in Call /\ new.refresh = c.refresh
      BY <1>1 DEF Call, Places
  <2> HIDE DEF new
  <2>4. IsDue(new)'
      BY <1>1, <1>2, <1>4, <2>3 DEF IsDue, Renewable
  <2> QED BY <1>2, <2>1, <2>2, <2>3, <2>4, CallReplaced
<1> QED BY <1>3, <1>4

LEMMA StoredKeeps ==
    ASSUME SessionInv, NEW c \in calls, TokensStored(c)
    PROVE  SessionInv'
<1>1. c \in Call /\ c.token \in Nat /\ issuedPairs \in Nat
    BY DEF SessionInv, SessionTyped, Call
<1> DEFINE new == [c EXCEPT !.at = "sent"]
<1>2. new \in Call /\ new.at = "sent"
    BY <1>1 DEF Call, Places
<1>3. calls' = (calls \ {c}) \union {new}
    BY Zenon DEF TokensStored, Replace
<1> HIDE DEF new
<1>4. /\ accessToken' = c.token /\ refreshToken' = c.token
      /\ UNCHANGED <<issuedPairs, staleRefresh, lossSeen>>
    BY DEF TokensStored, serverVars
<1>5. SessionTyped'
    BY <1>1, <1>2, <1>3, <1>4 DEF SessionInv, SessionTyped
<1>6. \A d \in calls' : IsDue(d)'
    BY <1>2, <1>3, <1>4 DEF SessionInv, IsDue
<1> QED BY <1>5, <1>6 DEF SessionInv

LEMMA CallEndsKeeps ==
    ASSUME SessionInv, NEW c \in calls, BackToLogin(c) \/ Settled(c)
    PROVE  SessionInv'
<1>1. /\ calls' \subseteq calls /\ UNCHANGED <<issuedPairs, lossSeen, staleRefresh>>
      /\ accessToken' \in {0, accessToken} /\ refreshToken' \in {0, refreshToken}
  <2>1. CASE BackToLogin(c)
      BY <2>1 DEF BackToLogin, serverVars
  <2>2. CASE Settled(c)
      BY <2>2 DEF Settled, serverVars, tokenVars
  <2> QED BY <2>1, <2>2
<1> QED BY <1>1, CallsLeft

(* What begins a call, and what leaves the calls alone.                    *)
LEMMA CallBeginsKeeps ==
    ASSUME SessionInv, CallApi \/ login \/ Reload
    PROVE  SessionInv'
<1>1. /\ SessionTyped /\ issuedPairs \in Nat /\ issuedPairs + 1 \in Nat
      /\ accessToken \in Nat /\ refreshToken \in Nat
    BY DEF SessionInv, SessionTyped
<1>2. /\ UNCHANGED <<staleRefresh, lossSeen>>
      /\ issuedPairs' \in {issuedPairs, issuedPairs + 1}
      /\ accessToken' \in {accessToken, issuedPairs + 1}
      /\ refreshToken' \in {refreshToken, issuedPairs + 1}
  <2>1. CASE CallApi
      BY <2>1 DEF CallApi, serverVars, tokenVars
  <2>2. CASE login
      BY <2>2 DEF login
  <2>3. CASE Reload
      BY <2>3 DEF Reload, serverVars, tokenVars
  <2> QED BY <2>1, <2>2, <2>3
<1>3. \E new \in Call : new.at = "sent" /\ calls' \subseteq calls \union {new}
  <2>1. CASE CallApi
    <3>1. PICK no \in Free : calls' = calls \union {NewCall(no, FALSE)}
        BY <2>1 DEF CallApi
    <3> QED BY <1>1, <3>1, FreeIsNat, NewCallTyped
  <2>2. CASE login
    <3>1. PICK no \in Free :
              calls' = calls \union {[NewCall(no, TRUE) EXCEPT !.token = issuedPairs']}
        BY <2>2 DEF login
    <3> DEFINE new == [NewCall(no, TRUE) EXCEPT !.token = issuedPairs']
    <3>2. no \in Nat /\ TRUE \in BOOLEAN /\ issuedPairs' \in Nat
        BY <1>1, <1>2, <3>1, FreeIsNat
    <3>3. new \in Call /\ new.at = "sent"
        BY <1>1, <3>2, NewCallTyped, Zenon
    <3> QED BY <3>1, <3>3, Zenon
  <2>3. CASE Reload
      BY <1>1, <2>3, NewCallTyped DEF Reload
  <2> QED BY <2>1, <2>2, <2>3
<1>4. PICK new \in Call : new.at = "sent" /\ calls' \subseteq calls \union {new}
    BY <1>3
<1>5. SessionTyped'
    BY <1>1, <1>2, <1>4 DEF SessionTyped
<1>6. \A d \in calls' : IsDue(d)'
    BY <1>2, <1>4 DEF SessionInv, IsDue
<1> QED BY <1>5, <1>6 DEF SessionInv

LEMMA OtherSessionKeeps ==
    ASSUME SessionInv,
           \/ \E a \in Admins : SubmitSetup(a) \/ CheckNoProctor(a) \/ initial_setup(a)
           \/ logout \/ AccessExpires \/ RefreshExpires
           \/ UNCHANGED sessionVars
    PROVE  SessionInv'
<1>1. /\ calls' \subseteq calls /\ UNCHANGED <<issuedPairs, lossSeen>>
      /\ accessToken' \in {0, accessToken} /\ refreshToken' \in {0, refreshToken}
      /\ staleRefresh' \in {staleRefresh, issuedPairs}
    BY DEF SubmitSetup, CheckNoProctor, initial_setup, logout, AccessExpires, RefreshExpires,
           sessionVars, serverVars, tokenVars
<1> QED BY <1>1, CallsLeft

LEMMA SessionInitInv == SessionInit => SessionInv
BY DEF SessionInit, SessionInv, SessionTyped, Call

LEMMA SessionStepInv == SessionInv /\ [SessionNext]_sessionVars => SessionInv'
BY ServedKeeps, UnauthorisedKeeps, RenewedKeeps, StoredKeeps, CallEndsKeeps, CallBeginsKeeps,
   OtherSessionKeeps DEF SessionNext

(***************************************************************************)
(* A session that can be renewed is kept (api.js:25-52): no answer 401     *)
(* ends in the login page unless the refresh token that was sent has       *)
(* expired or a message was lost.                                          *)
(***************************************************************************)
THEOREM SessionsAreKept == SessionSpec => SessionIsKept
<1>1. SessionInv => [\A c \in calls : BackToLogin(c) => c.refresh <= staleRefresh \/ lossSeen]_sessionVars
    BY DEF SessionInv, IsDue, BackToLogin
<1> QED BY <1>1, SessionInitInv, SessionStepInv, PTL DEF SessionSpec, SessionIsKept

-----------------------------------------------------------------------------
(***************************************************************************)
(* The settings.  What the page has received is what the file holds,       *)
(* unless a request has begun to write it or the page has missed a change. *)
(***************************************************************************)
Settings == [values : Nat, banner : Nat]
Stages == {"sent", "loaded", "imaged", "open", "done"}
SettingsRequest == [no : Nat \ {0}, do : {"save", "upload", "remove"}, values : Nat, at : Stages,
                    old : Settings]

SettingsTyped ==
    /\ settingsFile \in Seq(Settings)
    /\ settingsData \in Query(Settings) /\ Sound(settingsData)
    /\ form \in Nat
    /\ settingsRequests \subseteq SettingsRequest /\ settingsSent \in Nat

Writing(r) == r.at \in {"open", "done"}
Undisturbed == ~unaware /\ \A r \in settingsRequests : ~Writing(r)

DataIsFiles ==
    Undisturbed =>
        /\ settingsData.fetch = "read" => settingsData.answer = <<load_settings>>
        /\ HasData(settingsData) /\ ~Fetching(settingsData) /\ ~settingsData.failed =>
              settingsData.data = <<load_settings>>

(***************************************************************************)
(* An upload's number is in no file and in no other request's copy of it   *)
(* before it is saved; its image, once written, is not removed until then. *)
(***************************************************************************)
Unsaved(r) == r.do = "upload" /\ r.at # "done"
Numbered(r) == r.no <= settingsSent /\ r.old.banner <= settingsSent
Unheard(r) == load_settings.banner # r.no /\ \A s \in settingsRequests : s.old.banner # r.no

BannersAreOwn ==
    /\ load_settings.banner <= settingsSent
    /\ \A r \in settingsRequests :
          /\ Numbered(r)
          /\ Unsaved(r) => Unheard(r)
          /\ r.do = "upload" /\ r.at \in {"imaged", "open"} => r.no \in images
          /\ \A s \in settingsRequests : s.no = r.no => s = r

SettingsInv == SettingsTyped /\ DataIsFiles /\ BannersAreOwn /\ BannerIsOnDisk

-----------------------------------------------------------------------------
LEMMA LoadedSettings ==
    ASSUME settingsFile \in Seq(Settings)
    PROVE  /\ load_settings \in Settings
           /\ load_settings.banner \in Nat /\ load_settings.values \in Nat
<1>1. DefaultSettings \in Settings
    BY DEF Settings, DefaultSettings
<1>2. load_settings \in Settings
    BY <1>1 DEF load_settings
<1> QED BY <1>2 DEF Settings

LEMMA MovedRequest ==
    ASSUME NEW r \in SettingsRequest, NEW at \in Stages
    PROVE  LET p == [r EXCEPT !.at = at]
           IN  /\ p \in SettingsRequest /\ p.at = at
               /\ p.no = r.no /\ p.do = r.do /\ p.old = r.old
BY DEF SettingsRequest

LEMMA LoadedRequest ==
    ASSUME NEW r \in SettingsRequest, NEW d \in Settings
    PROVE  LET p == [r EXCEPT !.at = "loaded", !.old = d]
           IN  /\ p \in SettingsRequest /\ p.at = "loaded"
               /\ p.no = r.no /\ p.do = r.do /\ p.old = d
<1> DEFINE one == [r EXCEPT !.at = "loaded"]
           two == [one EXCEPT !.old = d]
<1>1. "loaded" \in Stages
    BY DEF Stages
<1>2. one \in SettingsRequest /\ one.at = "loaded" /\ one.no = r.no /\ one.do = r.do
    BY <1>1, MovedRequest, Zenon
<1>3. [r EXCEPT !.at = "loaded", !.old = d] = two
    BY Zenon
<1> HIDE DEF one
<1>4. /\ two \in SettingsRequest /\ two.at = "loaded"
      /\ two.no = one.no /\ two.do = one.do /\ two.old = d
    BY <1>2 DEF SettingsRequest
<1> HIDE DEF two
<1> QED BY <1>2, <1>3, <1>4

LEMMA SavedSettings ==
    ASSUME NEW r \in SettingsRequest
    PROVE  Saved(r) \in Settings /\ Saved(r).banner = IF r.do = "upload" THEN r.no ELSE 0
<1>1. /\ r.do \in {"save", "upload", "remove"} /\ r.values \in Nat /\ r.no \in Nat
      /\ r.old \in Settings
    BY DEF SettingsRequest
<1>2. CASE r.do = "save"
    BY <1>1, <1>2 DEF Saved, Settings
<1>3. CASE r.do # "save"
  <2>1. PICK b \in Nat : b = IF r.do = "upload" THEN r.no ELSE 0
      BY <1>1
  <2>2. Saved(r) = [r.old EXCEPT !.banner = b]
      BY <1>3, <2>1, Zenon DEF Saved
  <2>3. [r.old EXCEPT !.banner = b] \in Settings /\ [r.old EXCEPT !.banner = b].banner = b
      BY <1>1, <2>1 DEF Settings
  <2> QED BY <2>1, <2>2, <2>3
<1> QED BY <1>2, <1>3

LEMMA SettingsInitInv == SettingsInit => SettingsInv
<1> SUFFICES ASSUME SettingsInit PROVE SettingsInv
    OBVIOUS
<1>1. DefaultSettings \in Settings /\ DefaultSettings.banner = 0
    BY DEF DefaultSettings, Settings
<1>2. settingsFile = <<DefaultSettings>> /\ load_settings = DefaultSettings
    BY DEF SettingsInit, load_settings
<1>3. /\ settingsData \in Query(Settings) /\ Sound(settingsData)
      /\ Fetching(settingsData) /\ settingsData.fetch = "sent"
    BY MountedQuery DEF SettingsInit
<1>4. SettingsTyped
    BY <1>1, <1>2, <1>3 DEF SettingsInit, SettingsTyped
<1> QED BY <1>1, <1>2, <1>3, <1>4 DEF SettingsInit, SettingsInv, DataIsFiles, BannersAreOwn, BannerIsOnDisk

(***************************************************************************)
(* Steps that neither write the file nor move a request on: of the query   *)
(* it is known that what it has is as before, or better.                   *)
(***************************************************************************)
QueryKept ==
    /\ settingsData' \in Query(Settings) /\ Sound(settingsData)'
    /\ settingsData'.fetch = "read" /\ ~unaware' =>
          \/ settingsData'.answer = <<load_settings>>
          \/ settingsData.fetch = "read" /\ settingsData'.answer = settingsData.answer /\ ~unaware
    /\ HasData(settingsData)' /\ ~Fetching(settingsData)' /\ ~settingsData'.failed /\ ~unaware' =>
          \/ /\ settingsData'.data = settingsData.data /\ ~Fetching(settingsData)
             /\ ~settingsData.failed /\ ~unaware
          \/ settingsData.fetch = "read" /\ settingsData'.data = settingsData.answer /\ ~unaware

LEMMA FileStaysKeeps ==
    ASSUME SettingsInv, QueryKept, form' \in Nat,
           UNCHANGED <<settingsFile, images, settingsRequests, settingsSent, abandoned>>
    PROVE  SettingsInv'
<1>1. load_settings' = load_settings
    BY DEF load_settings
<1>2. SettingsTyped'
    BY DEF SettingsInv, SettingsTyped, QueryKept
<1>3. DataIsFiles'
    BY <1>1 DEF SettingsInv, DataIsFiles, Undisturbed, Writing, QueryKept, HasData, Fetching
<1>4. BannersAreOwn' /\ BannerIsOnDisk'
    BY <1>1 DEF SettingsInv, BannersAreOwn, BannerIsOnDisk, Numbered, Unsaved, Unheard
<1> QED BY <1>2, <1>3, <1>4 DEF SettingsInv

LEMMA SyncedIsNat ==
    ASSUME NEW q \in Query(Settings)
    PROVE  Synced(q) \in Nat
<1>1. HasData(q) => DataOf(q) \in Settings
    BY DataInD
<1> QED BY <1>1 DEF Synced, Settings

LEMMA PageOfSettingsKeeps ==
    ASSUME SettingsInv,
           \/ \E p \in {"settings", "dashboard"} : GoTo(p)
           \/ \E v \in Values \union {0} : SetForm(v)
           \/ SettingsProgress
           \/ UNCHANGED settingsVars
    PROVE  SettingsInv'
<1>1. /\ settingsData \in Query(Settings) /\ Sound(settingsData) /\ form \in Nat
      /\ load_settings \in Settings
    BY LoadedSettings DEF SettingsInv, SettingsTyped
<1>2. ASSUME UNCHANGED <<settingsData, unaware>> PROVE QueryKept
    BY <1>1, <1>2 DEF QueryKept, HasData, Fetching
<1>3. CASE \E p \in {"settings", "dashboard"} : GoTo(p)
  <2>1. /\ settingsData' \in {settingsData, Polled(settingsData)}
        /\ form' \in Nat
        /\ UNCHANGED <<settingsFile, images, settingsRequests, settingsSent, abandoned, unaware>>
      BY <1>1, <1>3, SyncedIsNat DEF GoTo
  <2>2. CASE settingsData' = settingsData
      BY <1>2, <2>1, <2>2, FileStaysKeeps
  <2>3. CASE settingsData' = Polled(settingsData)
    <3>1. QueryKept
        BY <1>1, <2>1, <2>3, PolledQuery DEF QueryKept, HasData, Fetching
    <3> QED BY <2>1, <3>1, FileStaysKeeps
  <2> QED BY <2>1, <2>2, <2>3
<1>4. CASE \E v \in Values \union {0} : SetForm(v)
  <2>1. form' \in Nat
      BY <1>4, SettingsAssumption DEF SetForm
  <2> QED BY <1>2, <1>4, <2>1, FileStaysKeeps DEF SetForm
<1>5. CASE SettingsProgress
  <2>1. PICK q \in Progress(settingsData, load_settings) :
            /\ settingsData' = q
            /\ form' = IF q.data = settingsData.data THEN form ELSE Synced(q)
            /\ unaware' = (unaware /\ q.fetch # "read")
      BY <1>5 DEF SettingsProgress
  <2>2. /\ q \in Query(Settings) /\ Sound(q)
        /\ \/ HasFailed(settingsData, q) \/ IsRead(settingsData, q, load_settings)
           \/ HasArrived(settingsData, q)
      BY <1>1, ProgressQuery
  <2>3. form' \in Nat
      BY <1>1, <2>1, <2>2, SyncedIsNat
  <2>4. QueryKept
    <3>1. CASE HasFailed(settingsData, q)
        BY <2>1, <2>2, <3>1 DEF QueryKept, HasFailed, Fetching
    <3>2. CASE IsRead(settingsData, q, load_settings)
        BY <2>1, <2>2, <3>2 DEF QueryKept, IsRead, Fetching
    <3>3. CASE HasArrived(settingsData, q)
        BY <2>1, <2>2, <3>3 DEF QueryKept, HasArrived, Fetching
    <3> QED BY <2>2, <3>1, <3>2, <3>3
  <2>5. UNCHANGED <<settingsFile, images, settingsRequests, settingsSent, abandoned>>
      BY <1>5 DEF SettingsProgress
  <2> QED BY <2>3, <2>4, <2>5, FileStaysKeeps
<1>6. CASE UNCHANGED settingsVars
    BY <1>1, <1>2, <1>6, FileStaysKeeps DEF settingsVars
<1> QED BY <1>3, <1>4, <1>5, <1>6

(* The file is written elsewhere: the page is not aware of it.             *)
LEMMA OtherSavesKeeps ==
    ASSUME SettingsInv, NEW v \in Values \union {0}, OtherSaves(v)
    PROVE  SettingsInv'
<1>1. v \in Nat
    BY SettingsAssumption
<1>2. /\ settingsFile' = <<[values |-> v, banner |-> 0]>> /\ unaware'
      /\ UNCHANGED <<images, settingsData, form, settingsRequests, settingsSent>>
    BY DEF OtherSaves
<1>3. load_settings' = [values |-> v, banner |-> 0]
    BY <1>2 DEF load_settings
<1>4. [values |-> v, banner |-> 0] \in Settings
    BY <1>1 DEF Settings
<1>5. SettingsTyped'
    BY <1>2, <1>4 DEF SettingsInv, SettingsTyped
<1>6. DataIsFiles' /\ BannerIsOnDisk'
    BY <1>2, <1>3 DEF DataIsFiles, Undisturbed, BannerIsOnDisk
<1>7. load_settings'.banner = 0
    BY <1>3
<1>8. \A r \in settingsRequests : r.no # 0
    BY DEF SettingsInv, SettingsTyped, SettingsRequest
<1>9. settingsSent' \in Nat
    BY <1>5 DEF SettingsTyped
<1>10. BannersAreOwn'
    BY <1>2, <1>7, <1>8, <1>9 DEF SettingsInv, BannersAreOwn, Numbered, Unsaved, Unheard
<1> QED BY <1>5, <1>6, <1>10 DEF SettingsInv

(* A request is sent, with a number that is in no file.                    *)
LEMMA SendKeeps ==
    ASSUME SettingsInv, NEW do \in {"save", "upload", "remove"}, NEW values \in Nat,
           SendSettings(do, values)
    PROVE  SettingsInv'
<1> DEFINE new == [no |-> settingsSent + 1, do |-> do, values |-> values, at |-> "sent",
                   old |-> DefaultSettings]
<1>1. /\ settingsSent \in Nat /\ settingsSent' = settingsSent + 1
      /\ settingsRequests' = settingsRequests \union {new}
      /\ UNCHANGED <<settingsFile, images, settingsData, form, abandoned, unaware>>
    BY DEF SettingsInv, SettingsTyped, SendSettings
<1>2. /\ new \in SettingsRequest /\ new.at = "sent" /\ new.no = settingsSent + 1
      /\ new.old.banner = 0
    BY <1>1 DEF SettingsRequest, Settings, Stages, DefaultSettings
<1> HIDE DEF new
<1>3. PICK p \in SettingsRequest :
          /\ p.at = "sent" /\ p.no = settingsSent + 1 /\ p.old.banner = 0
          /\ settingsRequests' = settingsRequests \union {p}
    BY <1>1, <1>2
<1>4. load_settings' = load_settings /\ load_settings.banner \in Nat
    BY <1>1, LoadedSettings DEF SettingsInv, SettingsTyped, load_settings
<1>5. SettingsTyped'
    BY <1>1, <1>3 DEF SettingsInv, SettingsTyped
<1>6. DataIsFiles'
    BY <1>1, <1>3, <1>4 DEF SettingsInv, DataIsFiles, Undisturbed, Writing
<1>7. BannerIsOnDisk'
    BY <1>1, <1>3, <1>4 DEF SettingsInv, BannerIsOnDisk
<1>8. load_settings.banner <= settingsSent
    BY DEF SettingsInv, BannersAreOwn
<1>9. ASSUME NEW r \in settingsRequests
      PROVE  /\ r.no \in Nat /\ r.no <= settingsSent /\ r.no # 0
             /\ r.old.banner \in Nat /\ r.old.banner <= settingsSent
    BY DEF SettingsInv, SettingsTyped, BannersAreOwn, Numbered, SettingsRequest, Settings
<1>10. /\ load_settings.banner <= settingsSent' /\ load_settings.banner # p.no
       /\ p.no <= settingsSent' /\ p.old.banner <= settingsSent'
    BY <1>1, <1>3, <1>4, <1>8
<1>11. ASSUME NEW r \in settingsRequests
       PROVE  /\ r.no <= settingsSent' /\ r.no # p.no /\ r.old.banner # p.no
              /\ p.old.banner # r.no /\ r.old.banner <= settingsSent'
    BY <1>1, <1>3, <1>9
<1>12. p.old.banner # p.no
    BY <1>1, <1>3
<1>13. BannersAreOwn'
    BY <1>1, <1>3, <1>4, <1>10, <1>11, <1>12 DEF SettingsInv, BannersAreOwn, Numbered, Unsaved, Unheard
<1> QED BY <1>5, <1>6, <1>7, <1>13 DEF SettingsInv

LEMMA PageSendsKeeps ==
    ASSUME SettingsInv, handleDeploy \/ handleBannerUpload \/ handleBannerDelete
    PROVE  SettingsInv'
<1>1. form \in Nat
    BY DEF SettingsInv, SettingsTyped
<1> QED BY <1>1, SendKeeps DEF handleDeploy, handleBannerUpload, handleBannerDelete

(***************************************************************************)
(* A request goes on: p takes its place.                                   *)
(***************************************************************************)
GoesOn(r, p) ==
    /\ settingsRequests' = (settingsRequests \ {r}) \union {p}
    /\ p.no = r.no /\ p.do = r.do
    /\ UNCHANGED <<settingsData, form, settingsSent, abandoned, unaware>>

LEMMA GoesOnTyped ==
    ASSUME SettingsInv, NEW r \in settingsRequests, NEW p \in SettingsRequest, GoesOn(r, p),
           settingsFile' \in Seq(Settings)
    PROVE  SettingsTyped'
BY DEF SettingsInv, SettingsTyped, GoesOn

LEMMA LoadKeeps ==
    ASSUME SettingsInv, NEW r \in settingsRequests, LoadForBanner(r)
    PROVE  SettingsInv'
<1>1. /\ r \in SettingsRequest /\ r.at = "sent"
      /\ load_settings \in Settings /\ settingsFile \in Seq(Settings)
    BY LoadedSettings DEF SettingsInv, SettingsTyped, LoadForBanner
<1>2. PICK p \in SettingsRequest :
          GoesOn(r, p) /\ p.at = "loaded" /\ p.old = load_settings
  <2> DEFINE new == [r EXCEPT !.at = "loaded", !.old = load_settings]
  <2>1. /\ new \in SettingsRequest /\ new.at = "loaded" /\ new.no = r.no /\ new.do = r.do
        /\ new.old = load_settings
      BY <1>1, LoadedRequest, Zenon
  <2>2. settingsRequests' = (settingsRequests \ {r}) \union {new}
      BY Zenon DEF LoadForBanner, At
  <2> HIDE DEF new
  <2>3. GoesOn(r, new)
      BY <2>1, <2>2 DEF GoesOn, LoadForBanner
  <2> QED BY <2>1, <2>3
<1>3. /\ UNCHANGED <<settingsFile, images, settingsData, unaware, settingsSent>>
      /\ load_settings' = load_settings
    BY DEF LoadForBanner, load_settings
<1>4. SettingsTyped'
    BY <1>1, <1>2, <1>3, GoesOnTyped
<1>5. DataIsFiles'
    BY <1>1, <1>2, <1>3 DEF SettingsInv, DataIsFiles, Undisturbed, Writing, GoesOn
<1>6. BannerIsOnDisk'
    BY <1>1, <1>2, <1>3 DEF SettingsInv, BannerIsOnDisk, GoesOn
<1>7. BannersAreOwn'
    BY <1>1, <1>2, <1>3 DEF SettingsInv, BannersAreOwn, Numbered, Unsaved, Unheard, GoesOn
<1> QED BY <1>4, <1>5, <1>6, <1>7 DEF SettingsInv

LEMMA ReplaceImageKeeps ==
    ASSUME SettingsInv, NEW r \in settingsRequests, ReplaceImage(r)
    PROVE  SettingsInv'
<1>1. r \in SettingsRequest /\ r.at = "loaded" /\ settingsFile \in Seq(Settings)
    BY DEF SettingsInv, SettingsTyped, ReplaceImage
<1>2. PICK p \in SettingsRequest : GoesOn(r, p) /\ p.at = "imaged" /\ p.old = r.old
  <2> DEFINE new == [r EXCEPT !.at = "imaged"]
  <2>1. "imaged" \in Stages
      BY DEF Stages
  <2>2. /\ new \in SettingsRequest /\ new.at = "imaged" /\ new.no = r.no /\ new.do = r.do
        /\ new.old = r.old
      BY <1>1, <2>1, MovedRequest, Zenon
  <2>3. settingsRequests' = (settingsRequests \ {r}) \union {new}
      BY Zenon DEF ReplaceImage, At
  <2> HIDE DEF new
  <2>4. GoesOn(r, new)
      BY <2>2, <2>3 DEF GoesOn, ReplaceImage
  <2> QED BY <2>2, <2>4
<1>3. /\ UNCHANGED <<settingsFile, settingsData, unaware, settingsSent>>
      /\ load_settings' = load_settings
      /\ images' = (IF r.do = "upload" THEN images \union {r.no} ELSE images) \ {r.old.banner}
    BY DEF ReplaceImage, load_settings
<1>4. SettingsTyped'
    BY <1>1, <1>2, <1>3, GoesOnTyped
<1>5. DataIsFiles'
    BY <1>1, <1>2, <1>3 DEF SettingsInv, DataIsFiles, Undisturbed, Writing, GoesOn
<1>6. BannerIsOnDisk'
    BY <1>1, <1>2, <1>3 DEF SettingsInv, BannerIsOnDisk, GoesOn
<1>7. \A s \in settingsRequests : Unsaved(s) => r.old.banner # s.no
    BY DEF SettingsInv, BannersAreOwn, Unheard
<1>8. \A s \in settingsRequests :
          s # r /\ s.do = "upload" /\ s.at \in {"imaged", "open"} => s.no \in images'
    BY <1>3, <1>7 DEF SettingsInv, BannersAreOwn, Unsaved
<1>9. r.do = "upload" => r.no \in images'
    BY <1>1, <1>3, <1>7 DEF Unsaved
<1>10. BannersAreOwn'
  <2>1. \A s \in settingsRequests' : Numbered(s)' /\ (Unsaved(s) => Unheard(s)')
      BY <1>1, <1>2, <1>3 DEF SettingsInv, BannersAreOwn, Numbered, Unsaved, Unheard, GoesOn
  <2>2. \A s \in settingsRequests' :
            s.do = "upload" /\ s.at \in {"imaged", "open"} => s.no \in images'
      BY <1>2, <1>8, <1>9 DEF GoesOn
  <2>3. \A s, t \in settingsRequests' : s.no = t.no => s = t
      BY <1>2 DEF SettingsInv, BannersAreOwn, GoesOn
  <2>4. \A s \in settingsRequests' : Unsaved(s)' <=> Unsaved(s)
      BY DEF Unsaved
  <2> QED BY <1>3, <2>1, <2>2, <2>3, <2>4 DEF SettingsInv, BannersAreOwn
<1> QED BY <1>4, <1>5, <1>6, <1>10 DEF SettingsInv

LEMMA OpenKeeps ==
    ASSUME SettingsInv, NEW r \in settingsRequests, OpenFile(r)
    PROVE  SettingsInv'
<1>1. /\ r \in SettingsRequest /\ r.at = IF r.do = "save" THEN "sent" ELSE "imaged"
    BY DEF SettingsInv, SettingsTyped, OpenFile
<1>2. PICK p \in SettingsRequest : GoesOn(r, p) /\ p.at = "open" /\ p.old = r.old
  <2> DEFINE new == [r EXCEPT !.at = "open"]
  <2>1. "open" \in Stages
      BY DEF Stages
  <2>2. /\ new \in SettingsRequest /\ new.at = "open" /\ new.no = r.no /\ new.do = r.do
        /\ new.old = r.old
      BY <1>1, <2>1, MovedRequest, Zenon
  <2>3. settingsRequests' = (settingsRequests \ {r}) \union {new}
      BY Zenon DEF OpenFile, At
  <2> HIDE DEF new
  <2>4. GoesOn(r, new)
      BY <2>2, <2>3 DEF GoesOn, OpenFile
  <2> QED BY <2>2, <2>4
<1>3. /\ UNCHANGED <<images, settingsData, unaware, settingsSent>>
      /\ settingsFile' = <<>> /\ load_settings' = DefaultSettings
    BY DEF OpenFile, load_settings
<1>4. SettingsTyped'
    BY <1>2, <1>3, GoesOnTyped
<1>5. DataIsFiles'
    BY <1>2 DEF DataIsFiles, Undisturbed, Writing, GoesOn
<1>6. BannerIsOnDisk'
    BY <1>3 DEF BannerIsOnDisk, DefaultSettings
<1>7. /\ load_settings'.banner = 0 /\ settingsSent' \in Nat
      /\ \A s \in settingsRequests : s.no # 0
    BY <1>3, <1>4 DEF DefaultSettings, SettingsInv, SettingsTyped, SettingsRequest
<1>8. BannersAreOwn'
    BY <1>1, <1>2, <1>3, <1>7 DEF SettingsInv, BannersAreOwn, Numbered, Unsaved, Unheard, GoesOn
<1> QED BY <1>4, <1>5, <1>6, <1>8 DEF SettingsInv

(* What an upload saves is its own number, whose image is there.           *)
LEMMA DumpKeeps ==
    ASSUME SettingsInv, NEW r \in settingsRequests, Dump(r)
    PROVE  SettingsInv'
<1>1. r \in SettingsRequest /\ r.at = "open" /\ r.no \in Nat \ {0} /\ settingsSent \in Nat
    BY DEF SettingsInv, SettingsTyped, Dump, SettingsRequest
<1>2. PICK p \in SettingsRequest : GoesOn(r, p) /\ p.at = "done" /\ p.old = r.old
  <2> DEFINE new == [r EXCEPT !.at = "done"]
  <2>1. "done" \in Stages
      BY DEF Stages
  <2>2. /\ new \in SettingsRequest /\ new.at = "done" /\ new.no = r.no /\ new.do = r.do
        /\ new.old = r.old
      BY <1>1, <2>1, MovedRequest, Zenon
  <2>3. settingsRequests' = (settingsRequests \ {r}) \union {new}
      BY Zenon DEF Dump, At
  <2> HIDE DEF new
  <2>4. GoesOn(r, new)
      BY <2>2, <2>3 DEF GoesOn, Dump
  <2> QED BY <2>2, <2>4
<1>3. Saved(r) \in Settings /\ Saved(r).banner = IF r.do = "upload" THEN r.no ELSE 0
    BY <1>1, SavedSettings
<1>4. /\ UNCHANGED <<images, settingsData, unaware, settingsSent>>
      /\ settingsFile' \in Seq(Settings)
      /\ load_settings'.banner = 0 \/ (r.do = "upload" /\ load_settings'.banner = r.no)
  <2>1. UNCHANGED <<images, settingsData, unaware, settingsSent>> /\ settingsFile \in Seq(Settings)
      BY DEF Dump, SettingsInv, SettingsTyped
  <2>2. CASE settingsFile' = <<Saved(r)>>
    <3>1. load_settings' = Saved(r) /\ settingsFile' \in Seq(Settings)
        BY <1>3, <2>2 DEF load_settings
    <3> QED BY <1>3, <2>1, <3>1
  <2>3. CASE settingsFile # <<>> /\ settingsFile' = <<Saved(r), settingsFile[1]>>
    <3>1. settingsFile[1] \in Settings
        BY <2>1, <2>3
    <3>2. settingsFile' \in Seq(Settings) /\ Len(settingsFile') = 2
        BY <1>3, <2>3, <3>1
    <3>3. load_settings'.banner = 0
        BY <3>2 DEF load_settings, DefaultSettings
    <3> QED BY <2>1, <3>2, <3>3
  <2> QED BY <2>2, <2>3 DEF Dump
<1>5. SettingsTyped'
    BY <1>2, <1>4, GoesOnTyped
<1>6. DataIsFiles'
    BY <1>2 DEF DataIsFiles, Undisturbed, Writing, GoesOn
<1>7. r.do = "upload" => r.no \in images
    BY <1>1 DEF SettingsInv, BannersAreOwn
<1>8. BannerIsOnDisk'
    BY <1>4, <1>7 DEF BannerIsOnDisk
<1>9. \A s \in settingsRequests : s.no # 0 /\ (s # r => s.no # r.no)
    BY DEF SettingsInv, SettingsTyped, BannersAreOwn, SettingsRequest
<1>10. load_settings'.banner <= settingsSent
    BY <1>1, <1>4 DEF SettingsInv, BannersAreOwn, Numbered
<1>11. BannersAreOwn'
  <2>1. \A s \in settingsRequests' : Numbered(s)'
      BY <1>2, <1>4 DEF SettingsInv, BannersAreOwn, Numbered, GoesOn
  <2>2. \A s \in settingsRequests' : Unsaved(s)' => s \in settingsRequests /\ s # r /\ Unsaved(s)
      BY <1>2 DEF Unsaved, GoesOn
  <2>3. \A s \in settingsRequests' : Unsaved(s)' => Unheard(s)'
    <3> SUFFICES ASSUME NEW s \in settingsRequests', Unsaved(s)' PROVE Unheard(s)'
        OBVIOUS
    <3>1. s \in settingsRequests /\ s # r /\ Unheard(s)
        BY <2>2 DEF SettingsInv, BannersAreOwn
    <3>2. load_settings'.banner # s.no
        BY <1>4, <1>9, <3>1
    <3> QED BY <1>2, <3>1, <3>2 DEF Unheard, GoesOn
  <2>4. \A s \in settingsRequests' :
            s.do = "upload" /\ s.at \in {"imaged", "open"} => s.no \in images'
      BY <1>2, <1>4 DEF SettingsInv, BannersAreOwn, GoesOn
  <2>5. \A s, t \in settingsRequests' : s.no = t.no => s = t
      BY <1>2 DEF SettingsInv, BannersAreOwn, GoesOn
  <2> QED BY <1>4, <1>10, <2>1, <2>3, <2>4, <2>5 DEF BannersAreOwn
<1> QED BY <1>5, <1>6, <1>8, <1>11 DEF SettingsInv

(* A request ends; if it has touched the file, the page fetches or misses  *)
(* the change.                                                             *)
LEMMA RequestEndsKeeps ==
    ASSUME SettingsInv, NEW r \in settingsRequests,
           AnswerArrives(r) \/ AnswerLost(r) \/ RequestDies(r)
    PROVE  SettingsInv'
<1>1. /\ settingsRequests' = settingsRequests \ {r}
      /\ UNCHANGED <<settingsFile, images, form, settingsSent>>
      /\ load_settings' = load_settings
      /\ abandoned \subseteq abandoned'
      /\ r.at = "imaged" => r.old.banner \in abandoned'
    BY DEF AnswerArrives, AnswerLost, RequestDies, load_settings
<1>2. settingsData \in Query(Settings) /\ Sound(settingsData)
    BY DEF SettingsInv, SettingsTyped
<1>3. settingsData' \in Query(Settings) /\ Sound(settingsData)'
  <2>1. CASE AnswerArrives(r)
      BY <1>2, <2>1, InvalidatedQuery DEF AnswerArrives, AfterAnswer
  <2>2. CASE AnswerLost(r) \/ RequestDies(r)
      BY <1>2, <2>2 DEF AnswerLost, RequestDies
  <2> QED BY <2>1, <2>2
<1>4. SettingsTyped'
    BY <1>1, <1>3 DEF SettingsInv, SettingsTyped
<1>5. BannersAreOwn'
    BY <1>1 DEF SettingsInv, BannersAreOwn, Numbered, Unsaved, Unheard
<1>6. BannerIsOnDisk'
    BY <1>1 DEF SettingsInv, BannerIsOnDisk
<1>7. DataIsFiles'
  <2>1. CASE AnswerArrives(r)
    <3>1. /\ settingsData' = Invalidated(settingsData)
          /\ unaware' = (unaware \/ (settingsData.fetch = "read" /\ ~HasData(settingsData)))
        BY <2>1 DEF AnswerArrives, AfterAnswer
    <3>2. /\ Fetching(settingsData)'
          /\ HasData(settingsData) => settingsData'.fetch = "sent"
          /\ ~HasData(settingsData) => (settingsData'.fetch = "read" <=> settingsData.fetch = "read")
        BY <1>2, <3>1, InvalidatedQuery
    <3>3. settingsData'.fetch = "read" => unaware'
        BY <3>1, <3>2
    <3> QED BY <3>2, <3>3 DEF DataIsFiles, Undisturbed
  <2>2. CASE AnswerLost(r) \/ RequestDies(r)
    <3>1. settingsData' = settingsData /\ (~unaware' => ~unaware /\ ~Writing(r))
        BY <2>2 DEF AnswerLost, RequestDies, Writing
    <3> QED BY <1>1, <3>1 DEF SettingsInv, DataIsFiles, Undisturbed, Writing
  <2> QED BY <2>1, <2>2
<1> QED BY <1>4, <1>5, <1>6, <1>7 DEF SettingsInv

LEMMA SettingsStepInv == SettingsInv /\ [SettingsNext]_settingsVars => SettingsInv'
BY PageOfSettingsKeeps, OtherSavesKeeps, PageSendsKeeps, LoadKeeps, ReplaceImageKeeps, OpenKeeps,
   DumpKeeps, RequestEndsKeeps DEF SettingsNext

LEMMA SettingsAlways == SettingsSpec => []SettingsInv
BY SettingsInitInv, SettingsStepInv, PTL DEF SettingsSpec

(***************************************************************************)
(* The banner that the settings name is on disk (settings.py:93-154),      *)
(* whichever uploads, removals and saves run in other processes and in     *)
(* whatever way their writes overlap, or the request that has removed it   *)
(* has yet to save or died before it did.                                  *)
(***************************************************************************)
THEOREM BannersAreOnDisk == SettingsSpec => []BannerIsOnDisk
<1>1. SettingsInv => BannerIsOnDisk
    BY DEF SettingsInv
<1> QED BY <1>1, SettingsAlways, PTL

(***************************************************************************)
(* A form without changes to apply shows the settings in force             *)
(* (Settings.jsx:66-119), for any number of requests and processes.        *)
(***************************************************************************)
THEOREM FormsShowSettings == SettingsSpec => []FormShowsSettings
<1>1. SettingsInv => FormShowsSettings
    BY DEF SettingsInv, DataIsFiles, Undisturbed, Writing, FormShowsSettings, hasChanges, HasData, DataOf
<1> QED BY <1>1, SettingsAlways, PTL

-----------------------------------------------------------------------------
(***************************************************************************)
(* The policy editor.  What the page has received is the server's policy,  *)
(* unless a deployment has replaced that and is not answered, or the page  *)
(* has missed a change.  A deployment comes from a page that has data, so  *)
(* its answer always has a fetch sent anew.                                *)
(***************************************************************************)
AQuery(q) == (\E D : q \in Query(D)) /\ Sound(q)
Deployed == deploying # <<>> /\ deploying[1].at = "done"

DataIsInForce ==
    ~behind /\ ~Deployed =>
        /\ policyData.fetch = "read" => policyData.answer = <<policy>>
        /\ HasData(policyData) /\ ~Fetching(policyData) /\ ~policyData.failed =>
              policyData.data = <<policy>>

EditorInv ==
    /\ AQuery(policyData)
    /\ deploying # <<>> =>
          /\ HasData(policyData)
          /\ deploying[1] \in [to : {deploying[1].to}, at : {"sent", "done"}]
    /\ DataIsInForce

LEMMA ProgressAQuery ==
    ASSUME NEW q, AQuery(q), NEW d, NEW p \in Progress(q, d)
    PROVE  /\ AQuery(p) /\ Fetching(q)
           /\ HasFailed(q, p) \/ IsRead(q, p, d) \/ HasArrived(q, p)
<1>1. PICK D : q \in Query(D)
    BY DEF AQuery
<1> DEFINE E == D \union {d}
<1>2. q \in Query(E) /\ d \in E
    BY <1>1 DEF Query, Maybe
<1> HIDE DEF E
<1>3. /\ p \in Query(E) /\ Sound(p) /\ Fetching(q)
      /\ HasFailed(q, p) \/ IsRead(q, p, d) \/ HasArrived(q, p)
    BY <1>2, ProgressQuery DEF AQuery
<1> QED BY <1>3 DEF AQuery

LEMMA EditorInitInv == EditorInit => EditorInv
<1> SUFFICES ASSUME EditorInit PROVE EditorInv
    OBVIOUS
<1>1. policyData = Mounted /\ deploying = <<>>
    BY DEF EditorInit
<1>2. Mounted \in Query({}) /\ Sound(Mounted) /\ Fetching(Mounted) /\ Mounted.fetch = "sent"
    BY MountedQuery
<1> QED BY <1>1, <1>2 DEF EditorInv, AQuery, DataIsInForce

(* What is only edited, and a deployment that is sent.                     *)
LEMMA EditsKeep ==
    ASSUME EditorInv, UNCHANGED <<policy, policyData, behind>>,
           \/ UNCHANGED deploying
           \/ /\ HasData(policyData) /\ deploying = <<>>
              /\ \E to : deploying' = <<[to |-> to, at |-> "sent"]>>
    PROVE  EditorInv'
BY DEF EditorInv, DataIsInForce, Deployed, AQuery, HasData

LEMMA EditingKeeps ==
    ASSUME EditorInv,
           \/ \E n \in Names : onDelete(n) \/ onAdd(n) \/ toggleSelection(n)
           \/ \E n \in Names, action \in Actions : onActionChange(n, action)
           \/ \E size \in Sizes : setMinFileSizeMB(size)
           \/ \E size \in Sizes : handleImport(Strictest.rules, size)
           \/ \E s \in {Domains, Processes, Extensions}, found \in SUBSET Names : handleSelectAll(s, found)
           \/ \E s \in {Domains, Processes, Extensions}, action \in Actions \union {"DELETE"} :
                 handleBulkAction(s, action)
           \/ \E preset \in {"STRICT", "MODERATE", "LAX", "CUSTOM"} : handlePreset(preset)
    PROVE  EditorInv'
<1>1. UNCHANGED <<policy, policyData, deploying, behind>>
    BY Zenon DEF onDelete, onAdd, toggleSelection, onActionChange, setMinFileSizeMB, handleImport,
                 handleSelectAll, handleBulkAction, handlePreset, Change
<1> QED BY <1>1, EditsKeep

LEMMA DeployKeeps ==
    ASSUME EditorInv, Deploy
    PROVE  EditorInv'
<1>1. /\ HasData(policyData) /\ deploying = <<>>
      /\ UNCHANGED <<policy, policyData, behind>>
      /\ deploying' = <<[to |-> [rules |-> rules, size |-> minFileSizeMB], at |-> "sent"]>>
    BY DEF Deploy, isDirty
<1> QED BY <1>1, EditsKeep

(* The policy is replaced: the page will fetch it, or is behind.           *)
LEMMA ReplacedKeeps ==
    ASSUME EditorInv, update_policy \/ OtherDeploys(Strictest)
    PROVE  EditorInv'
<1>1. CASE update_policy
  <2> DEFINE done == [deploying[1] EXCEPT !.at = "done"]
  <2>1. deploying # <<>> /\ deploying[1].at = "sent" /\ deploying' = <<done>> /\ policyData' = policyData
      BY <1>1 DEF update_policy
  <2>2. done.at = "done" /\ done \in [to : {done.to}, at : {"sent", "done"}]
      BY <2>1 DEF EditorInv
  <2> HIDE DEF done
  <2>3. Deployed'
      BY <2>1, <2>2 DEF Deployed
  <2> QED BY <2>1, <2>2, <2>3 DEF EditorInv, AQuery, DataIsInForce, HasData
<1>2. CASE OtherDeploys(Strictest)
    BY <1>2 DEF OtherDeploys, EditorInv, AQuery, DataIsInForce
<1> QED BY <1>1, <1>2

(* A deployment ends: the page fetches, or is behind.                      *)
LEMMA DeploymentEndsKeeps ==
    ASSUME EditorInv, DeploySucceeds \/ DeployFails
    PROVE  EditorInv'
<1>1. deploying # <<>> /\ HasData(policyData) /\ deploying' = <<>> /\ ~Deployed'
    BY DEF DeploySucceeds, DeployFails, EditorInv, Deployed
<1>2. CASE DeploySucceeds
  <2>1. policyData' = Invalidated(policyData)
      BY <1>2 DEF DeploySucceeds, AfterDeploy
  <2>2. AQuery(policyData)' /\ policyData'.fetch = "sent" /\ Fetching(policyData)'
      BY <1>1, <2>1, InvalidatedQuery DEF EditorInv, AQuery
  <2> QED BY <1>1, <2>2 DEF EditorInv, DataIsInForce
<1>3. CASE DeployFails
  <2>1. policyData' = policyData /\ policy' = policy /\ behind' = (behind \/ Deployed)
      BY <1>3 DEF DeployFails, Deployed
  <2> QED BY <1>1, <2>1 DEF EditorInv, AQuery, DataIsInForce
<1> QED BY <1>2, <1>3

(* A fetch goes on, or is sent again once the network is back.             *)
LEMMA PolicyFetchedKeeps ==
    ASSUME EditorInv, PolicyArrives \/ NetworkBack \/ UNCHANGED editorVars
    PROVE  EditorInv'
<1>1. AQuery(policyData) /\ Sound(policyData)
    BY DEF EditorInv, AQuery
<1>2. policy' = policy /\ deploying' = deploying /\ (Deployed' <=> Deployed)
    BY DEF PolicyArrives, NetworkBack, editorVars, Deployed
<1>3. CASE PolicyArrives
  <2>1. PICK q \in Progress(policyData, policy) :
            policyData' = q /\ behind' = (behind /\ q.fetch # "read")
      BY <1>3 DEF PolicyArrives
  <2>2. /\ AQuery(q) /\ Fetching(policyData)
        /\ HasFailed(policyData, q) \/ IsRead(policyData, q, policy) \/ HasArrived(policyData, q)
      BY <1>1, ProgressAQuery
  <2>3. CASE HasFailed(policyData, q)
      BY <1>2, <2>1, <2>2, <2>3 DEF EditorInv, DataIsInForce, HasFailed, HasData, Fetching
  <2>4. CASE IsRead(policyData, q, policy)
      BY <1>2, <2>1, <2>2, <2>4 DEF EditorInv, DataIsInForce, IsRead, HasData, Fetching
  <2>5. CASE HasArrived(policyData, q)
      BY <1>1, <1>2, <2>1, <2>2, <2>5 DEF EditorInv, DataIsInForce, HasArrived, HasData, Fetching, Sound
  <2> QED BY <2>2, <2>3, <2>4, <2>5
<1>4. CASE NetworkBack
  <2>1. policyData' = Polled(policyData) /\ behind' = behind
      BY <1>4 DEF NetworkBack
  <2>2. /\ AQuery(policyData)' /\ Fetching(policyData)'
        /\ policyData'.data = policyData.data /\ policyData'.answer = policyData.answer
        /\ (policyData'.fetch = "read" <=> policyData.fetch = "read")
      BY <1>1, <2>1, PolledQuery DEF AQuery
  <2> QED BY <1>2, <2>1, <2>2 DEF EditorInv, DataIsInForce, HasData
<1>5. CASE UNCHANGED editorVars
    BY <1>5, EditsKeep DEF editorVars
<1> QED BY <1>3, <1>4, <1>5

LEMMA EditorStepInv == EditorInv /\ [EditorNext]_editorVars => EditorInv'
BY EditingKeeps, DeployKeeps, ReplacedKeeps, DeploymentEndsKeeps, PolicyFetchedKeeps, Zenon DEF EditorNext

(***************************************************************************)
(* A page that offers nothing to deploy shows the policy in force          *)
(* (DetectionPolicy.jsx:423-524), for any names, built-in rules and edits. *)
(***************************************************************************)
THEOREM CleanPagesShowInForce == EditorSpec => []CleanShowsInForce
<1>1. EditorInv => CleanShowsInForce
  <2> SUFFICES ASSUME EditorInv, HasData(policyData), ~isDirty, ~behind, ~Fetching(policyData),
                      ~policyData.failed, ~Deployed
               PROVE  rules = OrBuiltin(policy.rules) /\ minFileSizeMB = OrHundred(policy.size)
      BY DEF CleanShowsInForce, Deployed
  <2>1. DataOf(policyData) = policy
      BY DEF EditorInv, DataIsInForce, DataOf
  <2>2. rules = OrBuiltin(DataOf(policyData).rules) /\ minFileSizeMB = OrHundred(DataOf(policyData).size)
      BY Zenon DEF isDirty, BaseRules
  <2> QED BY <2>1, <2>2
<1> QED BY <1>1, EditorInitInv, EditorStepInv, PTL DEF EditorSpec

-----------------------------------------------------------------------------
(***************************************************************************)
(* The competitions.  An entry that no late banner and no second Create    *)
(* has carried off belongs to one competition, or to none yet, and every   *)
(* place that it passes through has it with that one: the rows, the list   *)
(* as it was received and as it is being received, the form and the        *)
(* requests; and it is in one request to create at most.                   *)
(***************************************************************************)
RowFields == {"active", "entry", "banner"}
RequestFields == {"no", "do", "id", "fields", "active", "at"}
FormFields == {"entry", "banner"}

PagesTyped ==
    /\ \A c \in DOMAIN competition : DOMAIN competition[c] = RowFields
    /\ \A r \in compRequests : DOMAIN r = RequestFields
    /\ AQuery(competitions) /\ AQuery(activeList)

EntriesTyped ==
    /\ entered \in 1..MaxEntered /\ DOMAIN madeFor = 1..MaxEntered
    /\ \A u \in uploading : u.entry \in 0..entered
    /\ DOMAIN newComp = FormFields /\ newComp.entry \in 0..entered
    /\ freeIds \subseteq Competitions

Out == spread \union doubtful

OwnedBy(e, c, made, out) == e \in out \/ made[e] = c

OwnRows(f, n, made, out) ==
    \A c \in DOMAIN f : c # "none" /\ f[c].entry \in 1..n /\ OwnedBy(f[c].entry, c, made, out)

OwnRequest(r, n, made, out) ==
    /\ r.do = "update" =>
          r.id # "none" /\ r.fields.entry \in 1..n /\ OwnedBy(r.fields.entry, r.id, made, out)
    /\ r.do = "create" =>
          /\ r.fields.entry \in 1..n /\ r.at \in {"sent", "done"}
          /\ r.at = "sent" => OwnedBy(r.fields.entry, "none", made, out)

(* Two requests to create one and the same.                                *)
Alike(r, s) == r # s /\ r.do = "create" /\ s.do = "create" /\ r.fields.entry = s.fields.entry

RowsAreOwn ==
    /\ OwnRows(competition, entered, madeFor, Out)
    /\ HasData(competitions) => OwnRows(DataOf(competitions), entered, madeFor, Out)
    /\ competitions.fetch = "read" => OwnRows(competitions.answer[1], entered, madeFor, Out)

FormIsOwn ==
    newComp.entry # 0 =>
        IF editingId = "none" THEN OwnedBy(newComp.entry, "none", madeFor, Out) \/ Creating(newComp.entry)
        ELSE OwnedBy(newComp.entry, editingId, madeFor, Out)

RequestsAreOwn ==
    /\ \A r \in compRequests : OwnRequest(r, entered, madeFor, Out)
    /\ \A r, s \in compRequests : Alike(r, s) => r.fields.entry \in Out

(* What the layout has is what is active, unless it has yet to hear.       *)
ListIsActive ==
    ~untold /\ (\A r \in compRequests : r.at # "done") =>
        /\ activeList.fetch = "read" => activeList.answer = <<ActiveIds>>
        /\ HasData(activeList) /\ ~Fetching(activeList) /\ ~activeList.failed =>
              activeList.data = <<ActiveIds>>

PagesInv == PagesTyped /\ EntriesTyped /\ RowsAreOwn /\ FormIsOwn /\ RequestsAreOwn /\ ListIsActive

-----------------------------------------------------------------------------
(* Entries are added, given to a competition, and carried off.             *)
Later(n, made, out, n2, made2, out2) ==
    /\ n \in Nat /\ n2 \in Nat /\ n <= n2 /\ out \subseteq out2
    /\ \A e \in 1..n : e \in out2 \/ made2[e] = made[e] \/ made[e] = "none"

EntriesLater == Later(entered, madeFor, Out, entered', madeFor', Out')

LEMMA RowsStayOwn ==
    ASSUME NEW f, NEW n, NEW made, NEW out, NEW n2, NEW made2, NEW out2,
           Later(n, made, out, n2, made2, out2), OwnRows(f, n, made, out)
    PROVE  OwnRows(f, n2, made2, out2)
<1> SUFFICES ASSUME NEW c \in DOMAIN f
             PROVE  c # "none" /\ f[c].entry \in 1..n2 /\ OwnedBy(f[c].entry, c, made2, out2)
    BY DEF OwnRows
<1>1. c # "none" /\ f[c].entry \in 1..n /\ OwnedBy(f[c].entry, c, made, out)
    BY DEF OwnRows
<1>2. f[c].entry \in 1..n2
    BY <1>1 DEF Later
<1> QED BY <1>1, <1>2 DEF Later, OwnedBy

LEMMA EntriesStay == ASSUME EntriesTyped, UNCHANGED entryVars PROVE EntriesLater
BY DEF EntriesTyped, entryVars, EntriesLater, Later, Out

LEMMA MountedAQuery == AQuery(Mounted) /\ Fetching(Mounted) /\ ~HasData(Mounted) /\ Mounted.fetch = "sent"
<1>1. Mounted \in Query({}) /\ Sound(Mounted) /\ Fetching(Mounted) /\ ~HasData(Mounted) /\ Mounted.fetch = "sent"
    BY MountedQuery
<1> QED BY <1>1 DEF AQuery

LEMMA InvalidatedAQuery ==
    ASSUME NEW q, AQuery(q)
    PROVE  /\ AQuery(Invalidated(q)) /\ Fetching(Invalidated(q)) /\ Invalidated(q).data = q.data
           /\ HasData(q) => Invalidated(q).fetch = "sent"
           /\ ~HasData(q) => /\ Invalidated(q).answer = q.answer
                             /\ Invalidated(q).fetch = "read" <=> q.fetch = "read"
<1>1. PICK D : q \in Query(D)
    BY DEF AQuery
<1>2. /\ Invalidated(q) \in Query(D) /\ Sound(Invalidated(q)) /\ Fetching(Invalidated(q))
      /\ Invalidated(q).data = q.data
      /\ HasData(q) => Invalidated(q).fetch = "sent"
      /\ ~HasData(q) => /\ Invalidated(q).answer = q.answer
                        /\ Invalidated(q).fetch = "read" <=> q.fetch = "read"
    BY <1>1, InvalidatedQuery DEF AQuery
<1> QED BY <1>2 DEF AQuery

LEMMA PolledAQuery ==
    ASSUME NEW q, AQuery(q)
    PROVE  /\ AQuery(Polled(q)) /\ Fetching(Polled(q)) /\ Polled(q).data = q.data
           /\ Polled(q).answer = q.answer
           /\ Polled(q).fetch = "read" <=> q.fetch = "read"
<1>1. PICK D : q \in Query(D)
    BY DEF AQuery
<1>2. /\ Polled(q) \in Query(D) /\ Sound(Polled(q)) /\ Fetching(Polled(q))
      /\ Polled(q).data = q.data /\ Polled(q).answer = q.answer
      /\ Polled(q).fetch = "read" <=> q.fetch = "read"
    BY <1>1, PolledQuery DEF AQuery
<1> QED BY <1>2 DEF AQuery

LEMMA CompRequestMoved ==
    ASSUME NEW r, DOMAIN r = RequestFields, NEW at
    PROVE  LET p == [r EXCEPT !.at = at]
           IN  /\ DOMAIN p = RequestFields /\ p.at = at
               /\ p.do = r.do /\ p.id = r.id /\ p.fields = r.fields
BY DEF RequestFields

LEMMA PagesInitInv == PagesInit => PagesInv
<1> SUFFICES ASSUME PagesInit PROVE PagesInv
    OBVIOUS
<1>1. /\ competition = [c \in {FirstCompetition} |-> [active |-> FALSE, entry |-> 1, banner |-> 0]]
      /\ competitions = Mounted /\ activeList = Mounted /\ compRequests = {} /\ uploading = {}
      /\ newComp = EmptyForm /\ entered = 1 /\ freeIds = Competitions \ {FirstCompetition}
      /\ madeFor = [e \in 1..MaxEntered |-> IF e = 1 THEN FirstCompetition ELSE "none"]
    BY DEF PagesInit
<1>2. PagesTyped
    BY <1>1, MountedAQuery DEF PagesTyped, RowFields
<1>3. EntriesTyped
    BY <1>1, PagesAssumption DEF EntriesTyped, EmptyForm, FormFields
<1>4. OwnRows(competition, entered, madeFor, Out)
    BY <1>1, PagesAssumption DEF OwnRows, OwnedBy
<1>5. RowsAreOwn
    BY <1>1, <1>4, MountedAQuery DEF RowsAreOwn
<1>6. FormIsOwn /\ RequestsAreOwn
    BY <1>1 DEF FormIsOwn, RequestsAreOwn, EmptyForm
<1>7. ListIsActive
    BY <1>1, MountedAQuery DEF ListIsActive
<1> QED BY <1>2, <1>3, <1>5, <1>6, <1>7 DEF PagesInv

(***************************************************************************)
(* The form is opened, filled in, left or saved; the rows and the lists    *)
(* stay.  A new request joins those there are.                             *)
(***************************************************************************)
Joins(r) ==
    /\ compRequests' = compRequests \union {r}
    /\ DOMAIN r = RequestFields /\ r.at = "sent" /\ OwnRequest(r, entered', madeFor', Out')
    /\ \A s \in compRequests : Alike(r, s) => r.fields.entry \in Out'

LEMMA RequestsStayOwn ==
    ASSUME PagesInv, EntriesLater, UNCHANGED madeFor,
           UNCHANGED compRequests \/ \E r : Joins(r)
    PROVE  RequestsAreOwn'
<1>1. ASSUME NEW r \in compRequests PROVE OwnRequest(r, entered', madeFor', Out')
  <2>1. OwnRequest(r, entered, madeFor, Out)
      BY DEF PagesInv, RequestsAreOwn
  <2>2. entered \in Nat /\ entered' \in Nat /\ entered <= entered' /\ Out \subseteq Out'
      BY DEF EntriesLater, Later
  <2>3. r.fields.entry \in 1..entered => r.fields.entry \in 1..entered'
      BY <2>2
  <2> QED BY <2>1, <2>2, <2>3 DEF OwnRequest, OwnedBy
<1>2. \A r, s \in compRequests : Alike(r, s) => r.fields.entry \in Out'
    BY DEF PagesInv, RequestsAreOwn, EntriesLater, Later
<1>3. CASE UNCHANGED compRequests
    BY <1>1, <1>2, <1>3 DEF RequestsAreOwn
<1>4. ASSUME NEW r, Joins(r) PROVE RequestsAreOwn'
  <2>1. \A s \in compRequests' : OwnRequest(s, entered', madeFor', Out')
      BY <1>1, <1>4 DEF Joins
  <2>2. ASSUME NEW s \in compRequests', NEW t \in compRequests', Alike(s, t)
        PROVE  s.fields.entry \in Out'
    <3>1. CASE s \in compRequests /\ t \in compRequests
        BY <1>2, <2>2, <3>1
    <3>2. CASE s = r /\ t \in compRequests
        BY <1>4, <2>2, <3>2 DEF Joins
    <3>3. CASE s \in compRequests /\ t = r
        BY <1>4, <2>2, <3>3 DEF Joins, Alike
    <3> QED BY <1>4, <2>2, <3>1, <3>2, <3>3 DEF Joins, Alike
  <2> QED BY <2>1, <2>2 DEF RequestsAreOwn
<1> QED BY <1>3, <1>4

LEMMA FormStepKeeps ==
    ASSUME PagesInv, UNCHANGED <<competition, competitions, activeList, untold>>,
           EntriesLater, EntriesTyped', FormIsOwn', RequestsAreOwn',
           UNCHANGED compRequests \/ \E r : Joins(r)
    PROVE  PagesInv'
<1>1. PagesTyped'
    BY DEF PagesInv, PagesTyped, Joins
<1>2. OwnRows(competition, entered', madeFor', Out')
    BY RowsStayOwn DEF PagesInv, RowsAreOwn, EntriesLater
<1>3. HasData(competitions) => OwnRows(DataOf(competitions), entered', madeFor', Out')
    BY RowsStayOwn DEF PagesInv, RowsAreOwn, EntriesLater
<1>4. competitions.fetch = "read" => OwnRows(competitions.answer[1], entered', madeFor', Out')
    BY RowsStayOwn DEF PagesInv, RowsAreOwn, EntriesLater
<1>5. RowsAreOwn'
    BY <1>2, <1>3, <1>4 DEF RowsAreOwn
<1>6. ActiveIds' = ActiveIds
    BY DEF ActiveIds
<1>7. (\A r \in compRequests' : r.at # "done") => \A r \in compRequests : r.at # "done"
    BY DEF Joins
<1>8. ListIsActive'
    BY <1>6, <1>7 DEF PagesInv, ListIsActive
<1> QED BY <1>1, <1>5, <1>8 DEF PagesInv

LEMMA FormHandledKeeps ==
    ASSUME PagesInv,
           \/ OpenCreate \/ ChooseBanner \/ ClickBeside \/ CancelForm \/ handleFileUpload
           \/ \E c \in Competitions : openEditModal(c) \/ DeleteComp(c)
           \/ UNCHANGED pagesVars
    PROVE  PagesInv'
<1>1. EntriesTyped /\ FormIsOwn
    BY DEF PagesInv
<1>2. UNCHANGED <<competition, competitions, activeList, untold, freeIds, entryVars, compRequests>>
    BY DEF OpenCreate, ChooseBanner, ClickBeside, CancelForm, handleFileUpload, DeleteComp, openEditModal,
           FormStep, pagesVars
<1>3. EntriesLater
    BY <1>1, <1>2, EntriesStay
<1>4. RequestsAreOwn'
    BY <1>2, <1>3, RequestsStayOwn DEF entryVars
<1>5. UNCHANGED <<entered, madeFor, spread, doubtful>> /\ Out' = Out
    BY <1>2 DEF entryVars, Out
<1>6. CASE OpenCreate \/ ClickBeside \/ UNCHANGED pagesVars \/ \E c \in Competitions : DeleteComp(c)
  <2>1. UNCHANGED <<uploading, editingId, newComp>>
      BY <1>6 DEF OpenCreate, ClickBeside, DeleteComp, FormStep, formVars, pagesVars
  <2>2. EntriesTyped'
      BY <1>1, <1>2, <1>5, <2>1 DEF EntriesTyped
  <2>3. FormIsOwn'
      BY <1>1, <1>2, <1>5, <2>1 DEF FormIsOwn, Creating
  <2> QED BY <1>2, <1>3, <1>4, <2>2, <2>3, FormStepKeeps
<1>7. CASE ChooseBanner
  <2>1. UNCHANGED <<uploading, editingId>> /\ newComp' = [newComp EXCEPT !.banner = 0]
      BY <1>7 DEF ChooseBanner, FormStep
  <2>2. DOMAIN newComp' = FormFields /\ newComp'.entry = newComp.entry
      BY <1>1, <2>1 DEF EntriesTyped, FormFields
  <2>3. EntriesTyped'
      BY <1>1, <1>2, <1>5, <2>1, <2>2 DEF EntriesTyped
  <2>4. FormIsOwn'
      BY <1>1, <1>2, <1>5, <2>1, <2>2 DEF FormIsOwn, Creating
  <2> QED BY <1>2, <1>3, <1>4, <2>3, <2>4, FormStepKeeps
<1>8. CASE CancelForm
  <2>1. UNCHANGED uploading /\ newComp' = EmptyForm
      BY <1>8 DEF CancelForm, FormStep
  <2>2. EntriesTyped'
      BY <1>1, <1>2, <1>5, <2>1 DEF EntriesTyped, EmptyForm, FormFields
  <2>3. FormIsOwn'
      BY <2>1 DEF FormIsOwn, EmptyForm
  <2> QED BY <1>2, <1>3, <1>4, <2>2, <2>3, FormStepKeeps
<1>9. CASE handleFileUpload
  <2>1. /\ uploading' = uploading \union {[entry |-> newComp.entry, file |-> compEvents']}
        /\ UNCHANGED <<editingId, newComp>>
      BY <1>9 DEF handleFileUpload, formVars
  <2>2. EntriesTyped'
      BY <1>1, <1>2, <1>5, <2>1 DEF EntriesTyped
  <2>3. FormIsOwn'
      BY <1>1, <1>2, <1>5, <2>1 DEF FormIsOwn, Creating
  <2> QED BY <1>2, <1>3, <1>4, <2>2, <2>3, FormStepKeeps
<1>10. ASSUME NEW c \in Competitions, openEditModal(c) PROVE PagesInv'
  <2> DEFINE comp == DataOf(competitions)[c]
  <2>1. /\ UNCHANGED uploading /\ editingId' = c /\ newComp' = [entry |-> comp.entry, banner |-> comp.banner]
        /\ HasData(competitions) /\ c \in DOMAIN DataOf(competitions)
      BY <1>10 DEF openEditModal, FormStep, ListedComps
  <2>2. OwnRows(DataOf(competitions), entered, madeFor, Out)
      BY <2>1 DEF PagesInv, RowsAreOwn
  <2>3. comp.entry \in 1..entered /\ OwnedBy(comp.entry, c, madeFor, Out) /\ c # "none"
      BY <2>1, <2>2 DEF OwnRows
  <2> HIDE DEF comp
  <2>4. DOMAIN newComp' = FormFields /\ newComp'.entry = comp.entry
      BY <2>1 DEF FormFields
  <2>5. newComp'.entry \in 0..entered
      BY <1>1, <2>3, <2>4 DEF EntriesTyped
  <2>6. EntriesTyped'
      BY <1>1, <1>2, <1>5, <2>1, <2>4, <2>5 DEF EntriesTyped
  <2>7. FormIsOwn'
      BY <1>5, <2>1, <2>3, <2>4 DEF FormIsOwn
  <2> QED BY <1>2, <1>3, <1>4, <2>6, <2>7, FormStepKeeps
<1> QED BY <1>6, <1>7, <1>8, <1>9, <1>10

(* A name is typed: it is an entry that nothing else has.                  *)
LEMMA EnterNameKeeps == ASSUME PagesInv, EnterName PROVE PagesInv'
<1>1. EntriesTyped /\ MaxEntered \in Nat
    BY PagesAssumption DEF PagesInv
<1>2. /\ entered < MaxEntered /\ entered' = entered + 1
      /\ newComp' = [newComp EXCEPT !.entry = entered']
      /\ madeFor' = [madeFor EXCEPT ![entered'] = editingId]
      /\ UNCHANGED <<competition, competitions, activeList, untold, freeIds, compRequests, uploading, editingId,
                     spread, doubtful>>
    BY DEF EnterName, FormStep
<1>3. entered \in Nat /\ entered' \in 1..MaxEntered /\ entered' \in 0..entered' /\ Out' = Out
    BY <1>1, <1>2 DEF EntriesTyped, Out
<1>4. DOMAIN newComp' = FormFields /\ newComp'.entry = entered'
    BY <1>1, <1>2 DEF EntriesTyped, FormFields
<1>5. /\ DOMAIN madeFor' = 1..MaxEntered /\ madeFor'[entered'] = editingId
      /\ \A e \in 1..entered : madeFor'[e] = madeFor[e]
    BY <1>1, <1>2, <1>3 DEF EntriesTyped
<1>6. \A u \in uploading' : u.entry \in 0..entered'
    BY <1>1, <1>2, <1>3 DEF EntriesTyped
<1>7. EntriesTyped'
    BY <1>1, <1>2, <1>3, <1>4, <1>5, <1>6 DEF EntriesTyped
<1>8. EntriesLater
    BY <1>2, <1>3, <1>5 DEF EntriesLater, Later
<1>9. FormIsOwn'
    BY <1>2, <1>4, <1>5 DEF FormIsOwn, OwnedBy
<1>10. ASSUME NEW r \in compRequests' PROVE OwnRequest(r, entered', madeFor', Out')
  <2>1. OwnRequest(r, entered, madeFor, Out)
      BY <1>2 DEF PagesInv, RequestsAreOwn
  <2>2. ASSUME r.fields.entry \in 1..entered, NEW c, OwnedBy(r.fields.entry, c, madeFor, Out)
        PROVE  r.fields.entry \in 1..entered' /\ OwnedBy(r.fields.entry, c, madeFor', Out')
      BY <1>2, <1>3, <1>5, <2>2 DEF OwnedBy
  <2>3. r.fields.entry \in 1..entered => r.fields.entry \in 1..entered'
      BY <1>2, <1>3
  <2> QED BY <2>1, <2>2, <2>3 DEF OwnRequest
<1>11. RequestsAreOwn'
    BY <1>2, <1>3, <1>10 DEF PagesInv, RequestsAreOwn
<1> QED BY <1>2, <1>7, <1>8, <1>9, <1>11, FormStepKeeps

(* A banner's answer that replaces an entry carries its own off.           *)
LEMMA UploadedKeeps == ASSUME PagesInv, NEW u \in uploading, Uploaded(u) PROVE PagesInv'
<1>1. EntriesTyped /\ FormIsOwn /\ u.entry \in 0..entered
    BY DEF PagesInv, EntriesTyped
<1>2. /\ UNCHANGED <<competition, competitions, activeList, untold, freeIds, compRequests, editingId,
                     entered, madeFor, doubtful>>
      /\ uploading' = uploading \ {u}
    BY DEF Uploaded
<1>3. \/ /\ newComp' = [entry |-> u.entry, banner |-> u.file]
         /\ spread' = IF newComp.entry = u.entry THEN spread ELSE spread \union {u.entry}
      \/ UNCHANGED <<newComp, spread>>
    BY DEF Uploaded
<1>4. Out \subseteq Out' /\ spread \subseteq spread'
    BY <1>2, <1>3 DEF Out
<1>5. DOMAIN newComp' = FormFields /\ newComp'.entry \in 0..entered
    BY <1>1, <1>3 DEF EntriesTyped, FormFields
<1>6. EntriesTyped'
    BY <1>1, <1>2, <1>5 DEF EntriesTyped
<1>7. EntriesLater
    BY <1>1, <1>2, <1>4 DEF EntriesTyped, EntriesLater, Later
<1>8. newComp'.entry = newComp.entry \/ newComp'.entry \in Out'
    BY <1>3 DEF Out
<1>9. FormIsOwn'
  <2>1. CASE newComp'.entry \in Out'
      BY <2>1 DEF FormIsOwn, OwnedBy
  <2>2. CASE newComp'.entry = newComp.entry
      BY <1>1, <1>2, <1>4, <2>2 DEF FormIsOwn, OwnedBy, Creating
  <2> QED BY <1>8, <2>1, <2>2
<1>10. RequestsAreOwn'
    BY <1>2, <1>7, RequestsStayOwn
<1> QED BY <1>2, <1>6, <1>7, <1>9, <1>10, FormStepKeeps

(* A request of which no second Create is one.                             *)
LEMMA SentKeeps ==
    ASSUME PagesInv, NEW do, NEW id, NEW fields, NEW active, SendComp(do, id, fields, active),
           doubtful \subseteq doubtful',
           do = "update" => id # "none" /\ fields.entry \in 1..entered /\ OwnedBy(fields.entry, id, madeFor, Out),
           do = "create" => /\ fields.entry \in 1..entered /\ OwnedBy(fields.entry, "none", madeFor, Out')
                            /\ Creating(fields.entry) => fields.entry \in doubtful'
    PROVE  PagesInv'
<1> DEFINE r == [no |-> compSent, do |-> do, id |-> id, fields |-> fields, active |-> active, at |-> "sent"]
<1>1. /\ compRequests' = compRequests \union {r}
      /\ UNCHANGED <<competition, freeIds, competitions, activeList, editingId, newComp, uploading,
                     entered, madeFor, spread, untold>>
    BY DEF SendComp, formVars
<1>2. DOMAIN r = RequestFields /\ r.at = "sent" /\ r.do = do /\ r.fields = fields /\ r.id = id
    BY DEF RequestFields
<1> HIDE DEF r
<1>3. Out \subseteq Out' /\ doubtful' \subseteq Out'
    BY <1>1 DEF Out
<1>4. EntriesTyped' /\ EntriesLater
    BY <1>1, <1>3 DEF PagesInv, EntriesTyped, EntriesLater, Later
<1>5. OwnRequest(r, entered', madeFor', Out')
    BY <1>1, <1>2, <1>3 DEF OwnRequest, OwnedBy
<1>6. ASSUME NEW s \in compRequests, Alike(r, s) PROVE r.fields.entry \in Out'
  <2>1. do = "create" /\ Creating(fields.entry)
      BY <1>2, <1>6 DEF Alike, Creating
  <2> QED BY <1>2, <1>3, <2>1
<1>7. Joins(r)
    BY <1>1, <1>2, <1>5, <1>6 DEF Joins
<1>8. RequestsAreOwn'
    BY <1>1, <1>4, <1>7, RequestsStayOwn
<1>9. FormIsOwn'
  <2>1. FormIsOwn /\ (Creating(newComp.entry) => Creating(newComp.entry)')
      BY <1>1 DEF PagesInv, Creating
  <2> QED BY <1>1, <1>3, <2>1 DEF FormIsOwn, OwnedBy
<1> QED BY <1>1, <1>4, <1>7, <1>8, <1>9, FormStepKeeps

LEMMA PageAsksKeeps ==
    ASSUME PagesInv,
           \/ handleSaveCompetition \/ ConfirmDeletion
           \/ \E c \in Competitions : handleResetTimer(c)
           \/ \E c \in Competitions, active \in BOOLEAN : handleUpdateStatus(c, active)
    PROVE  PagesInv'
<1>1. EntriesTyped /\ FormIsOwn
    BY DEF PagesInv
<1>2. CASE handleSaveCompetition
  <2>1. newComp.entry # 0 /\ newComp.entry \in 1..entered
      BY <1>1, <1>2 DEF handleSaveCompetition, EntriesTyped
  <2>2. CASE editingId # "none" /\ SendComp("update", editingId, newComp, FALSE) /\ UNCHANGED doubtful
      BY <1>1, <2>1, <2>2, SentKeeps DEF FormIsOwn
  <2>3. CASE /\ editingId = "none" /\ SendComp("create", "none", newComp, FALSE)
             /\ doubtful' = IF Creating(newComp.entry) THEN doubtful \union {newComp.entry} ELSE doubtful
    <3>1. doubtful \subseteq doubtful' /\ (Creating(newComp.entry) => newComp.entry \in doubtful')
        BY <2>3
    <3>2. Out \subseteq Out' /\ doubtful' \subseteq Out'
        BY <2>3, <3>1 DEF SendComp, Out
    <3>3. OwnedBy(newComp.entry, "none", madeFor, Out')
        BY <1>1, <2>1, <2>3, <3>1, <3>2 DEF FormIsOwn, OwnedBy
    <3> QED BY <2>1, <2>3, <3>1, <3>3, SentKeeps
  <2> QED BY <1>2, <2>2, <2>3 DEF handleSaveCompetition
<1>3. CASE ConfirmDeletion
  <2>1. CASE SendComp("delete", compDialog, EmptyForm, FALSE) /\ UNCHANGED doubtful
      BY <2>1, SentKeeps
  <2>2. CASE UNCHANGED <<competition, freeIds, competitions, activeList, formVars, uploading,
                         compRequests, compSent, compEvents, entryVars, untold>>
    <3>1. UNCHANGED <<competition, freeIds, competitions, activeList, newComp, editingId, uploading,
                      compRequests, entered, madeFor, spread, doubtful, untold>> /\ UNCHANGED entryVars
        BY <2>2 DEF formVars, entryVars
    <3>2. EntriesTyped' /\ EntriesLater
        BY <1>1, <3>1, EntriesStay DEF EntriesTyped
    <3>3. FormIsOwn'
        BY <1>1, <3>1 DEF FormIsOwn, Creating, Out
    <3>4. RequestsAreOwn'
        BY <3>1, <3>2, RequestsStayOwn
    <3> QED BY <3>1, <3>2, <3>3, <3>4, FormStepKeeps
  <2> QED BY <1>3, <2>1, <2>2 DEF ConfirmDeletion
<1>4. ASSUME NEW c \in Competitions, handleResetTimer(c) PROVE PagesInv'
  <2>1. SendComp("reset", c, EmptyForm, FALSE) /\ UNCHANGED doubtful
      BY <1>4 DEF handleResetTimer
  <2> QED BY <2>1, SentKeeps
<1>5. ASSUME NEW c \in Competitions, NEW active \in BOOLEAN, handleUpdateStatus(c, active) PROVE PagesInv'
  <2>1. SendComp("status", c, EmptyForm, active) /\ UNCHANGED doubtful
      BY <1>5 DEF handleUpdateStatus
  <2> QED BY <2>1, SentKeeps
<1> QED BY <1>2, <1>3, <1>4, <1>5

-----------------------------------------------------------------------------
(***************************************************************************)
(* The server's part of a request.  A new row's entry had no competition   *)
(* yet, or is one of those carried off.                                    *)
(***************************************************************************)
LEMMA InsertedRows ==
    ASSUME PagesInv, NEW c, c # "none", NEW e \in 1..entered, NEW fields, fields.entry = e,
           OwnedBy(e, "none", madeFor, Out),
           competition' = Inserted(c, fields), madeFor' = [madeFor EXCEPT ![e] = c],
           UNCHANGED <<entered, spread, doubtful>>
    PROVE  /\ EntriesLater /\ DOMAIN madeFor' = 1..MaxEntered
           /\ \A d \in DOMAIN competition' : DOMAIN competition'[d] = RowFields
           /\ OwnRows(competition', entered', madeFor', Out')
<1>1. /\ \A d \in DOMAIN competition : DOMAIN competition[d] = RowFields
      /\ OwnRows(competition, entered, madeFor, Out)
      /\ entered \in Nat /\ e \in 1..MaxEntered /\ DOMAIN madeFor = 1..MaxEntered
    BY PagesAssumption DEF PagesInv, PagesTyped, RowsAreOwn, EntriesTyped
<1>2. Out' = Out /\ madeFor'[e] = c /\ DOMAIN madeFor' = 1..MaxEntered
    BY <1>1 DEF Out
<1>3. \A x \in 1..entered : x # e => madeFor'[x] = madeFor[x]
    BY <1>1 DEF PagesInv, EntriesTyped
<1>4. EntriesLater
    BY <1>1, <1>2, <1>3 DEF EntriesLater, Later, OwnedBy
<1>5. OwnRows(competition, entered', madeFor', Out')
    BY <1>1, <1>4, RowsStayOwn DEF EntriesLater
<1>6. competition' = [d \in DOMAIN competition \union {c} |->
                        IF d = c THEN [active |-> FALSE, entry |-> fields.entry, banner |-> fields.banner]
                        ELSE competition[d]]
    BY DEF Inserted
<1>7. ASSUME NEW d \in DOMAIN competition'
      PROVE  /\ DOMAIN competition'[d] = RowFields
             /\ d # "none" /\ competition'[d].entry \in 1..entered' /\ OwnedBy(competition'[d].entry, d, madeFor', Out')
  <2>1. CASE d = c
      BY <1>2, <1>6, <2>1 DEF OwnedBy, RowFields
  <2>2. CASE d # c
    <3>1. d \in DOMAIN competition /\ competition'[d] = competition[d]
        BY <1>6, <1>7, <2>2
    <3> QED BY <1>1, <1>5, <3>1 DEF OwnRows
  <2> QED BY <2>1, <2>2
<1> QED BY <1>2, <1>4, <1>7 DEF OwnRows

LEMMA ChangedRows ==
    ASSUME PagesInv, NEW r \in compRequests, r.do # "create", r.id \in DOMAIN competition,
           NEW rows2, rows2 = Changed(r)
    PROVE  /\ \A d \in DOMAIN rows2 : DOMAIN rows2[d] = RowFields
           /\ OwnRows(rows2, entered, madeFor, Out)
<1>1. /\ \A d \in DOMAIN competition : DOMAIN competition[d] = RowFields
      /\ OwnRows(competition, entered, madeFor, Out) /\ OwnRequest(r, entered, madeFor, Out)
    BY DEF PagesInv, PagesTyped, RowsAreOwn, RequestsAreOwn
<1> DEFINE Fits(row, d) == /\ DOMAIN row = RowFields /\ d # "none" /\ row.entry \in 1..entered
                           /\ OwnedBy(row.entry, d, madeFor, Out)
<1>2. \A d \in DOMAIN competition : Fits(competition[d], d)
    BY <1>1 DEF OwnRows
<1>3. ASSUME \A d \in DOMAIN rows2 : Fits(rows2[d], d)
      PROVE  /\ \A d \in DOMAIN rows2 : DOMAIN rows2[d] = RowFields
             /\ OwnRows(rows2, entered, madeFor, Out)
    BY <1>3 DEF OwnRows
<1>4. CASE r.do = "update"
  <2> DEFINE new == [active |-> competition[r.id].active, entry |-> r.fields.entry, banner |-> r.fields.banner]
  <2>1. rows2 = [competition EXCEPT ![r.id] = new]
      BY <1>4 DEF Changed
  <2>2. Fits(new, r.id)
      BY <1>1, <1>4 DEF OwnRequest, RowFields
  <2> HIDE DEF new, Fits
  <2>3. \A d \in DOMAIN rows2 : Fits(rows2[d], d)
      BY <1>2, <2>1, <2>2
  <2> QED BY <1>3, <2>3
<1>5. CASE r.do = "status"
  <2> DEFINE new == [competition[r.id] EXCEPT !.active = r.active]
  <2>1. rows2 = [competition EXCEPT ![r.id] = new]
      BY <1>5 DEF Changed
  <2>2. Fits(new, r.id)
      BY <1>2 DEF RowFields
  <2> HIDE DEF new, Fits
  <2>3. \A d \in DOMAIN rows2 : Fits(rows2[d], d)
      BY <1>2, <2>1, <2>2
  <2> QED BY <1>3, <2>3
<1>6. CASE r.do = "delete"
  <2>1. rows2 = [d \in DOMAIN competition \ {r.id} |-> competition[d]]
      BY <1>6 DEF Changed, Restrict
  <2> HIDE DEF Fits
  <2>2. \A d \in DOMAIN rows2 : Fits(rows2[d], d)
      BY <1>2, <2>1
  <2> QED BY <1>3, <2>2
<1>7. CASE r.do \notin {"update", "status", "delete"}
  <2>1. rows2 = competition
      BY <1>7 DEF Changed
  <2> QED BY <1>2, <1>3, <2>1
<1> QED BY <1>4, <1>5, <1>6, <1>7

LEMMA AnsweredKeeps ==
    ASSUME PagesInv, NEW r \in compRequests, r.at = "sent", NEW p,
           DOMAIN p = RequestFields, p.do = r.do, p.id = r.id, p.fields = r.fields,
           p.at \in {"done", "refused"}, r.do = "create" => p.at = "done",
           compRequests' = (compRequests \ {r}) \union {p},
           UNCHANGED <<competitions, activeList, editingId, newComp, uploading, entered, spread, doubtful, untold>>,
           EntriesLater, freeIds' \subseteq freeIds, DOMAIN madeFor' = 1..MaxEntered,
           \A d \in DOMAIN competition' : DOMAIN competition'[d] = RowFields,
           OwnRows(competition', entered', madeFor', Out'),
           p.at = "refused" => competition' = competition,
           \A e \in 1..entered : madeFor'[e] = madeFor[e] \/ (r.do = "create" /\ e = r.fields.entry)
    PROVE  PagesInv'
<1>1. PagesTyped'
    BY DEF PagesInv, PagesTyped
<1>2. EntriesTyped' /\ Out' = Out
    BY DEF PagesInv, EntriesTyped, Out
<1>3. HasData(competitions) => OwnRows(DataOf(competitions), entered', madeFor', Out')
    BY RowsStayOwn DEF PagesInv, RowsAreOwn, EntriesLater
<1>4. competitions.fetch = "read" => OwnRows(competitions.answer[1], entered', madeFor', Out')
    BY RowsStayOwn DEF PagesInv, RowsAreOwn, EntriesLater
<1>5. RowsAreOwn'
    BY <1>3, <1>4 DEF RowsAreOwn, HasData, DataOf
<1>6. \A s \in compRequests : OwnRequest(s, entered, madeFor, Out) /\ (Alike(r, s) => r.fields.entry \in Out)
    BY DEF PagesInv, RequestsAreOwn
<1>7. ASSUME NEW e \in 1..entered, NEW c, c # "none", OwnedBy(e, c, madeFor, Out)
      PROVE  OwnedBy(e, c, madeFor', Out')
    BY <1>7 DEF EntriesLater, Later, OwnedBy
<1>8. ASSUME NEW s \in compRequests, s # r PROVE OwnRequest(s, entered', madeFor', Out')
  <2>1. OwnRequest(s, entered, madeFor, Out)
      BY <1>6
  <2>2. CASE s.do = "update"
      BY <1>7, <2>1, <2>2 DEF OwnRequest
  <2>3. CASE s.do = "create"
    <3>1. CASE r.do = "create" /\ s.fields.entry = r.fields.entry
      <4>1. s.fields.entry \in Out
          BY <1>6, <1>8, <2>3, <3>1 DEF Alike
      <4> QED BY <1>2, <2>1, <2>3, <4>1 DEF OwnRequest, OwnedBy
    <3>2. CASE ~(r.do = "create" /\ s.fields.entry = r.fields.entry)
      <4>1. madeFor'[s.fields.entry] = madeFor[s.fields.entry]
          BY <2>1, <2>3, <3>2 DEF OwnRequest
      <4> QED BY <1>2, <2>1, <2>3, <4>1 DEF OwnRequest, OwnedBy
    <3> QED BY <3>1, <3>2
  <2> QED BY <2>2, <2>3 DEF OwnRequest
<1>9. OwnRequest(p, entered', madeFor', Out')
  <2>1. OwnRequest(r, entered, madeFor, Out)
      BY <1>6
  <2>2. CASE p.do = "update"
      BY <1>7, <2>1, <2>2 DEF OwnRequest
  <2>3. CASE p.do = "create"
      BY <2>1, <2>3 DEF OwnRequest
  <2> QED BY <2>2, <2>3 DEF OwnRequest
<1>10. ASSUME NEW s \in compRequests', NEW t \in compRequests', Alike(s, t) PROVE s.fields.entry \in Out'
  <2>1. CASE s \in compRequests /\ t \in compRequests
      BY <1>2, <1>10, <2>1 DEF PagesInv, RequestsAreOwn
  <2>2. CASE s = p /\ t \in compRequests \ {r}
    <3>1. Alike(r, t)
        BY <1>10, <2>2 DEF Alike
    <3> QED BY <1>2, <1>6, <2>2, <3>1
  <2>3. CASE s \in compRequests \ {r} /\ t = p
    <3>1. Alike(r, s)
        BY <1>10, <2>3 DEF Alike
    <3> QED BY <1>2, <1>6, <2>3, <3>1 DEF Alike
  <2> QED BY <1>10, <2>1, <2>2, <2>3 DEF Alike
<1>11. RequestsAreOwn'
    BY <1>8, <1>9, <1>10 DEF RequestsAreOwn
<1>12. ASSUME NEW e, Creating(e) PROVE Creating(e)'
  <2>1. PICK s \in compRequests : s.do = "create" /\ s.fields.entry = e
      BY <1>12 DEF Creating
  <2>2. PICK t \in compRequests' : t.do = "create" /\ t.fields.entry = e
      BY <2>1
  <2> QED BY <2>2 DEF Creating
<1>13. FormIsOwn'
  <2> SUFFICES ASSUME newComp.entry # 0
               PROVE  IF editingId = "none"
                      THEN OwnedBy(newComp.entry, "none", madeFor', Out') \/ Creating(newComp.entry)'
                      ELSE OwnedBy(newComp.entry, editingId, madeFor', Out')
      BY DEF FormIsOwn, Creating
  <2>1. FormIsOwn /\ newComp.entry \in 1..entered
      BY DEF PagesInv, EntriesTyped
  <2>2. CASE editingId # "none"
      BY <1>7, <2>1, <2>2 DEF FormIsOwn
  <2>3. CASE editingId = "none" /\ r.do = "create" /\ newComp.entry = r.fields.entry
    <3>1. Creating(newComp.entry)
        BY <2>3 DEF Creating
    <3> QED BY <1>12, <2>3, <3>1
  <2>4. CASE editingId = "none" /\ ~(r.do = "create" /\ newComp.entry = r.fields.entry)
    <3>1. madeFor'[newComp.entry] = madeFor[newComp.entry]
        BY <2>1, <2>4
    <3>2. OwnedBy(newComp.entry, "none", madeFor, Out) \/ Creating(newComp.entry)
        BY <2>1, <2>4 DEF FormIsOwn
    <3> QED BY <1>2, <1>12, <2>4, <3>1, <3>2 DEF OwnedBy
  <2> QED BY <2>2, <2>3, <2>4
<1>14. ListIsActive'
  <2>1. CASE p.at = "done"
      BY <2>1 DEF ListIsActive
  <2>2. CASE p.at = "refused"
    <3>1. ActiveIds' = ActiveIds
        BY <2>2 DEF ActiveIds
    <3> QED BY <2>2, <3>1 DEF PagesInv, ListIsActive, HasData, Fetching
  <2> QED BY <2>1, <2>2
<1> QED BY <1>1, <1>2, <1>5, <1>11, <1>13, <1>14 DEF PagesInv

LEMMA ServeCompKeeps ==
    ASSUME PagesInv, NEW r \in compRequests, ServeComp(r)
    PROVE  PagesInv'
<1>1. DOMAIN r = RequestFields /\ OwnRequest(r, entered, madeFor, Out) /\ r.at = "sent"
    BY DEF PagesInv, PagesTyped, RequestsAreOwn, ServeComp
<1>2. UNCHANGED <<competitions, activeList, editingId, newComp, uploading, entered, spread, doubtful, untold>>
    BY DEF ServeComp, formVars
<1> DEFINE p(at) == [r EXCEPT !.at = at]
<1>3. \A at : /\ DOMAIN p(at) = RequestFields /\ p(at).at = at
              /\ p(at).do = r.do /\ p(at).id = r.id /\ p(at).fields = r.fields
    BY <1>1, CompRequestMoved, Zenon
<1>4. ASSUME r.do = "create", NEW c \in freeIds,
             competition' = Inserted(c, r.fields), freeIds' = freeIds \ {c},
             madeFor' = [madeFor EXCEPT ![r.fields.entry] = c],
             compRequests' = (compRequests \ {r}) \union {p("done")}
      PROVE  PagesInv'
  <2>1. c # "none" /\ r.fields.entry \in 1..entered /\ OwnedBy(r.fields.entry, "none", madeFor, Out)
      BY <1>1, <1>4, PagesAssumption DEF OwnRequest, PagesInv, EntriesTyped
  <2>2. /\ EntriesLater /\ DOMAIN madeFor' = 1..MaxEntered
        /\ \A d \in DOMAIN competition' : DOMAIN competition'[d] = RowFields
        /\ OwnRows(competition', entered', madeFor', Out')
      BY <1>2, <1>4, <2>1, InsertedRows
  <2>3. \A e \in 1..entered : madeFor'[e] = madeFor[e] \/ (r.do = "create" /\ e = r.fields.entry)
      BY <1>4, PagesAssumption DEF PagesInv, EntriesTyped
  <2> DEFINE q == p("done")
  <2>4. /\ DOMAIN q = RequestFields /\ q.at = "done"
        /\ q.do = r.do /\ q.id = r.id /\ q.fields = r.fields
        /\ compRequests' = (compRequests \ {r}) \union {q}
      BY <1>3, <1>4
  <2> HIDE DEF p, q
  <2>5. freeIds' \subseteq freeIds
      BY <1>4
  <2> QED BY <1>1, <1>2, <1>4, <2>2, <2>3, <2>4, <2>5, AnsweredKeeps
<1>5. ASSUME r.do # "create", UNCHANGED <<freeIds, madeFor>>, NEW at, at \in {"done", "refused"},
             compRequests' = (compRequests \ {r}) \union {p(at)},
             at = "refused" => competition' = competition,
             at = "done" => r.id \in DOMAIN competition /\ competition' = Changed(r)
      PROVE  PagesInv'
  <2>1. EntriesLater
      BY <1>2, <1>5, EntriesStay DEF entryVars, PagesInv
  <2>2. DOMAIN madeFor' = 1..MaxEntered /\ Out' = Out
      BY <1>2, <1>5 DEF PagesInv, EntriesTyped, Out
  <2>3. /\ \A d \in DOMAIN competition' : DOMAIN competition'[d] = RowFields
        /\ OwnRows(competition', entered, madeFor, Out)
    <3>1. CASE at = "refused"
        BY <1>5, <3>1 DEF PagesInv, PagesTyped, RowsAreOwn
    <3>2. CASE at = "done"
        BY <1>5, <3>2, ChangedRows
    <3> QED BY <1>5, <3>1, <3>2
  <2>4. OwnRows(competition', entered', madeFor', Out')
      BY <1>2, <1>5, <2>2, <2>3
  <2> HIDE DEF p
  <2> QED BY <1>1, <1>2, <1>3, <1>5, <2>1, <2>2, <2>3, <2>4, AnsweredKeeps
<1>6. CASE r.do = "create" /\ \E c \in freeIds :
                /\ competition' = Inserted(c, r.fields) /\ freeIds' = freeIds \ {c}
                /\ madeFor' = [madeFor EXCEPT ![r.fields.entry] = c]
  <2>1. compRequests' = (compRequests \ {r}) \union {p("done")}
      BY <1>6 DEF ServeComp
  <2> HIDE DEF p
  <2> QED BY <1>4, <1>6, <2>1
<1>7. CASE r.do # "create"
  <2>1. UNCHANGED <<freeIds, madeFor>>
      BY <1>7 DEF ServeComp
  <2>2. CASE r.id \in DOMAIN competition /\ ~RaisesNameError(r)
    <3>1. competition' = Changed(r) /\ compRequests' = (compRequests \ {r}) \union {p("done")}
        BY <1>7, <2>2 DEF ServeComp
    <3> HIDE DEF p
    <3> QED BY <1>5, <1>7, <2>1, <2>2, <3>1
  <2>3. CASE ~(r.id \in DOMAIN competition /\ ~RaisesNameError(r))
    <3>1. competition' = competition /\ compRequests' = (compRequests \ {r}) \union {p("refused")}
        BY <1>7, <2>3 DEF ServeComp
    <3> HIDE DEF p
    <3> QED BY <1>5, <1>7, <2>1, <3>1
  <2> QED BY <2>2, <2>3
<1> QED BY <1>6, <1>7 DEF ServeComp

(***************************************************************************)
(* An answer: the lists are fetched anew, but for what the layout is not   *)
(* told of, and the form is emptied whichever request it was.              *)
(***************************************************************************)
LEMMA EndedRequests ==
    ASSUME PagesInv, NEW r \in compRequests, compRequests' = compRequests \ {r},
           UNCHANGED <<competition, entered, madeFor, spread, uploading, freeIds>>, doubtful \subseteq doubtful'
    PROVE  /\ RequestsAreOwn' /\ EntriesLater
           /\ OwnRows(competition', entered', madeFor', Out')
           /\ HasData(competitions) => OwnRows(DataOf(competitions), entered', madeFor', Out')
           /\ competitions.fetch = "read" => OwnRows(competitions.answer[1], entered', madeFor', Out')
<1>1. Out \subseteq Out'
    BY DEF Out
<1>2. EntriesLater
    BY <1>1 DEF PagesInv, EntriesTyped, EntriesLater, Later
<1>3. OwnRows(competition', entered', madeFor', Out')
    BY <1>2, RowsStayOwn DEF PagesInv, RowsAreOwn, EntriesLater
<1>4. HasData(competitions) => OwnRows(DataOf(competitions), entered', madeFor', Out')
    BY <1>2, RowsStayOwn DEF PagesInv, RowsAreOwn, EntriesLater
<1>5. competitions.fetch = "read" => OwnRows(competitions.answer[1], entered', madeFor', Out')
    BY <1>2, RowsStayOwn DEF PagesInv, RowsAreOwn, EntriesLater
<1>6. \A s \in compRequests : OwnRequest(s, entered', madeFor', Out')
    BY <1>1 DEF PagesInv, RequestsAreOwn, OwnRequest, OwnedBy
<1>7. RequestsAreOwn'
    BY <1>1, <1>6 DEF PagesInv, RequestsAreOwn
<1> QED BY <1>2, <1>3, <1>4, <1>5, <1>7

LEMMA CompEndsKeeps ==
    ASSUME PagesInv, NEW r \in compRequests, CompSucceeds(r) \/ CompFails(r)
    PROVE  PagesInv'
<1>1. /\ compRequests' = compRequests \ {r}
      /\ UNCHANGED <<competition, entered, madeFor, spread, uploading, freeIds>> /\ doubtful \subseteq doubtful'
      /\ AQuery(competitions) /\ AQuery(activeList)
      /\ ActiveIds' = ActiveIds
    BY DEF CompSucceeds, CompFails, PagesInv, PagesTyped, ActiveIds, entryVars
<1>2. /\ RequestsAreOwn' /\ EntriesLater /\ Out \subseteq Out'
      /\ OwnRows(competition', entered', madeFor', Out')
      /\ HasData(competitions) => OwnRows(DataOf(competitions), entered', madeFor', Out')
      /\ competitions.fetch = "read" => OwnRows(competitions.answer[1], entered', madeFor', Out')
    BY <1>1, EndedRequests DEF EntriesLater, Later
<1>3. CASE CompSucceeds(r)
  <2>1. /\ competitions' = Invalidated(competitions)
        /\ activeList' = IF r.do = "delete" THEN activeList ELSE Invalidated(activeList)
        /\ untold' = (untold \/ r.do = "delete" \/ (activeList.fetch = "read" /\ ~HasData(activeList)))
        /\ (r.do \notin {"create", "update"} /\ UNCHANGED <<editingId, newComp>>) \/ newComp' = EmptyForm
      BY <1>3 DEF CompSucceeds, LayoutRefreshed, formVars
  <2>2. /\ AQuery(competitions)' /\ competitions'.data = competitions.data
        /\ competitions'.fetch = "read" =>
              competitions.fetch = "read" /\ competitions'.answer = competitions.answer
      BY <1>1, <2>1, InvalidatedAQuery DEF HasData
  <2>3. AQuery(activeList)' /\ (r.do # "delete" => Fetching(activeList)')
      BY <1>1, <2>1, InvalidatedAQuery
  <2>4. ~untold' => r.do # "delete" /\ ~(activeList.fetch = "read" /\ ~HasData(activeList))
      BY <2>1
  <2>5. ~untold' => activeList'.fetch # "read"
      BY <1>1, <2>1, <2>4, InvalidatedAQuery
  <2>6. PagesTyped'
      BY <1>1, <2>2, <2>3 DEF PagesInv, PagesTyped
  <2>7. RowsAreOwn'
      BY <1>2, <2>2 DEF RowsAreOwn, HasData, DataOf
  <2>8. EntriesTyped'
      BY <1>1, <2>1 DEF PagesInv, EntriesTyped, EmptyForm, FormFields
  <2>9. FormIsOwn'
    <3>1. CASE newComp' = EmptyForm
        BY <3>1 DEF FormIsOwn, EmptyForm
    <3>2. CASE r.do \notin {"create", "update"} /\ UNCHANGED <<editingId, newComp>>
      <4>1. FormIsOwn /\ (Creating(newComp.entry) => Creating(newComp.entry)')
          BY <1>1, <3>2 DEF PagesInv, Creating
      <4> QED BY <1>1, <1>2, <3>2, <4>1 DEF FormIsOwn, OwnedBy
    <3> QED BY <2>1, <3>1, <3>2
  <2>10. ListIsActive'
      BY <2>3, <2>4, <2>5 DEF ListIsActive
  <2> QED BY <1>2, <2>6, <2>7, <2>8, <2>9, <2>10 DEF PagesInv
<1>4. CASE CompFails(r)
  <2>1. /\ untold' = (untold \/ r.at = "done")
        /\ UNCHANGED <<competitions, activeList, editingId, newComp>>
        /\ doubtful' = IF r.do = "create" /\ r.at = "done" THEN doubtful \union {r.fields.entry} ELSE doubtful
      BY <1>4 DEF CompFails, formVars
  <2>2. ~untold' => ~untold /\ r.at # "done"
      BY <2>1
  <2>3. PagesTyped'
      BY <1>1, <2>1 DEF PagesInv, PagesTyped
  <2>4. RowsAreOwn'
      BY <1>2, <2>1 DEF RowsAreOwn, HasData, DataOf
  <2>5. EntriesTyped'
      BY <1>1, <2>1 DEF PagesInv, EntriesTyped
  <2>6. OwnRequest(r, entered, madeFor, Out) /\ FormIsOwn
      BY DEF PagesInv, RequestsAreOwn
  <2>7. r.do = "create" => OwnedBy(r.fields.entry, "none", madeFor, Out')
    <3>1. CASE r.do = "create" /\ r.at = "done"
      <4>1. r.fields.entry \in Out'
          BY <2>1, <3>1 DEF Out
      <4> QED BY <4>1 DEF OwnedBy
    <3>2. CASE r.do = "create" /\ r.at = "sent"
        BY <1>2, <2>6, <3>2 DEF OwnRequest, OwnedBy
    <3> QED BY <2>6, <3>1, <3>2 DEF OwnRequest
  <2>8. FormIsOwn'
    <3>1. CASE Creating(newComp.entry) /\ ~Creating(newComp.entry)'
      <4>1. r.do = "create" /\ r.fields.entry = newComp.entry
          BY <1>1, <2>1, <3>1 DEF Creating
      <4>2. OwnedBy(newComp.entry, "none", madeFor, Out')
          BY <2>7, <4>1
      <4> QED BY <1>1, <1>2, <2>1, <2>6, <4>2 DEF FormIsOwn, OwnedBy
    <3>2. CASE ~Creating(newComp.entry) \/ Creating(newComp.entry)'
        BY <1>1, <1>2, <2>1, <2>6, <3>2 DEF FormIsOwn, OwnedBy
    <3> QED BY <3>1, <3>2
  <2>9. ListIsActive'
      BY <1>1, <2>1, <2>2 DEF PagesInv, ListIsActive, HasData, Fetching
  <2> QED BY <1>2, <2>3, <2>4, <2>5, <2>8, <2>9 DEF PagesInv
<1> QED BY <1>3, <1>4

LEMMA ListProgressKeeps ==
    ASSUME PagesInv, ListProgress
    PROVE  PagesInv'
<1>1. AQuery(competitions) /\ Sound(competitions)
    BY DEF PagesInv, PagesTyped, AQuery
<1>2. UNCHANGED <<competition, freeIds, activeList, editingId, newComp, uploading, compRequests,
                  entered, madeFor, spread, doubtful, untold>>
    BY DEF ListProgress, formVars, entryVars
<1>3. PICK q \in Progress(competitions, competition) : competitions' = q
    BY DEF ListProgress
<1>4. /\ AQuery(q)
      /\ HasFailed(competitions, q) \/ IsRead(competitions, q, competition) \/ HasArrived(competitions, q)
    BY <1>1, ProgressAQuery
<1>5. PagesTyped'
    BY <1>2, <1>3, <1>4 DEF PagesInv, PagesTyped
<1>6. /\ HasData(q) => OwnRows(DataOf(q), entered, madeFor, Out)
      /\ q.fetch = "read" => OwnRows(q.answer[1], entered, madeFor, Out)
  <2>1. RowsAreOwn
      BY DEF PagesInv
  <2>2. CASE HasFailed(competitions, q)
      BY <2>1, <2>2 DEF HasFailed, HasData, DataOf, RowsAreOwn
  <2>3. CASE IsRead(competitions, q, competition)
      BY <2>1, <2>3 DEF IsRead, HasData, DataOf, RowsAreOwn
  <2>4. CASE HasArrived(competitions, q)
      BY <2>1, <2>4 DEF HasArrived, HasData, DataOf, RowsAreOwn
  <2> QED BY <1>4, <2>2, <2>3, <2>4
<1>7. Out' = Out
    BY <1>2 DEF Out
<1>8. RowsAreOwn'
    BY <1>2, <1>3, <1>6, <1>7 DEF PagesInv, RowsAreOwn
<1>9. EntriesTyped' /\ FormIsOwn' /\ RequestsAreOwn'
    BY <1>2, <1>7 DEF PagesInv, EntriesTyped, FormIsOwn, RequestsAreOwn, Creating
<1>10. ListIsActive'
    BY <1>2 DEF PagesInv, ListIsActive, ActiveIds
<1> QED BY <1>5, <1>8, <1>9, <1>10 DEF PagesInv

LEMMA LayoutProgressKeeps ==
    ASSUME PagesInv, LayoutProgress
    PROVE  PagesInv'
<1>1. AQuery(activeList) /\ Sound(activeList)
    BY DEF PagesInv, PagesTyped, AQuery
<1>2. /\ UNCHANGED <<competition, freeIds, competitions, editingId, newComp, uploading, compRequests,
                     entered, madeFor, spread, doubtful>>
      /\ ActiveIds' = ActiveIds /\ Out' = Out
    BY DEF LayoutProgress, formVars, entryVars, ActiveIds, Out
<1>3. RowsAreOwn' /\ EntriesTyped' /\ FormIsOwn' /\ RequestsAreOwn'
    BY <1>2 DEF PagesInv, RowsAreOwn, EntriesTyped, FormIsOwn, RequestsAreOwn, Creating, HasData, DataOf
<1>4. CASE activeList' \in Progress(activeList, ActiveIds) /\ untold' = (untold /\ activeList'.fetch # "read")
  <2>1. PICK q \in Progress(activeList, ActiveIds) : activeList' = q
      BY <1>4
  <2>2. /\ AQuery(q)
        /\ HasFailed(activeList, q) \/ IsRead(activeList, q, ActiveIds) \/ HasArrived(activeList, q)
      BY <1>1, ProgressAQuery
  <2>3. PagesTyped'
      BY <1>2, <2>1, <2>2 DEF PagesInv, PagesTyped
  <2>4. CASE HasFailed(activeList, q)
    <3>1. ListIsActive'
        BY <2>1, <2>4 DEF ListIsActive, HasFailed, Fetching
    <3> QED BY <1>3, <2>3, <3>1 DEF PagesInv
  <2>5. CASE IsRead(activeList, q, ActiveIds)
    <3>1. ListIsActive'
        BY <1>2, <2>1, <2>5 DEF ListIsActive, IsRead, Fetching
    <3> QED BY <1>3, <2>3, <3>1 DEF PagesInv
  <2>6. CASE HasArrived(activeList, q)
    <3>1. q.fetch = "idle" /\ activeList.fetch = "read" /\ q.data = activeList.answer
        BY <2>6 DEF HasArrived
    <3>2. ~untold' => ~untold
        BY <1>4, <2>1, <3>1
    <3>3. ListIsActive'
        BY <1>2, <2>1, <3>1, <3>2 DEF PagesInv, ListIsActive
    <3> QED BY <1>3, <2>3, <3>3 DEF PagesInv
  <2> QED BY <2>2, <2>4, <2>5, <2>6
<1>5. CASE activeList' = Polled(activeList) /\ untold' = untold
  <2>1. /\ AQuery(activeList)' /\ Fetching(activeList)'
        /\ activeList'.answer = activeList.answer
        /\ activeList'.fetch = "read" <=> activeList.fetch = "read"
      BY <1>1, <1>5, PolledAQuery
  <2>2. PagesTyped'
      BY <1>2, <2>1 DEF PagesInv, PagesTyped
  <2>3. ListIsActive'
      BY <1>2, <1>5, <2>1 DEF PagesInv, ListIsActive
  <2> QED BY <1>3, <2>2, <2>3 DEF PagesInv
<1> QED BY <1>4, <1>5 DEF LayoutProgress

LEMMA PagesStepInv == PagesInv /\ [PagesNext]_pagesVars => PagesInv'
BY FormHandledKeeps, EnterNameKeeps, UploadedKeeps, PageAsksKeeps, ServeCompKeeps, CompEndsKeeps,
   ListProgressKeeps, LayoutProgressKeeps DEF PagesNext

LEMMA PagesAlways == PagesSpec => []PagesInv
BY PagesInitInv, PagesStepInv, PTL DEF PagesSpec

(***************************************************************************)
(* No competition has the name and description that were typed for another *)
(* (CompetitionsList.jsx:81-123), for any competitions, forms and requests,*)
(* but for entries that a late banner put into another form, and those of  *)
(* which Create was clicked again unanswered or whose answer was lost.     *)
(***************************************************************************)
THEOREM FieldsAreOwn == PagesSpec => []FieldsStayOwn
<1>1. PagesInv => FieldsStayOwn
    BY DEF PagesInv, RowsAreOwn, OwnRows, OwnedBy, Out, FieldsStayOwn
<1> QED BY <1>1, PagesAlways, PTL

(***************************************************************************)
(* The mission timer follows what the page has done (Layout.jsx:58-82,     *)
(* CompetitionsList.jsx:81-147).                                           *)
(***************************************************************************)
THEOREM TimersAreOfActive == PagesSpec => []TimerIsOfActive
<1>1. PagesInv => TimerIsOfActive
    BY DEF PagesInv, ListIsActive, TimerIsOfActive, HasData, DataOf
<1> QED BY <1>1, PagesAlways, PTL

-----------------------------------------------------------------------------
(***************************************************************************)
(* The WebSocket of a page: a connection that ends leaves a timer for its  *)
(* channel, and a timer that fires another connection.                     *)
(***************************************************************************)
Socket == [channel : Channels, state : {"connecting", "open", "closing", "closed"}, heard : Nat]

SocketsTyped ==
    /\ sockets \in Seq(Socket) /\ wsRef \in 1..Len(sockets)
    /\ timers \subseteq [id : Nat, channel : Channels]
    /\ sent \in Seq([to : Channels, kind : {"incident_alert", "contestant_update"}])

CoverInv == SocketsTyped /\ CurrentIsCovered

Live(s) == s.channel = page /\ s.state # "closed"

LEMMA CoveredBy ==
    CurrentIsCovered <=> (mounted => \/ \E i \in DOMAIN sockets : Live(sockets[i])
                                     \/ \E t \in timers : t.channel = page)
BY DEF CurrentIsCovered, ToSet, Live

(* One socket is changed, and goes on with its channel.                    *)
ChangedAt(q, i, p) ==
    /\ p \in Seq(Socket) /\ Len(p) = Len(q) /\ DOMAIN p = DOMAIN q
    /\ \A j \in DOMAIN q : j # i => p[j] = q[j]
    /\ p[i].channel = q[i].channel

LEMMA SocketMoved ==
    ASSUME NEW q \in Seq(Socket), NEW i \in DOMAIN q,
           NEW state \in {"connecting", "open", "closing", "closed"}
    PROVE  LET p == [q EXCEPT ![i].state = state] IN ChangedAt(q, i, p) /\ p[i].state = state
<1>1. i \in 1..Len(q) /\ DOMAIN q = 1..Len(q) /\ q[i] \in Socket
    BY LenProperties, ElementOfSeq
<1> DEFINE moved == [q[i] EXCEPT !.state = state]
           p == [q EXCEPT ![i] = moved]
<1>2. moved \in Socket /\ moved.channel = q[i].channel /\ moved.state = state
    BY <1>1 DEF Socket
<1>3. [q EXCEPT ![i].state = state] = p
    BY Zenon
<1> HIDE DEF moved
<1>4. p \in Seq(Socket) /\ Len(p) = Len(q) /\ \A j \in 1..Len(q) : p[j] = IF j = i THEN moved ELSE q[j]
    BY <1>1, <1>2, ExceptSeq
<1> HIDE DEF p
<1>5. ChangedAt(q, i, p) /\ p[i].state = state
    BY <1>1, <1>2, <1>4, LenProperties DEF ChangedAt
<1> QED BY <1>3, <1>5

LEMMA SocketTold ==
    ASSUME NEW q \in Seq(Socket), NEW i \in DOMAIN q, NEW heard \in Nat
    PROVE  LET p == [q EXCEPT ![i].heard = heard] IN ChangedAt(q, i, p) /\ p[i].state = q[i].state
<1>1. i \in 1..Len(q) /\ DOMAIN q = 1..Len(q) /\ q[i] \in Socket
    BY LenProperties, ElementOfSeq
<1> DEFINE told == [q[i] EXCEPT !.heard = heard]
           p == [q EXCEPT ![i] = told]
<1>2. told \in Socket /\ told.channel = q[i].channel /\ told.state = q[i].state
    BY <1>1 DEF Socket
<1>3. [q EXCEPT ![i].heard = heard] = p
    BY Zenon
<1> HIDE DEF told
<1>4. p \in Seq(Socket) /\ Len(p) = Len(q) /\ \A j \in 1..Len(q) : p[j] = IF j = i THEN told ELSE q[j]
    BY <1>1, <1>2, ExceptSeq
<1> HIDE DEF p
<1>5. ChangedAt(q, i, p) /\ p[i].state = q[i].state
    BY <1>1, <1>2, <1>4, LenProperties DEF ChangedAt
<1> QED BY <1>3, <1>5

LEMMA ConnectedSockets ==
    ASSUME NEW q \in Seq(Socket), NEW ch \in Channels
    PROVE  /\ Connected(ch, q) \in Seq(Socket) /\ Len(Connected(ch, q)) = Len(q) + 1
           /\ \A i \in DOMAIN q : i \in DOMAIN Connected(ch, q) /\ Connected(ch, q)[i] = q[i]
           /\ LET n == Len(Connected(ch, q))
              IN  /\ n \in DOMAIN Connected(ch, q)
                  /\ Connected(ch, q)[n].channel = ch /\ Connected(ch, q)[n].state = "connecting"
<1> DEFINE new == [channel |-> ch, state |-> "connecting", heard |-> 0]
<1>1. new \in Socket /\ new.channel = ch /\ new.state = "connecting"
    BY DEF Socket
<1>2. Connected(ch, q) = Append(q, new)
    BY DEF Connected
<1> HIDE DEF new
<1> QED BY <1>1, <1>2, AppendProperties, LenProperties

LEMMA CoverInit == SocketInit => CoverInv
<1> SUFFICES ASSUME SocketInit PROVE CoverInv
    OBVIOUS
<1>1. PICK none \in Seq(Socket) : none = <<>> /\ Len(none) = 0
    BY EmptySeq
<1>2. /\ page = Home /\ sockets = Connected(Home, none) /\ wsRef = 1 /\ timers = {}
      /\ Home \in Channels
    BY <1>1, SocketAssumption DEF SocketInit
<1>3. /\ sockets \in Seq(Socket) /\ Len(sockets) = 1
      /\ 1 \in DOMAIN sockets /\ sockets[1].channel = Home /\ sockets[1].state = "connecting"
  <2> DEFINE first == Connected(Home, none)
             n == Len(first)
  <2>1. /\ first \in Seq(Socket) /\ n = Len(none) + 1
        /\ n \in DOMAIN first /\ first[n].channel = Home /\ first[n].state = "connecting"
      BY <1>2, ConnectedSockets
  <2> HIDE DEF first
  <2>2. n = 1
      BY <1>1, <2>1
  <2> QED BY <1>2, <2>1, <2>2 DEF first
<1>4. CurrentIsCovered
    BY <1>2, <1>3, CoveredBy DEF Live
<1>5. sent = <<>>
    BY DEF SocketInit
<1> QED BY <1>2, <1>3, <1>4, <1>5, EmptySeq DEF CoverInv, SocketsTyped

(* Steps that take no cover away.                                          *)
LEMMA CoverStays ==
    ASSUME CoverInv, UNCHANGED page, SocketsTyped',
           \A i \in DOMAIN sockets : Live(sockets[i]) =>
              \/ i \in DOMAIN sockets' /\ Live(sockets'[i])
              \/ \E t \in timers' : t.channel = page,
           \A t \in timers : t.channel = page =>
              \/ t \in timers'
              \/ \E i \in DOMAIN sockets' : Live(sockets'[i])
    PROVE  CoverInv'
<1>1. mounted => \/ \E i \in DOMAIN sockets : Live(sockets[i])
                 \/ \E t \in timers : t.channel = page
    BY CoveredBy DEF CoverInv
<1>2. mounted => \/ \E i \in DOMAIN sockets' : Live(sockets'[i])
                 \/ \E t \in timers' : t.channel = page
    BY <1>1
<1>3. CurrentIsCovered'
    BY <1>2, CoveredBy DEF mounted, CurrentIsCovered, ToSet, Live
<1> QED BY <1>3 DEF CoverInv

(* A socket that is opened, dropped, closed, or has heard a message.       *)
LEMMA SocketStepCovers ==
    ASSUME CoverInv, NEW s \in DOMAIN sockets,
           \/ onopen(s) \/ Drop(s) \/ onclose(s)
           \/ \E n \in DOMAIN sent : onmessage(s, n)
    PROVE  CoverInv'
<1>1. /\ sockets \in Seq(Socket) /\ wsRef \in 1..Len(sockets)
      /\ timers \subseteq [id : Nat, channel : Channels]
      /\ sent \in Seq([to : Channels, kind : {"incident_alert", "contestant_update"}])
      /\ DOMAIN sockets = 1..Len(sockets) /\ DOMAIN sent = 1..Len(sent) /\ Len(sent) \in Nat
      /\ UNCHANGED sent
    BY LenProperties DEF CoverInv, SocketsTyped, onopen, Drop, onclose, onmessage
<1>2. s \in Nat /\ sockets[s] \in Socket /\ sockets[s].channel \in Channels
  <2>1. s \in 1..Len(sockets) /\ sockets[s] \in Socket
      BY <1>1, ElementOfSeq
  <2> QED BY <2>1 DEF Socket
<1>3. ASSUME NEW p, ChangedAt(sockets, s, p), sockets' = p, p[s].state # "closed",
             UNCHANGED <<page, wsRef, timers>>
      PROVE  CoverInv'
  <2>1. SocketsTyped'
      BY <1>1, <1>3 DEF ChangedAt, SocketsTyped
  <2> QED BY <1>1, <1>3, <2>1, CoverStays DEF ChangedAt, Live
<1>4. CASE onclose(s)
  <2> DEFINE p == [sockets EXCEPT ![s].state = "closed"]
             t == [id |-> s, channel |-> sockets[s].channel]
  <2>1. "closed" \in {"connecting", "open", "closing", "closed"}
      OBVIOUS
  <2>2. ChangedAt(sockets, s, p)
      BY <1>1, <2>1, SocketMoved, Zenon
  <2>3. /\ sockets' = p /\ timers' = timers \union {t}
        /\ UNCHANGED <<page, wsRef>>
      BY <1>4, Zenon DEF onclose, Reconnection
  <2>4. t \in [id : Nat, channel : Channels] /\ t.channel = sockets[s].channel
      BY <1>2
  <2> HIDE DEF p, t
  <2>5. SocketsTyped'
      BY <1>1, <2>2, <2>3, <2>4 DEF ChangedAt, SocketsTyped
  <2>6. t \in timers'
      BY <2>3
  <2>7. ASSUME NEW i \in DOMAIN sockets, Live(sockets[i])
        PROVE  \/ i \in DOMAIN sockets' /\ Live(sockets'[i])
               \/ \E u \in timers' : u.channel = page
      BY <2>2, <2>3, <2>4, <2>6, <2>7 DEF ChangedAt, Live
  <2> QED BY <2>3, <2>5, <2>7, CoverStays
<1>5. CASE Drop(s)
  <2> DEFINE p == [sockets EXCEPT ![s].state = "closing"]
  <2>1. "closing" \in {"connecting", "open", "closing", "closed"}
      OBVIOUS
  <2>2. ChangedAt(sockets, s, p) /\ p[s].state = "closing"
      BY <1>1, <2>1, SocketMoved, Zenon
  <2>3. sockets' = p /\ UNCHANGED <<page, wsRef, timers>>
      BY <1>5, Zenon DEF Drop
  <2> HIDE DEF p
  <2> QED BY <1>3, <2>2, <2>3
<1>6. CASE onopen(s)
  <2> DEFINE o == [sockets EXCEPT ![s].state = "open"]
             p == [o EXCEPT ![s].heard = Len(sent)]
  <2>1. "open" \in {"connecting", "open", "closing", "closed"}
      OBVIOUS
  <2>2. ChangedAt(sockets, s, o) /\ o[s].state = "open"
      BY <1>1, <2>1, SocketMoved, Zenon
  <2>3. sockets' = p /\ UNCHANGED <<page, wsRef, timers>>
      BY <1>6, Zenon DEF onopen
  <2> HIDE DEF o
  <2>4. o \in Seq(Socket) /\ s \in DOMAIN o
      BY <1>1, <2>2 DEF ChangedAt
  <2>5. ChangedAt(o, s, p) /\ p[s].state = o[s].state
      BY <1>1, <2>4, SocketTold, Zenon
  <2> HIDE DEF p
  <2>6. ChangedAt(sockets, s, p) /\ p[s].state = "open"
      BY <2>2, <2>5 DEF ChangedAt
  <2> QED BY <1>3, <2>3, <2>6
<1>7. ASSUME NEW n \in DOMAIN sent, onmessage(s, n) PROVE CoverInv'
  <2> DEFINE p == [sockets EXCEPT ![s].heard = n]
  <2>1. n \in Nat
      BY <1>1
  <2>2. ChangedAt(sockets, s, p) /\ p[s].state = sockets[s].state
      BY <1>1, <2>1, SocketTold, Zenon
  <2>3. sockets' = p /\ UNCHANGED <<page, wsRef, timers>> /\ sockets[s].state = "open"
      BY <1>7, Zenon DEF onmessage
  <2> HIDE DEF p
  <2> QED BY <1>3, <2>2, <2>3
<1> QED BY <1>4, <1>5, <1>6, <1>7

(* A timer becomes a connection; a change of page makes one for its own.   *)
LEMMA ConnectionCovers ==
    ASSUME CoverInv, (\E t \in timers : TimerFires(t)) \/ (\E ch \in Channels : ChangeCompetition(ch))
    PROVE  CoverInv'
<1>1. /\ sockets \in Seq(Socket) /\ wsRef \in 1..Len(sockets) /\ Len(sockets) \in Nat
      /\ timers \subseteq [id : Nat, channel : Channels]
      /\ sent \in Seq([to : Channels, kind : {"incident_alert", "contestant_update"}])
      /\ UNCHANGED sent
      /\ DOMAIN sockets = 1..Len(sockets)
    BY LenProperties DEF CoverInv, SocketsTyped, TimerFires, ChangeCompetition
<1>2. ASSUME NEW t \in timers, TimerFires(t) PROVE CoverInv'
  <2>1. /\ t.channel \in Channels
        /\ sockets' = Connected(t.channel, sockets) /\ wsRef' = Len(sockets')
        /\ timers' = timers \ {t} /\ UNCHANGED page
      BY <1>1, <1>2 DEF TimerFires
  <2> DEFINE n == Len(sockets')
  <2>2. /\ sockets' \in Seq(Socket) /\ n = Len(sockets) + 1
        /\ \A i \in DOMAIN sockets : i \in DOMAIN sockets' /\ sockets'[i] = sockets[i]
        /\ n \in DOMAIN sockets' /\ sockets'[n].channel = t.channel /\ sockets'[n].state = "connecting"
      BY <1>1, <2>1, ConnectedSockets
  <2>3. SocketsTyped'
      BY <1>1, <2>1, <2>2 DEF SocketsTyped
  <2> QED BY <2>1, <2>2, <2>3, CoverStays DEF Live
<1>3. ASSUME NEW ch \in Channels, ChangeCompetition(ch) PROVE CoverInv'
  <2>1. /\ page' = ch /\ timers' \subseteq timers
        /\ sockets' = Connected(ch, SocketsLeft) /\ wsRef' = Len(sockets')
      BY <1>3 DEF ChangeCompetition, TimersLeft
  <2>2. SocketsLeft \in Seq(Socket)
    <3>1. "closing" \in {"connecting", "open", "closing", "closed"} /\ wsRef \in DOMAIN sockets
        BY <1>1
    <3>2. [sockets EXCEPT ![wsRef].state = "closing"] \in Seq(Socket)
        BY <1>1, <3>1, SocketMoved, Zenon DEF ChangedAt
    <3> QED BY <1>1, <3>2, Zenon DEF SocketsLeft
  <2> DEFINE n == Len(sockets')
  <2>3. /\ sockets' \in Seq(Socket) /\ n = Len(SocketsLeft) + 1 /\ Len(SocketsLeft) \in Nat
        /\ n \in DOMAIN sockets' /\ sockets'[n].channel = ch /\ sockets'[n].state = "connecting"
      BY <2>1, <2>2, ConnectedSockets, LenProperties
  <2>4. SocketsTyped'
      BY <1>1, <2>1, <2>3 DEF SocketsTyped
  <2>5. CurrentIsCovered'
      BY <2>1, <2>3 DEF CurrentIsCovered, ToSet
  <2> QED BY <2>4, <2>5 DEF CoverInv
<1> QED BY <1>2, <1>3

LEMMA CoverStep == CoverInv /\ [SocketNext]_socketVars => CoverInv'
<1> SUFFICES ASSUME CoverInv, [SocketNext]_socketVars PROVE CoverInv'
    OBVIOUS
<1>1. CASE Unmount
  <2>1. page' = "nowhere" /\ sockets' = SocketsLeft /\ timers' \subseteq timers /\ UNCHANGED <<wsRef, sent>>
      BY <1>1 DEF Unmount, TimersLeft
  <2>2. /\ sockets \in Seq(Socket) /\ wsRef \in DOMAIN sockets /\ DOMAIN sockets = 1..Len(sockets)
        /\ "closing" \in {"connecting", "open", "closing", "closed"}
      BY LenProperties DEF CoverInv, SocketsTyped
  <2>3. ChangedAt(sockets, wsRef, [sockets EXCEPT ![wsRef].state = "closing"])
      BY <2>2, SocketMoved, Zenon
  <2>4. SocketsLeft \in Seq(Socket) /\ Len(SocketsLeft) = Len(sockets)
      BY <2>2, <2>3, Zenon DEF SocketsLeft, ChangedAt
  <2> QED BY <2>1, <2>4 DEF CoverInv, SocketsTyped, CurrentIsCovered, mounted
<1>2. ASSUME UNCHANGED <<page, sockets, wsRef, timers>>,
             sent' \in Seq([to : Channels, kind : {"incident_alert", "contestant_update"}])
      PROVE  CoverInv'
    BY <1>2 DEF CoverInv, SocketsTyped, CurrentIsCovered, mounted
<1>3. sent \in Seq([to : Channels, kind : {"incident_alert", "contestant_update"}])
    BY DEF CoverInv, SocketsTyped
<1>4. ASSUME NEW ch \in Channels, NEW kind \in {"incident_alert", "contestant_update"}, ServerSends(ch, kind)
      PROVE  CoverInv'
    BY <1>2, <1>3, <1>4, AppendProperties DEF ServerSends
<1>5. CASE flush \/ Render \/ BadgeProgress \/ UNCHANGED socketVars
    BY <1>2, <1>3, <1>5 DEF flush, Render, BadgeProgress, socketVars, wireVars
<1>6. ASSUME NEW ids, MarkRead(ids) PROVE CoverInv'
    BY <1>2, <1>3, <1>6 DEF MarkRead, wireVars
<1> QED BY <1>1, <1>4, <1>5, <1>6, SocketStepCovers, ConnectionCovers DEF SocketNext

(***************************************************************************)
(* A page is never left without news of the competition it shows           *)
(* (websocket.js:64-111), for any channels and any number of sockets.      *)
(***************************************************************************)
THEOREM PagesAreCovered == SocketSpec => []CurrentIsCovered
<1>1. CoverInv => CurrentIsCovered
    BY DEF CoverInv
<1> QED BY <1>1, CoverInit, CoverStep, PTL DEF SocketSpec

-----------------------------------------------------------------------------
(***************************************************************************)
(* The badge.  As long as it has no number, the alerts shown are early     *)
(* ones; a number that has been read, or has come, is not behind the       *)
(* others.  The alerts are what the queue of setters makes of them, a      *)
(* function defined by recursion: that it exists, and what holds of its    *)
(* values, is shown by induction.                                          *)
(***************************************************************************)
Heard == 1..Len(sent)
Queued == [of : {"contestants", "incidents"}, atOnce : BOOLEAN, held : Seq(Heard)]

BadgeTyped ==
    /\ alerts \in Seq(Heard) /\ setters \in Seq(Queued)
    /\ buffer \in [contestants : Seq(Heard), incidents : Seq(Heard)]
    /\ badge \in Query(Nat) /\ Sound(badge)

Told(number) == \A n \in ToSet(alerts) : n \in early \/ n <= number

BadgeInv ==
    /\ BadgeTyped
    /\ ~HasData(badge) => ToSet(alerts) \subseteq early
    /\ badge.fetch = "read" => Told(badge.answer[1])
    /\ HasData(badge) /\ ~Fetching(badge) /\ ~badge.failed => Told(DataOf(badge))

-----------------------------------------------------------------------------
(* The alerts after each of the first n setters.                           *)
Runs(n, g) ==
    g = [i \in 0..n |-> IF i = 0 THEN alerts ELSE AfterSetter(setters[i], g[i - 1])]

LEMMA RunsExist == \A n \in Nat : \E g : Runs(n, g)
<1> DEFINE N == {n \in Nat : \E g : Runs(n, g)}
<1>1. 0 \in N
  <2> DEFINE g == [i \in 0..0 |-> alerts]
  <2>1. g = [i \in 0..0 |-> IF i = 0 THEN alerts ELSE AfterSetter(setters[i], g[i - 1])]
      OBVIOUS
  <2> QED BY <2>1 DEF Runs
<1>2. ASSUME NEW n \in Nat, n \in N PROVE n + 1 \in N
  <2>1. PICK g : Runs(n, g)
      BY <1>2
  <2> DEFINE h == [i \in 0..(n + 1) |->
                     IF i = n + 1 THEN AfterSetter(setters[n + 1], g[n]) ELSE g[i]]
  <2>2. ASSUME NEW i \in 0..(n + 1)
        PROVE  h[i] = IF i = 0 THEN alerts ELSE AfterSetter(setters[i], h[i - 1])
    <3>1. CASE i = n + 1
      <4>1. i # 0 /\ i - 1 = n /\ n \in 0..(n + 1) /\ n # n + 1
          BY <3>1
      <4>2. h[n] = g[n]
          BY <4>1
      <4>3. h[i] = AfterSetter(setters[i], g[n])
          BY <3>1
      <4> QED BY <4>1, <4>2, <4>3
    <3>2. CASE i # n + 1
      <4>1. /\ i \in 0..n
            /\ i # 0 => i - 1 \in 0..(n + 1) /\ i - 1 # n + 1
          BY <2>2, <3>2
      <4>2. h[i] = g[i] /\ (i # 0 => h[i - 1] = g[i - 1])
          BY <3>2, <4>1
      <4>3. g[i] = IF i = 0 THEN alerts ELSE AfterSetter(setters[i], g[i - 1])
          BY <2>1, <4>1 DEF Runs
      <4> QED BY <4>2, <4>3
    <3> QED BY <3>1, <3>2
  <2>3. h = [i \in 0..(n + 1) |-> IF i = 0 THEN alerts ELSE AfterSetter(setters[i], h[i - 1])]
    <3> HIDE DEF h
    <3>1. h = [i \in 0..(n + 1) |-> h[i]]
        BY DEF h
    <3> QED BY <2>2, <3>1
  <2> HIDE DEF h
  <2>4. \E f : Runs(n + 1, f)
      BY <2>3, Zenon DEF Runs
  <2> QED BY <2>4
<1>3. Nat \subseteq N
  <2> HIDE DEF N
  <2> QED BY <1>1, <1>2, SetInduction
<1> QED BY <1>3

(* What a setter adds is messages that have been sent.                     *)
LEMMA AfterSetterTyped ==
    ASSUME BadgeTyped, NEW e \in Queued, NEW a \in Seq(Heard)
    PROVE  /\ AfterSetter(e, a) \in Seq(Heard)
           /\ e.of # "incidents" => AfterSetter(e, a) = a
<1>1. Added(e) \in Seq(Heard)
  <2>1. e.held \in Seq(Heard) /\ e.of \in {"contestants", "incidents"}
      BY DEF Queued
  <2>2. buffer.contestants \in Seq(Heard) /\ buffer.incidents \in Seq(Heard)
      BY DEF BadgeTyped
  <2> QED BY <2>1, <2>2 DEF Added
<1>2. PICK s \in Seq(Heard) : s = Added(e) \o a
    BY <1>1, ConcatProperties
<1>3. Limited(s, AlertLimit) \in Seq(Heard)
  <2>1. PICK k \in Int : k <= Len(s) /\ k = IF Len(s) < AlertLimit THEN Len(s) ELSE AlertLimit
      BY SocketAssumption, LenProperties
  <2>2. Limited(s, AlertLimit) = SubSeq(s, 1, k)
      BY <2>1 DEF Limited
  <2>3. \A i \in 1..k : s[i] \in Heard
      BY <2>1, ElementOfSeq, LenProperties
  <2> QED BY <2>2, <2>3, SubSeqProperties
<1> QED BY <1>2, <1>3 DEF AfterSetter

LEMMA NextAlertsTyped ==
    ASSUME BadgeTyped
    PROVE  /\ NextAlerts \in Seq(Heard)
           /\ (\A i \in DOMAIN setters : setters[i].of # "incidents") => NextAlerts = alerts
<1> DEFINE m == Len(setters)
           none == \A i \in DOMAIN setters : setters[i].of # "incidents"
           after == CHOOSE g : g = [i \in 0..m |-> IF i = 0 THEN alerts ELSE AfterSetter(setters[i], g[i - 1])]
<1>1. m \in Nat /\ DOMAIN setters = 1..m /\ \A i \in 1..m : setters[i] \in Queued
    BY ElementOfSeq, LenProperties DEF BadgeTyped
<1>2. after = [i \in 0..m |-> IF i = 0 THEN alerts ELSE AfterSetter(setters[i], after[i - 1])]
    BY <1>1, RunsExist, Zenon DEF Runs
<1>3. NextAlerts = after[m]
    BY Zenon DEF NextAlerts
<1> HIDE DEF m, after, none
<1> DEFINE Good(n) == after[n] \in Seq(Heard) /\ (none => after[n] = alerts)
           N == {n \in Nat : n \in 0..m => Good(n)}
<1>4. 0 \in N
  <2>1. after[0] = alerts
      BY <1>1, <1>2
  <2> QED BY <2>1 DEF BadgeTyped
<1>5. ASSUME NEW n \in Nat, n \in N PROVE n + 1 \in N
  <2> SUFFICES ASSUME n + 1 \in 0..m PROVE Good(n + 1)
      OBVIOUS
  <2>1. n \in 0..m /\ n + 1 # 0 /\ n + 1 \in 1..m /\ (n + 1) - 1 = n
      BY <1>1
  <2>2. after[n + 1] = AfterSetter(setters[n + 1], after[n])
      BY <1>2, <2>1
  <2>3. Good(n) /\ setters[n + 1] \in Queued /\ (none => setters[n + 1].of # "incidents")
      BY <1>1, <1>5, <2>1 DEF none
  <2> QED BY <2>2, <2>3, AfterSetterTyped
<1>6. Nat \subseteq N
  <2> HIDE DEF N
  <2> QED BY <1>4, <1>5, SetInduction
<1>7. Good(m)
    BY <1>1, <1>6
<1> QED BY <1>3, <1>7 DEF none

LEMMA HeardGrows ==
    ASSUME SocketsTyped, sent' = sent \/ \E m : sent' = Append(sent, m)
    PROVE  Seq(Heard) \subseteq Seq(Heard') /\ Queued \subseteq Queued'
<1>1. Heard \subseteq Heard'
  <2>1. CASE sent' = sent
      BY <2>1 DEF Heard
  <2>2. ASSUME NEW m, sent' = Append(sent, m) PROVE Heard \subseteq Heard'
    <3>1. Len(sent) \in Nat /\ Len(sent') = Len(sent) + 1
        BY <2>2 DEF SocketsTyped
    <3> QED BY <3>1 DEF Heard
  <2> QED BY <2>1, <2>2
<1>2. Seq(Heard) \subseteq Seq(Heard')
  <2> SUFFICES ASSUME NEW s \in Seq(Heard) PROVE s \in Seq(Heard')
      OBVIOUS
  <2> QED BY <1>1, SeqMonotonic
<1> QED BY <1>2 DEF Queued

(* Steps that show no alert and get no number.                             *)
LEMMA BadgeStays ==
    ASSUME BadgeInv, UNCHANGED <<alerts, badge, early>>, BadgeTyped'
    PROVE  BadgeInv'
BY DEF BadgeInv, Told

LEMMA BadgeInit == SocketInit => BadgeInv
<1> SUFFICES ASSUME SocketInit PROVE BadgeInv
    OBVIOUS
<1>1. /\ alerts = <<>> /\ setters = <<>> /\ buffer = [contestants |-> <<>>, incidents |-> <<>>]
      /\ badge = Mounted /\ early = {}
    BY DEF SocketInit, NoUpdates
<1>2. /\ Mounted \in Query(Nat) /\ Sound(Mounted)
      /\ ~HasData(Mounted) /\ Mounted.fetch = "sent"
    BY MountedQuery
<1>3. BadgeTyped
    BY <1>1, <1>2 DEF BadgeTyped
<1>4. ToSet(alerts) = {}
    BY <1>1 DEF ToSet
<1> QED BY <1>1, <1>2, <1>3, <1>4 DEF BadgeInv

(* Messages on their way to the page.                                      *)
LEMMA MessageKeepsBadge ==
    ASSUME SocketsTyped, BadgeInv,
           \/ \E ch \in Channels, kind \in {"incident_alert", "contestant_update"} : ServerSends(ch, kind)
           \/ \E s \in DOMAIN sockets, n \in DOMAIN sent : onmessage(s, n)
           \/ flush
    PROVE  BadgeInv'
<1>0. BadgeTyped /\ DOMAIN sent = Heard
    BY LenProperties DEF BadgeInv, SocketsTyped, Heard
<1>1. CASE \E ch \in Channels, kind \in {"incident_alert", "contestant_update"} : ServerSends(ch, kind)
  <2>1. /\ UNCHANGED <<alerts, setters, buffer, badge, early>>
        /\ \E m : sent' = Append(sent, m)
      BY <1>1, Zenon DEF ServerSends, viewVars
  <2>2. BadgeTyped'
      BY <1>0, <2>1, HeardGrows DEF BadgeTyped
  <2> QED BY <2>1, <2>2, BadgeStays
<1>2. ASSUME NEW s \in DOMAIN sockets, NEW n \in DOMAIN sent, onmessage(s, n) PROVE BadgeInv'
  <2>1. /\ UNCHANGED <<alerts, setters, badge, early, sent>> /\ Heard' = Heard
        /\ \/ buffer' = [buffer EXCEPT !.incidents = Append(@, n)]
           \/ buffer' = [buffer EXCEPT !.contestants = <<n>>]
      BY <1>2, Zenon DEF onmessage, viewVars, Heard
  <2>2. /\ Append(buffer.incidents, n) \in Seq(Heard) /\ <<n>> \in Seq(Heard)
      BY <1>0 DEF BadgeTyped
  <2>3. buffer' \in [contestants : Seq(Heard), incidents : Seq(Heard)]
      BY <1>0, <2>1, <2>2 DEF BadgeTyped
  <2>4. BadgeTyped'
      BY <1>0, <2>1, <2>3 DEF BadgeTyped, Queued
  <2> QED BY <2>1, <2>4, BadgeStays
<1>3. CASE flush
  <2>1. PICK atOnce \in BOOLEAN :
            setters' = setters
                       \o Setter("contestants", atOnce, buffer.contestants)
                       \o Setter("incidents", atOnce /\ buffer.contestants = <<>>, buffer.incidents)
      BY <1>3 DEF flush
  <2>2. ASSUME NEW of \in {"contestants", "incidents"}, NEW b \in BOOLEAN, NEW held \in Seq(Heard)
        PROVE  Setter(of, b, held) \in Seq(Queued)
    <3>1. [of |-> of, atOnce |-> b, held |-> held] \in Queued
        BY DEF Queued
    <3> QED BY <3>1 DEF Setter
  <2>3. buffer.contestants \in Seq(Heard) /\ buffer.incidents \in Seq(Heard)
      BY <1>0 DEF BadgeTyped
  <2>4. PICK b \in BOOLEAN : b = (atOnce /\ buffer.contestants = <<>>)
      OBVIOUS
  <2>5. setters' \in Seq(Queued)
    <3>1. /\ Setter("contestants", atOnce, buffer.contestants) \in Seq(Queued)
          /\ Setter("incidents", b, buffer.incidents) \in Seq(Queued)
        BY <2>2, <2>3
    <3> QED BY <1>0, <2>1, <2>4, <3>1, ConcatProperties DEF BadgeTyped
  <2>6. /\ buffer' = [contestants |-> <<>>, incidents |-> <<>>]
        /\ UNCHANGED <<sent, alerts, badge, early>> /\ Heard' = Heard /\ Queued' = Queued
      BY <1>3 DEF flush, NoUpdates, wireVars, Heard, Queued
  <2>7. BadgeTyped'
      BY <1>0, <2>5, <2>6 DEF BadgeTyped
  <2> QED BY <2>6, <2>7, BadgeStays
<1> QED BY <1>1, <1>2, <1>3

LEMMA RenderKeepsBadge ==
    ASSUME SocketsTyped, BadgeInv, Render
    PROVE  BadgeInv'
<1> DEFINE some == \E e \in ToSet(setters) : e.of = "incidents"
           changed == NextAlerts # <<>> /\ some
<1>1. BadgeTyped /\ badge \in Query(Nat) /\ Sound(badge)
    BY DEF BadgeInv, BadgeTyped
<1>2. /\ setters' = <<>> /\ alerts' = NextAlerts
      /\ badge' = IF changed THEN Invalidated(badge) ELSE badge
      /\ early' = IF ~HasData(badge) THEN ToSet(NextAlerts) ELSE early
      /\ UNCHANGED <<sent, buffer>> /\ Heard' = Heard
    BY Zenon DEF Render, BadgeInvalidated, wireVars, Heard
<1>3. /\ NextAlerts \in Seq(Heard)
      /\ ~some => NextAlerts = alerts
    BY <1>1, NextAlertsTyped DEF ToSet
<1> HIDE DEF some
<1>4. /\ badge' \in Query(Nat) /\ Sound(badge)' /\ badge'.data = badge.data
      /\ changed => Fetching(badge)' /\ (HasData(badge) => badge'.fetch = "sent")
    BY <1>1, <1>2, InvalidatedQuery
<1>5. BadgeTyped'
  <2>1. Seq(Heard)' = Seq(Heard) /\ setters' \in Seq(Queued')
      BY <1>2
  <2> QED BY <1>1, <1>2, <1>3, <1>4, <2>1 DEF BadgeTyped
<1>6. CASE ~HasData(badge)
  <2>1. \A n \in ToSet(alerts') : n \in early'
      BY <1>2, <1>6
  <2> QED BY <1>5, <2>1 DEF BadgeInv, Told
<1>7. CASE HasData(badge) /\ changed
  <2>1. HasData(badge)' /\ Fetching(badge)' /\ badge'.fetch # "read"
      BY <1>4, <1>7 DEF HasData
  <2> QED BY <1>5, <2>1 DEF BadgeInv
<1>8. CASE HasData(badge) /\ ~changed
  <2>1. HasData(badge)' /\ badge' = badge /\ early' = early
      BY <1>2, <1>8 DEF HasData
  <2>2. ToSet(alerts') \subseteq ToSet(alerts)
      BY <1>2, <1>3, <1>8 DEF ToSet
  <2> QED BY <1>5, <2>1, <2>2, <1>8 DEF BadgeInv, Told, Fetching, HasData, DataOf
<1> QED BY <1>6, <1>7, <1>8

(* What the badge reads is newer than whatever has been shown.             *)
LEMMA ProgressKeepsBadge ==
    ASSUME SocketsTyped, BadgeInv, BadgeProgress
    PROVE  BadgeInv'
<1>1. /\ BadgeTyped /\ badge \in Query(Nat) /\ Sound(badge) /\ Len(sent) \in Nat
      /\ alerts \in Seq(Heard) /\ ToSet(alerts) \subseteq 1..Len(sent)
    BY ElementOfSeq, LenProperties DEF BadgeInv, BadgeTyped, SocketsTyped, ToSet, Heard
<1>2. PICK q \in Progress(badge, Len(sent)) : badge' = q
    BY DEF BadgeProgress
<1>3. /\ q \in Query(Nat) /\ Sound(q)
      /\ HasFailed(badge, q) \/ IsRead(badge, q, Len(sent)) \/ HasArrived(badge, q)
    BY <1>1, ProgressQuery
<1>4. UNCHANGED <<sent, alerts, setters, buffer, early>> /\ Heard' = Heard /\ Queued' = Queued
    BY DEF BadgeProgress, wireVars, Heard, Queued
<1>5. BadgeTyped'
    BY <1>1, <1>2, <1>3, <1>4 DEF BadgeTyped
<1>6. CASE HasFailed(badge, q)
    BY <1>2, <1>4, <1>5, <1>6 DEF BadgeInv, HasFailed, HasData
<1>7. CASE IsRead(badge, q, Len(sent))
  <2>1. \A n \in ToSet(alerts) : n <= Len(sent)
      BY <1>1
  <2>2. /\ q.fetch = "read" /\ q.answer[1] = Len(sent) /\ q.data = badge.data /\ Fetching(q)
      BY <1>7 DEF IsRead, Fetching
  <2> QED BY <1>2, <1>4, <1>5, <2>1, <2>2 DEF BadgeInv, Told, HasData
<1>8. CASE HasArrived(badge, q)
    BY <1>1, <1>2, <1>4, <1>5, <1>8 DEF BadgeInv, Told, HasArrived, HasData, DataOf, Sound
<1> QED BY <1>3, <1>6, <1>7, <1>8

LEMMA BadgeStep == SocketsTyped /\ BadgeInv /\ [SocketNext]_socketVars => BadgeInv'
<1> SUFFICES ASSUME SocketsTyped, BadgeInv, [SocketNext]_socketVars PROVE BadgeInv'
    OBVIOUS
<1>1. ASSUME UNCHANGED <<sent, buffer, setters, alerts, badge, early>> PROVE BadgeInv'
  <2>1. BadgeTyped'
      BY <1>1 DEF BadgeInv, BadgeTyped, Queued, Heard
  <2> QED BY <1>1, <2>1, BadgeStays
<1>2. ASSUME NEW ch, ChangeCompetition(ch) PROVE BadgeInv'
    BY <1>1, <1>2 DEF ChangeCompetition, viewVars
<1>3. CASE Unmount
    BY <1>1, <1>3 DEF Unmount, viewVars
<1>4. ASSUME NEW s, onopen(s) \/ Drop(s) \/ onclose(s) PROVE BadgeInv'
    BY <1>1, <1>4 DEF onopen, Drop, onclose, viewVars
<1>5. ASSUME NEW t, TimerFires(t) PROVE BadgeInv'
    BY <1>1, <1>5 DEF TimerFires, viewVars
<1>6. ASSUME NEW ids, MarkRead(ids) PROVE BadgeInv'
    BY <1>1, <1>6 DEF MarkRead, wireVars
<1>7. CASE UNCHANGED socketVars
    BY <1>1, <1>7 DEF socketVars, wireVars, viewVars
<1> QED BY <1>2, <1>3, <1>4, <1>5, <1>6, <1>7, MessageKeepsBadge, RenderKeepsBadge,
           ProgressKeepsBadge DEF SocketNext

(***************************************************************************)
(* The badge does not stay behind the alerts that the layout has shown     *)
(* (Layout.jsx:84-104), for any limits and any number of messages.         *)
(***************************************************************************)
THEOREM BadgesCatchUp == SocketSpec => []BadgeCatchesUp
<1>1. BadgeInv => BadgeCatchesUp
    BY DEF BadgeInv, Told, BadgeCatchesUp
<1>2. CoverInv => SocketsTyped
    BY DEF CoverInv
<1> QED BY <1>1, <1>2, CoverInit, CoverStep, BadgeInit, BadgeStep, PTL DEF SocketSpec
=============================================================================
