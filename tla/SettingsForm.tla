---------------------------- MODULE SettingsForm ----------------------------
(***************************************************************************)
(* The settings: the form (dashboard/src/pages/Settings.jsx), the banner   *)
(* (dashboard/src/pages/Dashboard.jsx) and the file both are kept in       *)
(* (server/app/api/settings.py), which several API processes read and      *)
(* write.  All settings but the banner are one value, 0 for the defaults.  *)
(* A step is a browser task, or as much of a request as can be told apart  *)
(* by another process.                                                     *)
(***************************************************************************)
EXTENDS Naturals, Sequences, QueryClient

CONSTANTS
    Values,             \* what the form may hold, besides the defaults
    MaxSettingsRequests, MaxSettingsEvents

ASSUME SettingsAssumption == Values \subseteq Nat \ {0}

VARIABLES
    settingsFile,       \* <<[values, banner]>>; <<>>: empty; two: one JSON, and behind it
                        \* the rest of a longer one
    images,             \* the banner files on disk, numbered from 1
    visited,            \* "settings" or "dashboard"
    settingsData,       \* the query, which both pages share
    form,               \* the form's state
    settingsRequests,   \* under way: set of [no, do, values, at, old]
    settingsSent, settingsEvents,
    abandoned,          \* (history) the banners removed by requests that died unsaved
    unaware             \* (history) the file has changed, unheard, since the last read

settingsVars == <<settingsFile, images, visited, settingsData, form, settingsRequests,
                  settingsSent, settingsEvents, abandoned, unaware>>

SettingsEvent == settingsEvents < MaxSettingsEvents /\ settingsEvents' = settingsEvents + 1

DefaultSettings == [values |-> 0, banner |-> 0]

(* A file that holds anything but one JSON stands for the defaults.        *)
load_settings == IF Len(settingsFile) = 1 THEN settingsFile[1] ELSE DefaultSettings

-----------------------------------------------------------------------------
isLoadingSettings == Fetching(settingsData) /\ ~HasData(settingsData)

(* The form of a page that has just been mounted, or has new data.         *)
Synced(q) == IF HasData(q) THEN DataOf(q).values ELSE 0

hasChanges == HasData(settingsData) /\ form # DataOf(settingsData).values

(* The other page: it fetches unless the data is fresh.                    *)
GoTo(p) ==
    /\ SettingsEvent /\ p # visited
    /\ visited' = p /\ form' = Synced(settingsData)
    /\ settingsData' \in {settingsData, Polled(settingsData)}
    /\ ~HasData(settingsData) => Fetching(settingsData')
    /\ UNCHANGED <<settingsFile, images, settingsRequests, settingsSent, abandoned, unaware>>

(* A slider, button or field of the form.                                  *)
SetForm(v) ==
    /\ SettingsEvent /\ visited = "settings" /\ ~isLoadingSettings /\ v # form
    /\ form' = v
    /\ UNCHANGED <<settingsFile, images, visited, settingsData, settingsRequests, settingsSent,
                   abandoned, unaware>>

(* The answer: the effect replaces the form if the data has changed.       *)
SettingsProgress ==
    /\ \E q \in Progress(settingsData, load_settings) :
          /\ settingsData' = q
          /\ form' = IF q.data = settingsData.data THEN form ELSE Synced(q)
          /\ IF q.failed /\ ~Fetching(q) THEN SettingsEvent ELSE UNCHANGED settingsEvents
          /\ unaware' = (unaware /\ q.fetch # "read")
    /\ UNCHANGED <<settingsFile, images, visited, settingsRequests, settingsSent, abandoned>>

SendSettings(do, values) ==
    /\ settingsSent < MaxSettingsRequests
    /\ settingsSent' = settingsSent + 1
    /\ settingsRequests' = settingsRequests \union
         {[no |-> settingsSent', do |-> do, values |-> values, at |-> "sent", old |-> DefaultSettings]}
    /\ UNCHANGED <<settingsFile, images, visited, settingsData, form, settingsEvents, abandoned, unaware>>

(* The bar to deploy is there while there are changes.                    *)
handleDeploy == visited = "settings" /\ hasChanges /\ SendSettings("save", form)

handleBannerUpload == visited = "dashboard" /\ SendSettings("upload", 0)
handleBannerDelete ==
    /\ visited = "dashboard" /\ HasData(settingsData) /\ DataOf(settingsData).banner # 0
    /\ SendSettings("remove", 0)

(* Another proctor, or a second tab: no message tells the page.            *)
OtherSaves(v) ==
    /\ SettingsEvent
    /\ settingsFile' = <<[values |-> v, banner |-> 0]>> /\ unaware' = TRUE
    /\ UNCHANGED <<images, visited, settingsData, form, settingsRequests, settingsSent, abandoned>>

-----------------------------------------------------------------------------
At(r, changed) == settingsRequests' = (settingsRequests \ {r}) \union {changed}

(* upload_dashboard_banner, delete_dashboard_banner: the file is read,     *)
LoadForBanner(r) ==
    /\ r.at = "sent" /\ r.do \in {"upload", "remove"}
    /\ At(r, [r EXCEPT !.at = "loaded", !.old = load_settings])
    /\ UNCHANGED <<settingsFile, images, visited, settingsData, form, settingsSent, settingsEvents,
                   abandoned, unaware>>

(* the new image is written and the former one removed,                    *)
ReplaceImage(r) ==
    /\ r.at = "loaded"
    /\ images' = (IF r.do = "upload" THEN images \union {r.no} ELSE images) \ {r.old.banner}
    /\ At(r, [r EXCEPT !.at = "imaged"])
    /\ UNCHANGED <<settingsFile, visited, settingsData, form, settingsSent, settingsEvents, abandoned, unaware>>

(* and the file opened for writing, which empties it; save_settings begins *)
(* with that.                                                              *)
OpenFile(r) ==
    /\ r.at = (IF r.do = "save" THEN "sent" ELSE "imaged")
    /\ settingsFile' = <<>>
    /\ At(r, [r EXCEPT !.at = "open"])
    /\ UNCHANGED <<images, visited, settingsData, form, settingsSent, settingsEvents, abandoned, unaware>>

KeptBanner(r) ==                \* seeded fault: a removal writes back what it has loaded
    IF r.do = "save" THEN [values |-> r.values, banner |-> 0]
    ELSE [r.old EXCEPT !.banner = IF r.do = "upload" THEN r.no ELSE @]

(* What is saved: the form has no banner to send.                          *)
Saved(r) ==
    IF r.do = "save" THEN [values |-> r.values, banner |-> 0]
    ELSE [r.old EXCEPT !.banner = IF r.do = "upload" THEN r.no ELSE 0]

(* It is written from the file's beginning: if another request has written *)
(* since this one opened it, the rest of something longer stays behind it. *)
Dump(r) ==
    /\ r.at = "open"
    /\ \/ settingsFile' = <<Saved(r)>>
       \/ settingsFile # <<>> /\ settingsFile' = <<Saved(r), settingsFile[1]>>
    /\ At(r, [r EXCEPT !.at = "done"])
    /\ UNCHANGED <<images, visited, settingsData, form, settingsSent, settingsEvents, abandoned, unaware>>

NoRefetch(r) == IF r.do = "save" THEN settingsData ELSE Invalidated(settingsData)  \* seeded fault: a save fetches nothing

AfterAnswer(r) == Invalidated(settingsData)

(* A very first fetch goes on, with what it has read.                      *)
AnswerArrives(r) ==
    /\ r.at = "done"
    /\ unaware' = (unaware \/ (settingsData.fetch = "read" /\ ~HasData(settingsData)))
    /\ settingsData' = AfterAnswer(r)
    /\ settingsRequests' = settingsRequests \ {r}
    /\ UNCHANGED <<settingsFile, images, visited, form, settingsSent, settingsEvents, abandoned>>

(* The request, or its answer, is lost.                                    *)
AnswerLost(r) ==
    /\ r.at \in {"sent", "done"} /\ SettingsEvent
    /\ settingsRequests' = settingsRequests \ {r}
    /\ unaware' = (unaware \/ r.at = "done")
    /\ UNCHANGED <<settingsFile, images, visited, settingsData, form, settingsSent, abandoned>>

(* The process crashes, or a statement fails, between two of the steps.    *)
RequestDies(r) ==
    /\ r.at \in {"loaded", "imaged", "open"} /\ SettingsEvent
    /\ settingsRequests' = settingsRequests \ {r}
    /\ abandoned' = IF r.at = "imaged" THEN abandoned \union {r.old.banner} ELSE abandoned
    /\ unaware' = (unaware \/ r.at = "open")
    /\ UNCHANGED <<settingsFile, images, visited, settingsData, form, settingsSent>>

SettingsInit ==
    /\ settingsFile = <<DefaultSettings>> /\ images = {}
    /\ visited \in {"settings", "dashboard"} /\ settingsData = Mounted /\ form = 0
    /\ settingsRequests = {} /\ settingsSent = 0 /\ settingsEvents = 0
    /\ abandoned = {} /\ unaware = FALSE

SettingsNext ==
    \/ \E p \in {"settings", "dashboard"} : GoTo(p)
    \/ \E v \in Values \union {0} : SetForm(v) \/ OtherSaves(v)
    \/ SettingsProgress \/ handleDeploy \/ handleBannerUpload \/ handleBannerDelete
    \/ \E r \in settingsRequests : \/ LoadForBanner(r) \/ ReplaceImage(r) \/ OpenFile(r)
                                    \/ Dump(r) \/ AnswerArrives(r) \/ AnswerLost(r)
                                    \/ RequestDies(r)

SettingsSpec == SettingsInit /\ [][SettingsNext]_settingsVars

-----------------------------------------------------------------------------
(***************************************************************************)
(* The banner that the settings name is on disk (settings.py:93-154),      *)
(* whichever uploads, removals and saves run in other processes and in     *)
(* whatever way their writes overlap: unless the request that has removed  *)
(* it has yet to save, or died before it did.                              *)
(***************************************************************************)
BannerIsOnDisk ==
    load_settings.banner # 0 =>
        \/ load_settings.banner \in images \union abandoned
        \/ \E r \in settingsRequests : r.at = "imaged" /\ r.old.banner = load_settings.banner

(***************************************************************************)
(* A form without changes to apply shows the settings in force             *)
(* (Settings.jsx:66-119), except while a fetch is under way or has failed, *)
(* while a request that has begun to write the file is not answered, or    *)
(* when the file has changed unheard.                                      *)
(***************************************************************************)
FormShowsSettings ==
    visited = "settings" /\ HasData(settingsData) /\ ~hasChanges =>
        \/ unaware \/ Fetching(settingsData) \/ settingsData.failed
        \/ \E r \in settingsRequests : r.at \in {"open", "done"}
        \/ form = load_settings.values
=============================================================================
