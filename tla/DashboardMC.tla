----------------------------- MODULE DashboardMC -----------------------------
(***************************************************************************)
(* Pages of the dashboard and what stands behind all of them, which share  *)
(* no state but the server's, side by side for TLC: each behaviour is one  *)
(* part's, and the variables of the others keep their first values.  The   *)
(* page of competitions has two parts: "pages" without uploads, and "form", *)
(* in which the layout, which has nothing to do with the form, waits for   *)
(* its list.                                                               *)
(***************************************************************************)
EXTENDS DashboardSocket, DashboardSession, IncidentReview, ScreenViewer, PolicyEditor,
        FleetCommand, CompetitionGrid, ContestantPage, UserManagement, CompetitionsPages

VARIABLE part

(* One rule of each of two kinds is built in.                              *)
TheBuiltin == "claude.ai" :> "ESCALATE" @@ ".gguf" :> "WARN"

shellVars == <<socketVars, sessionVars>>
contestantVars == <<reviewVars, viewerVars, fleetVars, gridVars, pageVars>>
adminVars == <<editorVars, userVars, pagesVars>>
dashboardVars == <<part, shellVars, contestantVars, adminVars>>

Still(parts, vars) == IF part \in parts THEN TRUE ELSE UNCHANGED vars

(* The parts that stand still begin in one of their initial states only.   *)
DashboardInit ==
    /\ part \in {"socket", "session", "review", "viewer", "fleet", "grid", "contestant",
                 "editor", "users", "pages", "form"}
    /\ SocketInit /\ SessionInit
    /\ ReviewInit /\ ViewerInit /\ FleetInit /\ GridInit /\ ContestantPageInit
    /\ EditorInit /\ UserInit /\ PagesInit
    /\ part # "grid" => DOMAIN rows = Contestants
    /\ part # "editor" => policy.rules = Builtin

(* Two requests and one other event, or one and two.                       *)
ReviewBound == issued + events <= 3

ShellNext ==
    /\ \/ part = "socket" /\ SocketNext
       \/ part = "session" /\ SessionNext
    /\ Still({"socket"}, socketVars) /\ Still({"session"}, sessionVars)
    /\ UNCHANGED <<part, contestantVars, adminVars>>

ContestantNext ==
    /\ \/ part = "review" /\ ReviewNext /\ ReviewBound'
       \/ part = "viewer" /\ ViewerNext
       \/ part = "fleet" /\ FleetNext
       \/ part = "grid" /\ GridNext
       \/ part = "contestant" /\ ContestantPageNext
    /\ Still({"review"}, reviewVars) /\ Still({"viewer"}, viewerVars) /\ Still({"fleet"}, fleetVars)
    /\ Still({"grid"}, gridVars) /\ Still({"contestant"}, pageVars)
    /\ UNCHANGED <<part, shellVars, adminVars>>

AdminNext ==
    /\ \/ part = "editor" /\ EditorNext
       \/ part = "users" /\ UserNext
       \/ part = "pages" /\ PagesNext /\ uploading' = {}
       \/ part = "form" /\ PagesNext /\ UNCHANGED activeList
    /\ Still({"editor"}, editorVars) /\ Still({"users"}, userVars)
    /\ Still({"pages", "form"}, pagesVars)
    /\ UNCHANGED <<part, shellVars, contestantVars>>

DashboardNext == ShellNext \/ ContestantNext \/ AdminNext

DashboardSpec == DashboardInit /\ [][DashboardNext]_dashboardVars
=============================================================================
