---------------------------- MODULE PolicyEditor ----------------------------
(***************************************************************************)
(* The detection policy page (dashboard/src/pages/DetectionPolicy.jsx): an *)
(* edited copy of the server's policy, with presets, import, selections    *)
(* and DEPLOY, while another proctor deploys too.  A rule's category and   *)
(* description are left out, and so is a second rule of the same name,     *)
(* which the add bar would take.  A step is a browser task, or the         *)
(* server's part of a request.                                             *)
(***************************************************************************)
EXTENDS Naturals, FiniteSets, FiniteSetsExt, Functions, TLC, QueryClient

CONSTANTS
    Domains, Processes, Extensions,     \* the names a rule may be about
    Builtin,        \* the DEFAULT lists: an action for some of them
    Sizes,          \* minimum file sizes that are typed, besides 100
    MaxEdits        \* bound on edits, deployments by others and failures, together

Actions == {"ESCALATE", "WARN", "LOG_ONLY"}
Names == Domains \union Processes \union Extensions

ASSUME EditorAssumption ==
    /\ IsFiniteSet(Names) /\ Sizes \subseteq Nat
    /\ Domains \intersect Processes = {} /\ (Domains \union Processes) \intersect Extensions = {}
    /\ DOMAIN Builtin \subseteq Names /\ \A n \in DOMAIN Builtin : Builtin[n] \in Actions

VARIABLES
    policy,         \* the server's row: [rules, size]
    policyData,     \* the page's query
    rules,          \* domains, processes and extensions: name -> action
    minFileSizeMB,
    activePreset,
    customBackup,   \* <<>> or <<rules>>
    selected,       \* selectedDomains, selectedProcesses, selectedExtensions
    deploying,      \* the deployment under way: <<>> or <<[to, at]>>
    edits,
    behind          \* (history) the policy has changed, unheard, since the last read

editVars == <<rules, minFileSizeMB, activePreset, customBackup, selected>>
editorVars == <<policy, policyData, editVars, deploying, edits, behind>>

Edit == edits < MaxEdits /\ edits' = edits + 1

-----------------------------------------------------------------------------
(* A section without rules is taken for one that was never set.            *)
OrBuiltin(lists) ==
    LET unset == {s \in {Domains, Processes, Extensions} : s \intersect DOMAIN lists = {}}
    IN  lists @@ Restrict(Builtin, DOMAIN Builtin \intersect UNION unset)
OrHundred(size) == IF size = 0 THEN 100 ELSE size

getDefaultAction(n) == IF n \in DOMAIN Builtin THEN Builtin[n] ELSE "WARN"

applyPreset(preset, lists) ==
    [n \in DOMAIN lists |-> CASE preset = "STRICT" -> "ESCALATE"
                              [] preset = "LAX" -> "LOG_ONLY"
                              [] preset = "MODERATE" -> getDefaultAction(n)]

BaseRules == IF HasData(policyData) THEN OrBuiltin(DataOf(policyData).rules) ELSE Builtin

(* The page shows nothing else until the first fetch is over; if that has  *)
(* failed, it shows the defaults.                                          *)
isLoading == Fetching(policyData) /\ ~HasData(policyData)

isDirty ==
    /\ HasData(policyData)
    /\ rules # BaseRules \/ minFileSizeMB # OrHundred(DataOf(policyData).size)

InferredPreset(lists) ==
    LET modified == \E s \in {Domains, Processes, Extensions} :
                       Cardinality(s \intersect DOMAIN lists) # Cardinality(s \intersect DOMAIN Builtin)
        fits == {p \in {"STRICT", "LAX", "MODERATE"} : lists = applyPreset(p, lists)}
    IN  CASE modified \/ fits = {} -> "CUSTOM"
          [] OTHER -> CHOOSE p \in fits : p = "MODERATE" => fits = {"MODERATE"}

-----------------------------------------------------------------------------
KeepEditing == rules' = rules /\ minFileSizeMB' = minFileSizeMB /\ activePreset' = activePreset

(* The effect on new data: whatever has been edited is replaced.  Data     *)
(* that is as before keeps its identity, and the effect does not run.      *)
Sync(q) ==
    IF q.data = policyData.data THEN KeepEditing
    ELSE /\ rules' = OrBuiltin(DataOf(q).rules)
         /\ minFileSizeMB' = OrHundred(DataOf(q).size)
         /\ activePreset' = InferredPreset(rules')

PolicyArrives ==
    /\ \E q \in Progress(policyData, policy) :
          /\ policyData' = q
          /\ Sync(q)
          /\ IF q.failed /\ ~Fetching(q) THEN Edit ELSE UNCHANGED edits
          /\ behind' = (behind /\ q.fetch # "read")
    /\ UNCHANGED <<policy, customBackup, selected, deploying>>

(* refetchOnReconnect.                                                     *)
NetworkBack ==
    /\ Edit /\ policyData' = Polled(policyData)
    /\ UNCHANGED <<policy, editVars, deploying, behind>>

-----------------------------------------------------------------------------
(* The rows on the page, once it is loaded: the search narrows the domains *)
(* and the processes only.                                                 *)
DomainRows(found) == Domains \intersect DOMAIN rules \intersect found
ProcessRows(found) == Processes \intersect DOMAIN rules \intersect found
ExtensionRows == Extensions \intersect DOMAIN rules
Rows(found) == DomainRows(found) \union ProcessRows(found) \union ExtensionRows

Change(lists) ==
    /\ ~isLoading /\ Edit
    /\ rules' = lists /\ activePreset' = "CUSTOM"
    /\ UNCHANGED <<policy, policyData, minFileSizeMB, customBackup, deploying, behind>>

onActionChange(n, action) ==
    n \in Rows(Names) /\ Change([rules EXCEPT ![n] = action]) /\ UNCHANGED selected

(* A rule that is removed stays selected.                                  *)
onDelete(n) ==
    n \in Rows(Names) /\ Change(Restrict(rules, DOMAIN rules \ {n})) /\ UNCHANGED selected

onAdd(n) ==
    n \in Names \ DOMAIN rules /\ Change(rules @@ [m \in {n} |-> "WARN"]) /\ UNCHANGED selected

setMinFileSizeMB(size) ==
    /\ ~isLoading /\ Edit /\ size # minFileSizeMB
    /\ minFileSizeMB' = size
    /\ UNCHANGED <<policy, policyData, rules, activePreset, customBackup, selected, deploying, behind>>

(* A file with all three lists; a size of 0 in it is passed over.          *)
handleImport(lists, size) ==
    /\ ~isLoading /\ Edit
    /\ rules' = lists /\ activePreset' = "CUSTOM"
    /\ minFileSizeMB' = IF size = 0 THEN minFileSizeMB ELSE size
    /\ UNCHANGED <<policy, policyData, customBackup, selected, deploying, behind>>

toggleSelection(n) ==
    /\ ~isLoading /\ Edit /\ n \in Rows(Names)
    /\ selected' = SymDiff(selected, {n})
    /\ UNCHANGED <<policy, policyData, rules, minFileSizeMB, activePreset, customBackup, deploying, behind>>

(* The box in a section's header compares two numbers.                     *)
handleSelectAll(s, found) ==
    LET rows == Rows(found) \intersect s
    IN  /\ ~isLoading /\ Edit
        /\ selected' = IF Cardinality(selected \intersect s) = Cardinality(rows) /\ rows # {}
                       THEN selected \ s ELSE (selected \ s) \union rows
        /\ UNCHANGED <<policy, policyData, rules, minFileSizeMB, activePreset, customBackup, deploying, behind>>

(* The bar of a section with a selection, whether its rows are shown or not. *)
handleBulkAction(s, action) ==
    LET chosen == selected \intersect s
    IN  /\ chosen # {}
        /\ Change(IF action = "DELETE" THEN Restrict(rules, DOMAIN rules \ chosen)
                  ELSE [n \in DOMAIN rules |-> IF n \in chosen THEN action ELSE rules[n]])
        /\ selected' = selected \ s

(* A preset is applied to the server's lists.  CUSTOM brings back the      *)
(* lists of when CUSTOM was left last, even if it is the preset already.   *)
handlePreset(preset) ==
    /\ ~isLoading /\ Edit
    /\ customBackup' = IF preset # "CUSTOM" /\ activePreset = "CUSTOM" THEN <<rules>> ELSE customBackup
    /\ activePreset' = preset
    /\ rules' = CASE preset # "CUSTOM" -> applyPreset(preset, BaseRules)
                  [] preset = "CUSTOM" /\ customBackup # <<>> -> customBackup[1]
                  [] OTHER -> BaseRules
    /\ UNCHANGED <<policy, policyData, minFileSizeMB, selected, deploying, behind>>

-----------------------------------------------------------------------------
(* DEPLOY, on a page with changes; what is edited from here on is not in it. *)
Deploy ==
    /\ isDirty /\ deploying = <<>>
    /\ deploying' = <<[to |-> [rules |-> rules, size |-> minFileSizeMB], at |-> "sent"]>>
    /\ UNCHANGED <<policy, policyData, editVars, edits, behind>>

(* PUT /policy: the lists as sent.                                         *)
update_policy ==
    /\ deploying # <<>> /\ deploying[1].at = "sent"
    /\ policy' = deploying[1].to
    /\ deploying' = <<[deploying[1] EXCEPT !.at = "done"]>>
    /\ UNCHANGED <<policyData, editVars, edits, behind>>

AsPolled == Polled(policyData)      \* seeded fault: a fetch under way will do

AfterDeploy == Invalidated(policyData)

DeploySucceeds ==
    /\ deploying # <<>> /\ deploying[1].at = "done"
    /\ policyData' = AfterDeploy
    /\ deploying' = <<>>
    /\ UNCHANGED <<policy, editVars, edits, behind>>

(* The request or its answer is lost.                                      *)
DeployFails ==
    /\ deploying # <<>> /\ Edit
    /\ behind' = (behind \/ deploying[1].at = "done")
    /\ deploying' = <<>>
    /\ UNCHANGED <<policy, policyData, editVars>>

(* Another proctor's deployment: no message tells the page.                *)
OtherDeploys(new) ==
    /\ Edit /\ policy' = new /\ behind' = TRUE
    /\ UNCHANGED <<policyData, editVars, deploying>>

Strictest == [rules |-> applyPreset("STRICT", Builtin), size |-> 100]

EditorInit ==
    /\ policy \in {[rules |-> lists, size |-> 100] : lists \in {Restrict(Builtin, {}), Builtin}}
    /\ policyData = Mounted
    /\ rules = Builtin /\ minFileSizeMB = 100 /\ activePreset = "MODERATE"
    /\ customBackup = <<>> /\ selected = {} /\ deploying = <<>>
    /\ edits = 0 /\ behind = FALSE

EditorNext ==
    \/ PolicyArrives \/ NetworkBack
    \/ \E n \in Names : onDelete(n) \/ onAdd(n) \/ toggleSelection(n)
    \/ \E n \in Names, action \in Actions : onActionChange(n, action)
    \/ \E size \in Sizes : setMinFileSizeMB(size)
    \/ \E size \in Sizes : handleImport(Strictest.rules, size)
    \/ \E s \in {Domains, Processes, Extensions}, found \in SUBSET Names : handleSelectAll(s, found)
    \/ \E s \in {Domains, Processes, Extensions}, action \in Actions \union {"DELETE"} :
          handleBulkAction(s, action)
    \/ \E preset \in {"STRICT", "MODERATE", "LAX", "CUSTOM"} : handlePreset(preset)
    \/ Deploy \/ update_policy \/ DeploySucceeds \/ DeployFails
    \/ OtherDeploys(Strictest)

EditorSpec == EditorInit /\ [][EditorNext]_editorVars

-----------------------------------------------------------------------------
(***************************************************************************)
(* A page that offers nothing to deploy shows the policy in force          *)
(* (DetectionPolicy.jsx:423-524), whatever was edited while it deployed    *)
(* and whatever answer was on its way: the defaults stand for a section    *)
(* without rules, and 100 MB for 0.  Excepted are changes the page has not *)
(* heard of, a fetch that is under way or has failed, and a deployment     *)
(* that is done but not answered.                                          *)
(***************************************************************************)
CleanShowsInForce ==
    HasData(policyData) /\ ~isDirty =>
        \/ behind \/ Fetching(policyData) \/ policyData.failed
        \/ deploying # <<>> /\ deploying[1].at = "done"
        \/ rules = OrBuiltin(policy.rules) /\ minFileSizeMB = OrHundred(policy.size)
=============================================================================
