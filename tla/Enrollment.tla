----------------------------- MODULE Enrollment -----------------------------
(***************************************************************************)
(* Self-enrolment into one competition.  An agent, each time it starts,    *)
(* calls Enroll once with its configured KEY::TEAM[::HANDLE]               *)
(* (agent/cmd/voight/main.go); the handler (ContestantService.enroll,      *)
(* server/app/services/competition.py) looks the contestant up by handle   *)
(* and team, creates the row if there is none, and marks it enrolled.      *)
(* Each of its statements is a step, so calls interleave; the table has no *)
(* unique constraint on handle and team.  Meanwhile proctors open and      *)
(* close the competition, add, rename and delete contestants.  Handles and *)
(* teams are what strip().upper() leaves of them: enroll and create both   *)
(* apply it; a rename, which does not, to another spelling of a name is    *)
(* one to another name.                                                    *)
(***************************************************************************)
EXTENDS Naturals, FiniteSets

CONSTANTS
    Agents,       \* machines that run an agent
    Token(_),     \* Token(a): the team and name in a's configuration
    NoTokenName,  \* the name, or team, that is not configured
    Calls,        \* Enroll RPCs that can be in progress at once
    Edits,        \* bound: the kinds of edit that proctors make
    MaxEdits,     \* bound on the edits
    EditNames,    \* bound: the handles and teams they type in
    MaxRows,      \* bound on the contestant rows
    MaxStarts     \* bound on the starts of each agent

EditKinds == {"add", "rename", "delete", "status", "lose"}

ASSUME EnrollmentAssumption ==
    /\ IsFiniteSet(Calls)
    /\ Edits \subseteq EditKinds
    /\ MaxEdits \in Nat /\ MaxRows \in Nat /\ MaxStarts \in Nat

VARIABLES
    competition,  \* its status, or "deleted"
    rows,         \* the contestants: id -> row
    created,      \* how many ids have been given out
    agent,        \* agent[a]: what it is doing, in which call, its contestant id
    starts,       \* how often each agent has been started
    edits,        \* how many edits proctors have made
    call          \* call[c]: where the handler is, for whom, and the row it holds

enrolVars == <<competition, rows, created, agent, starts, edits, call>>

Ids  == DOMAIN rows
Free == [at |-> "free", agent |-> "none", id |-> 0]
Off  == [at |-> "off", call |-> "none", id |-> 0]

(* KEY::TEAM stands for KEY::TEAM::TEAM.                                   *)
Handle(a) == IF Token(a).name = NoTokenName THEN Token(a).team ELSE Token(a).name
Identity(a) == [handle |-> Handle(a), team |-> Token(a).team]

ByTeam(who) == {i \in Ids : rows[i].who.team = who.team}  \* seeded fault: found by team alone

NotYetEnrolled(who) ==                    \* seeded fault: enrolled ones are not found
    {i \in Ids : rows[i].who = who /\ ~rows[i].enrolled}

ContestantsOf(who) == {i \in Ids : rows[i].who = who}

Goto(c, label, id) == call' = [call EXCEPT ![c].at = label, ![c].id = id]

-----------------------------------------------------------------------------
(***************************************************************************)
(* The agent.                                                              *)
(***************************************************************************)
StartAgent(a, c) ==
    /\ agent[a].at = "off" /\ starts[a] < MaxStarts
    /\ call[c] = Free
    /\ agent' = [agent EXCEPT ![a] = [at |-> "calling", call |-> c, id |-> 0]]
    /\ starts' = [starts EXCEPT ![a] = @ + 1]
    /\ call' = [call EXCEPT ![c] = [at |-> "competition", agent |-> a, id |-> 0]]
    /\ UNCHANGED <<competition, rows, created, edits>>

(* It runs on without a contestant id if Enroll fails; nothing retries.    *)
Answered(a, id) ==
    agent' = [agent EXCEPT ![a] = [at |-> IF id = 0 THEN "unenrolled" ELSE "enrolled",
                                   call |-> "none", id |-> id]]

(* The connection breaks, whatever the handler is doing.                   *)
GiveUp(a) ==
    /\ "lose" \in Edits
    /\ agent[a].at = "calling"
    /\ Answered(a, 0)
    /\ UNCHANGED <<competition, rows, created, starts, edits, call>>

StopAgent(a) ==
    /\ agent[a].at # "off"
    /\ agent' = [agent EXCEPT ![a] = Off]
    /\ UNCHANGED <<competition, rows, created, starts, edits, call>>

-----------------------------------------------------------------------------
(***************************************************************************)
(* The Enroll handler.                                                     *)
(***************************************************************************)
(* An unknown or inactive competition: the token is invalid.               *)
ReadCompetition(c) ==
    /\ call[c].at = "competition"
    /\ Goto(c, IF competition = "active" THEN "select" ELSE "answer", 0)
    /\ UNCHANGED <<competition, rows, created, agent, starts, edits>>

WhenKnown(dups) == IF Cardinality(dups) = 1 THEN "update" ELSE "answer"

(* scalar_one_or_none: two rows or more raise MultipleResultsFound.        *)
SelectContestant(c) ==
    /\ call[c].at = "select"
    /\ LET dups == ContestantsOf(Identity(call[c].agent))
       IN  IF dups = {} THEN Goto(c, "create", 0)
           ELSE \E i \in dups :
                  Goto(c, WhenKnown(dups), IF WhenKnown(dups) = "update" THEN i ELSE 0)
    /\ UNCHANGED <<competition, rows, created, agent, starts, edits>>

NewRow(who) == [who |-> who, enrolled |-> FALSE, fingerprint |-> "none", edited |-> "no"]

(* INSERT and commit; without its competition the foreign key fails.       *)
CreateContestant(c) ==
    /\ call[c].at = "create"
    /\ IF competition = "deleted"
       THEN Goto(c, "answer", 0) /\ UNCHANGED <<rows, created>>
       ELSE /\ created < MaxRows
            /\ created' = created + 1
            /\ rows' = [i \in Ids \union {created + 1} |->
                          IF i = created + 1 THEN NewRow(Identity(call[c].agent)) ELSE rows[i]]
            /\ Goto(c, "update", created + 1)
    /\ UNCHANGED <<competition, agent, starts, edits>>

(* UPDATE and commit; the row may be gone, and then the update fails.      *)
UpdateContestant(c) ==
    /\ call[c].at = "update"
    /\ IF call[c].id \in Ids
       THEN /\ rows' = [rows EXCEPT ![call[c].id].enrolled = TRUE,
                                    ![call[c].id].fingerprint = call[c].agent]
            /\ Goto(c, "refresh", call[c].id)
       ELSE Goto(c, "answer", 0) /\ UNCHANGED rows
    /\ UNCHANGED <<competition, created, agent, starts, edits>>

(* The refresh reads the row again, and fails if it is gone by now.        *)
RefreshContestant(c) ==
    /\ call[c].at = "refresh"
    /\ Goto(c, "answer", IF call[c].id \in Ids THEN call[c].id ELSE 0)
    /\ UNCHANGED <<competition, rows, created, agent, starts, edits>>

Waiting(c) == agent[call[c].agent].call = c

Answer(c) ==
    /\ call[c].at = "answer" /\ Waiting(c)
    /\ Answered(call[c].agent, call[c].id)
    /\ call' = [call EXCEPT ![c] = Free]
    /\ UNCHANGED <<competition, rows, created, starts, edits>>

(* The server learns that nobody waits: grpc.aio cancels the handler at    *)
(* whatever await it has reached, or drops the answer.                     *)
Abandon(c) ==
    /\ call[c] # Free /\ ~Waiting(c)
    /\ call' = [call EXCEPT ![c] = Free]
    /\ UNCHANGED <<competition, rows, created, agent, starts, edits>>

-----------------------------------------------------------------------------
(***************************************************************************)
(* Proctors.                                                               *)
(***************************************************************************)
May(kind) == kind \in Edits /\ edits < MaxEdits /\ edits' = edits + 1

(* POST /competitions/{id}/contestants does not look for the contestant.   *)
AddContestant(who) ==
    /\ May("add") /\ competition # "deleted" /\ created < MaxRows
    /\ created' = created + 1
    /\ rows' = [i \in Ids \union {created + 1} |->
                  IF i = created + 1 THEN [NewRow(who) EXCEPT !.edited = "added"] ELSE rows[i]]
    /\ UNCHANGED <<competition, agent, starts, call>>

(* PATCH /contestants/{id}.                                                *)
RenameContestant(i, who) ==
    /\ May("rename")
    /\ i \in Ids /\ rows[i].who # who
    /\ rows' = [rows EXCEPT ![i].who = who, ![i].edited = "renamed"]
    /\ UNCHANGED <<competition, created, agent, starts, call>>

DeleteContestant(i) ==
    /\ May("delete")
    /\ i \in Ids
    /\ rows' = [j \in Ids \ {i} |-> rows[j]]
    /\ UNCHANGED <<competition, created, agent, starts, call>>

(* PATCH /competitions/{id}: any status to any other; "completed" stands  *)
(* for "archived" too, which enrolment does not tell apart.                *)
SetStatus(status) ==
    /\ May("status") /\ competition \notin {"deleted", status}
    /\ competition' = status
    /\ UNCHANGED <<rows, created, agent, starts, call>>

(* DELETE /competitions/{id} takes its contestants along.                  *)
DeleteCompetition ==
    /\ May("status") /\ competition # "deleted"
    /\ competition' = "deleted"
    /\ rows' = [i \in {} |-> NewRow({})]
    /\ UNCHANGED <<created, agent, starts, call>>

-----------------------------------------------------------------------------
EnrolInit ==
    /\ competition \in IF "status" \in Edits THEN {"draft"} ELSE {"active"}
    /\ rows = [i \in {} |-> NewRow({})] /\ created = 0
    /\ agent = [a \in Agents |-> Off]
    /\ starts = [a \in Agents |-> 0]
    /\ edits = 0
    /\ call = [c \in Calls |-> Free]

Serve(c) ==
    \/ ReadCompetition(c) \/ SelectContestant(c) \/ CreateContestant(c)
    \/ UpdateContestant(c) \/ RefreshContestant(c)
    \/ Answer(c) \/ Abandon(c)

Edit ==
    \/ \E who \in EditNames : AddContestant(who)
    \/ \E i \in Ids, who \in EditNames : RenameContestant(i, who)
    \/ \E i \in Ids : DeleteContestant(i)
    \/ \E status \in {"draft", "active", "completed"} : SetStatus(status)
    \/ DeleteCompetition

EnrolNext ==
    \/ \E a \in Agents : (\E c \in Calls : StartAgent(a, c)) \/ GiveUp(a) \/ StopAgent(a)
    \/ \E c \in Calls : Serve(c)
    \/ Edit

EnrolSpec == EnrolInit /\ [][EnrolNext]_enrolVars

-----------------------------------------------------------------------------
(***************************************************************************)
(* "Check if contestant already exists by handle and team"                 *)
(* (competition.py:204): enrolments racing past that look-up may each      *)
(* insert a row, but no more of them than there are calls in progress,     *)
(* whatever proctors do to the rows meanwhile: after the first commit      *)
(* nobody else inserts.  Calls that come one at a time insert one row.     *)
(***************************************************************************)
EnrolledOncePerCall ==
    \A a \in Agents :
        Cardinality({i \in Ids : rows[i].who = Identity(a) /\ rows[i].edited = "no"})
          + Cardinality({c \in Calls : call[c].at = "create"
                                       /\ Identity(call[c].agent) = Identity(a)})
          <= Cardinality(Calls)

(***************************************************************************)
(* An agent reports as the contestant it is configured for: the row of the *)
(* id it was given, while there is one, is enrolled and carries its name   *)
(* and team, unless a proctor renamed it (competition.py:207-236).         *)
(***************************************************************************)
EnrolledAsItself ==
    \A a \in Agents :
        agent[a].at = "enrolled" /\ agent[a].id \in Ids =>
            LET row == rows[agent[a].id]
            IN  row.enrolled /\ (row.who = Identity(a) \/ row.edited = "renamed")
=============================================================================
