-------------------------- MODULE EnrollmentProofs --------------------------
(***************************************************************************)
(* Proofs about enrolment, for any machines, any number of calls in        *)
(* progress and whatever proctors do.                                      *)
(***************************************************************************)
EXTENDS Enrollment, FiniteSetTheorems, TLAPS

Whos == {Identity(a) : a \in Agents} \union EditNames
Row == [who : Whos, enrolled : BOOLEAN, fingerprint : Agents \union {"none"},
        edited : {"no", "added", "renamed"}]
Stages == {"free", "competition", "select", "create", "update", "refresh", "answer"}

EnrolTyped ==
    /\ created \in Nat
    /\ Ids \subseteq 1..created
    /\ rows \in [Ids -> Row]
    /\ agent \in [Agents -> [at : {"off", "calling", "unenrolled", "enrolled"},
                             call : Calls \union {"none"}, id : Nat]]
    /\ call \in [Calls -> [at : Stages, agent : Agents \union {"none"}, id : Nat]]
    /\ \A c \in Calls : call[c].at # "free" => call[c].agent \in Agents

(* The row of this id, if there is one, is a's, or was until a rename.     *)
Belongs(i, a) == i \in Ids => rows[i].who = Identity(a) \/ rows[i].edited = "renamed"
IsEnrolled(i) == i \in Ids => rows[i].enrolled

(***************************************************************************)
(* Ids are given out once, so the row that a handler or an agent holds is  *)
(* the one it was given, or none; past the update it is an enrolled one.   *)
(***************************************************************************)
HeldRows ==
    /\ \A c \in Calls :
          /\ call[c].id <= created
          /\ call[c].at \in {"update", "refresh", "answer"} => Belongs(call[c].id, call[c].agent)
          /\ call[c].at \in {"refresh", "answer"} => IsEnrolled(call[c].id)
    /\ \A a \in Agents :
          /\ agent[a].id <= created
          /\ agent[a].at = "enrolled" => Belongs(agent[a].id, a) /\ IsEnrolled(agent[a].id)

OwnRows(a) == {i \in Ids : rows[i].who = Identity(a) /\ rows[i].edited = "no"}
Creating(a) == {c \in Calls : call[c].at = "create" /\ Identity(call[c].agent) = Identity(a)}

EnrolInv == EnrolTyped /\ HeldRows

-----------------------------------------------------------------------------
LEMMA EnrolInitInv == EnrolInit => EnrolInv
BY DEF EnrolInit, EnrolInv, EnrolTyped, HeldRows, Ids, Off, Free, Stages, Row, Belongs, IsEnrolled

(* What a step that changes no row has to keep.                            *)
LEMMA RowsStay ==
    ASSUME EnrolInv, UNCHANGED <<rows, created>>, EnrolTyped',
           \A c \in Calls : \/ call'[c] = call[c]
                            \/ call'[c].at \in {"free", "competition", "select", "create"}
                                 /\ call'[c].id = 0
                            \/ call'[c].at = "answer" /\ call'[c].id = 0
                            \/ /\ call'[c].id <= created
                               /\ Belongs(call'[c].id, call'[c].agent)
                               /\ call'[c].at # "update" => IsEnrolled(call'[c].id),
           \A a \in Agents : \/ agent'[a] = agent[a]
                             \/ agent'[a].at # "enrolled" /\ agent'[a].id = 0
                             \/ /\ agent'[a].id <= created
                                /\ Belongs(agent'[a].id, a) /\ IsEnrolled(agent'[a].id)
    PROVE  EnrolInv'
<1>1. 0 \notin Ids /\ created \in Nat
    BY DEF EnrolInv, EnrolTyped
<1> QED BY <1>1 DEF EnrolInv, HeldRows, Belongs, IsEnrolled, Ids

LEMMA AgentSteps ==
    ASSUME EnrolInv, NEW a \in Agents,
           (\E c \in Calls : StartAgent(a, c)) \/ GiveUp(a) \/ StopAgent(a)
    PROVE  EnrolInv'
<1>1. ASSUME NEW c \in Calls, StartAgent(a, c) PROVE EnrolInv'
  <2>1. EnrolTyped'
      BY <1>1 DEF StartAgent, EnrolInv, EnrolTyped, Ids, Stages
  <2> QED BY <1>1, <2>1, RowsStay DEF StartAgent, EnrolInv, EnrolTyped
<1>2. CASE GiveUp(a)
  <2>1. EnrolTyped'
      BY <1>2 DEF GiveUp, Answered, EnrolInv, EnrolTyped, Ids
  <2> QED BY <1>2, <2>1, RowsStay DEF GiveUp, Answered, EnrolInv, EnrolTyped
<1>3. CASE StopAgent(a)
  <2>1. EnrolTyped'
      BY <1>3 DEF StopAgent, Off, EnrolInv, EnrolTyped, Ids
  <2> QED BY <1>3, <2>1, RowsStay DEF StopAgent, Off, EnrolInv, EnrolTyped
<1> QED BY <1>1, <1>2, <1>3

(* Goto changes one call, which keeps its agent.                           *)
LEMMA GotoOne ==
    ASSUME EnrolTyped, NEW c \in Calls, NEW label \in Stages \ {"free"}, NEW id \in Nat,
           call[c].at # "free", Goto(c, label, id)
    PROVE  /\ call' \in [Calls -> [at : Stages, agent : Agents \union {"none"}, id : Nat]]
           /\ call'[c] = [at |-> label, agent |-> call[c].agent, id |-> id]
           /\ \A d \in Calls : d # c => call'[d] = call[d]
           /\ \A d \in Calls : call'[d].at # "free" => call'[d].agent \in Agents
BY DEF EnrolTyped, Goto, Stages

LEMMA ReadSteps ==
    ASSUME EnrolInv, NEW c \in Calls,
           ReadCompetition(c) \/ SelectContestant(c) \/ RefreshContestant(c)
    PROVE  EnrolInv'
<1>0. EnrolTyped /\ 0 \in Nat /\ Ids \subseteq Nat
    BY DEF EnrolInv, EnrolTyped
<1>1. ASSUME NEW label \in Stages \ {"free"}, NEW id \in Nat, Goto(c, label, id),
             call[c].at # "free", UNCHANGED <<competition, rows, created, agent, starts, edits>>,
             \/ label \in {"select", "create", "answer"} /\ id = 0
             \/ id <= created /\ Belongs(id, call[c].agent) /\ (label = "update" \/ IsEnrolled(id))
      PROVE  EnrolInv'
  <2>1. EnrolTyped'
      BY <1>0, <1>1, GotoOne DEF EnrolTyped, Ids
  <2>2. call'[c] = [at |-> label, agent |-> call[c].agent, id |-> id]
      BY <1>0, <1>1, GotoOne
  <2>3. \A d \in Calls : d # c => call'[d] = call[d]
      BY <1>0, <1>1, GotoOne
  <2> QED BY <1>1, <2>1, <2>2, <2>3, RowsStay
<1>2. CASE ReadCompetition(c)
    BY <1>0, <1>1, <1>2 DEF ReadCompetition, Stages
<1>3. CASE SelectContestant(c)
  <2> DEFINE dups == ContestantsOf(Identity(call[c].agent))
  <2>1. ASSUME NEW i \in dups PROVE i <= created /\ Belongs(i, call[c].agent) /\ i \in Nat
      BY <2>1, <1>0 DEF ContestantsOf, Belongs, EnrolTyped
  <2>2. \/ Goto(c, "create", 0)
        \/ Goto(c, "answer", 0)
        \/ \E i \in dups : Goto(c, "update", i)
      BY <1>3 DEF SelectContestant, WhenKnown
  <2>3. call[c].at # "free" /\ UNCHANGED <<competition, rows, created, agent, starts, edits>>
      BY <1>3 DEF SelectContestant
  <2> HIDE DEF dups
  <2>4. CASE Goto(c, "create", 0) \/ Goto(c, "answer", 0)
      BY <1>0, <1>1, <2>3, <2>4 DEF Stages
  <2>5. ASSUME NEW i \in dups, Goto(c, "update", i) PROVE EnrolInv'
      BY <1>1, <2>1, <2>3, <2>5 DEF Stages
  <2> QED BY <2>2, <2>4, <2>5
<1>4. CASE RefreshContestant(c)
  <2>1. /\ call[c].id \in Nat /\ call[c].id <= created /\ call[c].at = "refresh"
        /\ Belongs(call[c].id, call[c].agent) /\ IsEnrolled(call[c].id)
      BY <1>4 DEF RefreshContestant, EnrolInv, HeldRows, EnrolTyped
  <2>2. CASE call[c].id \in Ids
      BY <1>1, <1>4, <2>1, <2>2 DEF RefreshContestant, Stages
  <2>3. CASE call[c].id \notin Ids
      BY <1>0, <1>1, <1>4, <2>1, <2>3 DEF RefreshContestant, Stages
  <2> QED BY <2>2, <2>3
<1> QED BY <1>2, <1>3, <1>4

LEMMA AnswerSteps ==
    ASSUME EnrolInv, NEW c \in Calls, Answer(c) \/ Abandon(c)
    PROVE  EnrolInv'
<1>1. CASE Answer(c)
  <2>1. /\ call[c].at = "answer" /\ call[c].agent \in Agents /\ call[c].id \in Nat
        /\ call[c].id <= created
        /\ Belongs(call[c].id, call[c].agent) /\ IsEnrolled(call[c].id)
      BY <1>1 DEF Answer, EnrolInv, EnrolTyped, HeldRows
  <2>2. EnrolTyped'
      BY <1>1, <2>1 DEF Answer, Answered, Free, EnrolInv, EnrolTyped, Ids, Stages
  <2> QED BY <1>1, <2>1, <2>2, RowsStay DEF Answer, Answered, Free, EnrolInv, EnrolTyped
<1>2. CASE Abandon(c)
  <2>1. EnrolTyped'
      BY <1>2 DEF Abandon, Free, EnrolInv, EnrolTyped, Ids, Stages
  <2> QED BY <1>2, <2>1, RowsStay DEF Abandon, Free, EnrolInv, EnrolTyped
<1> QED BY <1>1, <1>2

-----------------------------------------------------------------------------
(* Steps that change rows: those there were lose nothing that a holder of  *)
(* an id relies on.                                                        *)
RowsKept ==
    \A i \in Nat : i <= created /\ i \in Ids' =>
        /\ i \in Ids
        /\ rows'[i].edited = "renamed" \/ (rows'[i].who = rows[i].who /\ rows'[i].edited = rows[i].edited)
        /\ rows[i].enrolled => rows'[i].enrolled

LEMMA HoldersKeep ==
    ASSUME EnrolInv, RowsKept, EnrolTyped', created <= created', UNCHANGED agent
    PROVE  /\ \A c \in Calls : call'[c] = call[c] =>
                 /\ call'[c].id <= created'
                 /\ call'[c].at \in {"update", "refresh", "answer"} => Belongs(call[c].id, call[c].agent)'
                 /\ call'[c].at \in {"refresh", "answer"} => IsEnrolled(call[c].id)'
           /\ \A a \in Agents :
                 /\ agent'[a].id <= created'
                 /\ agent'[a].at = "enrolled" => Belongs(agent[a].id, a)' /\ IsEnrolled(agent[a].id)'
<1>1. ASSUME NEW i \in Nat, NEW a, i <= created
      PROVE  /\ Belongs(i, a) => (i \in Ids' => rows'[i].who = Identity(a) \/ rows'[i].edited = "renamed")
             /\ IsEnrolled(i) => (i \in Ids' => rows'[i].enrolled)
    BY <1>1 DEF RowsKept, Belongs, IsEnrolled
<1>2. /\ created \in Nat /\ created' \in Nat
      /\ \A c \in Calls : call[c].id \in Nat
      /\ \A a \in Agents : agent[a].id \in Nat
    BY DEF EnrolInv, EnrolTyped
<1>3. ASSUME NEW c \in Calls, call'[c] = call[c]
      PROVE  /\ call'[c].id <= created'
             /\ call'[c].at \in {"update", "refresh", "answer"} => Belongs(call[c].id, call[c].agent)'
             /\ call'[c].at \in {"refresh", "answer"} => IsEnrolled(call[c].id)'
    BY <1>1, <1>2, <1>3 DEF EnrolInv, HeldRows, Belongs, IsEnrolled
<1>4. ASSUME NEW a \in Agents
      PROVE  /\ agent'[a].id <= created'
             /\ agent'[a].at = "enrolled" => Belongs(agent[a].id, a)' /\ IsEnrolled(agent[a].id)'
    BY <1>1, <1>2 DEF EnrolInv, HeldRows, Belongs, IsEnrolled
<1> QED BY <1>3, <1>4

LEMMA CreateStep ==
    ASSUME EnrolInv, NEW c \in Calls, CreateContestant(c)
    PROVE  EnrolInv'
<1>0. EnrolTyped /\ 0 \in Nat /\ call[c].at = "create" /\ call[c].agent \in Agents
      /\ UNCHANGED agent /\ created \in Nat /\ created + 1 \in Nat
    BY DEF CreateContestant, EnrolInv, EnrolTyped
<1>1. CASE competition = "deleted"
  <2>1. Goto(c, "answer", 0) /\ UNCHANGED <<rows, created, agent>>
      BY <1>1 DEF CreateContestant
  <2>2. /\ call' \in [Calls -> [at : Stages, agent : Agents \union {"none"}, id : Nat]]
        /\ call'[c] = [at |-> "answer", agent |-> call[c].agent, id |-> 0]
        /\ \A d \in Calls : d # c => call'[d] = call[d]
        /\ \A d \in Calls : call'[d].at # "free" => call'[d].agent \in Agents
      BY <1>0, <2>1, GotoOne DEF Stages
  <2>3. EnrolTyped'
      BY <1>0, <2>1, <2>2 DEF EnrolTyped, Ids
  <2> QED BY <2>1, <2>2, <2>3, RowsStay
<1>2. CASE competition # "deleted"
  <2>1. /\ Goto(c, "update", created + 1) /\ created' = created + 1
        /\ rows' = [i \in Ids \union {created + 1} |->
                      IF i = created + 1 THEN NewRow(Identity(call[c].agent)) ELSE rows[i]]
      BY <1>2 DEF CreateContestant
  <2>2. /\ call' \in [Calls -> [at : Stages, agent : Agents \union {"none"}, id : Nat]]
        /\ call'[c] = [at |-> "update", agent |-> call[c].agent, id |-> created + 1]
        /\ \A d \in Calls : d # c => call'[d] = call[d]
        /\ \A d \in Calls : call'[d].at # "free" => call'[d].agent \in Agents
      BY <1>0, <2>1, GotoOne DEF Stages
  <2>3. NewRow(Identity(call[c].agent)) \in Row
      BY <1>0 DEF NewRow, Row, Whos
  <2>4. EnrolTyped' /\ RowsKept
      BY <1>0, <2>1, <2>2, <2>3 DEF EnrolTyped, RowsKept, Ids
  <2>5. Belongs(call[c].id, call[c].agent)'
      BY <1>0, <2>1, <2>2 DEF Belongs, NewRow, Ids
  <2>6. \A d \in Calls :
          /\ call'[d].id <= created'
          /\ call'[d].at \in {"update", "refresh", "answer"} => Belongs(call[d].id, call[d].agent)'
          /\ call'[d].at \in {"refresh", "answer"} => IsEnrolled(call[d].id)'
    <3> SUFFICES ASSUME NEW d \in Calls
                 PROVE  /\ call'[d].id <= created'
                        /\ call'[d].at \in {"update", "refresh", "answer"} => Belongs(call[d].id, call[d].agent)'
                        /\ call'[d].at \in {"refresh", "answer"} => IsEnrolled(call[d].id)'
        OBVIOUS
    <3>1. CASE d = c
        BY <1>0, <2>1, <2>2, <2>5, <3>1
    <3>2. CASE d # c
        BY <1>0, <2>1, <2>2, <2>4, <3>2, HoldersKeep
    <3> QED BY <3>1, <3>2
  <2> QED BY <1>0, <2>1, <2>4, <2>6, HoldersKeep DEF EnrolInv, HeldRows
<1> QED BY <1>1, <1>2

LEMMA UpdateStep ==
    ASSUME EnrolInv, NEW c \in Calls, UpdateContestant(c)
    PROVE  EnrolInv'
<1>0. /\ EnrolTyped /\ 0 \in Nat /\ call[c].at = "update" /\ call[c].agent \in Agents
      /\ call[c].id \in Nat /\ call[c].id <= created /\ Belongs(call[c].id, call[c].agent)
      /\ UNCHANGED <<agent, created>> /\ created \in Nat
    BY DEF UpdateContestant, EnrolInv, EnrolTyped, HeldRows
<1>1. CASE call[c].id \notin Ids
  <2>1. Goto(c, "answer", 0) /\ UNCHANGED <<rows, created, agent>>
      BY <1>1 DEF UpdateContestant
  <2>2. /\ call' \in [Calls -> [at : Stages, agent : Agents \union {"none"}, id : Nat]]
        /\ call'[c] = [at |-> "answer", agent |-> call[c].agent, id |-> 0]
        /\ \A d \in Calls : d # c => call'[d] = call[d]
        /\ \A d \in Calls : call'[d].at # "free" => call'[d].agent \in Agents
      BY <1>0, <2>1, GotoOne DEF Stages
  <2>3. EnrolTyped'
      BY <1>0, <2>1, <2>2 DEF EnrolTyped, Ids
  <2> QED BY <2>1, <2>2, <2>3, RowsStay
<1>2. CASE call[c].id \in Ids
  <2>1. /\ Goto(c, "refresh", call[c].id)
        /\ rows' = [rows EXCEPT ![call[c].id].enrolled = TRUE,
                                ![call[c].id].fingerprint = call[c].agent]
      BY <1>2 DEF UpdateContestant
  <2>2. /\ call' \in [Calls -> [at : Stages, agent : Agents \union {"none"}, id : Nat]]
        /\ call'[c] = [at |-> "refresh", agent |-> call[c].agent, id |-> call[c].id]
        /\ \A d \in Calls : d # c => call'[d] = call[d]
        /\ \A d \in Calls : call'[d].at # "free" => call'[d].agent \in Agents
      BY <1>0, <2>1, GotoOne DEF Stages
  <2>3. /\ Ids' = Ids /\ rows' \in [Ids -> Row] /\ rows'[call[c].id].enrolled
        /\ \A i \in Ids : /\ rows'[i].who = rows[i].who /\ rows'[i].edited = rows[i].edited
                          /\ rows[i].enrolled => rows'[i].enrolled
    <3> DEFINE i == call[c].id
    <3>1. /\ DOMAIN rows' = Ids /\ rows' = [j \in Ids |-> rows'[j]]
          /\ \A j \in Ids : j # i => rows'[j] = rows[j]
          /\ rows'[i] = [rows[i] EXCEPT !.enrolled = TRUE, !.fingerprint = call[c].agent]
        BY <1>0, <1>2, <2>1 DEF EnrolTyped, Ids
    <3>2. rows[i] \in Row /\ \A j \in Ids : rows[j] \in Row
        BY <1>0, <1>2 DEF EnrolTyped
    <3>3. /\ rows'[i] \in Row /\ rows'[i].who = rows[i].who /\ rows'[i].edited = rows[i].edited
          /\ rows'[i].enrolled
        BY <1>0, <3>1, <3>2 DEF Row
    <3> HIDE DEF i
    <3>4. \A j \in Ids : rows'[j] \in Row
        BY <3>1, <3>2, <3>3
    <3> QED BY <3>1, <3>3, <3>4 DEF Ids, i
  <2>4. EnrolTyped' /\ RowsKept
      BY <1>0, <2>2, <2>3 DEF EnrolTyped, RowsKept
  <2>5. Belongs(call[c].id, call[c].agent)' /\ IsEnrolled(call[c].id)'
      BY <1>0, <2>2, <2>3 DEF Belongs, IsEnrolled
  <2>6. \A d \in Calls :
          /\ call'[d].id <= created'
          /\ call'[d].at \in {"update", "refresh", "answer"} => Belongs(call[d].id, call[d].agent)'
          /\ call'[d].at \in {"refresh", "answer"} => IsEnrolled(call[d].id)'
      BY <1>0, <2>2, <2>4, <2>5, HoldersKeep DEF Belongs, IsEnrolled
  <2> QED BY <1>0, <2>4, <2>6, HoldersKeep DEF EnrolInv, HeldRows
<1> QED BY <1>1, <1>2

LEMMA EditSteps == ASSUME EnrolInv, Edit PROVE EnrolInv'
<1>1. UNCHANGED <<agent, call>> /\ created \in Nat /\ EnrolTyped
    BY DEF Edit, AddContestant, RenameContestant, DeleteContestant, SetStatus, DeleteCompetition,
           EnrolInv, EnrolTyped
<1>2. ASSUME EnrolTyped', RowsKept, created <= created' PROVE EnrolInv'
    BY <1>1, <1>2, HoldersKeep DEF EnrolInv, HeldRows, Belongs, IsEnrolled
<1>3. ASSUME NEW who \in EditNames, AddContestant(who) PROVE EnrolInv'
  <2>1. [NewRow(who) EXCEPT !.edited = "added"] \in Row
      BY DEF NewRow, Row, Whos
  <2>2. EnrolTyped' /\ RowsKept /\ created <= created'
      BY <1>1, <1>3, <2>1 DEF AddContestant, EnrolTyped, RowsKept, Ids
  <2> QED BY <1>2, <2>2
<1>4. ASSUME NEW i \in Ids, NEW who \in EditNames, RenameContestant(i, who) PROVE EnrolInv'
  <2>1. /\ Ids' = Ids /\ rows' \in [Ids -> Row] /\ rows'[i].edited = "renamed"
        /\ rows'[i].enrolled = rows[i].enrolled /\ \A j \in Ids : j # i => rows'[j] = rows[j]
    <3>1. /\ DOMAIN rows' = Ids /\ rows' = [j \in Ids |-> rows'[j]]
          /\ \A j \in Ids : j # i => rows'[j] = rows[j]
          /\ rows'[i] = [rows[i] EXCEPT !.who = who, !.edited = "renamed"]
        BY <1>1, <1>4 DEF RenameContestant, EnrolTyped, Ids
    <3>2. rows[i] \in Row /\ \A j \in Ids : rows[j] \in Row
        BY <1>1, <1>4 DEF EnrolTyped
    <3>3. who \in Whos
        BY DEF Whos
    <3>4. rows'[i] \in Row /\ rows'[i].edited = "renamed" /\ rows'[i].enrolled = rows[i].enrolled
        BY <3>1, <3>2, <3>3 DEF Row
    <3>5. \A j \in Ids : rows'[j] \in Row
        BY <3>1, <3>2, <3>4
    <3> QED BY <3>1, <3>4, <3>5 DEF Ids
  <2>2. EnrolTyped' /\ RowsKept /\ created <= created'
      BY <1>1, <1>4, <2>1 DEF RenameContestant, EnrolTyped, RowsKept
  <2> QED BY <1>2, <2>2
<1>5. ASSUME NEW i \in Ids, DeleteContestant(i) PROVE EnrolInv'
  <2>1. EnrolTyped' /\ RowsKept /\ created <= created'
      BY <1>1, <1>5 DEF DeleteContestant, EnrolTyped, RowsKept, Ids
  <2> QED BY <1>2, <2>1
<1>6. CASE \E status \in {"draft", "active", "completed"} : SetStatus(status)
  <2>1. EnrolTyped' /\ RowsKept /\ created <= created'
      BY <1>1, <1>6 DEF SetStatus, EnrolTyped, RowsKept, Ids
  <2> QED BY <1>2, <2>1
<1>7. CASE DeleteCompetition
  <2>1. EnrolTyped' /\ RowsKept /\ created <= created'
      BY <1>1, <1>7 DEF DeleteCompetition, EnrolTyped, RowsKept, Ids
  <2> QED BY <1>2, <2>1
<1> QED BY <1>3, <1>4, <1>5, <1>6, <1>7 DEF Edit

LEMMA EnrolNextInv == EnrolInv /\ [EnrolNext]_enrolVars => EnrolInv'
<1> SUFFICES ASSUME EnrolInv, [EnrolNext]_enrolVars PROVE EnrolInv'
    OBVIOUS
<1>1. CASE UNCHANGED enrolVars
    BY <1>1 DEF enrolVars, EnrolInv, EnrolTyped, HeldRows, Belongs, IsEnrolled, Ids
<1>2. ASSUME NEW c \in Calls, Serve(c) PROVE EnrolInv'
    BY <1>2, ReadSteps, CreateStep, UpdateStep, AnswerSteps DEF Serve
<1> QED BY <1>1, <1>2, AgentSteps, EditSteps DEF EnrolNext

-----------------------------------------------------------------------------
(* A handler joins those about to insert only when a has no row, and each  *)
(* insert takes one of them away.                                          *)
LEMMA FiniteSides ==
    ASSUME EnrolTyped, NEW a
    PROVE  /\ IsFiniteSet(OwnRows(a)) /\ IsFiniteSet(Creating(a)) /\ IsFiniteSet(Calls)
           /\ Cardinality(OwnRows(a)) \in Nat /\ Cardinality(Creating(a)) \in Nat
           /\ Cardinality(Calls) \in Nat /\ Cardinality(Creating(a)) <= Cardinality(Calls)
<1>1. IsFiniteSet(1..created) /\ OwnRows(a) \subseteq 1..created
  <2>1. 1 \in Int /\ created \in Int /\ Ids \subseteq 1..created
      BY DEF EnrolTyped
  <2> QED BY <2>1, FS_Interval DEF OwnRows
<1>2. IsFiniteSet(Calls) /\ Creating(a) \subseteq Calls
    BY EnrollmentAssumption DEF Creating
<1> QED BY <1>1, <1>2, FS_Subset, FS_CardinalityType

LEMMA OncePerCall ==
    EnrolledOncePerCall <=>
        \A a \in Agents : Cardinality(OwnRows(a)) + Cardinality(Creating(a)) <= Cardinality(Calls)
BY DEF EnrolledOncePerCall, OwnRows, Creating

LEMMA FewerSides ==
    ASSUME EnrolTyped, EnrolledOncePerCall, NEW a \in Agents,
           OwnRows(a)' \subseteq OwnRows(a), Creating(a)' \subseteq Creating(a)
    PROVE  Cardinality(OwnRows(a)') + Cardinality(Creating(a)') <= Cardinality(Calls)
<1>1. Cardinality(OwnRows(a)') <= Cardinality(OwnRows(a)) /\ Cardinality(OwnRows(a)') \in Nat
    BY FiniteSides, FS_Subset, FS_CardinalityType
<1>2. Cardinality(Creating(a)') <= Cardinality(Creating(a)) /\ Cardinality(Creating(a)') \in Nat
    BY FiniteSides, FS_Subset, FS_CardinalityType
<1> QED BY <1>1, <1>2, FiniteSides, OncePerCall

LEMMA OncePerCallNext ==
    EnrolInv /\ EnrolledOncePerCall /\ [EnrolNext]_enrolVars => EnrolledOncePerCall'
<1> SUFFICES ASSUME EnrolInv, EnrolledOncePerCall, [EnrolNext]_enrolVars, NEW a \in Agents
             PROVE  Cardinality(OwnRows(a)') + Cardinality(Creating(a)') <= Cardinality(Calls)
    BY DEF EnrolledOncePerCall, OwnRows, Creating
<1>0. EnrolTyped /\ EnrolTyped'
    BY EnrolNextInv DEF EnrolInv
<1>1. ASSUME NEW c \in Calls, SelectContestant(c)
      PROVE  Cardinality(OwnRows(a)') + Cardinality(Creating(a)') <= Cardinality(Calls)
  <2>1. UNCHANGED rows /\ OwnRows(a)' = OwnRows(a)
      BY <1>1 DEF SelectContestant, OwnRows, Ids
  <2>2. CASE OwnRows(a) = {}
    <3>1. Cardinality(OwnRows(a)') = 0
        BY <2>1, <2>2, FS_EmptySet
    <3>2. Cardinality(Creating(a)') <= Cardinality(Calls) /\ Cardinality(Creating(a)') \in Nat
        BY <1>0, FiniteSides, EnrollmentAssumption, FS_Subset, FS_CardinalityType DEF Creating
    <3> QED BY <3>1, <3>2, FiniteSides, <1>0
  <2>3. CASE OwnRows(a) # {}
    <3>1. Identity(call[c].agent) = Identity(a) => call'[c].at # "create"
      <4>1. ContestantsOf(Identity(a)) # {}
          BY <2>3 DEF ContestantsOf, OwnRows
      <4>2. ASSUME NEW label, NEW id, label # "create", Goto(c, label, id)
            PROVE  call'[c].at # "create"
          BY <1>0, <4>2 DEF Goto, EnrolTyped
      <4> QED BY <1>1, <4>1, <4>2 DEF SelectContestant, WhenKnown
    <3>2. \A d \in Calls : call'[d].agent = call[d].agent /\ (d # c => call'[d] = call[d])
        BY <1>0, <1>1 DEF SelectContestant, Goto, EnrolTyped
    <3> QED BY <1>0, <2>1, <3>1, <3>2, FewerSides DEF Creating
  <2> QED BY <2>2, <2>3
<1>2. ASSUME NEW c \in Calls, CreateContestant(c), competition # "deleted",
             Identity(call[c].agent) = Identity(a)
      PROVE  Cardinality(OwnRows(a)') + Cardinality(Creating(a)') <= Cardinality(Calls)
  <2>1. created + 1 \notin Ids /\ created \in Nat
      BY <1>0 DEF EnrolTyped
  <2>2. OwnRows(a)' = OwnRows(a) \union {created + 1} /\ created + 1 \notin OwnRows(a)
      BY <1>2, <2>1 DEF CreateContestant, OwnRows, NewRow, Ids
  <2>3. Creating(a)' = Creating(a) \ {c} /\ c \in Creating(a)
      BY <1>0, <1>2 DEF CreateContestant, Creating, Goto, EnrolTyped
  <2>4. Cardinality(OwnRows(a)') = Cardinality(OwnRows(a)) + 1
      BY <1>0, <2>2, FiniteSides, FS_AddElement
  <2>5. Cardinality(Creating(a)') = Cardinality(Creating(a)) - 1
      BY <1>0, <2>3, FiniteSides, FS_RemoveElement
  <2> QED BY <1>0, <2>4, <2>5, FiniteSides, OncePerCall
<1> DEFINE Selects(c) == SelectContestant(c)
           Inserts(c) == CreateContestant(c) /\ competition # "deleted"
                           /\ Identity(call[c].agent) = Identity(a)
<1>3. ASSUME \A c \in Calls : ~Selects(c), \A c \in Calls : ~Inserts(c)
      PROVE  Cardinality(OwnRows(a)') + Cardinality(Creating(a)') <= Cardinality(Calls)
  <2>1. OwnRows(a)' \subseteq OwnRows(a)
    <3>1. ASSUME UNCHANGED rows PROVE OwnRows(a)' \subseteq OwnRows(a)
        BY <3>1 DEF OwnRows, Ids
    <3>2. ASSUME NEW c \in Calls, CreateContestant(c), competition # "deleted"
          PROVE  OwnRows(a)' \subseteq OwnRows(a)
      <4>1. Identity(call[c].agent) # Identity(a)
        <5>1. ~Inserts(c)
          <6> HIDE DEF Inserts
          <6> QED BY <1>3
        <5> QED BY <3>2, <5>1
      <4>2. rows' = [i \in Ids \union {created + 1} |->
                       IF i = created + 1 THEN NewRow(Identity(call[c].agent)) ELSE rows[i]]
          BY <3>2 DEF CreateContestant
      <4>3. NewRow(Identity(call[c].agent)).who = Identity(call[c].agent)
          BY DEF NewRow
      <4> QED BY <4>1, <4>2, <4>3 DEF OwnRows, Ids
    <3>3. ASSUME NEW c \in Calls, UpdateContestant(c) PROVE OwnRows(a)' \subseteq OwnRows(a)
        BY <1>0, <3>1, <3>3 DEF UpdateContestant, OwnRows, EnrolTyped, Row, Ids
    <3>4. ASSUME NEW who, AddContestant(who) PROVE OwnRows(a)' \subseteq OwnRows(a)
        BY <3>4 DEF AddContestant, OwnRows, NewRow, Ids
    <3>5. ASSUME NEW i, NEW who, RenameContestant(i, who) PROVE OwnRows(a)' \subseteq OwnRows(a)
        BY <1>0, <3>5 DEF RenameContestant, OwnRows, EnrolTyped, Row, Ids
    <3>6. ASSUME NEW i, DeleteContestant(i) PROVE OwnRows(a)' \subseteq OwnRows(a)
        BY <3>6 DEF DeleteContestant, OwnRows, Ids
    <3>7. CASE DeleteCompetition
        BY <3>7 DEF DeleteCompetition, OwnRows, Ids
    <3>8. CASE Edit
        BY <3>1, <3>4, <3>5, <3>6, <3>7, <3>8 DEF Edit, SetStatus
    <3>9. ASSUME NEW c \in Calls, Serve(c) PROVE OwnRows(a)' \subseteq OwnRows(a)
        BY <3>1, <3>2, <3>3, <3>9
        DEF Serve, ReadCompetition, SelectContestant, CreateContestant, RefreshContestant, Answer, Abandon
    <3> QED BY <3>1, <3>8, <3>9 DEF EnrolNext, StartAgent, GiveUp, StopAgent, enrolVars
  <2>2. Creating(a)' \subseteq Creating(a)
    <3>1. ASSUME UNCHANGED call PROVE Creating(a)' \subseteq Creating(a)
        BY <3>1 DEF Creating
    <3>2. ASSUME NEW c \in Calls, NEW label, NEW id, label # "create", Goto(c, label, id)
          PROVE  Creating(a)' \subseteq Creating(a)
        BY <1>0, <3>2 DEF Creating, Goto, EnrolTyped
    <3>3. ASSUME NEW c \in Calls, NEW new, new.at # "create", call' = [call EXCEPT ![c] = new]
          PROVE  Creating(a)' \subseteq Creating(a)
        BY <1>0, <3>3 DEF Creating, EnrolTyped
    <3>4. ASSUME NEW c \in Calls, Serve(c) PROVE Creating(a)' \subseteq Creating(a)
      <4>1. CASE ReadCompetition(c) \/ RefreshContestant(c)
          BY <3>2, <4>1 DEF ReadCompetition, RefreshContestant
      <4>2. CASE CreateContestant(c)
          BY <3>2, <4>2 DEF CreateContestant
      <4>3. CASE UpdateContestant(c)
          BY <3>2, <4>3 DEF UpdateContestant
      <4>4. CASE Answer(c) \/ Abandon(c)
        <5>1. Free.at # "create" /\ call' = [call EXCEPT ![c] = Free]
            BY <4>4 DEF Answer, Abandon, Free
        <5> QED BY <3>3, <5>1
      <4>5. ~SelectContestant(c)
        <5>1. ~Selects(c)
          <6> HIDE DEF Selects
          <6> QED BY <1>3
        <5> QED BY <5>1
      <4> QED BY <3>4, <4>1, <4>2, <4>3, <4>4, <4>5 DEF Serve
    <3>5. ASSUME NEW b \in Agents, NEW c \in Calls, StartAgent(b, c)
          PROVE  Creating(a)' \subseteq Creating(a)
        BY <3>3, <3>5 DEF StartAgent
    <3>6. CASE Edit
        BY <3>1, <3>6 DEF Edit, AddContestant, RenameContestant, DeleteContestant, SetStatus,
                          DeleteCompetition
    <3> QED BY <3>1, <3>4, <3>5, <3>6 DEF EnrolNext, GiveUp, StopAgent, enrolVars
  <2> QED BY <1>0, <2>1, <2>2, FewerSides
<1> QED BY <1>1, <1>2, <1>3

(***************************************************************************)
(* Enrolments that race past the look-up insert no more rows than there    *)
(* are calls, for any machines and calls (competition.py:204).             *)
(***************************************************************************)
THEOREM RowsAreOncePerCall == EnrolSpec => []EnrolledOncePerCall
<1>1. ASSUME EnrolInit PROVE EnrolledOncePerCall
  <2>1. \A a \in Agents : OwnRows(a) = {} /\ Creating(a) = {}
      BY <1>1 DEF EnrolInit, OwnRows, Creating, Ids, Free
  <2>2. Cardinality(Calls) \in Nat
      BY EnrollmentAssumption, FS_CardinalityType
  <2> QED BY <2>1, <2>2, OncePerCall, FS_EmptySet
<1> QED BY <1>1, EnrolInitInv, EnrolNextInv, OncePerCallNext, PTL DEF EnrolSpec

(***************************************************************************)
(* An agent reports as the contestant it is configured for, for any        *)
(* machines and calls, whatever is added, renamed and deleted meanwhile    *)
(* (competition.py:207-236).                                               *)
(***************************************************************************)
THEOREM AgentsEnrolAsThemselves == EnrolSpec => []EnrolledAsItself
<1>1. EnrolInv => EnrolledAsItself
    BY DEF EnrolInv, HeldRows, Belongs, IsEnrolled, EnrolledAsItself
<1> QED BY <1>1, EnrolInitInv, EnrolNextInv, PTL DEF EnrolSpec
=============================================================================
