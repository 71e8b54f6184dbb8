--------------------------- MODULE ScoringEngineMC ---------------------------
(***************************************************************************)
(* The scoring algorithm at work on one contestant: indicators are         *)
(* reported and reported again, a proctor closes them, and time passes.    *)
(* Each step is what the rest of the server does to the list of OPEN       *)
(* incidents that recalculate_score hands to calculate_score.              *)
(***************************************************************************)
EXTENDS ScoringEngine, Sequences

CONSTANTS
    ReportedTypes,   \* the indicator types reported
    MaxIndicators    \* bound on the indicators of one contestant

ASSUME HistoryAssumption ==
    ReportedTypes \subseteq DOMAIN IOA_WEIGHTS \union {"HELP_REQUEST"}

VARIABLES indicators   \* those in OPEN incidents, with their ages

All == DOMAIN indicators
Score == calculate_score(indicators, All)

(* A new incident: a duplicate row of a type is possible.                  *)
Report(t) ==
    /\ Len(indicators) < MaxIndicators
    /\ indicators' = Append(indicators, [type |-> t, age |-> 0])

(* An incident reported again is as good as new.                           *)
Refresh(i) == indicators' = [indicators EXCEPT ![i].age = 0]

(* A proctor reviews or dismisses an incident: it no longer counts.        *)
CloseIncident(i) ==
    indicators' = [j \in 1..(Len(indicators) - 1) |->
                     indicators[IF j < i THEN j ELSE j + 1]]

(* A minute passes; ages beyond the last band are not told apart.          *)
Pass ==
    indicators' = [i \in All |-> [indicators[i] EXCEPT !.age = IF @ <= DecayOld THEN @ + 1 ELSE @]]

HistoryInit == indicators = <<>>

HistoryNext ==
    \/ \E t \in ReportedTypes : Report(t)
    \/ \E i \in All : Refresh(i) \/ CloseIncident(i)
    \/ Pass

HistorySpec == HistoryInit /\ [][HistoryNext]_indicators

-----------------------------------------------------------------------------
(***************************************************************************)
(* News of cheating never makes a contestant look better: a new or         *)
(* refreshed incident does not lower the score (engine.py:199-253), the    *)
(* truncated doubles and the cap included.                                 *)
(***************************************************************************)
NewsNeverLowers ==
    [][(\E t \in ReportedTypes : Report(t)) \/ (\E i \in All : Refresh(i))
         => Score' >= Score]_indicators

(***************************************************************************)
(* "Old detections gradually lose influence, preventing permanent          *)
(* false-positive inflation" (docs/scoring-algorithm.md:27): neither the   *)
(* passing of time nor closing an incident raises the score.               *)
(***************************************************************************)
RestNeverRaises ==
    [][Pass \/ (\E i \in All : CloseIncident(i)) => Score' <= Score]_indicators
=============================================================================
