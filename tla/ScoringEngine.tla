---------------------------- MODULE ScoringEngine ----------------------------
(***************************************************************************)
(* The IoA scoring algorithm of server/app/scoring/engine.py, as           *)
(* operators.  An indicator is a record with a type and an age: the        *)
(* minutes since detected_at, rounded up.  The decay thresholds are whole  *)
(* minutes and compared with <=, so the fraction does not matter.  They    *)
(* and the level thresholds are settings (core/config.py, overridable from *)
(* the environment), hence CONSTANTS.                                      *)
(***************************************************************************)
EXTENDS Naturals, Integers, FiniteSets, FiniteSetsExt

CONSTANTS
    DecayRecent, DecayMedium, DecayOld,  \* SCORE_DECAY_*_MINUTES (1, 2, 3)
    ThresholdGreen, ThresholdYellow      \* SCORE_THRESHOLD_*     (30, 70)

ASSUME ScoringAssumption ==
    /\ DecayRecent \in Nat /\ DecayMedium \in Nat /\ DecayOld \in Nat
    /\ ThresholdGreen \in Nat /\ ThresholdYellow \in Nat

(***************************************************************************)
(* The weight table.  A type that is not a key (HELP_REQUEST,              *)
(* SCREEN_LOCK_ISSUED, DISCONNECT_ISSUED) has weight 0 and never scores.   *)
(***************************************************************************)
IOA_WEIGHTS ==
    [ AI_EDITOR |-> 80, LOCAL_LLM |-> 90, AI_AGENT |-> 85,
      NETWORK_AI_CRITICAL |-> 90, NETWORK_AI_HIGH |-> 85,
      GPU_SPIKE |-> 50, VRAM_SPIKE |-> 60, MODEL_FILE |-> 70,
      AI_EXTENSION |-> 65, PROXY_VPN |-> 40, HEARTBEAT_TIMEOUT |-> 95,
      INTENTIONAL_DISCONNECT |-> 95, EBPF_EXEC_AI |-> 85,
      BINARY_TAMPER |-> 100, MEMORY_MODEL_LOADED |-> 95,
      EBPF_FILE_MODEL_ACCESS |-> 75 ]

get_weight(ioa_type) ==
    IF ioa_type \in DOMAIN IOA_WEIGHTS THEN IOA_WEIGHTS[ioa_type] ELSE 0

(***************************************************************************)
(* Decay factors in tenths: 1.0, 0.7, 0.4 and the residual 0.1.            *)
(***************************************************************************)
DecaySwapped(age) ==                 \* seeded fault: two bands change places
    IF age <= DecayRecent THEN 10
    ELSE IF age <= DecayMedium THEN 4
    ELSE IF age <= DecayOld THEN 7 ELSE 1

calculate_decay(age) ==
    IF age <= DecayRecent THEN 10
    ELSE IF age <= DecayMedium THEN 7
    ELSE IF age <= DecayOld THEN 4 ELSE 1

(* The exact raw score, in tenths, of the indicators ind[i], i \in S.      *)
RawTenths(ind, S) ==
    LET Weighted(i) == get_weight(ind[i].type) * calculate_decay(ind[i].age)
    IN  MapThenSumSet(Weighted, S)

MeanOfRaw(ind, S) ==                 \* seeded fault: averaged over the indicators
    IF S = {} THEN 0 ELSE RawTenths(ind, S) \div (10 * Cardinality(S))

(***************************************************************************)
(* int(raw_score): the sum is accumulated in IEEE doubles and truncated.   *)
(* Every weight of the table times every decay factor, and every sum of    *)
(* such products below 100, truncates like the exact sum, except one:      *)
(* 90 * 0.7 is the double 62.99999999999999, so a single 90-weight         *)
(* indicator in the 0.7 band gives 62.                                     *)
(***************************************************************************)
IntOfRaw(ind, S) ==
    LET Scoring == {i \in S : get_weight(ind[i].type) > 0}
    IN  IF Cardinality(Scoring) = 1 /\ RawTenths(ind, S) = 630
        THEN 62
        ELSE RawTenths(ind, S) \div 10

Capped(raw) == IF raw > 100 THEN 100 ELSE raw

(* calculate_score: the score of the indicators ind[i], i \in S.           *)
calculate_score(ind, S) == Capped(IntOfRaw(ind, S))

score_to_level(score) ==
    IF score < ThresholdGreen THEN "GREEN"
    ELSE IF score < ThresholdYellow THEN "YELLOW"
    ELSE "RED"
=============================================================================
