---------------------------- MODULE SwapSimulator ----------------------------
(***************************************************************************)
(* Model swaps in the drift simulation: the loop of                        *)
(* HistoricalDriftSimulator.run (quant_finance/ingress_sim.py) with its    *)
(* static controller, or the volatility-scaled cooldown (hysteresis.py),   *)
(* and the calibrator that follows the active model (calibration.py).      *)
(* Trades and their costs do not act on the swaps and are left out.        *)
(***************************************************************************)
EXTENDS Integers, Sequences, SequencesExt

CONSTANTS CheckWindow,               \* window_size
          LookBack,                  \* ticks without features (20)
          MinCooldown, MaxCooldown,  \* of the dynamic cooldown
          MaxTick                    \* bound of the model

ASSUME SimulatorAssumption ==
  /\ CheckWindow \in Nat \ {0} /\ LookBack \in Nat
  /\ MinCooldown \in Nat /\ MaxCooldown \in Nat /\ MinCooldown <= MaxCooldown
  /\ MaxTick \in Nat

ModelVersions == {"baseline", "candidate"}

\* Where probabilities come from: the active model; a calibrator of the
\* baseline; one that follows the swaps; one of these whose candidate was
\* never calibrated, so that it falls back to the baseline.
Calibrators == {"none", "baseline", "active", "fallback"}

VARIABLES cooldownMode,   \* chosen once: "static" or "dynamic"
          calibrator,     \* chosen once
          tickIdx,        \* the next row
          activeVersion,
          ticksSinceSwap, \* of the static controller
          lastSwapTick,   \* of the dynamic one
          notified,       \* the calibrator's own record of the active model
          probWindow,     \* which model made the last CheckWindow probabilities
          reference,      \* and the PSI reference, <<>> if None
          compared        \* history: whose probabilities the last PSI compared

simVars == <<cooldownMode, calibrator, tickIdx, activeVersion, ticksSinceSwap,
             lastSwapTick, notified, probWindow, reference, compared>>

SimInit ==
  /\ cooldownMode \in {"static", "dynamic"} /\ calibrator \in Calibrators
  /\ tickIdx = 0 /\ activeVersion = "baseline" /\ notified = "baseline"
  /\ ticksSinceSwap = 0 /\ lastSwapTick = -MaxCooldown
  /\ probWindow = <<>> /\ reference = <<>>
  /\ compared = {}

\* The model behind the next probability.
Producer == CASE calibrator = "none" -> activeVersion
              [] calibrator = "active" -> notified
              [] OTHER -> "baseline"

NewestOf(s) == IF Len(s) > CheckWindow THEN Tail(s) ELSE s

\* SwapHysteresisController(cooldown_ticks=window_size // 2).
StaticCooldown == CheckWindow \div 2

\* The volatility decides which cooldown within its bounds applies.
SwapAllowed(ticks) ==
  IF cooldownMode = "static" THEN ticks >= StaticCooldown
  ELSE \E c \in MinCooldown..MaxCooldown : tickIdx - lastSwapTick >= c
SwapLocked(ticks) ==
  IF cooldownMode = "static" THEN ticks < StaticCooldown
  ELSE \E c \in MinCooldown..MaxCooldown : tickIdx - lastSwapTick < c

\* _do_swap.
SwapKeepingReference(v) ==
  /\ activeVersion' = v
  /\ IF cooldownMode = "static" THEN ticksSinceSwap' = 0 /\ UNCHANGED lastSwapTick
                                ELSE lastSwapTick' = tickIdx /\ UNCHANGED ticksSinceSwap
  /\ notified' = IF calibrator \in {"active", "fallback"} THEN v ELSE notified
  /\ UNCHANGED reference
DoSwap(v) ==
  /\ activeVersion' = v
  /\ IF cooldownMode = "static" THEN ticksSinceSwap' = 0 /\ UNCHANGED lastSwapTick
                                ELSE lastSwapTick' = tickIdx /\ UNCHANGED ticksSinceSwap
  /\ notified' = IF calibrator \in {"active", "fallback"} THEN v ELSE notified
  /\ reference' = <<>>

KeepModel(ticks, ref) == /\ ticksSinceSwap' = ticks
                         /\ reference' = ref
                         /\ UNCHANGED <<activeVersion, lastSwapTick, notified>>

\* The first check after a swap stores its window as the reference, so that
\* the PSI is zero.  The PSI is low (the candidate may go), high (drift), or
\* between, where reverting depends on the volatility.
Psis == IF reference = <<>> THEN {"low"} ELSE {"low", "between", "high"}
MayRevert(psi) == activeVersion = "candidate" /\ psi \in {"low", "between"}
MayStay(psi) == activeVersion = "candidate" => psi \in {"between", "high"}

DriftChecked(ticks, window) ==
  LET ref == IF reference = <<>> THEN window ELSE reference IN
  \E psi \in Psis, aucDrift \in BOOLEAN :
    LET drift == psi = "high" \/ aucDrift
        goes == drift /\ SwapAllowed(ticks)
        stays == ~drift \/ SwapLocked(ticks)
    IN /\ compared' = ToSet(ref) \cup ToSet(window)
       /\ \/ goes /\ DoSwap("candidate")
          \/ stays /\ MayRevert(psi) /\ DoSwap("baseline")
          \/ stays /\ MayStay(psi) /\ KeepModel(ticks, ref)

\* One row of the file.
SimTick ==
  /\ tickIdx < MaxTick
  /\ tickIdx' = tickIdx + 1
  /\ UNCHANGED <<cooldownMode, calibrator>>
  /\ IF tickIdx < LookBack
     THEN UNCHANGED <<activeVersion, ticksSinceSwap, lastSwapTick, notified, probWindow,
                      reference, compared>>
     ELSE LET window == NewestOf(Append(probWindow, Producer))
              ticks == IF cooldownMode = "static" THEN ticksSinceSwap + 1 ELSE ticksSinceSwap
          IN /\ probWindow' = window
             /\ IF Len(window) = CheckWindow /\ tickIdx % CheckWindow = 0
                THEN DriftChecked(ticks, window)
                ELSE KeepModel(ticks, reference) /\ UNCHANGED compared

SimNext == SimTick

SimSpec == SimInit /\ [][SimNext]_simVars

-----------------------------------------------------------------------------
(* Properties.                                                             *)

\* Every PSI compares probabilities of one and the same model, whatever was
\* swapped in between ("PSI measures within-model distributional drift",
\* ingress_sim.py:302).
PsiComparesOneModel == \A v, w \in compared : v = w
=============================================================================
