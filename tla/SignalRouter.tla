----------------------------- MODULE SignalRouter -----------------------------
(***************************************************************************)
(* The drift monitor of the signal router (MuseRouter of                   *)
(* quant_finance/muse_router.py).  Each routed tick enters the window; a   *)
(* full window is the reference, or is compared with it (PSI) and within   *)
(* itself (adversarial AUC).  A detected drift drops the reference and may *)
(* start a retraining in the executor.                                     *)
(*                                                                         *)
(* A tick is the market regime it comes from.  The two statistics are of   *)
(* finite samples: they may miss a difference between the mixtures of      *)
(* regimes, and may see one where there is none (a false alarm).  The      *)
(* calibrator is not told of a drift, although the class says so (line 48).*)
(***************************************************************************)
EXTENDS Integers, Sequences, FiniteSets

CONSTANTS MarketRegimes,
          PsiWindow,      \* ticks between two checks (200)
          MaxShifts,      \* bounds of the model
          MaxFalseAlarms,
          NoWindow

ASSUME RouterAssumption ==
  /\ PsiWindow \in Nat \ {0, 1} /\ MaxShifts \in Nat /\ MaxFalseAlarms \in Nat
  /\ NoWindow \notin Seq(MarketRegimes)

VARIABLES hasRetrain,        \* retrain_fn was given; the engine gives none
          market,            \* the regime of the next tick
          window,            \* the ticks routed since the last check
          refWindow,         \* _ref_probs
          driftCount, retrainActive,
          shifts,            \* history: changes of regime
          falseAlarms        \* history: drifts seen where there is no difference

history == <<shifts, falseAlarms>>
routerVars == <<hasRetrain, market, window, refWindow, driftCount, retrainActive, history>>

RouterInit ==
  /\ hasRetrain \in BOOLEAN
  /\ market \in MarketRegimes
  /\ window = <<>> /\ refWindow = NoWindow
  /\ driftCount = 0 /\ retrainActive = FALSE
  /\ shifts = 0 /\ falseAlarms = 0

Shift ==
  /\ shifts < MaxShifts /\ shifts' = shifts + 1
  /\ \E m \in MarketRegimes \ {market} : market' = m
  /\ UNCHANGED <<hasRetrain, window, refWindow, driftCount, retrainActive, falseAlarms>>

\* Each regime has the same share of the one as of the other.
Count(ticks, m) == Cardinality({i \in DOMAIN ticks : ticks[i] = m})
SameMixture(left, right) ==
  \A m \in MarketRegimes : Count(left, m) * Len(right) = Count(right, m) * Len(left)

Half == PsiWindow \div 2

\* The mixtures that PSI compares, or those that the AUC compares (of the halves;
\* the second is one longer if the window is odd), are different.
Differ(ticks) ==
  \/ ~SameMixture(refWindow, ticks)
  \/ ~SameMixture(SubSeq(ticks, 1, Half), SubSeq(ticks, Half + 1, PsiWindow))

\* route() appends the tick; the model calls and the order are the engine's.
Route ==
  /\ Len(window) + 1 < PsiWindow
  /\ window' = Append(window, market)
  /\ UNCHANGED <<hasRetrain, market, refWindow, driftCount, retrainActive, history>>

\* The tick fills the window: _drift_check.
StoreReference ==
  /\ Len(window) + 1 = PsiWindow /\ refWindow = NoWindow
  /\ refWindow' = Append(window, market) /\ window' = <<>>
  /\ UNCHANGED <<hasRetrain, market, driftCount, retrainActive, history>>

Compared == Len(window) + 1 = PsiWindow /\ refWindow # NoWindow

SeeNoDrift ==
  /\ Compared
  /\ window' = <<>>
  /\ UNCHANGED <<hasRetrain, market, refWindow, driftCount, retrainActive, history>>

\* PSI or AUC reaches its threshold.
CountAlarm ==
  IF Differ(Append(window, market)) THEN UNCHANGED falseAlarms
  ELSE falseAlarms < MaxFalseAlarms /\ falseAlarms' = falseAlarms + 1

SeeDriftKeepingReference ==
  /\ Compared
  /\ driftCount' = driftCount + 1
  /\ retrainActive' = (retrainActive \/ hasRetrain)
  /\ window' = <<>>
  /\ CountAlarm
  /\ UNCHANGED <<hasRetrain, market, refWindow, shifts>>
SeeDrift ==
  /\ Compared
  /\ driftCount' = driftCount + 1
  /\ refWindow' = NoWindow
  /\ retrainActive' = (retrainActive \/ hasRetrain)
  /\ window' = <<>>
  /\ CountAlarm
  /\ UNCHANGED <<hasRetrain, market, shifts>>

\* _bg_retrain returns or raises, in the executor's thread.
BgRetrain ==
  /\ retrainActive /\ retrainActive' = FALSE
  /\ UNCHANGED <<hasRetrain, market, window, refWindow, driftCount, history>>

RouterNext == Shift \/ Route \/ StoreReference \/ SeeNoDrift \/ SeeDrift \/ BgRetrain

RouterSpec == RouterInit /\ [][RouterNext]_routerVars

-----------------------------------------------------------------------------
(* Property.                                                               *)

\* Apart from the false alarms of its statistics, every drift reported is news:
\* there are never more of them than changes of regime, although a change may
\* fall anywhere in a window, makes the next windows differ from the reference
\* as well, and both statistics may see it.  After a drift, true or false, the
\* reference is a window that lies behind the change ("first-window reference
\* (reset after each swap)", muse_router.py:128).
EachShiftReportedOnce == driftCount <= shifts + falseAlarms
=============================================================================
