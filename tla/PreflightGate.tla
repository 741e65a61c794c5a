---------------------------- MODULE PreflightGate ----------------------------
(***************************************************************************)
(* What the pre-flight gate (quant_finance/preflight_gate.py) concludes    *)
(* from the files that paper sessions leave behind.  A session is the      *)
(* execution part of run_engine (live_engine.py:203-262) as far as the     *)
(* circuit breaker and the risk ledger see it: each outcome of an order is *)
(* told to both, and a signal that a tripped breaker refuses is a trip in  *)
(* the ledger.  The ledger's file is append-only over all sessions; the    *)
(* checkpoint is the last one's.                                           *)
(*                                                                         *)
(* Of the ten gates, G6 and G8 are left out: the first fill's place in the *)
(* file, and the latency log.                                              *)
(***************************************************************************)
EXTENDS RiskLedger

CONSTANTS ErrorLimit, DrawdownLimit,   \* of the breaker (3, and 2 percent)
          MaxSessionDay, NoTrip

VARIABLES sessionPc,                   \* signal, account or clear
          bTripped, bErrors, bDaily, bEquity, bResetDay, date,
          worstErrors, firstTrip       \* history: what the file of events says

Breaker == INSTANCE CircuitBreaker WITH
  MaxErrors <- ErrorLimit, DDLimit <- DrawdownLimit, StartingEquity <- LedgerStart,
  None <- NoTrip, ready <- TRUE, openSide <- NoTrip, tripped <- bTripped,
  errors <- bErrors, daily <- bDaily, equity <- bEquity, resetDay <- bResetDay, day <- date

breakerVars == <<bTripped, bErrors, bDaily, bEquity, bResetDay>>
logVars == <<worstErrors, firstTrip>>
gateVars == <<ledgerVars, sessionPc, breakerVars, date, logVars>>

\* firstTrip is where each run's first trip stands among its events, 0 if none.
GateInit ==
  /\ LedgerInit /\ sessionPc = "signal" /\ date = 1
  /\ bTripped = NoTrip /\ bErrors = 0
  /\ bDaily = LedgerStart /\ bEquity = LedgerStart /\ bResetDay = 0
  /\ worstErrors = 0 /\ firstTrip = [r \in 1..MaxRuns |-> 0]

-----------------------------------------------------------------------------
(* A session.                                                              *)

\* An order goes through, unless the breaker refuses it.
OrderFilled ==
  /\ sessionPc = "signal" /\ sessionPc' = "account"
  /\ bTripped = NoTrip
  /\ RecordFill
  /\ UNCHANGED <<breakerVars, date, logVars>>

\* ... or is blocked by an open position, which counts as a success too.
OrderBlocked ==
  /\ sessionPc = "signal" /\ sessionPc' = "clear"
  /\ bTripped = NoTrip /\ ledgerPc = "run"
  /\ UNCHANGED <<ledgerVars, breakerVars, date, logVars>>

\* The account is told to the ledger, then to the breaker.
AccountKnown(e) ==
  /\ sessionPc = "account" /\ sessionPc' = "clear"
  /\ RecordEquity(e)
  /\ Breaker!UpdateEquity(e)
  /\ UNCHANGED <<bErrors, date, logVars>>

LogError ==
  /\ RecordError
  /\ worstErrors' = Bigger(worstErrors, consecErrors')
  /\ Breaker!TripOnError /\ bErrors' = bErrors + 1
  /\ UNCHANGED <<bDaily, bEquity, bResetDay, date, firstTrip>>

AccountUnknown == sessionPc = "account" /\ sessionPc' = "clear" /\ LogError

OrderFailed ==
  /\ sessionPc = "signal" /\ sessionPc' = "signal"
  /\ bTripped = NoTrip
  /\ LogError

ErrorsCleared ==
  /\ sessionPc = "clear" /\ sessionPc' = "signal"
  /\ ClearErrors /\ bErrors' = 0
  /\ UNCHANGED <<bTripped, bDaily, bEquity, bResetDay, date, logVars>>

\* approve() says TRIPPED.
SignalRefused ==
  /\ sessionPc = "signal" /\ bTripped # NoTrip
  /\ RecordCircuitTrip
  /\ firstTrip' = IF firstTrip[run] = 0 THEN [firstTrip EXCEPT ![run] = eventCount']
                  ELSE firstTrip
  /\ UNCHANGED <<sessionPc, breakerVars, date, worstErrors>>

WriteCheckpoint ==
  /\ TruncateCheckpoint \/ DumpCheckpoint
  /\ UNCHANGED <<sessionPc, breakerVars, date, logVars>>

NextSession ==
  /\ RestartEngine /\ sessionPc' = "signal"
  /\ bTripped' = NoTrip /\ bErrors' = 0
  /\ bDaily' = LedgerStart /\ bEquity' = LedgerStart /\ bResetDay' = 0
  /\ UNCHANGED <<date, logVars>>

NextDay ==
  /\ date < MaxSessionDay /\ date' = date + 1
  /\ Midnight
  /\ UNCHANGED <<sessionPc, breakerVars, logVars>>

GateNext ==
  \/ OrderFilled \/ OrderBlocked \/ AccountUnknown \/ OrderFailed \/ ErrorsCleared
  \/ \E e \in LedgerEquities : AccountKnown(e)
  \/ SignalRefused \/ WriteCheckpoint \/ NextSession \/ NextDay

GateSpec == GateInit /\ [][GateNext]_gateVars

-----------------------------------------------------------------------------
(* run_preflight_gate, at any moment; on a torn checkpoint it raises.      *)

Populated == checkpoint \notin {NoCheckpoint, TornCheckpoint}

Pass(gate) ==
  CASE gate = "G1" -> worstErrors < 3
    [] gate \in {"G2", "G10"} -> FALSE   \* "?": nothing writes what they read
    [] gate = "G3" -> \E r \in 1..MaxRuns : firstTrip[r] # 0
    [] gate = "G4" -> Populated /\ checkpoint.equity > LedgerStart
    [] gate = "G5" -> Populated /\ checkpoint.maxDD < 2
    [] gate = "G7" -> Populated
    [] gate = "G9" -> TRUE   \* a blocked order is never recorded

-----------------------------------------------------------------------------
(* Property.                                                               *)

\* A session that ends with few errors, a trip and a small drawdown does not
\* exist: without three errors in a row only a drawdown of two percent trips
\* the breaker.  So when G1, G3 and G5 pass together, the checkpoint is about
\* something else than the trip that G3 counts: another session, or a time
\* before the trip.  A checkpoint that covers a trip always fails the gate.
EvidenceIsStale ==
  Pass("G1") /\ Pass("G3") /\ Pass("G5") =>
    \A r \in 1..MaxRuns :
      firstTrip[r] # 0 => checkpointRun # r \/ checkpoint.count < firstTrip[r]
=============================================================================
