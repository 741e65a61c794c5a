----------------------------- MODULE RiskLedger -----------------------------
(***************************************************************************)
(* The risk ledger (quant_finance/risk_ledger.py): what the engine records *)
(* in memory, the append-only file of events, and the checkpoint that the  *)
(* pre-flight gate (preflight_gate.py) judges.  The process may die        *)
(* between any two accesses to a file, and starts again with a new ledger. *)
(* Drawdowns are percentages, rounded down.                                *)
(***************************************************************************)
EXTENDS Integers

CONSTANTS LedgerEquities, LedgerStart,
          CheckEvery,      \* events between checkpoints (50)
          MaxEvents,       \* bounds of the model
          MaxRuns,
          NoCheckpoint, TornCheckpoint

\* What _checkpoint dumps.
CheckpointFile == [equity : Nat, maxDD : Int, trades : Nat, count : Nat]

ASSUME LedgerAssumption ==
  /\ LedgerEquities \subseteq Nat \ {0} /\ LedgerStart \in LedgerEquities
  /\ CheckEvery \in Nat \ {0} /\ MaxEvents \in Nat /\ MaxRuns \in Nat
  /\ NoCheckpoint \notin CheckpointFile /\ TornCheckpoint \notin CheckpointFile

VARIABLES curEq, peakEq, maxDD,
          dayEq, dailyDD,     \* of the day
          newDay,             \* the date is not that of the last event
          trades, consecErrors, eventCount,
          ledgerPc,           \* run, or how far _write has come
          checkpoint,         \* the file
          run, checkpointRun  \* history: which process this is, and wrote it

dayVars == <<dayEq, dailyDD, newDay>>
riskVars == <<curEq, peakEq, maxDD, dayVars, trades, consecErrors>>
fileVars == <<checkpoint, checkpointRun>>
ledgerVars == <<riskVars, eventCount, ledgerPc, fileVars, run>>

Bigger(a, b) == IF a >= b THEN a ELSE b
Drawdown(from, to) == ((from - to) * 100) \div from

LedgerInit ==
  /\ curEq = LedgerStart /\ peakEq = LedgerStart /\ maxDD = 0
  /\ dayEq = LedgerStart /\ dailyDD = 0 /\ newDay = TRUE
  /\ trades = 0 /\ consecErrors = 0 /\ eventCount = 0
  /\ ledgerPc = "run"
  /\ checkpoint = NoCheckpoint /\ run = 1 /\ checkpointRun = 0

\* _write: the line is appended, and every CheckEvery events are followed by
\* a checkpoint.
DueLate == eventCount' % (CheckEvery + 1) = 0
Due == eventCount' % CheckEvery = 0
Write ==
  /\ ledgerPc = "run" /\ eventCount < MaxEvents
  /\ eventCount' = eventCount + 1
  /\ ledgerPc' = IF Due THEN "truncate" ELSE "run"
  /\ UNCHANGED <<fileVars, run>>

\* _daily_check.
DailyCheck == /\ newDay' = FALSE
              /\ dayEq' = IF newDay THEN curEq ELSE dayEq

RecordFill ==
  /\ Write /\ DailyCheck
  /\ trades' = trades + 1
  /\ dailyDD' = IF newDay THEN 0 ELSE dailyDD
  /\ UNCHANGED <<curEq, peakEq, maxDD, consecErrors>>

RecordEquity(e) ==
  /\ Write /\ DailyCheck
  /\ curEq' = e
  /\ peakEq' = Bigger(peakEq, e)
  /\ maxDD' = Bigger(maxDD, Drawdown(peakEq', e))
  /\ dailyDD' = Drawdown(dayEq', e)
  /\ UNCHANGED <<trades, consecErrors>>

RecordError ==
  /\ Write
  /\ consecErrors' = consecErrors + 1
  /\ UNCHANGED <<curEq, peakEq, maxDD, dayVars, trades>>

ClearErrors ==
  /\ ledgerPc = "run"
  /\ consecErrors' = 0
  /\ UNCHANGED <<curEq, peakEq, maxDD, dayVars, trades, eventCount, ledgerPc, fileVars, run>>

RecordCircuitTrip == Write /\ UNCHANGED riskVars

\* _checkpoint opens the file, which empties it, and fills it.
TruncateCheckpoint ==
  /\ ledgerPc = "truncate" /\ ledgerPc' = "dump"
  /\ checkpoint' = TornCheckpoint /\ checkpointRun' = run
  /\ UNCHANGED <<riskVars, eventCount, run>>

DumpCheckpoint ==
  /\ ledgerPc = "dump" /\ ledgerPc' = "run"
  /\ checkpoint' = [equity |-> curEq, maxDD |-> maxDD, trades |-> trades, count |-> eventCount]
  /\ UNCHANGED <<riskVars, eventCount, checkpointRun, run>>

\* The engine ends, in whatever way, and is started again.
RestartEngine ==
  /\ run < MaxRuns /\ run' = run + 1
  /\ curEq' = LedgerStart /\ peakEq' = LedgerStart /\ maxDD' = 0
  /\ dayEq' = LedgerStart /\ dailyDD' = 0 /\ newDay' = TRUE
  /\ trades' = 0 /\ consecErrors' = 0 /\ eventCount' = 0
  /\ ledgerPc' = "run"
  /\ UNCHANGED fileVars

Midnight ==
  /\ newDay' = TRUE
  /\ UNCHANGED <<curEq, peakEq, maxDD, dayEq, dailyDD, trades, consecErrors,
                 eventCount, ledgerPc, fileVars, run>>

LedgerNext ==
  \/ RecordFill \/ RecordError \/ ClearErrors \/ RecordCircuitTrip
  \/ \E e \in LedgerEquities : RecordEquity(e)
  \/ TruncateCheckpoint \/ DumpCheckpoint
  \/ RestartEngine \/ Midnight

LedgerSpec == LedgerInit /\ [][LedgerNext]_ledgerVars

-----------------------------------------------------------------------------
(* Properties.                                                             *)

\* Between two writes, the checkpoint is less than CheckEvery events behind
\* the ledger of this process, and it says no more than the ledger: neither
\* a deeper drawdown nor more trades ("Checkpoints ... every 50 events",
\* risk_ledger.py:7).
CheckpointBehind ==
  ledgerPc = "run" =>
    /\ eventCount >= CheckEvery => checkpointRun = run
    /\ checkpointRun = run =>
         /\ checkpoint \notin {NoCheckpoint, TornCheckpoint}
         /\ checkpoint.count \in (eventCount + 1 - CheckEvery)..eventCount
         /\ checkpoint.maxDD <= maxDD /\ checkpoint.trades <= trades
=============================================================================
