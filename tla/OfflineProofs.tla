---------------------------- MODULE OfflineProofs ----------------------------
(***************************************************************************)
(* Proofs about what runs beside and after the live engine: RiskLedger,    *)
(* how far the checkpoint may lag behind; PreflightGate, what it can       *)
(* conclude from that checkpoint; SwapSimulator, which model's             *)
(* probabilities a drift check compares and when it may swap; DataSplits,  *)
(* that no fold is judged on what it was fitted on.                        *)
(***************************************************************************)
EXTENDS PreflightGate, SwapSimulator, DataSplits, FiniteSetTheorems, WellFoundedInduction, TLAPS

-----------------------------------------------------------------------------
(* Arithmetic: the next multiple is one divisor further on.                *)

LEMMA Division ==
  ASSUME NEW c \in Nat \ {0}, NEW n \in Nat
  PROVE  n = c * (n \div c) + (n % c) /\ n % c \in 0..(c - 1) /\ n \div c \in Int
OBVIOUS

LEMMA SmallMultiple ==
  ASSUME NEW c \in Nat \ {0}, NEW k \in Int, 0 <= c * k, c * k < c
  PROVE  k = 0
<1>1. CASE k >= 1
  <2>1. c * k >= c * 1
    BY <1>1
  <2> QED BY <2>1
<1>2. CASE k <= -1
  <2>1. c * k <= c * (-1)
    BY <1>2
  <2> QED BY <2>1
<1> QED BY <1>1, <1>2

LEMMA NextMultiple ==
  ASSUME NEW c \in Nat \ {0}, NEW n \in Nat, n % c = 0
  PROVE  (n + c) % c = 0
<1> DEFINE q == n \div c
           d == (n + c) \div c
<1>1. n + c \in Nat /\ q \in Int /\ d \in Int
  BY Division
<1>2. n = c * q
  BY Division
<1>3. n + c = c * d + ((n + c) % c) /\ (n + c) % c \in 0..(c - 1)
  BY <1>1, Division
<1> HIDE DEF q, d
<1>4. c * (q + 1 - d) = c * q + c - c * d
  BY <1>1
<1>5. c * (q + 1 - d) = (n + c) % c
  BY <1>1, <1>2, <1>3, <1>4
<1>6. q + 1 - d = 0
  BY <1>1, <1>3, <1>5, SmallMultiple
<1> QED BY <1>5, <1>6

-----------------------------------------------------------------------------
(* The invariant.                                                          *)

LedgerTypeOK ==
  /\ curEq \in Nat /\ peakEq \in Nat /\ maxDD \in Int /\ trades \in Nat
  /\ eventCount \in Nat /\ run \in Nat /\ checkpointRun \in Nat
  /\ ledgerPc \in {"run", "truncate", "dump"}
  /\ checkpoint \in CheckpointFile \cup {NoCheckpoint, TornCheckpoint}

\* A checkpoint comes from this process or an earlier one; it is written when
\* CheckEvery divides the number of events.
CheckpointWhenDue ==
  /\ checkpointRun <= run
  /\ ledgerPc # "run" => eventCount % CheckEvery = 0
  /\ ledgerPc = "dump" => checkpointRun = run

\* Between two writes: no checkpoint of this process and few events, or a
\* checkpoint of the last multiple of CheckEvery.
LastMultiple ==
  ledgerPc = "run" =>
    /\ checkpointRun # run => eventCount < CheckEvery
    /\ checkpointRun = run =>
         /\ checkpoint \in CheckpointFile
         /\ checkpoint.count % CheckEvery = 0
         /\ checkpoint.count <= eventCount /\ eventCount < checkpoint.count + CheckEvery
         /\ checkpoint.maxDD <= maxDD /\ checkpoint.trades <= trades

LedgerInv == LedgerTypeOK /\ CheckpointWhenDue /\ LastMultiple

-----------------------------------------------------------------------------
LEMMA LedgerInitInv == LedgerInit => LedgerInv
BY LedgerAssumption DEF LedgerInit, LedgerInv, LedgerTypeOK, CheckpointWhenDue, LastMultiple

\* An event: counters do not go back, and the next one is due in time.
LEMMA EventStep ==
  ASSUME LedgerInv, Write, maxDD' \in Int, maxDD' >= maxDD, trades' \in Nat, trades' >= trades,
         curEq' \in Nat, peakEq' \in Nat
  PROVE  LedgerInv'
<1> USE DEF LedgerInv, LedgerTypeOK
<1>1. /\ ledgerPc = "run" /\ eventCount' = eventCount + 1
      /\ ledgerPc' = IF eventCount' % CheckEvery = 0 THEN "truncate" ELSE "run"
      /\ UNCHANGED <<checkpoint, checkpointRun, run>>
  BY DEF Write, Due, fileVars
<1>2. LedgerTypeOK' /\ CheckpointWhenDue'
  BY <1>1 DEF CheckpointWhenDue
<1>3. CASE eventCount' % CheckEvery # 0
  <2>1. CASE checkpointRun # run
    <3>1. 0 % CheckEvery = 0
      BY LedgerAssumption
    <3>2. eventCount' # CheckEvery
      BY <1>3, <3>1, NextMultiple, LedgerAssumption
    <3>3. eventCount < CheckEvery /\ CheckEvery \in Nat
      BY <1>1, <2>1, LedgerAssumption DEF LastMultiple
    <3>4. eventCount' < CheckEvery
      BY <1>1, <3>2, <3>3
    <3> QED BY <1>1, <1>2, <2>1, <3>4 DEF LastMultiple
  <2>2. CASE checkpointRun = run
    <3> DEFINE n == checkpoint.count
    <3>1. n \in Nat /\ n % CheckEvery = 0 /\ n <= eventCount /\ eventCount < n + CheckEvery
      BY <1>1, <2>2 DEF LastMultiple, CheckpointFile
    <3>2. eventCount' # n + CheckEvery
      BY <1>3, <3>1, NextMultiple, LedgerAssumption
    <3>3. CheckEvery \in Nat
      BY LedgerAssumption
    <3>4. n <= eventCount' /\ eventCount' < n + CheckEvery
      BY <1>1, <3>1, <3>2, <3>3
    <3>5. /\ checkpoint \in CheckpointFile /\ checkpoint.maxDD <= maxDD
          /\ checkpoint.trades <= trades /\ checkpoint.maxDD \in Int /\ checkpoint.trades \in Nat
      BY <1>1, <2>2 DEF LastMultiple, CheckpointFile
    <3> QED BY <1>1, <1>2, <2>2, <3>1, <3>4, <3>5 DEF LastMultiple
  <2> QED BY <2>1, <2>2
<1>4. CASE eventCount' % CheckEvery = 0
  BY <1>1, <1>2, <1>4 DEF LastMultiple
<1> QED BY <1>2, <1>3, <1>4

LEMMA LedgerStepInv ==
  ASSUME LedgerInv, [LedgerNext]_ledgerVars
  PROVE  LedgerInv'
<1> USE DEF LedgerInv, LedgerTypeOK
<1>1. CASE RecordFill \/ RecordError \/ RecordCircuitTrip
  BY <1>1, EventStep DEF RecordFill, RecordError, RecordCircuitTrip, riskVars
<1>2. ASSUME NEW e \in LedgerEquities, RecordEquity(e)
      PROVE  LedgerInv'
  <2>1. Write /\ curEq' = e /\ trades' = trades /\ peakEq' = Bigger(peakEq, e)
        /\ maxDD' = Bigger(maxDD, Drawdown(peakEq', e))
    BY <1>2 DEF RecordEquity
  <2>2. e \in Nat \ {0}
    BY LedgerAssumption
  <2>3. peakEq' \in Nat \ {0}
    BY <2>1, <2>2 DEF Bigger
  <2>4. Drawdown(peakEq', e) \in Int
    BY <2>2, <2>3 DEF Drawdown
  <2>5. maxDD' \in Int /\ maxDD' >= maxDD
    BY <2>1, <2>4 DEF Bigger
  <2> QED BY <2>1, <2>2, <2>3, <2>5, EventStep
<1>3. CASE ClearErrors \/ Midnight \/ UNCHANGED ledgerVars
  BY <1>3 DEF ClearErrors, Midnight, ledgerVars, riskVars, dayVars, fileVars,
              CheckpointWhenDue, LastMultiple
<1>4. CASE TruncateCheckpoint
  BY <1>4 DEF TruncateCheckpoint, riskVars, CheckpointWhenDue, LastMultiple
<1>5. CASE DumpCheckpoint
  <2>1. /\ ledgerPc = "dump" /\ ledgerPc' = "run" /\ checkpointRun = run
        /\ eventCount % CheckEvery = 0
        /\ UNCHANGED <<riskVars, eventCount, checkpointRun, run>>
    BY <1>5 DEF DumpCheckpoint, CheckpointWhenDue
  <2>2. /\ checkpoint' \in CheckpointFile
        /\ checkpoint'.count = eventCount /\ checkpoint'.maxDD = maxDD
        /\ checkpoint'.trades = trades
    BY <1>5 DEF DumpCheckpoint, CheckpointFile
  <2>3. LastMultiple'
    BY <2>1, <2>2, LedgerAssumption DEF LastMultiple, riskVars
  <2>4. LedgerTypeOK' /\ CheckpointWhenDue'
    BY <2>1, <2>2 DEF riskVars, CheckpointWhenDue
  <2> QED BY <2>3, <2>4
<1>6. CASE RestartEngine
  BY <1>6, LedgerAssumption DEF RestartEngine, fileVars, CheckpointWhenDue, LastMultiple
<1> QED BY <1>1, <1>2, <1>3, <1>4, <1>5, <1>6 DEF LedgerNext

-----------------------------------------------------------------------------
\* For every spacing of checkpoints: the checkpoint that a running engine has
\* written lags behind by less than that, and claims nothing the ledger does
\* not say.
THEOREM CheckpointCorrect == LedgerSpec => []CheckpointBehind
<1>1. LedgerInv /\ [LedgerNext]_ledgerVars => LedgerInv'
  BY LedgerStepInv
<1>2. LedgerInv => CheckpointBehind
  <2> SUFFICES ASSUME LedgerInv, ledgerPc = "run"
               PROVE  /\ eventCount >= CheckEvery => checkpointRun = run
                      /\ checkpointRun = run =>
                           /\ checkpoint \notin {NoCheckpoint, TornCheckpoint}
                           /\ checkpoint.count \in (eventCount + 1 - CheckEvery)..eventCount
                           /\ checkpoint.maxDD <= maxDD /\ checkpoint.trades <= trades
    BY DEF CheckpointBehind
  <2>1. eventCount \in Nat /\ CheckEvery \in Nat
    BY LedgerAssumption DEF LedgerInv, LedgerTypeOK
  <2>2. CASE checkpointRun # run
    BY <2>1, <2>2 DEF LedgerInv, LastMultiple
  <2>3. CASE checkpointRun = run
    <3>1. /\ checkpoint \in CheckpointFile /\ checkpoint.count \in Nat
          /\ checkpoint.count <= eventCount /\ eventCount < checkpoint.count + CheckEvery
          /\ checkpoint.maxDD <= maxDD /\ checkpoint.trades <= trades
      BY <2>3 DEF LedgerInv, LastMultiple, CheckpointFile
    <3> QED BY <2>1, <2>3, <3>1, LedgerAssumption
  <2> QED BY <2>2, <2>3
<1> QED BY <1>1, <1>2, LedgerInitInv, PTL DEF LedgerSpec

-----------------------------------------------------------------------------
(* What the gate concludes.                                                *)

\* A limit of the breaker that is no stricter than the gate's.
LEMMA BreachIsDrawdown ==
  ASSUME NEW peak \in Nat \ {0}, NEW base \in Nat \ {0}, NEW e \in Nat \ {0},
         NEW limit \in Nat, limit >= 2, base <= peak, (base - e) * 100 >= limit * base
  PROVE  Drawdown(peak, e) >= 2
<1> DEFINE a == (peak - e) * 100
           q == a \div peak
<1>1. limit * base >= 2 * base
  <2>1. (limit - 2) * base >= 0 /\ limit * base = (limit - 2) * base + 2 * base
    OBVIOUS
  <2>2. limit * base \in Int /\ (limit - 2) * base \in Int
    OBVIOUS
  <2> QED BY <2>1, <2>2
<1>2. a \in Nat /\ a >= 2 * peak
  <2>1. limit * base \in Int
    OBVIOUS
  <2> QED BY <1>1, <2>1
<1>3. a = peak * q + (a % peak) /\ a % peak \in 0..(peak - 1) /\ q \in Int
  BY <1>2, Division
<1> HIDE DEF a, q
<1>4. CASE q <= 1
  <2>1. peak * q <= peak * 1
    BY <1>3, <1>4
  <2>2. peak * q \in Int /\ a % peak \in Int /\ a % peak < peak
    BY <1>3
  <2> QED BY <1>2, <1>3, <2>1, <2>2
<1>5. CASE q >= 2
  BY <1>5 DEF q, a, Drawdown
<1> QED BY <1>3, <1>4, <1>5

\* The breaker and the ledger of a session are told the same, and the ledger's
\* peak is no lower than what the breaker measures its drawdown from.
SessionsAgree ==
  /\ consecErrors = bErrors /\ bErrors \in Nat
  /\ worstErrors \in Nat /\ consecErrors <= worstErrors
  /\ bDaily \in Nat \ {0} /\ bDaily <= peakEq
  /\ bEquity \in Nat \ {0} /\ bEquity <= peakEq

\* What explains a trip: the errors in the file, or a drawdown of that depth.
Explained(depth) == worstErrors >= 3 \/ depth >= 2

TripsExplained ==
  /\ bTripped # NoTrip => Explained(maxDD)
  /\ firstTrip \in [1..MaxRuns -> Nat]
  /\ \A r \in 1..MaxRuns :
       /\ r > run => firstTrip[r] = 0
       /\ r = run /\ firstTrip[r] # 0 => Explained(maxDD)
       /\ Populated /\ checkpointRun = r /\ firstTrip[r] # 0 /\ checkpoint.count >= firstTrip[r]
            => Explained(checkpoint.maxDD)

GateInv == LedgerInv /\ SessionsAgree /\ TripsExplained

LEMMA GateInitInv == GateInit => GateInv
<1> SUFFICES ASSUME GateInit PROVE GateInv
  OBVIOUS
<1>1. LedgerInv
  BY LedgerInitInv DEF GateInit
<1>2. SessionsAgree
  BY LedgerAssumption DEF GateInit, LedgerInit, SessionsAgree
<1>3. TripsExplained
  BY DEF GateInit, LedgerInit, TripsExplained, Populated
<1> QED BY <1>1, <1>2, <1>3 DEF GateInv

\* A step of a session is a step of the ledger, or leaves it alone.
LEMMA GateKeepsLedger ==
  ASSUME LedgerInv, [GateNext]_gateVars
  PROVE  LedgerInv'
<1>1. GateNext => LedgerNext \/ UNCHANGED ledgerVars
  BY DEF GateNext, OrderFilled, OrderBlocked, AccountUnknown, OrderFailed, LogError, ErrorsCleared,
         AccountKnown, SignalRefused, WriteCheckpoint, NextSession, NextDay, LedgerNext
<1>2. [LedgerNext]_ledgerVars
  BY <1>1 DEF gateVars
<1> QED BY <1>2, LedgerStepInv

\* The errors are told to the ledger, then to the breaker.
LEMMA LogErrorStep ==
  ASSUME GateInv, LogError, ErrorLimit \in Nat, ErrorLimit >= 3
  PROVE  SessionsAgree' /\ TripsExplained'
<1> USE DEF GateInv, LedgerInv, LedgerTypeOK
<1>1. /\ consecErrors' = consecErrors + 1 /\ bErrors' = bErrors + 1
      /\ worstErrors' = Bigger(worstErrors, consecErrors + 1)
      /\ bTripped' = (IF bTripped = NoTrip /\ bErrors + 1 >= ErrorLimit THEN "errors" ELSE bTripped)
      /\ UNCHANGED <<peakEq, maxDD, bDaily, bEquity, firstTrip, run, checkpoint, checkpointRun>>
  BY DEF LogError, RecordError, Write, fileVars, Breaker!TripOnError
<1>2. SessionsAgree'
  BY <1>1 DEF SessionsAgree, Bigger
<1>3. worstErrors' >= worstErrors /\ worstErrors' >= bErrors + 1 /\ worstErrors \in Nat /\ worstErrors' \in Nat
  BY <1>1 DEF SessionsAgree, Bigger
<1>4. \A depth : Explained(depth) => Explained(depth)'
  BY <1>3 DEF Explained
<1>5. bTripped' # NoTrip => Explained(maxDD)'
  BY <1>1, <1>3, <1>4 DEF TripsExplained, Explained, SessionsAgree
<1>6. TripsExplained'
  BY <1>1, <1>3, <1>5 DEF TripsExplained, Explained, Populated
<1> QED BY <1>2, <1>6

LEMMA AccountKnownStep ==
  ASSUME GateInv, NEW e \in LedgerEquities, AccountKnown(e), DrawdownLimit \in Nat, DrawdownLimit >= 2
  PROVE  SessionsAgree' /\ TripsExplained'
<1> USE DEF GateInv, LedgerInv, LedgerTypeOK
<1> DEFINE base == IF bResetDay # date THEN bEquity ELSE bDaily
<1>1. /\ peakEq' = Bigger(peakEq, e) /\ maxDD' = Bigger(maxDD, Drawdown(peakEq', e))
      /\ bDaily' = base /\ bEquity' = e
      /\ UNCHANGED <<consecErrors, bErrors, worstErrors, firstTrip, run, checkpoint, checkpointRun>>
  BY DEF AccountKnown, RecordEquity, Write, fileVars, logVars, Breaker!UpdateEquity, Breaker!Base
<1>2. bTripped' # NoTrip => bTripped # NoTrip \/ (base - e) * 100 >= DrawdownLimit * base
  BY DEF AccountKnown, Breaker!UpdateEquity, Breaker!Base, Breaker!StillTripped, Breaker!Breach
<1>3. e \in Nat \ {0} /\ base \in Nat \ {0} /\ base <= peakEq /\ peakEq \in Nat
  BY LedgerAssumption DEF SessionsAgree
<1> HIDE DEF base
<1>4. peakEq' \in Nat \ {0} /\ base <= peakEq' /\ e <= peakEq'
  BY <1>1, <1>3 DEF Bigger
<1>5. SessionsAgree'
  BY <1>1, <1>3, <1>4 DEF SessionsAgree
<1>6. Drawdown(peakEq', e) \in Int
  BY <1>3, <1>4 DEF Drawdown
<1>7. maxDD' >= maxDD /\ maxDD' >= Drawdown(peakEq', e) /\ maxDD' \in Int /\ maxDD \in Int
  BY <1>1, <1>6 DEF Bigger
<1>8. Explained(maxDD) => Explained(maxDD)'
  BY <1>1, <1>7 DEF Explained
<1>9. bTripped' # NoTrip => Explained(maxDD)'
  <2>1. CASE bTripped # NoTrip
    BY <1>8, <2>1 DEF TripsExplained
  <2>2. CASE (base - e) * 100 >= DrawdownLimit * base
    <3>1. Drawdown(peakEq', e) >= 2
      BY <1>3, <1>4, <2>2, BreachIsDrawdown
    <3> QED BY <1>6, <1>7, <3>1 DEF Explained
  <2> QED BY <1>2, <2>1, <2>2
<1>10. TripsExplained'
  BY <1>1, <1>8, <1>9 DEF TripsExplained, Explained, Populated
<1> QED BY <1>5, <1>10

\* A trip is written behind everything a checkpoint has covered.
LEMMA SignalRefusedStep ==
  ASSUME GateInv, SignalRefused
  PROVE  SessionsAgree' /\ TripsExplained'
<1> USE DEF GateInv, LedgerInv, LedgerTypeOK
<1>1. /\ bTripped # NoTrip /\ ledgerPc = "run" /\ eventCount' = eventCount + 1
      /\ firstTrip' = (IF firstTrip[run] = 0 THEN [firstTrip EXCEPT ![run] = eventCount + 1]
                       ELSE firstTrip)
      /\ UNCHANGED <<peakEq, maxDD, consecErrors, breakerVars, worstErrors, run, checkpoint, checkpointRun>>
  BY DEF SignalRefused, RecordCircuitTrip, Write, riskVars, fileVars
<1>2. SessionsAgree'
  BY <1>1 DEF SessionsAgree, breakerVars
<1>3. Explained(maxDD) /\ eventCount \in Nat
  BY <1>1 DEF TripsExplained
<1>4. firstTrip' \in [1..MaxRuns -> Nat]
  <2>1. eventCount + 1 \in Nat /\ firstTrip \in [1..MaxRuns -> Nat]
    BY <1>3 DEF TripsExplained
  <2>2. [firstTrip EXCEPT ![run] = eventCount + 1] \in [1..MaxRuns -> Nat]
    BY <2>1
  <2> QED BY <1>1, <2>1, <2>2
<1>5. ASSUME NEW r \in 1..MaxRuns, r # run PROVE firstTrip'[r] = firstTrip[r]
  BY <1>1, <1>5 DEF TripsExplained
<1>6. ASSUME NEW r \in 1..MaxRuns, r = run, Populated, checkpointRun = r, firstTrip'[r] # 0,
             checkpoint.count >= firstTrip'[r]
      PROVE  Explained(checkpoint.maxDD)
  <2>1. checkpoint.count \in Nat /\ checkpoint.count <= eventCount
    BY <1>1, <1>6 DEF LastMultiple, CheckpointFile
  <2>2. firstTrip'[r] = firstTrip[r]
    BY <1>1, <1>3, <1>6, <2>1 DEF TripsExplained
  <2> QED BY <1>6, <2>2 DEF TripsExplained
<1>7. TripsExplained'
  BY <1>1, <1>3, <1>4, <1>5, <1>6 DEF TripsExplained, Explained, Populated, breakerVars
<1> QED BY <1>2, <1>7

LEMMA WriteCheckpointStep ==
  ASSUME GateInv, WriteCheckpoint
  PROVE  SessionsAgree' /\ TripsExplained'
<1> USE DEF GateInv, LedgerInv, LedgerTypeOK
<1>1. UNCHANGED <<peakEq, maxDD, consecErrors, breakerVars, worstErrors, firstTrip, run>>
  BY DEF WriteCheckpoint, TruncateCheckpoint, DumpCheckpoint, riskVars, logVars
<1>2. SessionsAgree'
  BY <1>1 DEF SessionsAgree, breakerVars
<1>3. CASE TruncateCheckpoint
  <2>1. ~Populated'
    BY <1>3 DEF TruncateCheckpoint, Populated
  <2> QED BY <1>1, <1>2, <2>1 DEF TripsExplained, Explained, breakerVars
<1>4. CASE DumpCheckpoint
  <2>1. checkpoint'.maxDD = maxDD /\ checkpointRun' = run
    BY <1>4 DEF DumpCheckpoint, CheckpointWhenDue
  <2> QED BY <1>1, <1>2, <2>1 DEF TripsExplained, Explained, breakerVars
<1> QED BY <1>3, <1>4 DEF WriteCheckpoint

LEMMA NextSessionStep ==
  ASSUME GateInv, NextSession
  PROVE  SessionsAgree' /\ TripsExplained'
<1> USE DEF GateInv, LedgerInv, LedgerTypeOK
<1>1. /\ run' = run + 1 /\ bTripped' = NoTrip /\ consecErrors' = 0 /\ bErrors' = 0
      /\ peakEq' = LedgerStart /\ bDaily' = LedgerStart /\ bEquity' = LedgerStart
      /\ UNCHANGED <<worstErrors, firstTrip, checkpoint, checkpointRun>>
  BY DEF NextSession, RestartEngine, fileVars, logVars
<1>2. SessionsAgree'
  BY <1>1, LedgerAssumption DEF SessionsAgree
<1>3. TripsExplained'
  BY <1>1 DEF TripsExplained, Explained, Populated
<1> QED BY <1>2, <1>3

LEMMA GateStepInv ==
  ASSUME GateInv, [GateNext]_gateVars,
         ErrorLimit \in Nat, ErrorLimit >= 3, DrawdownLimit \in Nat, DrawdownLimit >= 2
  PROVE  GateInv'
<1>1. LedgerInv'
  BY GateKeepsLedger DEF GateInv
<1>2. CASE OrderFilled \/ OrderBlocked \/ NextDay \/ UNCHANGED gateVars
  <2>1. UNCHANGED <<peakEq, maxDD, consecErrors, breakerVars, logVars, run, checkpoint, checkpointRun>>
    BY <1>2 DEF OrderFilled, OrderBlocked, NextDay, gateVars, RecordFill, Write, Midnight, ledgerVars,
                riskVars, fileVars
  <2> QED BY <1>1, <2>1 DEF GateInv, SessionsAgree, TripsExplained, Explained, Populated, breakerVars, logVars
<1>3. CASE ErrorsCleared
  <2>1. /\ consecErrors' = 0 /\ bErrors' = 0
        /\ UNCHANGED <<peakEq, maxDD, bTripped, bDaily, bEquity, logVars, run, checkpoint, checkpointRun>>
    BY <1>3 DEF ErrorsCleared, ClearErrors, fileVars
  <2> QED BY <1>1, <2>1 DEF GateInv, SessionsAgree, TripsExplained, Explained, Populated, logVars
<1> QED
  BY <1>1, <1>2, <1>3, LogErrorStep, AccountKnownStep, SignalRefusedStep, WriteCheckpointStep,
     NextSessionStep DEF GateNext, AccountUnknown, OrderFailed, GateInv

\* When the gates that count errors, trips and drawdown pass together, the
\* checkpoint does not cover the trip (see EvidenceIsStale).  The breaker's
\* limits may be any that are no stricter than the gate's own 3 and 2.
THEOREM EvidenceCorrect ==
  ASSUME ErrorLimit \in Nat, ErrorLimit >= 3, DrawdownLimit \in Nat, DrawdownLimit >= 2
  PROVE  GateSpec => []EvidenceIsStale
<1>1. GateInv /\ [GateNext]_gateVars => GateInv'
  BY GateStepInv
<1>2. GateInv => EvidenceIsStale
  <2> SUFFICES ASSUME GateInv, Pass("G1"), Pass("G5"), NEW r \in 1..MaxRuns, firstTrip[r] # 0,
                      checkpointRun = r, ~(checkpoint.count < firstTrip[r])
               PROVE  FALSE
    BY DEF EvidenceIsStale
  <2>1. worstErrors < 3 /\ Populated /\ checkpoint.maxDD < 2
    BY DEF Pass
  <2>2. checkpoint \in CheckpointFile
    BY <2>1 DEF GateInv, LedgerInv, LedgerTypeOK, Populated
  <2>3. checkpoint.count \in Nat /\ checkpoint.maxDD \in Int /\ firstTrip[r] \in Nat /\ worstErrors \in Nat
    BY <2>2 DEF CheckpointFile, GateInv, TripsExplained, SessionsAgree
  <2>4. Explained(checkpoint.maxDD)
    BY <2>1, <2>3 DEF GateInv, TripsExplained
  <2> QED BY <2>1, <2>3, <2>4 DEF Explained
<1> QED BY <1>1, <1>2, GateInitInv, PTL DEF GateSpec

-----------------------------------------------------------------------------
(* The swap simulator.                                                     *)

\* Two multiples are a divisor apart.
LEMMA MultiplesApart ==
  ASSUME NEW c \in Nat \ {0}, NEW a \in Nat, NEW b \in Nat, a % c = 0, b % c = 0, a < b
  PROVE  b - a >= c
<1> DEFINE p == a \div c
           q == b \div c
<1>1. p \in Int /\ q \in Int /\ a = c * p /\ b = c * q
  BY Division
<1> HIDE DEF p, q
<1>2. c * (q - p) = b - a
  BY <1>1
<1>3. CASE b - a < c
  <2>1. q - p = 0
    BY <1>1, <1>2, <1>3, SmallMultiple
  <2> QED BY <1>1, <2>1
<1> QED BY <1>3

\* The row of the simulation that the i-th probability of the window is from.
RowOf(i) == tickIdx - 1 - (Len(probWindow) - i)

\* Models are swapped at multiples of the window only, after that row's
\* probability was taken: a probability is of the active model unless there
\* was such a row since, and the reference is of the active model always.
OneProducer ==
  /\ \A i \in 1..Len(probWindow) :
       (\A m \in RowOf(i)..(tickIdx - 1) : m % CheckWindow # 0) => probWindow[i] = Producer
  /\ \A i \in 1..Len(reference) : reference[i] = Producer
  /\ PsiComparesOneModel

SimTypeOK ==
  /\ cooldownMode \in {"static", "dynamic"} /\ calibrator \in Calibrators
  /\ tickIdx \in Nat /\ ticksSinceSwap \in Nat
  /\ activeVersion \in ModelVersions /\ notified \in ModelVersions
  /\ probWindow \in Seq(ModelVersions) /\ reference \in Seq(ModelVersions)
  /\ Len(probWindow) <= CheckWindow /\ Len(probWindow) <= tickIdx
  /\ tickIdx <= LookBack => probWindow = <<>>
  /\ compared \in SUBSET ModelVersions

SimInv == SimTypeOK /\ OneProducer

-----------------------------------------------------------------------------
LEMMA SimInitInv == SimInit => SimInv
<1> SUFFICES ASSUME SimInit PROVE SimInv
  OBVIOUS
<1> USE SimulatorAssumption DEF SimInit
<1>1. SimTypeOK
  BY DEF SimTypeOK, ModelVersions
<1>2. OneProducer
  BY DEF OneProducer, PsiComparesOneModel
<1> QED BY <1>1, <1>2 DEF SimInv

\* A row's probability enters the window, the oldest leaves a full one.
NewWindow == NewestOf(Append(probWindow, Producer))
TicksNow == IF cooldownMode = "static" THEN ticksSinceSwap + 1 ELSE ticksSinceSwap

LEMMA WindowMoves ==
  ASSUME SimTypeOK
  PROVE  /\ Producer \in ModelVersions /\ CheckWindow \in Nat \ {0}
         /\ NewWindow \in Seq(ModelVersions) /\ Len(NewWindow) \in Nat \ {0}
         /\ Len(NewWindow) <= CheckWindow /\ Len(NewWindow) <= Len(probWindow) + 1
         /\ NewWindow[Len(NewWindow)] = Producer
         /\ \A i \in 1..(Len(NewWindow) - 1) :
              \E j \in 1..Len(probWindow) : /\ NewWindow[i] = probWindow[j]
                                            /\ Len(NewWindow) - i = Len(probWindow) - j + 1
<1> DEFINE n == Len(probWindow)
           s == Append(probWindow, Producer)
<1>1. Producer \in ModelVersions /\ CheckWindow \in Nat \ {0}
  BY SimulatorAssumption DEF SimTypeOK, Producer, ModelVersions, Calibrators
<1>2. probWindow \in Seq(ModelVersions) /\ n \in Nat /\ n <= CheckWindow
  BY DEF SimTypeOK
<1>3. /\ s \in Seq(ModelVersions) /\ Len(s) = n + 1 /\ s[n + 1] = Producer
      /\ \A i \in 1..n : s[i] = probWindow[i]
  BY <1>1, <1>2
<1> HIDE DEF n, s
<1>4. CASE n + 1 > CheckWindow
  <2>1. NewWindow = Tail(s)
    BY <1>3, <1>4 DEF NewWindow, NewestOf, s
  <2>2. /\ Tail(s) \in Seq(ModelVersions) /\ Len(Tail(s)) = n
        /\ \A i \in 1..n : Tail(s)[i] = s[i + 1]
    BY <1>2, <1>3
  <2>3. n = CheckWindow
    BY <1>1, <1>2, <1>4
  <2>4. NewWindow[n] = Producer
    BY <1>1, <1>2, <1>3, <2>1, <2>2, <2>3
  <2>5. ASSUME NEW i \in 1..(n - 1)
        PROVE  \E j \in 1..n : NewWindow[i] = probWindow[j] /\ n - i = n - j + 1
    <3>1. i + 1 \in 1..n /\ i \in 1..n /\ n - i = n - (i + 1) + 1
      BY <1>2
    <3>2. NewWindow[i] = probWindow[i + 1]
      BY <1>3, <2>1, <2>2, <3>1
    <3> QED BY <3>1, <3>2
  <2>6. Len(NewWindow) = n /\ n \in Nat \ {0}
    BY <1>1, <1>2, <2>1, <2>2, <2>3
  <2>7. NewWindow[Len(NewWindow)] = Producer /\ NewWindow \in Seq(ModelVersions)
    BY <2>1, <2>2, <2>4, <2>6
  <2>8. \A i \in 1..(Len(NewWindow) - 1) :
          \E j \in 1..n : NewWindow[i] = probWindow[j] /\ Len(NewWindow) - i = n - j + 1
    BY <2>5, <2>6
  <2>9. Len(NewWindow) <= CheckWindow /\ Len(NewWindow) <= n + 1
    BY <1>2, <2>6
  <2> QED BY <1>1, <2>6, <2>7, <2>8, <2>9 DEF n
<1>5. CASE ~(n + 1 > CheckWindow)
  <2>1. NewWindow = s
    BY <1>3, <1>5 DEF NewWindow, NewestOf, s
  <2>2. ASSUME NEW i \in 1..(Len(NewWindow) - 1)
        PROVE  \E j \in 1..n : NewWindow[i] = probWindow[j] /\ Len(NewWindow) - i = n - j + 1
    <3>1. i \in 1..n /\ Len(NewWindow) - i = n - i + 1
      BY <1>2, <1>3, <2>1
    <3> QED BY <1>3, <2>1, <3>1
  <2> QED BY <1>1, <1>2, <1>3, <1>5, <2>1, <2>2 DEF n
<1> QED BY <1>1, <1>2, <1>4, <1>5

\* A full window that ends at a multiple is of one model.
LEMMA FullWindowIsOfOne ==
  ASSUME SimInv, tickIdx % CheckWindow = 0, Len(NewWindow) = CheckWindow
  PROVE  \A i \in 1..Len(NewWindow) : NewWindow[i] = Producer
<1> USE DEF SimInv
<1>0. /\ tickIdx \in Nat /\ CheckWindow \in Nat \ {0} /\ Len(probWindow) \in Nat
      /\ Len(probWindow) <= tickIdx
  BY WindowMoves DEF SimTypeOK
<1>1. SUFFICES ASSUME NEW i \in 1..Len(NewWindow), i # Len(NewWindow) PROVE NewWindow[i] = Producer
  BY WindowMoves
<1>2. i \in 1..(Len(NewWindow) - 1)
  BY <1>0, <1>1
<1>3. PICK j \in 1..Len(probWindow) : /\ NewWindow[i] = probWindow[j]
                                      /\ Len(NewWindow) - i = Len(probWindow) - j + 1
  BY <1>2, WindowMoves
<1>4. RowOf(j) = tickIdx - (CheckWindow - i) /\ RowOf(j) >= 0
  BY <1>0, <1>2, <1>3 DEF RowOf
<1>5. ASSUME NEW m \in RowOf(j)..(tickIdx - 1) PROVE m % CheckWindow # 0
  <2>1. m \in Nat /\ m < tickIdx /\ tickIdx - m < CheckWindow
    BY <1>0, <1>2, <1>4
  <2> QED BY <1>0, <2>1, MultiplesApart
<1> QED BY <1>3, <1>5 DEF OneProducer

\* Without a swap the invariant about the models goes on, and the next check
\* compares what it must.
LEMMA KeepingStep ==
  ASSUME SimInv, tickIdx' = tickIdx + 1, probWindow' = NewWindow, Producer' = Producer
  PROVE  \A i \in 1..Len(probWindow') :
           (\A m \in RowOf(i)'..(tickIdx' - 1) : m % CheckWindow # 0) => probWindow'[i] = Producer'
<1> USE DEF SimInv
<1>0. /\ tickIdx \in Nat /\ CheckWindow \in Nat \ {0} /\ Len(probWindow) \in Nat
  BY WindowMoves DEF SimTypeOK
<1>1. SUFFICES ASSUME NEW i \in 1..Len(NewWindow), i # Len(NewWindow),
                      \A m \in RowOf(i)'..tickIdx : m % CheckWindow # 0
               PROVE  NewWindow[i] = Producer
  BY <1>0, WindowMoves
<1>2. i \in 1..(Len(NewWindow) - 1)
  BY <1>0, <1>1, WindowMoves
<1>3. PICK j \in 1..Len(probWindow) : /\ NewWindow[i] = probWindow[j]
                                      /\ Len(NewWindow) - i = Len(probWindow) - j + 1
  BY <1>2, WindowMoves
<1>4. RowOf(i)' = RowOf(j)
  <2>1. RowOf(i)' = tickIdx - (Len(NewWindow) - i)
    BY <1>0, WindowMoves DEF RowOf
  <2> QED BY <1>0, <1>3, <2>1 DEF RowOf
<1>5. \A m \in RowOf(j)..(tickIdx - 1) : m % CheckWindow # 0
  <2>1. \A m \in RowOf(j)..(tickIdx - 1) : m \in RowOf(j)..tickIdx
    BY <1>0 DEF RowOf
  <2> QED BY <1>1, <1>4, <2>1
<1> QED BY <1>3, <1>5 DEF OneProducer

\* One producer of everything a check compares.
LEMMA ComparedIsOne ==
  ASSUME SimInv, tickIdx % CheckWindow = 0, Len(NewWindow) = CheckWindow,
         NEW ref, ref = IF reference = <<>> THEN NewWindow ELSE reference
  PROVE  /\ ref \in Seq(ModelVersions) /\ \A i \in 1..Len(ref) : ref[i] = Producer
         /\ ToSet(ref) \cup ToSet(NewWindow) \subseteq {Producer}
<1> USE DEF SimInv
<1>1. NewWindow \in Seq(ModelVersions) /\ reference \in Seq(ModelVersions)
  BY WindowMoves DEF SimTypeOK
<1>2. \A i \in 1..Len(NewWindow) : NewWindow[i] = Producer
  BY FullWindowIsOfOne
<1>3. \A i \in 1..Len(reference) : reference[i] = Producer
  BY DEF OneProducer
<1>4. ref \in Seq(ModelVersions) /\ \A i \in 1..Len(ref) : ref[i] = Producer
  BY <1>1, <1>2, <1>3
<1>5. \A s \in Seq(ModelVersions) : (\A i \in 1..Len(s) : s[i] = Producer) => ToSet(s) \subseteq {Producer}
  BY DEF ToSet
<1> QED BY <1>1, <1>2, <1>4, <1>5

\* The types, whatever a tick decides about the models.
LEMMA TickTypes ==
  ASSUME SimTypeOK, UNCHANGED <<cooldownMode, calibrator>>, ~(tickIdx < LookBack),
         tickIdx' = tickIdx + 1, probWindow' = NewWindow, ticksSinceSwap' \in Nat,
         activeVersion' \in ModelVersions, notified' \in ModelVersions,
         reference' \in Seq(ModelVersions),
         compared' \in SUBSET ModelVersions
  PROVE  SimTypeOK'
<1>1. LookBack \in Nat /\ tickIdx \in Nat
  BY SimulatorAssumption DEF SimTypeOK
<1>2. /\ Len(NewWindow) <= CheckWindow /\ Len(NewWindow) <= Len(probWindow) + 1
      /\ NewWindow \in Seq(ModelVersions) /\ CheckWindow \in Nat
      /\ Len(NewWindow) \in Nat /\ Len(probWindow) \in Nat /\ Len(probWindow) <= tickIdx
  BY WindowMoves DEF SimTypeOK
<1>3. Len(NewWindow) <= tickIdx' /\ ~(tickIdx' <= LookBack) /\ tickIdx' \in Nat
  BY <1>1, <1>2
<1> QED BY <1>2, <1>3 DEF SimTypeOK

LEMMA CheckStep ==
  ASSUME SimInv, UNCHANGED <<cooldownMode, calibrator>>, ~(tickIdx < LookBack),
         tickIdx' = tickIdx + 1, probWindow' = NewWindow,
         tickIdx % CheckWindow = 0, Len(NewWindow) = CheckWindow, DriftChecked(TicksNow, NewWindow)
  PROVE  SimInv'
<1> DEFINE ref == IF reference = <<>> THEN NewWindow ELSE reference
<1>0. /\ ref \in Seq(ModelVersions) /\ \A i \in 1..Len(ref) : ref[i] = Producer
      /\ ToSet(ref) \cup ToSet(NewWindow) \subseteq {Producer}
      /\ Producer \in ModelVersions
      /\ tickIdx \in Nat /\ ticksSinceSwap \in Nat /\ TicksNow \in Nat
      /\ activeVersion \in ModelVersions /\ notified \in ModelVersions
  BY ComparedIsOne, WindowMoves DEF SimInv, SimTypeOK, TicksNow
<1>1. PICK psi \in Psis, aucDrift \in BOOLEAN :
        LET drift == psi = "high" \/ aucDrift
            goes == drift /\ SwapAllowed(TicksNow)
            stays == ~drift \/ SwapLocked(TicksNow)
        IN /\ compared' = ToSet(ref) \cup ToSet(NewWindow)
           /\ \/ goes /\ DoSwap("candidate")
              \/ stays /\ MayRevert(psi) /\ DoSwap("baseline")
              \/ stays /\ MayStay(psi) /\ KeepModel(TicksNow, ref)
  BY DEF DriftChecked
<1> DEFINE drift == psi = "high" \/ aucDrift
<1>2. /\ compared' \subseteq {Producer}
      /\ compared' \in SUBSET ModelVersions
  BY <1>0, <1>1
<1>3. \/ \E v \in ModelVersions : DoSwap(v)
      \/ KeepModel(TicksNow, ref)
  BY <1>1 DEF ModelVersions
<1>4. /\ activeVersion' \in ModelVersions /\ notified' \in ModelVersions
      /\ ticksSinceSwap' \in Nat /\ reference' \in Seq(ModelVersions)
  <2>1. ASSUME NEW v \in ModelVersions, DoSwap(v)
        PROVE  /\ activeVersion' = v /\ reference' = <<>>
               /\ notified' \in {v, notified} /\ ticksSinceSwap' \in {0, ticksSinceSwap}
    BY <2>1 DEF DoSwap
  <2>2. CASE KeepModel(TicksNow, ref)
    BY <1>0, <2>2 DEF KeepModel
  <2>3. <<>> \in Seq(ModelVersions)
    OBVIOUS
  <2>4. CASE \E v \in ModelVersions : DoSwap(v)
    <3>1. PICK v \in ModelVersions : DoSwap(v)
      BY <2>4
    <3>2. /\ activeVersion' = v /\ reference' = <<>>
          /\ notified' \in {v, notified} /\ ticksSinceSwap' \in {0, ticksSinceSwap}
      BY <2>1, <3>1
    <3>3. ticksSinceSwap \in Nat /\ notified \in ModelVersions
      BY <1>0
    <3> QED BY <2>3, <3>2, <3>3
  <2> HIDE DEF ref
  <2> QED BY <1>3, <2>2, <2>4
<1>5. SimTypeOK'
  BY <1>2, <1>4, TickTypes DEF SimInv
<1>6. \A i \in 1..Len(reference') : reference'[i] = Producer'
  <2>1. CASE \E v \in ModelVersions : DoSwap(v)
    BY <2>1 DEF DoSwap
  <2>2. CASE KeepModel(TicksNow, ref)
    <3>1. reference' = ref /\ Producer' = Producer
      BY <2>2 DEF KeepModel, Producer
    <3> QED BY <1>0, <3>1
  <2> QED BY <1>3, <2>1, <2>2
<1>7. ASSUME NEW i \in 1..Len(probWindow'), \A m \in RowOf(i)'..(tickIdx' - 1) : m % CheckWindow # 0
      PROVE  probWindow'[i] = Producer'
  <2>1. RowOf(i)' = tickIdx - (Len(NewWindow) - i) /\ Len(NewWindow) \in Nat
    BY <1>0, WindowMoves DEF RowOf, SimInv
  <2>2. tickIdx \in RowOf(i)'..(tickIdx' - 1)
    BY <1>0, <2>1
  <2> QED BY <1>7, <2>2
<1>8. OneProducer'
  BY <1>2, <1>6, <1>7 DEF OneProducer, PsiComparesOneModel
<1> QED BY <1>5, <1>8 DEF SimInv

LEMMA SimStepInv ==
  ASSUME SimInv, [SimNext]_simVars
  PROVE  SimInv'
<1>1. CASE UNCHANGED simVars
  BY <1>1 DEF simVars, SimInv, SimTypeOK, OneProducer, RowOf, Producer, PsiComparesOneModel
<1>2. CASE SimTick /\ tickIdx < LookBack
  <2>1. /\ tickIdx' = tickIdx + 1
        /\ UNCHANGED <<cooldownMode, calibrator, activeVersion, ticksSinceSwap, lastSwapTick,
                       notified, probWindow, reference, compared>>
    BY <1>2 DEF SimTick
  <2>2. tickIdx \in Nat /\ LookBack \in Nat /\ probWindow = <<>> /\ Len(probWindow) = 0
    BY <1>2, SimulatorAssumption DEF SimInv, SimTypeOK
  <2>3. SimTypeOK'
    BY <1>2, <2>1, <2>2 DEF SimInv, SimTypeOK
  <2>4. OneProducer'
    BY <2>1, <2>2 DEF SimInv, OneProducer, PsiComparesOneModel, Producer
  <2> QED BY <2>3, <2>4 DEF SimInv
<1>3. CASE SimTick /\ ~(tickIdx < LookBack)
  <2>1. /\ tickIdx' = tickIdx + 1 /\ UNCHANGED <<cooldownMode, calibrator>>
        /\ probWindow' = NewWindow
        /\ IF Len(NewWindow) = CheckWindow /\ tickIdx % CheckWindow = 0
           THEN DriftChecked(TicksNow, NewWindow)
           ELSE KeepModel(TicksNow, reference) /\ UNCHANGED compared
    BY <1>3 DEF SimTick, NewWindow, TicksNow
  <2>2. CASE Len(NewWindow) = CheckWindow /\ tickIdx % CheckWindow = 0
    BY <1>3, <2>1, <2>2, CheckStep
  <2>3. CASE KeepModel(TicksNow, reference) /\ UNCHANGED compared
    <3>1. /\ ticksSinceSwap' = TicksNow /\ Producer' = Producer
          /\ UNCHANGED <<reference, activeVersion, notified, compared>>
      BY <2>1, <2>3 DEF KeepModel, Producer
    <3>2. TicksNow \in Nat
      BY DEF TicksNow, SimInv, SimTypeOK
    <3>3. SimTypeOK'
      BY <1>3, <2>1, <3>1, <3>2, TickTypes DEF SimInv, SimTypeOK
    <3>4. OneProducer'
      BY <2>1, <3>1, KeepingStep DEF SimInv, OneProducer, PsiComparesOneModel
    <3> QED BY <3>3, <3>4 DEF SimInv
  <2> QED BY <2>1, <2>2, <2>3
<1> QED BY <1>1, <1>2, <1>3 DEF SimNext

\* Every PSI compares probabilities of one model (see PsiComparesOneModel), for
\* every size of the window, cooldown, calibrator and controller.
THEOREM PsiCorrect == SimSpec => []PsiComparesOneModel
<1>1. SimInv => PsiComparesOneModel
  BY DEF SimInv, OneProducer
<1> QED BY <1>1, SimInitInv, SimStepInv, PTL DEF SimSpec

-----------------------------------------------------------------------------
(* The folds of the calibration.                                           *)

FoldTypeOK ==
  /\ samples \in Nat /\ folds \in Nat \ {0}
  /\ fold \in 0..folds /\ foldError \in BOOLEAN
  /\ scored \subseteq 0..(samples - 1)

\* What lies before the next fold is what has been scored; with two samples and
\* two folds or more no fold is skipped but an empty last one.
ScoredInOrder ==
  /\ rescored = {}
  /\ samples >= folds - 1 => ~foldError
  /\ fold < folds => scored \subseteq 0..(ValStart(fold) - 1)
  /\ ~foldError /\ samples > 1 /\ folds > 1 =>
       scored = IF fold < folds THEN 0..(ValStart(fold) - 1) ELSE 0..(samples - 1)

FoldInv == FoldTypeOK /\ ScoredInOrder

LEMMA FoldSizes ==
  ASSUME FoldTypeOK
  PROVE  /\ FoldSize \in Nat \ {0}
         /\ samples >= folds => folds * FoldSize <= samples
         /\ samples < folds => FoldSize = 1
         /\ samples > 1 /\ folds > 1 => FoldSize < samples
<1> DEFINE q == samples \div folds
<1>1. samples = folds * q + (samples % folds) /\ samples % folds \in 0..(folds - 1) /\ q \in Int
      /\ samples \in Nat /\ folds \in Nat \ {0}
  BY Division DEF FoldTypeOK
<1>2. FoldSize = IF q = 0 THEN 1 ELSE q
  BY DEF FoldSize
<1> HIDE DEF q
<1>3. q >= 0
  <2>1. CASE q <= -1
    <3>1. folds * q <= folds * (-1)
      BY <1>1, <2>1
    <3> QED BY <1>1, <3>1
  <2> QED BY <1>1, <2>1
<1>4. samples >= folds => q >= 1
  <2>1. CASE q = 0
    BY <1>1, <2>1
  <2> QED BY <1>1, <1>3, <2>1
<1>5. samples < folds => q = 0
  <2>1. CASE q >= 1
    <3>1. folds * q >= folds * 1
      BY <1>1, <2>1
    <3> QED BY <1>1, <3>1
  <2> QED BY <1>1, <1>3, <2>1
<1>6. samples >= folds => folds * FoldSize <= samples
  <2>1. CASE samples >= folds
    <3>1. FoldSize = q /\ folds * q \in Int
      BY <1>1, <1>2, <1>4, <2>1
    <3> QED BY <1>1, <3>1
  <2> QED BY <2>1
<1>7. ASSUME samples > 1, folds > 1 PROVE FoldSize < samples
  <2>1. CASE q = 0
    BY <1>2, <1>7, <2>1
  <2>2. CASE q >= 1
    <3>1. folds * q >= 2 * q /\ folds * q \in Int
      <4>1. folds * q = (folds - 2) * q + 2 * q /\ (folds - 2) * q >= 0 /\ (folds - 2) * q \in Int
        BY <1>1, <1>7, <2>2
      <4> QED BY <1>1, <4>1
    <3> QED BY <1>1, <1>2, <2>2, <3>1
  <2> QED BY <1>1, <1>3, <2>1, <2>2
<1> QED BY <1>1, <1>2, <1>3, <1>5, <1>6, <1>7

LEMMA FoldStarts ==
  ASSUME FoldTypeOK, fold < folds
  PROVE  /\ ValStart(fold) \in Nat /\ ValStart(fold + 1) = ValStart(fold) + FoldSize
         /\ fold = 0 <=> ValStart(fold) = 0
         /\ samples >= folds - 1 /\ fold < folds - 1 => ValStart(fold) + FoldSize <= samples
         /\ fold < folds - 1 => ValEnd(fold) = ValStart(fold) + FoldSize
         /\ fold = folds - 1 => ValEnd(fold) = samples
<1>1. /\ fold \in Nat /\ folds \in Nat \ {0} /\ samples \in Nat /\ FoldSize \in Nat \ {0}
      /\ samples < folds => FoldSize = 1
  BY FoldSizes DEF FoldTypeOK
<1>2. fold * FoldSize \in Nat /\ (fold + 1) * FoldSize = fold * FoldSize + FoldSize
  BY <1>1
<1>3. fold = 0 <=> fold * FoldSize = 0
  <2>1. CASE fold >= 1
    <3>1. fold * FoldSize >= 1 * FoldSize
      BY <1>1, <2>1
    <3> QED BY <1>1, <1>2, <2>1, <3>1
  <2> QED BY <1>1, <2>1
<1>4. ASSUME samples >= folds - 1, fold < folds - 1 PROVE (fold + 1) * FoldSize <= samples
  <2>1. CASE samples >= folds
    <3>1. folds * FoldSize <= samples /\ folds * FoldSize \in Int
      BY <1>1, <2>1, FoldSizes
    <3>2. folds * FoldSize = (fold + 1) * FoldSize + (folds - (fold + 1)) * FoldSize
      BY <1>1
    <3>3. (folds - (fold + 1)) * FoldSize >= 0 /\ (folds - (fold + 1)) * FoldSize \in Int
      BY <1>1, <1>4
    <3> QED BY <1>1, <1>2, <3>1, <3>2, <3>3
  <2>2. CASE samples < folds
    <3>1. (fold + 1) * FoldSize = fold + 1
      BY <1>1, <2>2
    <3> QED BY <1>1, <1>4, <2>2, <3>1
  <2> QED BY <1>1, <2>1, <2>2
<1> QED BY <1>1, <1>2, <1>3, <1>4 DEF ValStart, ValEnd

\* No fold is fitted on what it scores, wherever it lies.
LEMMA FoldsAreApart ==
  ASSUME FoldTypeOK, fold < folds
  PROVE  Training(fold) \cap Validation(fold) = {}
<1>1. ValStart(fold) \in Int /\ ValEnd(fold) \in Int /\ samples \in Nat
  BY FoldStarts, FoldSizes DEF FoldTypeOK
<1> QED BY <1>1 DEF Training, Validation

LEMMA KFoldStep ==
  ASSUME FoldInv, KFold
  PROVE  FoldInv'
<1> USE DEF FoldInv
<1> DEFINE a == ValStart(fold)
           s == FoldSize
           e == ValEnd(fold)
           last == fold = folds - 1
<1>1. /\ fold < folds /\ ~foldError /\ fold' = fold + 1
      /\ UNCHANGED <<samples, folds>>
  BY DEF KFold
<1>2. /\ samples \in Nat /\ folds \in Nat \ {0} /\ fold \in Nat /\ fold' \in 0..folds
      /\ s \in Nat \ {0} /\ a \in Nat /\ e \in Int
      /\ ValStart(fold)' = a + s
      /\ ~last => e = a + s
      /\ last => e = samples
      /\ fold = 0 <=> a = 0
      /\ last <=> ~(fold' < folds)
      /\ scored \subseteq 0..(samples - 1) /\ scored \subseteq 0..(a - 1)
  <2>1. fold \in Nat /\ folds \in Nat \ {0} /\ samples \in Nat
    BY DEF FoldTypeOK
  <2>2. ValStart(fold)' = ValStart(fold + 1)
    BY <1>1 DEF ValStart, FoldSize
  <2> QED BY <1>1, <2>1, <2>2, FoldStarts, FoldSizes DEF FoldTypeOK, ScoredInOrder
<1> HIDE DEF a, s, e, last
<1>3. /\ Validation(fold) = a..(e - 1)
      /\ Training(fold) = (0..(a - 1)) \cup (e..(samples - 1))
  BY DEF Validation, Training, a, e
<1>4. scored \cap Validation(fold) = {}
  BY <1>2, <1>3
<1>5. rescored' = {}
  BY <1>4 DEF KFold, ScoredInOrder
<1>5a. foldError \in BOOLEAN
  BY DEF FoldTypeOK
<1>6. /\ scored' = scored \/ scored' = scored \cup Validation(fold)
      /\ scored' # scored => Validation(fold) \subseteq 0..(samples - 1)
      /\ foldError' \in BOOLEAN
  <2>1. CASE Training(fold) = {} \/ Validation(fold) = {}
    BY <1>1, <1>5a, <2>1 DEF KFold
  <2>2. CASE ~(Training(fold) = {} \/ Validation(fold) = {}) /\ Validation(fold) \subseteq 0..(samples - 1)
    BY <1>1, <1>5a, <2>2 DEF KFold
  <2>3. CASE /\ ~(Training(fold) = {} \/ Validation(fold) = {})
             /\ ~(Validation(fold) \subseteq 0..(samples - 1))
    BY <1>1, <2>3 DEF KFold
  <2> QED BY <2>1, <2>2, <2>3
<1>7. FoldTypeOK'
  BY <1>1, <1>2, <1>6 DEF FoldTypeOK
<1>8. samples >= folds - 1 => ~foldError'
  <2>1. SUFFICES ASSUME samples >= folds - 1 PROVE Validation(fold) \subseteq 0..(samples - 1)
    BY <1>1 DEF KFold
  <2>2. CASE last
    BY <1>2, <1>3, <2>2
  <2>3. CASE ~last
    <3>1. a + s <= samples
      BY <1>1, <1>2, <2>1, <2>3, FoldStarts DEF last, a, s
    <3> QED BY <1>2, <1>3, <2>3, <3>1
  <2> QED BY <2>2, <2>3
<1>9. fold' < folds => scored' \subseteq 0..(ValStart(fold)' - 1)
  <2>1. SUFFICES ASSUME ~last PROVE scored' \subseteq 0..(a + s - 1)
    BY <1>2
  <2>2. scored \subseteq 0..(a + s - 1)
    BY <1>2
  <2>3. Validation(fold) \subseteq 0..(a + s - 1)
    BY <1>2, <1>3, <2>1
  <2> QED BY <1>6, <2>2, <2>3
<1>10. ASSUME ~foldError', samples > 1, folds > 1
       PROVE  scored' = IF fold' < folds THEN 0..(ValStart(fold)' - 1) ELSE 0..(samples - 1)
  <2>1. scored = 0..(a - 1)
    BY <1>1, <1>10 DEF ScoredInOrder, a
  <2>2. a <= samples
    <3>1. a = 0 \/ a - 1 \in scored
      BY <1>2, <2>1
    <3> QED BY <1>2, <3>1
  <2>3. Training(fold) # {}
    <3>1. CASE fold = 0
      <4>1. ~last /\ s < samples
        BY <1>10, <3>1, FoldSizes DEF last, s
      <4>2. samples - 1 \in e..(samples - 1)
        BY <1>2, <3>1, <4>1
      <4> QED BY <1>3, <4>2
    <3>2. CASE fold # 0
      <4>1. 0 \in 0..(a - 1)
        BY <1>2, <3>2
      <4> QED BY <1>3, <4>1
    <3> QED BY <3>1, <3>2
  <2>4. scored' = scored \cup Validation(fold)
    <3>1. CASE Validation(fold) = {}
      BY <2>3, <3>1 DEF KFold
    <3>2. CASE Validation(fold) # {}
      BY <1>1, <1>10, <2>3, <3>2 DEF KFold
    <3> QED BY <3>1, <3>2
  <2>5. CASE last
    <3>1. (0..(a - 1)) \cup (a..(samples - 1)) = 0..(samples - 1)
      BY <1>2, <2>2
    <3> QED BY <1>2, <1>3, <2>1, <2>4, <2>5, <3>1
  <2>6. CASE ~last
    <3>1. (0..(a - 1)) \cup (a..(a + s - 1)) = 0..(a + s - 1)
      BY <1>2
    <3> QED BY <1>2, <1>3, <2>1, <2>4, <2>6, <3>1
  <2> QED BY <2>5, <2>6
<1> QED BY <1>1, <1>5, <1>7, <1>8, <1>9, <1>10 DEF ScoredInOrder

\* Every sample is scored once, by a model that was not fitted on it (see
\* EachSampleOutOfSample), for every number of samples and folds.
THEOREM FoldsCorrect == FoldSpec => []EachSampleOutOfSample
<1>1. FoldInit => FoldInv
  <2> SUFFICES ASSUME FoldInit PROVE FoldInv
    OBVIOUS
  <2>1. /\ samples \in Nat /\ folds \in Nat \ {0} /\ fold = 0
        /\ scored = {} /\ rescored = {} /\ foldError = FALSE
    BY FoldsAssumption DEF FoldInit
  <2>3. FoldTypeOK
    <3>1. fold \in 0..folds
      BY <2>1
    <3>2. scored \subseteq 0..(samples - 1) /\ foldError \in BOOLEAN
      BY <2>1
    <3> QED BY <2>1, <3>1, <3>2 DEF FoldTypeOK
  <2>2. fold < folds /\ ValStart(fold) = 0
    BY <2>1, <2>3, FoldStarts
  <2> QED BY <2>1, <2>2, <2>3 DEF FoldInv, ScoredInOrder
<1>2. FoldInv /\ [FoldNext]_foldVars => FoldInv'
  <2>1. CASE UNCHANGED foldVars
    BY <2>1 DEF foldVars, FoldInv, FoldTypeOK, ScoredInOrder, ValStart, FoldSize
  <2> QED BY <2>1, KFoldStep DEF FoldNext
<1>3. FoldInv => EachSampleOutOfSample
  BY FoldsAreApart DEF FoldInv, FoldTypeOK, ScoredInOrder, EachSampleOutOfSample
<1> QED BY <1>1, <1>2, <1>3, PTL DEF FoldSpec

-----------------------------------------------------------------------------
(* The walk-forward folds.                                                 *)

\* Every nonempty set of natural numbers has a least element.
LEMMA LeastOf ==
  ASSUME NEW T, T \subseteq Nat, T # {}
  PROVE  \E x \in T : \A y \in T : x <= y
<1>1. PICK x \in T : \A y \in T : ~ (<<y, x>> \in OpToRel(<, Nat))
  BY NatLessThanWellFounded, WFMin
<1>2. \A y \in T : ~ (y < x)
  BY <1>1 DEF OpToRel
<1>3. x \in Nat /\ \A y \in T : y \in Nat
  OBVIOUS
<1>4. \A v, w \in Nat : ~ (w < v) => v <= w
  OBVIOUS
<1> QED BY <1>2, <1>3, <1>4

\* The test ends at the next change of the regime, or with the file.
LEMMA TestEnds ==
  ASSUME samples \in Nat, NEW i \in Changes
  PROVE  i \in 1..(samples - 1) /\ TestEnd(i) \in Nat /\ i < TestEnd(i) /\ TestEnd(i) <= samples
<1> DEFINE later == {e \in Changes \cup {samples} : e > i}
<1>1. i \in 1..(samples - 1) /\ \A c \in Changes : c \in Nat /\ c <= samples
  BY DEF Changes
<1>2. later # {} /\ later \subseteq Nat
  <2>1. samples > i
    BY <1>1
  <2> QED BY <1>1, <2>1
<1>3. PICK e \in later : \A c \in later : e <= c
  BY <1>2, LeastOf
<1>4. e \in Changes \cup {samples} /\ e > i /\ \A c \in Changes : c > i => e <= c
  BY <1>3
<1>5. TestEnd(i) \in Changes \cup {samples} /\ TestEnd(i) > i
  BY <1>4 DEF TestEnd
<1>6. \A c \in Changes \cup {samples} : c \in Nat /\ c <= samples
  BY <1>1
<1> QED BY <1>1, <1>5, <1>6

\* In the folds that are run, the fold's model sees no test row, and no return
\* into one, in training (see WalksForward), for every number of rows and every
\* look-back.
THEOREM WalksCorrect == FoldSpec => []WalksForward
<1> DEFINE RowsOK == samples \in Nat
<1>1. FoldInit => RowsOK
  BY FoldsAssumption DEF FoldInit
<1>2. RowsOK /\ [FoldNext]_foldVars => RowsOK'
  BY DEF FoldNext, KFold, foldVars
<1>3. RowsOK => WalksForward
  <2> SUFFICES ASSUME samples \in Nat, NEW i \in Changes, Run(i)
      PROVE /\ \A r \in RowsOfSlice(0, i) : \A b \in RowsBehind(r) : b >= 0 /\ b < i
            /\ \A r \in RowsOfSlice(i, TestEnd(i)) :
                 i <= r /\ r + 1 < TestEnd(i) /\ r \notin RowsOfSlice(0, i)
            /\ \A j \in 0..samples :
                 TestRow(i, j) \in RowsOfSlice(i, TestEnd(i)) => PriceRow(i, j) = TestRow(i, j)
    BY DEF WalksForward
  <2>1. /\ i \in 1..(samples - 1) /\ TestEnd(i) \in Nat /\ i < TestEnd(i) /\ TestEnd(i) <= samples
        /\ RowLookBack \in Nat
    BY TestEnds, FoldsAssumption
  <2>2. RowsOfSlice(0, i) = RowLookBack..(i - 2)
    BY <2>1 DEF RowsOfSlice, SliceStart
  <2>3. RowsOfSlice(i, TestEnd(i)) = (IF i > RowLookBack THEN i ELSE RowLookBack)..(TestEnd(i) - 2)
    BY <2>1 DEF RowsOfSlice, SliceStart
  <2>4. \A r \in RowsOfSlice(0, i) : \A b \in RowsBehind(r) : b >= 0 /\ b < i
    BY <2>1, <2>2 DEF RowsBehind
  <2>5. \A r \in RowsOfSlice(i, TestEnd(i)) :
          i <= r /\ r + 1 < TestEnd(i) /\ r \notin RowsOfSlice(0, i)
    BY <2>1, <2>2, <2>3
  <2>6. i >= RowLookBack
    <3>1. RowsOfSlice(0, i) # {}
      BY FS_EmptySet, FoldsAssumption DEF Run
    <3> QED BY <2>1, <2>2, <3>1
  <2>7. ASSUME NEW j \in 0..samples, TestRow(i, j) \in RowsOfSlice(i, TestEnd(i))
        PROVE  PriceRow(i, j) = TestRow(i, j)
    <3>1. TestRow(i, j) = i + j
      BY <2>1, <2>6, <2>7 DEF TestRow, SliceStart
    <3>2. i + j < samples
      BY <2>1, <2>3, <2>6, <2>7, <3>1
    <3> QED BY <3>1, <3>2 DEF PriceRow
  <2> QED BY <2>4, <2>5, <2>7
<1> HIDE DEF RowsOK
<1> QED BY <1>1, <1>2, <1>3, PTL DEF FoldSpec
=============================================================================
