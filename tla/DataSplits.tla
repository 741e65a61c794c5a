----------------------------- MODULE DataSplits -----------------------------
(***************************************************************************)
(* How the offline validation splits its data: the k-fold loop behind the  *)
(* calibration (quant_finance/calibration.py, _kfold_oos_logits) and the   *)
(* regime-aware folds of the walk-forward validation                       *)
(* (walk_forward_validator.py).  Samples and rows are numbered from 0.     *)
(***************************************************************************)
EXTENDS Integers, FiniteSets

CONSTANTS MaxSamples,      \* bound of the model
          FoldCounts,      \* the n_folds considered (5)
          Regimes,
          RowLookBack,     \* LOOK_BACK (20)
          MinTrain,        \* fewest rows a fold trains on (10)
          MinTest          \* and is tested on (5)

ASSUME FoldsAssumption == /\ MaxSamples \in Nat /\ RowLookBack \in Nat
                          /\ FoldCounts \subseteq Nat \ {0}
                          /\ {MinTrain, MinTest} \subseteq Nat \ {0}

VARIABLES samples, folds,  \* len(X), n_folds
          regime,          \* of each row of the walk-forward file
          fold,            \* the next k
          scored,          \* samples that have been given a logit
          rescored,        \* history: samples given a second one
          foldError        \* IndexError

foldVars == <<samples, folds, regime, fold, scored, rescored, foldError>>

FoldInit ==
  /\ samples \in 0..MaxSamples /\ folds \in FoldCounts
  /\ regime \in [0..(samples - 1) -> Regimes]
  /\ fold = 0 /\ scored = {} /\ rescored = {} /\ foldError = FALSE

FoldSize == IF samples \div folds = 0 THEN 1 ELSE samples \div folds
ValStart(k) == k * FoldSize
ValEnd(k) == IF k < folds - 1 THEN ValStart(k) + FoldSize ELSE samples
Validation(k) == ValStart(k)..(ValEnd(k) - 1)
TrainingToEnd(k) == (0..(ValStart(k) - 1)) \cup ((ValEnd(k) - 1)..(samples - 1))
Training(k) == (0..(ValStart(k) - 1)) \cup (ValEnd(k)..(samples - 1))

\* One round of the loop: a model fitted on the training samples scores the
\* others, of which some may not exist.
KFold ==
  /\ ~foldError /\ fold < folds
  /\ fold' = fold + 1
  /\ IF Training(fold) = {} \/ Validation(fold) = {}
     THEN UNCHANGED <<scored, rescored, foldError>>
     ELSE IF Validation(fold) \subseteq 0..(samples - 1)
     THEN /\ scored' = scored \cup Validation(fold)
          /\ rescored' = rescored \cup (scored \cap Validation(fold))
          /\ UNCHANGED foldError
     ELSE foldError' = TRUE /\ UNCHANGED <<scored, rescored>>
  /\ UNCHANGED <<samples, folds, regime>>

FoldNext == KFold

FoldSpec == FoldInit /\ [][FoldNext]_foldVars

-----------------------------------------------------------------------------
(* The walk-forward folds.                                                 *)

\* _build_folds: a fold is trained on all rows before a change of the regime,
\* and tested until the next change.
Changes == {i \in 1..(samples - 1) : regime[i] # regime[i - 1]}
TestEnd(i) == CHOOSE e \in (Changes \cup {samples}) :
                e > i /\ \A c \in Changes : c > i => e <= c

\* _extract_features_and_labels: which rows have features in a slice, and
\* which rows the features and the label of a row are computed from.
SliceStart(start) == IF start > RowLookBack THEN start - RowLookBack ELSE 0
RowsOfSliceToEnd(start, end) == (SliceStart(start) + RowLookBack)..(end - 1)
RowsOfSlice(start, end) == (SliceStart(start) + RowLookBack)..(end - 2)
RowsBehind(row) == (row - RowLookBack)..(row + 1)

\* run() skips folds with few rows.
Run(i) == /\ Cardinality(RowsOfSlice(0, i)) >= MinTrain
          /\ Cardinality(RowsOfSlice(i, TestEnd(i))) >= MinTest

\* The price the simulated trade of the i-th test sample is made at.
PriceRow(start, i) == IF start + i < samples THEN start + i ELSE samples - 1
TestRow(start, i) == SliceStart(start) + RowLookBack + i

-----------------------------------------------------------------------------
(* Properties.                                                             *)

\* Calibration sees every sample exactly once and never from a model fitted
\* on it, provided there are two folds and about one sample for each ("out-of-sample
\* raw_signal values", calibration.py:198).
EachSampleOutOfSample ==
  /\ rescored = {}
  /\ fold < folds => Training(fold) \cap Validation(fold) = {}
  /\ samples >= folds - 1 => ~foldError
  /\ fold = folds /\ ~foldError /\ samples > 1 /\ folds > 1 => scored = 0..(samples - 1)

\* In each fold that is run, the fold's model is not trained on a row, or on the
\* return into a row, of its test; every test row belongs to the fold; and
\* trades are made at the price of the row that was predicted, since a fold
\* whose test starts within the first LOOK_BACK rows is never run.  Given a
\* calibrator, run() scores with that instead of the fold's model (lines
\* 197-204); the rows it was fitted on are its caller's choice.
WalksForward ==
  \A i \in {c \in Changes : Run(c)} :
    LET train == RowsOfSlice(0, i)
        test == RowsOfSlice(i, TestEnd(i))
    IN /\ \A r \in train : \A b \in RowsBehind(r) : b >= 0 /\ b < i
       /\ \A r \in test : i <= r /\ r + 1 < TestEnd(i) /\ r \notin train
       /\ \A j \in 0..samples : TestRow(i, j) \in test => PriceRow(i, j) = TestRow(i, j)
=============================================================================
