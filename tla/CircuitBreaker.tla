---------------------------- MODULE CircuitBreaker ----------------------------
(***************************************************************************)
(* The circuit breaker of the trading system                               *)
(* (quant_finance/circuit_breaker.py): what its mutators do and what       *)
(* approve() demands.  It has no step of its own: whoever holds a breaker, *)
(* the engine or a session judged by the pre-flight gate, takes these      *)
(* operators into its actions.                                             *)
(***************************************************************************)
EXTENDS Integers

CONSTANTS
    MaxErrors,       \* consecutive errors that trip the breaker (3)
    DDLimit,         \* drawdown that trips the breaker, in percent (2)
    StartingEquity,
    None

ASSUME BreakerAssumption ==
    MaxErrors \in Nat \ {0} /\ DDLimit \in Nat \ {0} /\ StartingEquity \in Nat \ {0}

VARIABLES
    ready,     \* _buffer_ready
    tripped,   \* why it is TRIPPED, or None
    errors,    \* _consec_errors
    openSide,  \* _open_side, None if no open position is recorded
    daily,     \* _daily_equity
    equity,    \* _cur_equity
    resetDay,  \* _last_reset_day, 0 before the first reset
    day        \* the date

account == <<daily, equity, resetDay>>
breaker == <<ready, tripped, errors, openSide, account>>

NewBreaker ==
    /\ ready = FALSE
    /\ tripped = None
    /\ errors = 0
    /\ openSide = None
    /\ daily = StartingEquity
    /\ equity = StartingEquity
    /\ resetDay = 0

\* dd >= _dd_limit, for an equity of e on a day that began with d.
BreachEarly(d, e) == (d - e) * 100 >= (DDLimit - 1) * d
Breach(d, e) == (d - e) * 100 >= DDLimit * d

\* _daily_reset(): the first update of a day takes the last equity for its
\* base, and clears a trip that a drawdown caused.
Base == IF resetDay # day THEN equity ELSE daily
StillTripped == IF resetDay # day /\ tripped = "drawdown" THEN None ELSE tripped

\* update_equity(e): the daily reset, then the drawdown guard.
UpdateEquity(e) ==
    /\ resetDay' = day
    /\ daily' = Base
    /\ equity' = e
    /\ tripped' = IF StillTripped = None /\ Breach(Base, e) THEN "drawdown"
                  ELSE StillTripped

\* record_error(), but for the count, which the callers may clear at once.
TripLate ==
    tripped' = IF tripped = None /\ errors + 1 > MaxErrors THEN "errors"
               ELSE tripped
TripOnError ==
    tripped' = IF tripped = None /\ errors + 1 >= MaxErrors THEN "errors"
               ELSE tripped

\* set_position_open(TRUE, s), or set_position_open(FALSE) if s is None.
SetPositionOpen(s) == openSide' = s

\* What approve() demands of an order of side s, besides the market hours.  The
\* sizes the router asks for never violate the quantity guards.
ApproveTripped(s) == ready' /\ openSide # s
ApproveSameSide(s) == ready' /\ tripped = None
Approve(s) == ready' /\ tripped = None /\ openSide # s
=============================================================================
