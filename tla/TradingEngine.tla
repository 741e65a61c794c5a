---------------------------- MODULE TradingEngine ----------------------------
(***************************************************************************)
(* The live trading engine: the event loop of run_engine                   *)
(* (src/quant_finance/live_engine.py) with its circuit breaker             *)
(* (circuit_breaker.py), its broker gateway (broker_gateway.py), the feed  *)
(* (live_feed.py) and the broker's order book, which moves on its own.     *)
(*                                                                         *)
(* One action is one segment of the event loop between two awaits of a     *)
(* REST call, or one event outside the program.  Sizes and prices of       *)
(* orders are left out: a signal is the side of the order, and a position  *)
(* to which both sides have contributed may or may not be flat.            *)
(***************************************************************************)
EXTENDS CircuitBreaker, Sequences, FiniteSets

CONSTANTS
    Modes,           \* the RUN_MODEs considered: "LIVE", "REPLAY"
    Window,          \* ticks that fill the feature buffer (200)
    Equities,        \* the equities the account may report, StartingEquity one of them
    MaxOrders,       \* bound on the orders the broker accepts
    MaxDay           \* bound on the days

Sides == {"buy", "sell"}

ASSUME TradingAssumption ==
    /\ Modes \subseteq {"LIVE", "REPLAY"}
    /\ Window \in Nat \ {0}
    /\ Equities \subseteq Nat \ {0} /\ StartingEquity \in Equities
    /\ MaxOrders \in Nat /\ MaxDay \in Nat \ {0}
    /\ None \notin Sides \cup {"drawdown", "errors"}

VARIABLES
    mode,      \* run_mode
    state,     \* the engine's EngineState
    pc,        \* what the event loop awaits
    ticks,     \* ticks in the feature buffer
    side,      \* position_side
    pending,   \* the side of the order being executed, or None
    book,      \* the orders the broker accepted, in order
    feedDied   \* the feed has been declared dead at least once

engine == <<mode, state, pc, ticks, side, pending>>
vars == <<engine, breaker, day, book, feedDied>>

TypeOK ==
    /\ mode \in Modes
    /\ state \in {"WARMUP", "READY", "CIRCUIT_OPEN", "RECONNECTING"}
    /\ pc \in {"tick", "position", "order", "account", "cancel", "stopped"}
    /\ ticks \in 0..Window
    /\ side \in Sides \cup {None}
    /\ pending \in Sides \cup {None}
    /\ ready \in BOOLEAN
    /\ tripped \in {None, "drawdown", "errors"}
    /\ errors \in 0..MaxErrors
    /\ openSide \in Sides \cup {None}
    /\ {daily, equity} \subseteq Equities
    /\ {resetDay, day} \subseteq 0..MaxDay
    /\ book \in Seq([side : Sides, status : {"resting", "filled", "gone"}])
    /\ feedDied \in BOOLEAN

Init ==
    /\ mode \in Modes
    /\ state = "WARMUP"
    /\ pc = "tick"
    /\ ticks = 0
    /\ side = None
    /\ pending = None
    /\ NewBreaker
    /\ day = 1
    /\ book = <<>>
    /\ feedDied = FALSE

----------------------------------------------------------------------------
(* One tick *)

\* The tick that arrives is the last one the buffer needed, or a later one.
FullEarly == ticks + 2 >= Window
Full == ticks + 1 >= Window

WarmsUp == Full /\ state = "WARMUP"

\* Every tick ends a reconnection and enters the buffer; the one that fills the
\* buffer ends the warm-up, if the engine still is in it.
TakeTick ==
    /\ pc = "tick"
    /\ ticks' = IF ticks < Window THEN ticks + 1 ELSE ticks
    /\ ready' = (ready \/ WarmsUp)

Resumed == IF WarmsUp \/ state = "RECONNECTING" THEN "READY" ELSE state

\* No features yet, no signal, or an order refused for warm-up, market hours or
\* an open position.
TickWithoutOrder ==
    /\ TakeTick
    /\ state' = Resumed
    /\ UNCHANGED <<mode, pc, side, pending, tripped, errors, openSide, account,
                   day, book, feedDied>>

\* approve() refuses an order: TRIPPED.
TickRefused ==
    /\ TakeTick
    /\ Full
    /\ ready' /\ tripped # None
    /\ state' = "CIRCUIT_OPEN"
    /\ UNCHANGED <<mode, pc, side, pending, tripped, errors, openSide, account,
                   day, book, feedDied>>

\* LIVE: an order of side s is approved, and submit() asks for the position.
TickSubmitted(s) ==
    /\ mode = "LIVE"
    /\ TakeTick
    /\ Full
    /\ Approve(s)
    /\ state' = Resumed
    /\ pc' = "position"
    /\ pending' = s
    /\ UNCHANGED <<mode, side, tripped, errors, openSide, account, day, book,
                   feedDied>>

\* REPLAY: an order of side s is approved and filled at once, closing the
\* position or taking its place; the breaker is not told the new side.
TickSimulated(s) ==
    /\ mode = "REPLAY"
    /\ TakeTick
    /\ Full
    /\ Approve(s)
    /\ state' = Resumed
    /\ \/ /\ side \notin {None, s}
          /\ side' = None
          /\ \E e \in Equities : UpdateEquity(e)
       \/ /\ side \in {None, s}
          /\ side' = s
          /\ UNCHANGED <<tripped, account>>
    /\ SetPositionOpen(None)
    /\ UNCHANGED <<mode, pc, pending, errors, day, book, feedDied>>

----------------------------------------------------------------------------
(* Executing an order, LIVE *)

Filled == {book[i].side : i \in {j \in DOMAIN book : book[j].status = "filled"}}

\* get_position returned one, as it may as soon as an order has filled:
\* "blocked_open_position".
PositionFound ==
    /\ pc = "position"
    /\ Filled # {}
    /\ pc' = "tick"
    /\ pending' = None
    /\ errors' = 0
    /\ UNCHANGED <<mode, state, ticks, side, ready, tripped, openSide, account,
                   day, book, feedDied>>

\* get_position returned none: nothing has filled, or buys and sells cancel out.
PositionNotFound ==
    /\ pc = "position"
    /\ Filled \in {{}, Sides}
    /\ pc' = "order"
    /\ UNCHANGED <<mode, state, ticks, side, pending, breaker, day, book,
                   feedDied>>

\* The broker accepts the order.  The engine takes it for filled, as an exit or
\* reversal or as an entry, and asks for the account.
OrderAccepted ==
    /\ pc = "order"
    /\ Len(book) < MaxOrders
    /\ book' = Append(book, [side |-> pending, status |-> "resting"])
    /\ LET held == IF side \notin {None, pending} THEN None ELSE pending
       IN side' = held /\ SetPositionOpen(held)
    /\ pc' = "account"
    /\ UNCHANGED <<mode, state, ticks, pending, ready, tripped, errors, account,
                   day, feedDied>>

\* The broker accepts the order and the answer never comes: nobody catches the
\* timeout, and run_engine ends.
OrderLost ==
    /\ pc = "order"
    /\ Len(book) < MaxOrders
    /\ book' = Append(book, [side |-> pending, status |-> "resting"])
    /\ pc' = "stopped"
    /\ UNCHANGED <<mode, state, ticks, side, pending, breaker, day, feedDied>>

\* The broker refuses the order: "error_http_...".
OrderRejected ==
    /\ pc = "order"
    /\ errors' = errors + 1
    /\ TripOnError
    /\ pc' = "tick"
    /\ pending' = None
    /\ UNCHANGED <<mode, state, ticks, side, ready, openSide, account, day,
                   book, feedDied>>

\* The account arrives, or the query fails; either way the errors are cleared,
\* the order having gone through.
AccountArrives ==
    /\ pc = "account"
    /\ \/ \E e \in Equities : UpdateEquity(e)
       \/ TripOnError /\ UNCHANGED account
    /\ errors' = 0
    /\ pc' = "tick"
    /\ pending' = None
    /\ UNCHANGED <<mode, state, ticks, side, ready, openSide, day, book,
                   feedDied>>

----------------------------------------------------------------------------
(* The feed *)

\* No tick for five seconds: _on_dead_feed, up to cancel_all_orders.
DeadFeed ==
    /\ mode = "LIVE"
    /\ pc = "tick"
    /\ state' = "RECONNECTING"
    /\ SetPositionOpen(None)
    /\ feedDied' = TRUE
    /\ pc' = "cancel"
    /\ UNCHANGED <<mode, ticks, side, pending, ready, tripped, errors, account,
                   day, book>>

\* The resting orders end up cancelled or expired.
WithoutResting ==
    [i \in DOMAIN book |->
        IF book[i].status = "resting" THEN [book[i] EXCEPT !.status = "gone"]
        ELSE book[i]]

\* cancel_all_orders cancels the resting orders, or fails and says so on the
\* console.
Cancelled ==
    /\ pc = "cancel"
    /\ book' \in {book, WithoutResting}
    /\ pc' = "tick"
    /\ UNCHANGED <<mode, state, ticks, side, pending, breaker, day, feedDied>>

\* run_engine ends: the replay is over, or the feed, get_position or the order
\* raised something nobody catches.
Stop ==
    /\ pc \in {"tick", "position", "order"}
    /\ pc' = "stopped"
    /\ UNCHANGED <<mode, state, ticks, side, pending, breaker, day, book,
                   feedDied>>

----------------------------------------------------------------------------
(* Outside the program *)

\* A resting order fills.
Fill ==
    /\ \E i \in DOMAIN book :
         /\ book[i].status = "resting"
         /\ book' = [book EXCEPT ![i].status = "filled"]
    /\ UNCHANGED <<engine, breaker, day, feedDied>>

\* Midnight; orders are good for the day.
NewDay ==
    /\ day < MaxDay
    /\ day' = day + 1
    /\ book' = WithoutResting
    /\ UNCHANGED <<engine, breaker, feedDied>>

----------------------------------------------------------------------------

Next ==
    \/ TickWithoutOrder
    \/ TickRefused
    \/ \E s \in Sides : TickSubmitted(s) \/ TickSimulated(s)
    \/ PositionFound
    \/ PositionNotFound
    \/ OrderAccepted
    \/ OrderLost
    \/ OrderRejected
    \/ AccountArrives
    \/ DeadFeed
    \/ Cancelled
    \/ Stop
    \/ Fill
    \/ NewDay
    \/ pc = "stopped" /\ UNCHANGED vars

Spec == Init /\ [][Next]_vars

----------------------------------------------------------------------------
(* Properties *)

\* No order is approved, sent or filled before the buffer is full ("no orders
\* before 200-tick buffer fills"), whatever the feed does meanwhile.
NoOrderBeforeWarm ==
    side # None \/ pending # None \/ book # <<>> => ticks = Window

\* A drawdown beyond the day's limit, or MaxErrors errors in a row, leave the
\* breaker tripped, across orders, account queries and days.
BreachTrips ==
    Breach(daily, equity) \/ errors >= MaxErrors => tripped # None

\* While the breaker is tripped the engine sends no order: whatever trips it, no
\* order is on its way between approve() and the broker, nor is one approved
\* later.
NothingSentWhileTripped ==
    [][tripped # None => Len(book') <= Len(book)]_vars

\* "CIRCUIT_OPEN -> READY (daily reset at midnight)": no order is refused on
\* account of a drawdown of an earlier day.
TripEndsAtMidnight ==
    [][TickRefused /\ tripped = "drawdown" => resetDay = day]_vars

\* The orders of side s that have filled or still may.
Live(s) == {i \in DOMAIN book : book[i].side = s /\ book[i].status # "gone"}

Net == Cardinality(Live("buy")) - Cardinality(Live("sell"))

\* Until the feed first dies or an order expires, the running engine, the breaker and
\* the broker agree on the position: no interleaving of refusals, errors, fills
\* and account failures makes the engine enter twice in one direction, or take
\* an entry for an exit.
BooksAgree ==
    /\ mode = "LIVE" /\ pc # "stopped" /\ ~feedDied
    /\ \A i \in DOMAIN book : book[i].status # "gone"
    =>
        /\ openSide = side
        /\ Net = (CASE side = "buy" -> 1 [] side = "sell" -> -1 [] OTHER -> 0)

\* "Open Position Guard -- prevents double-entry on reconnect race": at most
\* one entry is outstanding.
NoDoubleEntry == Net \in -1..1

\* "WARMUP -> READY (200-tick buffer filled)": an engine that is READY with a
\* full buffer has a breaker that lets orders through its warm-up guard.
ReadyMeansArmed == state = "READY" /\ ticks = Window => ready
============================================================================
