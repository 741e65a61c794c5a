------------------------- MODULE TradingEngineProofs -------------------------
(***************************************************************************)
(* Theorems about TradingEngine, for every buffer size, error limit,       *)
(* drawdown limit, set of equities and number of orders and days.          *)
(*                                                                         *)
(* All rest on the places where the event loop may be: while it executes   *)
(* an order the breaker is not tripped, because approve() has let the      *)
(* order through and nothing else runs on the loop meanwhile.              *)
(*                                                                         *)
(* At the end, the two components the engine is fed by and hands its ticks *)
(* to: the sessions of the feed (FeedSession) and the drift monitor        *)
(* (SignalRouter).                                                         *)
(***************************************************************************)
EXTENDS TradingEngine, FeedSession, SignalRouter, FiniteSetTheorems, TLAPS

----------------------------------------------------------------------------
(* The breaker *)

\* Where the event loop executes an approved order.
Executing == pc \in {"position", "order", "account"}

\* The inductive invariant: the types the breaker's arithmetic needs, no trip
\* while an order is executed, and what BreachTrips says.
BreakerInv ==
    /\ errors \in Nat
    /\ Executing => tripped = None
    /\ BreachTrips

\* The engine starts with no error and no drawdown.
LEMMA BreakerInit == Init => BreakerInv
<1> SUFFICES ASSUME Init PROVE BreakerInv
  OBVIOUS
<1> USE DEF Init, NewBreaker
<1>1. StartingEquity \in Nat \ {0} /\ DDLimit \in Nat \ {0} /\ MaxErrors \in Nat \ {0}
  BY TradingAssumption, BreakerAssumption
<1>2. DDLimit * StartingEquity > 0
  BY <1>1
<1>3. ~Breach(daily, equity)
  BY <1>1, <1>2 DEF Breach
<1>4. ~(errors >= MaxErrors)
  BY <1>1
<1> QED
  BY <1>3, <1>4 DEF BreakerInv, BreachTrips, Executing

\* update_equity leaves the breaker tripped if the day's drawdown is too large.
LEMMA UpdateTrips ==
    ASSUME NEW e, UpdateEquity(e)
    PROVE  Breach(daily', equity') => tripped' # None
<1>1. None # "drawdown"
  BY TradingAssumption, BreakerAssumption
<1> QED
  BY <1>1 DEF UpdateEquity, Base, StillTripped

\* A trip for errors or for a drawdown is a trip.
LEMMA ErrorTrips ==
    ASSUME TripOnError, errors \in Nat
    PROVE  /\ errors + 1 >= MaxErrors => tripped' # None
           /\ tripped # None => tripped' # None
<1>1. None # "errors"
  BY TradingAssumption, BreakerAssumption
<1> QED
  BY <1>1 DEF TripOnError

\* Every step preserves the invariant.
LEMMA BreakerNext == BreakerInv /\ [Next]_vars => BreakerInv'
<1> SUFFICES ASSUME BreakerInv, [Next]_vars PROVE BreakerInv'
  OBVIOUS
<1>0. errors \in Nat /\ MaxErrors \in Nat \ {0}
  BY TradingAssumption, BreakerAssumption DEF BreakerInv
<1> USE DEF BreakerInv, BreachTrips, Executing
<1>1. CASE TickWithoutOrder
  BY <1>0, <1>1 DEF TickWithoutOrder, TakeTick, account, Breach
<1>2. CASE TickRefused
  BY <1>0, <1>2 DEF TickRefused, TakeTick, account, Breach
<1>3. ASSUME NEW s \in Sides, TickSubmitted(s) PROVE BreakerInv'
  BY <1>0, <1>3 DEF TickSubmitted, TakeTick, Approve, account, Breach
<1>4. ASSUME NEW s \in Sides, TickSimulated(s) PROVE BreakerInv'
  <2>1. pc' = "tick" /\ errors' = errors /\ tripped = None
    BY <1>4 DEF TickSimulated, TakeTick, Approve
  <2>2. ~(errors >= MaxErrors)
    BY <2>1
  <2>3. CASE \E e \in Equities : UpdateEquity(e)
    BY <2>1, <2>2, <2>3, UpdateTrips
  <2>4. CASE UNCHANGED <<tripped, account>>
    BY <2>1, <2>2, <2>4 DEF account, Breach
  <2> QED
    BY <1>4, <2>3, <2>4 DEF TickSimulated
<1>5. CASE PositionFound
  BY <1>0, <1>5 DEF PositionFound, account, Breach
<1>6. CASE PositionNotFound
  BY <1>0, <1>6 DEF PositionNotFound, breaker, account, Breach
<1>7. CASE OrderAccepted
  BY <1>0, <1>7 DEF OrderAccepted, account, Breach
<1>8. CASE OrderRejected
  <2>1. pc' = "tick" /\ errors' = errors + 1 /\ TripOnError /\ UNCHANGED account
    BY <1>8 DEF OrderRejected
  <2> QED
    BY <1>0, <2>1, ErrorTrips DEF account, Breach
<1>9. CASE AccountArrives
  <2>1. pc' = "tick" /\ errors' = 0
    BY <1>9 DEF AccountArrives
  <2>2. ~(errors' >= MaxErrors)
    BY <1>0, <2>1
  <2>3. CASE \E e \in Equities : UpdateEquity(e)
    BY <2>1, <2>2, <2>3, UpdateTrips
  <2>4. CASE TripOnError /\ UNCHANGED account
    BY <1>0, <2>1, <2>2, <2>4, ErrorTrips DEF account, Breach
  <2> QED
    BY <1>9, <2>3, <2>4 DEF AccountArrives
<1>10. CASE DeadFeed
  BY <1>0, <1>10 DEF DeadFeed, account, Breach
<1>11. CASE Cancelled
  BY <1>0, <1>11 DEF Cancelled, breaker, account, Breach
<1>12. CASE Stop
  BY <1>0, <1>12 DEF Stop, breaker, account, Breach
<1>13. CASE Fill
  BY <1>0, <1>13 DEF Fill, engine, breaker, account, Breach
<1>14. CASE NewDay
  BY <1>0, <1>14 DEF NewDay, engine, breaker, account, Breach
<1>15. CASE UNCHANGED vars
  BY <1>0, <1>15 DEF vars, engine, breaker, account, Breach
<1>16. CASE OrderLost
  BY <1>0, <1>16 DEF OrderLost, breaker, account, Breach
<1> QED
  BY <1>1, <1>2, <1>3, <1>4, <1>5, <1>6, <1>7, <1>8, <1>9, <1>10, <1>11,
     <1>12, <1>13, <1>14, <1>15, <1>16 DEF Next

\* The invariant always holds.
LEMMA BreakerCorrect == Spec => []BreakerInv
BY BreakerInit, BreakerNext, PTL DEF Spec

\* A drawdown beyond the limit or too many errors in a row always leave the
\* breaker tripped (update_equity, record_error).
THEOREM BreachTripsCorrect == Spec => []BreachTrips
BY BreakerCorrect, PTL DEF BreakerInv

----------------------------------------------------------------------------
(* Types *)

Order == [side : Sides, status : {"resting", "filled", "gone"}]

\* Cancelling or expiring the resting orders leaves a book of the same length.
LEMMA WithoutRestingType ==
    ASSUME book \in Seq(Order)
    PROVE  WithoutResting \in Seq(Order) /\ Len(WithoutResting) = Len(book)
<1>1. DOMAIN book = 1..Len(book) /\ Len(book) \in Nat
  OBVIOUS
<1>2. ASSUME NEW i \in DOMAIN book
      PROVE  (IF book[i].status = "resting"
              THEN [book[i] EXCEPT !.status = "gone"] ELSE book[i]) \in Order
  <2>1. book[i] \in Order
    BY <1>1
  <2> QED
    BY <2>1 DEF Order
<1>3. WithoutResting \in [1..Len(book) -> Order]
  BY <1>1, <1>2 DEF WithoutResting
<1>4. WithoutResting \in Seq(Order)
  BY <1>1, <1>3
<1>5. DOMAIN WithoutResting = 1..Len(book)
  BY <1>1 DEF WithoutResting
<1>6. DOMAIN WithoutResting = 1..Len(WithoutResting) /\ Len(WithoutResting) \in Nat
  BY <1>4
<1> QED
  BY <1>1, <1>4, <1>5, <1>6

\* So does the filling of an order.
LEMMA FillType ==
    ASSUME book \in Seq(Order), NEW i \in DOMAIN book,
           book' = [book EXCEPT ![i].status = "filled"]
    PROVE  book' \in Seq(Order) /\ Len(book') = Len(book)
<1> DEFINE o == [book[i] EXCEPT !.status = "filled"]
<1>1. book[i] \in Order
  OBVIOUS
<1>2. o \in Order
  BY <1>1 DEF Order
<1>3. book' = [book EXCEPT ![i] = o]
  OBVIOUS
<1> HIDE DEF o
<1> QED
  BY <1>2, <1>3

\* An order joins the book.
LEMMA AppendType ==
    ASSUME book \in Seq(Order), NEW s \in Sides
    PROVE  /\ Append(book, [side |-> s, status |-> "resting"]) \in Seq(Order)
           /\ Append(book, [side |-> s, status |-> "resting"]) # <<>>
<1>1. [side |-> s, status |-> "resting"] \in Order
  BY DEF Order
<1> QED
  BY <1>1

\* What the invariant about types needs besides TypeOK: an order is being
\* executed only with a side.
TypeInv ==
    /\ TypeOK
    /\ pc \in {"position", "order"} => pending # None

\* update_equity keeps the types of the account.
LEMMA UpdateType ==
    ASSUME TypeOK, NEW e \in Equities, UpdateEquity(e)
    PROVE  /\ {daily', equity'} \subseteq Equities
           /\ resetDay' \in 0..MaxDay
           /\ tripped' \in {None, "drawdown", "errors"}
BY DEF TypeOK, UpdateEquity, Base, StillTripped

LEMMA TypeInit == Init => TypeInv
<1> SUFFICES ASSUME Init PROVE TypeInv
  OBVIOUS
<1>1. /\ StartingEquity \in Equities
      /\ Window \in Nat \ {0} /\ MaxErrors \in Nat \ {0} /\ MaxDay \in Nat \ {0}
  BY TradingAssumption, BreakerAssumption
<1>2. ticks \in 0..Window /\ errors \in 0..MaxErrors
  BY <1>1 DEF Init, NewBreaker
<1>3. {resetDay, day} \subseteq 0..MaxDay
  BY <1>1 DEF Init, NewBreaker
<1>4. book \in Seq(Order)
  BY DEF Init, NewBreaker
<1> QED
  BY <1>1, <1>2, <1>3, <1>4 DEF Init, NewBreaker, TypeInv, TypeOK, Order

\* Every step preserves the types.
LEMMA TypeNext == TypeInv /\ BreakerInv /\ [Next]_vars => TypeInv'
<1> SUFFICES ASSUME TypeInv, BreakerInv, [Next]_vars PROVE TypeInv'
  OBVIOUS
<1>0. /\ MaxErrors \in Nat \ {0} /\ Window \in Nat \ {0}
      /\ MaxDay \in Nat \ {0} /\ None \notin Sides
  BY TradingAssumption, BreakerAssumption
<1>a. book \in Seq(Order)
  BY DEF TypeInv, TypeOK, Order
<1>b. ASSUME TakeTick
      PROVE  ticks' \in 0..Window /\ ready' \in BOOLEAN /\ pc = "tick"
  <2>1. ticks' \in 0..Window /\ pc = "tick"
    BY <1>0, <1>b DEF TakeTick, TypeInv, TypeOK
  <2>2. ready' \in BOOLEAN
    BY <1>b DEF TakeTick
  <2> QED
    BY <2>1, <2>2
<1>c. Resumed \in {"WARMUP", "READY", "CIRCUIT_OPEN", "RECONNECTING"}
  BY DEF Resumed, TypeInv, TypeOK
<1> USE DEF TypeInv, TypeOK
<1>1. CASE TickWithoutOrder
  BY <1>b, <1>c, <1>1 DEF TickWithoutOrder, account
<1>2. CASE TickRefused
  BY <1>b, <1>2 DEF TickRefused, account
<1>3. ASSUME NEW s \in Sides, TickSubmitted(s) PROVE TypeInv'
  BY <1>0, <1>b, <1>c, <1>3 DEF TickSubmitted, account
<1>4. ASSUME NEW s \in Sides, TickSimulated(s) PROVE TypeInv'
  <2>1. /\ TakeTick
        /\ state' = Resumed
        /\ side' \in Sides \cup {None}
        /\ openSide' = None
        /\ UNCHANGED <<mode, pc, pending, errors, day, book, feedDied>>
    BY <1>4 DEF TickSimulated, SetPositionOpen
  <2>2. /\ {daily', equity'} \subseteq Equities
        /\ resetDay' \in 0..MaxDay
        /\ tripped' \in {None, "drawdown", "errors"}
    <3>1. CASE \E e \in Equities : UpdateEquity(e)
      BY <3>1, UpdateType
    <3>2. CASE UNCHANGED <<tripped, account>>
      BY <3>2 DEF account
    <3> QED
      BY <1>4, <3>1, <3>2 DEF TickSimulated
  <2> QED
    BY <1>b, <1>c, <2>1, <2>2
<1>5. CASE PositionFound
  BY <1>0, <1>5 DEF PositionFound, account
<1>6. CASE PositionNotFound
  BY <1>6 DEF PositionNotFound, breaker, account
<1>7. CASE OrderAccepted
  <2>1. pending \in Sides
    BY <1>7 DEF OrderAccepted
  <2>2. book' \in Seq(Order)
    BY <1>a, <1>7, <2>1, AppendType DEF OrderAccepted
  <2>3. side' \in Sides \cup {None} /\ openSide' \in Sides \cup {None}
    BY <1>7, <2>1 DEF OrderAccepted, SetPositionOpen
  <2> QED
    BY <1>7, <2>2, <2>3 DEF OrderAccepted, account, Order
<1>8. CASE OrderRejected
  <2>1. errors' \in 0..MaxErrors
    BY <1>0, <1>8 DEF OrderRejected, BreakerInv, Executing, BreachTrips
  <2>2. tripped' \in {None, "drawdown", "errors"}
    BY <1>8 DEF OrderRejected, TripOnError
  <2> QED
    BY <1>8, <2>1, <2>2 DEF OrderRejected, account
<1>9. CASE AccountArrives
  <2>1. /\ {daily', equity'} \subseteq Equities
        /\ resetDay' \in 0..MaxDay
        /\ tripped' \in {None, "drawdown", "errors"}
    <3>1. CASE \E e \in Equities : UpdateEquity(e)
      BY <3>1, UpdateType
    <3>2. CASE TripOnError /\ UNCHANGED account
      BY <3>2 DEF account, TripOnError
    <3> QED
      BY <1>9, <3>1, <3>2 DEF AccountArrives
  <2> QED
    BY <1>0, <1>9, <2>1 DEF AccountArrives
<1>10. CASE DeadFeed
  BY <1>10 DEF DeadFeed, account, SetPositionOpen
<1>11. CASE Cancelled
  <2>1. book' \in Seq(Order)
    BY <1>a, <1>11, WithoutRestingType DEF Cancelled
  <2> QED
    BY <1>11, <2>1 DEF Cancelled, breaker, account, Order
<1>12. CASE Stop
  BY <1>12 DEF Stop, breaker, account
<1>13. CASE Fill
  <2>1. book' \in Seq(Order)
    BY <1>a, <1>13, FillType DEF Fill
  <2> QED
    BY <1>13, <2>1 DEF Fill, engine, breaker, account, Order
<1>14. CASE NewDay
  <2>1. book' \in Seq(Order)
    BY <1>a, <1>14, WithoutRestingType DEF NewDay
  <2>2. day' \in 0..MaxDay
    BY <1>0, <1>14 DEF NewDay
  <2> QED
    BY <1>14, <2>1, <2>2 DEF NewDay, engine, breaker, account, Order
<1>15. CASE UNCHANGED vars
  BY <1>15 DEF vars, engine, breaker, account
<1>16. CASE OrderLost
  <2>1. book' \in Seq(Order)
    BY <1>a, <1>16, AppendType DEF OrderLost
  <2> QED
    BY <1>16, <2>1 DEF OrderLost, breaker, account, Order
<1> QED
  BY <1>1, <1>2, <1>3, <1>4, <1>5, <1>6, <1>7, <1>8, <1>9, <1>10, <1>11,
     <1>12, <1>13, <1>14, <1>15, <1>16 DEF Next

\* Both inductive invariants always hold.
LEMMA InvCorrect == Spec => [](TypeInv /\ BreakerInv)
BY TypeInit, TypeNext, BreakerInit, BreakerNext, PTL DEF Spec

\* The variables of the engine, its breaker and the broker have their types.
THEOREM TypeCorrect == Spec => []TypeOK
BY InvCorrect, PTL DEF TypeInv

----------------------------------------------------------------------------
(* Nothing is sent while the breaker is tripped *)

\* A step taken when the breaker has tripped sends nothing.
LEMMA NothingSentStep ==
    ASSUME TypeInv, BreakerInv, [Next]_vars, tripped # None
    PROVE  Len(book') <= Len(book)
<1>0. Len(book) \in Nat /\ book \in Seq(Order)
  BY DEF TypeInv, TypeOK, Order
<1>1. ~Executing
  BY DEF BreakerInv
<1>2. CASE TickWithoutOrder
  BY <1>0, <1>2 DEF TickWithoutOrder
<1>3. CASE TickRefused
  BY <1>0, <1>3 DEF TickRefused
<1>4. ASSUME NEW s \in Sides, TickSubmitted(s) \/ TickSimulated(s) PROVE FALSE
  BY <1>4 DEF TickSubmitted, TickSimulated, Approve
<1>5. ~(PositionFound \/ PositionNotFound \/ OrderAccepted \/ OrderLost
        \/ OrderRejected \/ AccountArrives)
  BY <1>1 DEF Executing, PositionFound, PositionNotFound, OrderAccepted,
              OrderLost, OrderRejected, AccountArrives
<1>6. CASE DeadFeed
  BY <1>0, <1>6 DEF DeadFeed
<1>7. CASE Cancelled
  BY <1>0, <1>7, WithoutRestingType DEF Cancelled, breaker
<1>8. CASE Stop
  BY <1>0, <1>8 DEF Stop, breaker
<1>9. CASE Fill
  BY <1>0, <1>9, FillType DEF Fill, breaker
<1>10. CASE NewDay
  BY <1>0, <1>10, WithoutRestingType DEF NewDay, breaker
<1>11. CASE UNCHANGED vars
  BY <1>0, <1>11 DEF vars, breaker
<1> QED
  BY <1>2, <1>3, <1>4, <1>5, <1>6, <1>7, <1>8, <1>9, <1>10, <1>11 DEF Next

\* While the breaker is tripped no order is sent: an order on its way between
\* approve() and the broker means that the breaker is not tripped, whatever the
\* broker answers and the account is worth (approve, update_equity,
\* record_error, run_engine).
THEOREM NothingSentCorrect == Spec => NothingSentWhileTripped
<1>1. TypeInv /\ BreakerInv /\ [Next]_vars
        => [tripped # None => Len(book') <= Len(book)]_vars
  BY NothingSentStep
<1> QED
  BY <1>1, InvCorrect, PTL DEF Spec, NothingSentWhileTripped

----------------------------------------------------------------------------
(* Warm-up *)

\* The inductive invariant: whatever lets an order through, or shows that one
\* went through, has seen the buffer full.
WarmInv ==
    /\ ready \/ Executing \/ side # None \/ pending # None => ticks = Window
    /\ book # <<>> => ticks = Window

LEMMA WarmInit == Init => WarmInv
BY DEF Init, NewBreaker, WarmInv, Executing

\* Every step preserves the invariant; the buffer never becomes less full.
LEMMA WarmNext == TypeInv /\ WarmInv /\ [Next]_vars => WarmInv'
<1> SUFFICES ASSUME TypeInv, WarmInv, [Next]_vars PROVE WarmInv'
  OBVIOUS
<1>0. Window \in Nat \ {0} /\ ticks \in 0..Window /\ book \in Seq(Order)
  BY TradingAssumption, BreakerAssumption DEF TypeInv, TypeOK, Order
<1>a. ASSUME TakeTick
      PROVE  /\ ticks = Window => ticks' = Window
             /\ Full => ticks' = Window
             /\ ready' => ready \/ Full
  <2>1. (ticks = Window => ticks' = Window) /\ (Full => ticks' = Window)
    BY <1>0, <1>a DEF TakeTick, Full
  <2>2. ready' => ready \/ Full
    BY <1>a, Zenon DEF TakeTick, WarmsUp
  <2> QED
    BY <2>1, <2>2
<1>b. WithoutResting # <<>> => book # <<>>
  <2>1. WithoutResting \in Seq(Order) /\ Len(WithoutResting) = Len(book)
    BY <1>0, WithoutRestingType
  <2> QED
    BY <1>0, <2>1
<1> USE DEF WarmInv, Executing
<1>1. CASE TickWithoutOrder
  BY <1>a, <1>1 DEF TickWithoutOrder
<1>2. CASE TickRefused
  BY <1>a, <1>2 DEF TickRefused
<1>3. ASSUME NEW s \in Sides, TickSubmitted(s) PROVE WarmInv'
  BY <1>a, <1>3 DEF TickSubmitted
<1>4. ASSUME NEW s \in Sides, TickSimulated(s) PROVE WarmInv'
  BY <1>a, <1>4 DEF TickSimulated
<1>5. CASE PositionFound
  BY <1>5 DEF PositionFound
<1>6. CASE PositionNotFound
  BY <1>6 DEF PositionNotFound, breaker
<1>7. CASE OrderAccepted
  BY <1>7 DEF OrderAccepted
<1>8. CASE OrderRejected
  BY <1>8 DEF OrderRejected
<1>9. CASE AccountArrives
  BY <1>9 DEF AccountArrives
<1>10. CASE DeadFeed
  BY <1>10 DEF DeadFeed
<1>11. CASE Cancelled
  BY <1>b, <1>11 DEF Cancelled, breaker
<1>12. CASE Stop
  BY <1>12 DEF Stop, breaker
<1>13. CASE Fill
  <2>1. book # <<>>
    BY <1>0, <1>13 DEF Fill
  <2> QED
    BY <1>13, <2>1 DEF Fill, engine, breaker
<1>14. CASE NewDay
  BY <1>b, <1>14 DEF NewDay, engine, breaker
<1>15. CASE UNCHANGED vars
  BY <1>15 DEF vars, engine, breaker
<1>16. CASE OrderLost
  BY <1>16 DEF OrderLost, breaker
<1> QED
  BY <1>1, <1>2, <1>3, <1>4, <1>5, <1>6, <1>7, <1>8, <1>9, <1>10, <1>11,
     <1>12, <1>13, <1>14, <1>15, <1>16 DEF Next

\* No order is approved, sent or filled before the buffer is full, whenever the
\* feed dies or resumes (run_engine, set_buffer_ready, approve).
THEOREM NoOrderBeforeWarmCorrect == Spec => []NoOrderBeforeWarm
<1>1. WarmInv => NoOrderBeforeWarm
  BY DEF WarmInv, NoOrderBeforeWarm
<1> QED
  BY <1>1, WarmInit, WarmNext, InvCorrect, PTL DEF Spec

----------------------------------------------------------------------------
(* The books *)

\* What the books must agree under: the engine runs live, its feed has not died
\* and no order has expired.
Undisturbed ==
    /\ mode = "LIVE" /\ pc # "stopped" /\ ~feedDied
    /\ \A i \in DOMAIN book : book[i].status # "gone"

Held(s) == CASE s = "buy" -> 1 [] s = "sell" -> -1 [] OTHER -> 0

\* The inductive invariant: the books agree, and the order being executed is not
\* of the side that is held.
BooksInv ==
    /\ pc = "cancel" => feedDied
    /\ Undisturbed =>
         /\ openSide = side /\ Net = Held(side)
         /\ pc \in {"position", "order"} => pending # side

LEMMA LiveIsFinite ==
    ASSUME book \in Seq(Order), NEW s
    PROVE  /\ IsFiniteSet(Live(s)) /\ Live(s) \subseteq 1..Len(book)
           /\ Cardinality(Live(s)) \in Nat
<1>1. Len(book) \in Nat /\ Live(s) \subseteq 1..Len(book)
  BY DEF Live
<1>2. IsFiniteSet(1..Len(book))
  BY <1>1, FS_Interval
<1>3. IsFiniteSet(Live(s))
  BY <1>1, <1>2, FS_Subset
<1> QED
  BY <1>1, <1>3, FS_CardinalityType

\* An accepted order counts for its side, and for no other.
LEMMA AcceptedCounts ==
    ASSUME book \in Seq(Order), NEW p \in Sides,
           book' = Append(book, [side |-> p, status |-> "resting"])
    PROVE  /\ Net' = Net + Held(p)
           /\ \A i \in DOMAIN book : i \in DOMAIN book' /\ book'[i] = book[i]
<1> DEFINE o == [side |-> p, status |-> "resting"]
           n == Len(book) + 1
<1>1. o \in Order
  BY DEF Order
<1>2. /\ Len(book) \in Nat /\ DOMAIN book' = 1..n /\ DOMAIN book = 1..Len(book)
      /\ book'[n] = o /\ \A i \in 1..Len(book) : book'[i] = book[i]
  BY <1>1
<1>3. /\ Live(p)' = Live(p) \cup {n} /\ n \notin Live(p)
      /\ \A s : s # p => Live(s)' = Live(s)
  <2>1. n \in DOMAIN book' /\ book'[n].side = p /\ book'[n].status # "gone"
    BY <1>2
  <2>2. \A i \in DOMAIN book' : i = n \/ i \in DOMAIN book
    BY <1>2
  <2>3. n \notin DOMAIN book /\ DOMAIN book \subseteq DOMAIN book'
    BY <1>2
  <2> HIDE DEF n, o
  <2> QED
    BY <1>2, <2>1, <2>2, <2>3 DEF Live
<1>4. Cardinality(Live(p)') = Cardinality(Live(p)) + 1
  <2>1. IsFiniteSet(Live(p))
    BY LiveIsFinite
  <2> HIDE DEF n
  <2>2. Cardinality(Live(p) \cup {n}) = Cardinality(Live(p)) + 1
    BY <1>3, <2>1, FS_AddElement
  <2> QED
    BY <1>3, <2>2
<1>5. Cardinality(Live("buy")) \in Nat /\ Cardinality(Live("sell")) \in Nat
  BY LiveIsFinite
<1>6. CASE p = "buy"
  <2>1. Live("sell")' = Live("sell") /\ Cardinality(Live("buy")') = Cardinality(Live("buy")) + 1
    BY <1>3, <1>4, <1>6
  <2> QED
    BY <1>2, <1>5, <1>6, <2>1 DEF Net, Held
<1>7. CASE p = "sell"
  <2>1. Live("buy")' = Live("buy") /\ Cardinality(Live("sell")') = Cardinality(Live("sell")) + 1
    BY <1>3, <1>4, <1>7
  <2> QED
    BY <1>2, <1>5, <1>7, <2>1 DEF Net, Held
<1> QED
  BY <1>6, <1>7 DEF Sides

\* While no order has expired, expiring the resting ones is nothing.
LEMMA NoneExpired ==
    ASSUME book \in Seq(Order), book' = WithoutResting,
           \A i \in DOMAIN book' : book'[i].status # "gone"
    PROVE  book' = book
<1>1. DOMAIN book' = DOMAIN book
  BY DEF WithoutResting
<1>2. ASSUME NEW i \in DOMAIN book PROVE book'[i] = book[i]
  <2>1. book[i] \in Order
    OBVIOUS
  <2>2. CASE book[i].status = "resting"
    <3>1. book'[i] = [book[i] EXCEPT !.status = "gone"]
      BY <2>2 DEF WithoutResting
    <3>2. book'[i].status = "gone"
      BY <2>1, <3>1 DEF Order
    <3> QED
      BY <1>1, <3>2
  <2>3. CASE book[i].status # "resting"
    BY <2>3 DEF WithoutResting
  <2> QED
    BY <2>2, <2>3
<1>3. book = [i \in DOMAIN book |-> book[i]] /\ book' = [i \in DOMAIN book |-> book'[i]]
  BY DEF WithoutResting
<1> QED
  BY <1>2, <1>3

\* A fill changes no position that counts.
LEMMA FillKeepsNet ==
    ASSUME book \in Seq(Order), Fill
    PROVE  /\ Net' = Net
           /\ (\A i \in DOMAIN book' : book'[i].status # "gone")
                => \A i \in DOMAIN book : book[i].status # "gone"
<1>1. PICK k \in DOMAIN book : /\ book[k].status = "resting"
                               /\ book' = [book EXCEPT ![k].status = "filled"]
  BY DEF Fill
<1>2. DOMAIN book' = DOMAIN book /\ book[k] \in Order
  BY <1>1
<1>3. ASSUME NEW i \in DOMAIN book
      PROVE  book'[i].side = book[i].side /\ (book'[i].status = "gone" <=> book[i].status = "gone")
  <2>1. CASE i = k
    <3>1. book'[k] = [book[k] EXCEPT !.status = "filled"]
      BY <1>1
    <3> QED
      BY <1>1, <1>2, <2>1, <3>1 DEF Order
  <2>2. CASE i # k
    BY <1>1, <2>2
  <2> QED
    BY <2>1, <2>2
<1>4. \A s : Live(s)' = Live(s)
  BY <1>2, <1>3 DEF Live
<1> QED
  BY <1>2, <1>3, <1>4 DEF Net

\* What a step leaves alone, the invariant leaves alone.
LEMMA BooksRest ==
    ASSUME BooksInv, UNCHANGED <<mode, side, openSide, feedDied, book>>,
           pc # "stopped" \/ pc' = "stopped",
           pc' = "cancel" => feedDied,
           pc' \in {"position", "order"} =>
             pending' # side \/ (pc \in {"position", "order"} /\ pending' = pending)
    PROVE  BooksInv'
BY DEF BooksInv, Undisturbed, Net, Live

\* Every step preserves the invariant.
LEMMA BooksNext == TypeInv /\ BooksInv /\ [Next]_vars => BooksInv'
<1> SUFFICES ASSUME TypeInv, BooksInv, [Next]_vars PROVE BooksInv'
  OBVIOUS
<1>0. book \in Seq(Order) /\ None \notin Sides /\ side \in Sides \cup {None}
  BY TradingAssumption DEF TypeInv, TypeOK, Order
<1>1. CASE TickWithoutOrder
  BY <1>1, BooksRest DEF TickWithoutOrder, TakeTick
<1>2. CASE TickRefused
  BY <1>2, BooksRest DEF TickRefused, TakeTick
<1>3. ASSUME NEW s \in Sides, TickSubmitted(s) PROVE BooksInv'
  <2>1. /\ UNCHANGED <<mode, side, openSide, feedDied, book>>
        /\ pc = "tick" /\ pc' = "position" /\ pending' = s /\ openSide # s
    BY <1>3 DEF TickSubmitted, TakeTick, Approve
  <2> QED
    BY <2>1 DEF BooksInv, Undisturbed, Net, Live
<1>4. ASSUME NEW s \in Sides, TickSimulated(s) PROVE BooksInv'
  BY <1>4 DEF TickSimulated, TakeTick, BooksInv, Undisturbed
<1>5. CASE PositionFound
  BY <1>5, BooksRest DEF PositionFound
<1>6. CASE PositionNotFound
  BY <1>6, BooksRest DEF PositionNotFound, breaker
<1>7. CASE OrderAccepted
  <2>1. /\ pc = "order" /\ pc' = "account" /\ UNCHANGED <<mode, feedDied>>
        /\ book' = Append(book, [side |-> pending, status |-> "resting"])
        /\ side' = (IF side \notin {None, pending} THEN None ELSE pending)
        /\ openSide' = side'
    BY <1>7 DEF OrderAccepted, SetPositionOpen
  <2>2. pending \in Sides
    BY <2>1 DEF TypeInv, TypeOK
  <2>3. /\ Net' = Net + Held(pending)
        /\ \A i \in DOMAIN book : i \in DOMAIN book' /\ book'[i] = book[i]
    BY <1>0, <2>1, <2>2, AcceptedCounts
  <2>4. ASSUME Undisturbed' PROVE Net' = Held(side)'
    <3>1. Undisturbed
      BY <2>1, <2>3, <2>4 DEF Undisturbed
    <3>2. Net = Held(side) /\ pending # side
      BY <2>1, <3>1 DEF BooksInv
    <3> QED
      BY <1>0, <2>1, <2>2, <2>3, <3>2 DEF Held, Sides
  <2> QED
    BY <2>1, <2>4 DEF BooksInv
<1>8. CASE OrderRejected
  BY <1>8, BooksRest DEF OrderRejected
<1>9. CASE AccountArrives
  BY <1>9, BooksRest DEF AccountArrives
<1>10. CASE DeadFeed
  BY <1>10 DEF DeadFeed, BooksInv, Undisturbed
<1>11. CASE Cancelled
  BY <1>11 DEF Cancelled, BooksInv, Undisturbed
<1>12. CASE Stop
  BY <1>12 DEF Stop, BooksInv, Undisturbed
<1>13. CASE Fill
  <2>1. UNCHANGED <<mode, pc, pending, side, openSide, feedDied>>
    BY <1>13 DEF Fill, engine, breaker
  <2> QED
    BY <1>0, <1>13, <2>1, FillKeepsNet DEF BooksInv, Undisturbed, Held
<1>14. CASE NewDay
  <2>1. UNCHANGED <<mode, pc, pending, side, openSide, feedDied>> /\ book' = WithoutResting
    BY <1>14 DEF NewDay, engine, breaker
  <2>2. Undisturbed' => book' = book
    BY <1>0, <2>1, NoneExpired DEF Undisturbed
  <2> QED
    BY <2>1, <2>2 DEF BooksInv, Undisturbed, Held, Net, Live
<1>15. CASE UNCHANGED vars
  BY <1>15 DEF vars, engine, breaker, BooksInv, Undisturbed, Net, Live
<1>16. CASE OrderLost
  BY <1>16 DEF OrderLost, BooksInv, Undisturbed
<1> QED
  BY <1>1, <1>2, <1>3, <1>4, <1>5, <1>6, <1>7, <1>8, <1>9, <1>10, <1>11,
     <1>12, <1>13, <1>14, <1>15, <1>16 DEF Next

LEMMA BooksInit == Init => BooksInv
<1> SUFFICES ASSUME Init PROVE BooksInv
  OBVIOUS
<1>1. book = <<>> /\ side = None /\ openSide = None /\ pc = "tick"
  BY DEF Init, NewBreaker
<1>2. Live("buy") = {} /\ Live("sell") = {}
  BY <1>1 DEF Live
<1>3. Net = 0
  BY <1>2, FS_EmptySet DEF Net
<1>4. Held(side) = 0
  BY <1>1, TradingAssumption DEF Held, Sides
<1> QED
  BY <1>1, <1>3, <1>4 DEF BooksInv

\* Until the feed first dies or an order expires, the engine, the breaker and
\* the broker agree on the position (see BooksAgree), however many orders there
\* are and whatever the equity does.
THEOREM BooksAgreeCorrect == Spec => []BooksAgree
<1>1. BooksInv => BooksAgree
  BY DEF BooksInv, BooksAgree, Undisturbed, Held
<1> QED
  BY <1>1, BooksInit, BooksNext, InvCorrect, PTL DEF Spec

-----------------------------------------------------------------------------
(* The feed. *)

\* A session that yields is streaming, or has told the engine; and once one has
\* ended untold, no other begins.
UntoldIsTheEnd ==
  /\ untold => feedPc = "ended"
  /\ yielded => feedPc \in {"stream", "callback"}

LEMMA FeedStep ==
  ASSUME UntoldIsTheEnd, [FeedNext]_feedVars
  PROVE  UntoldIsTheEnd'
<1> USE DEF UntoldIsTheEnd
<1>1. CASE Connect
  BY <1>1 DEF Connect
<1>2. CASE SkipFrame
  BY <1>2 DEF SkipFrame
<1>3. CASE NoAnswer
  BY <1>3 DEF NoAnswer, Raise
<1>4. CASE Authenticated
  BY <1>4 DEF Authenticated
<1>5. CASE Subscribed
  BY <1>5 DEF Subscribed
<1>6. CASE YieldTicks
  BY <1>6 DEF YieldTicks
<1>7. CASE HeartbeatTimeout
  BY <1>7 DEF HeartbeatTimeout
<1>8. CASE CallbackReturns
  BY <1>8 DEF CallbackReturns
<1>9. CASE Fails
  <2>1. PICK error \in RaisedIn(feedPc) : Raise(error)
    BY <1>9 DEF Fails
  <2>2. feedPc = "stream" => ~Retried(error)
    BY <2>1 DEF RaisedIn, ClosedErrors, Retried
  <2> QED BY <1>9, <2>1, <2>2 DEF Fails, Raise
<1>10. CASE Slept
  BY <1>10 DEF Slept
<1>11. CASE UNCHANGED feedVars
  BY <1>11 DEF feedVars
<1> QED
  BY <1>1, <1>2, <1>3, <1>4, <1>5, <1>6, <1>7, <1>8, <1>9, <1>10, <1>11 DEF FeedNext

\* Ticks flow only after the engine has been told of the end of every earlier
\* session that had ticks (see ResumesOnlyAfterCancel).
THEOREM ResumesCorrect == FeedSpec => []ResumesOnlyAfterCancel
<1>1. FeedInit => UntoldIsTheEnd
  BY DEF FeedInit, UntoldIsTheEnd
<1>2. UntoldIsTheEnd => ResumesOnlyAfterCancel
  BY DEF UntoldIsTheEnd, ResumesOnlyAfterCancel
<1> QED BY <1>1, <1>2, FeedStep, PTL DEF FeedSpec

-----------------------------------------------------------------------------
(* The drift monitor. *)

AllOfMarket(sample) == \A i \in DOMAIN sample : sample[i] = market

\* When as many drifts have been reported as there were changes of regime and
\* false alarms, the window and the reference lie behind the last change.
RouterInv ==
  /\ market \in MarketRegimes /\ window \in Seq(MarketRegimes)
  /\ refWindow = NoWindow \/ refWindow \in Seq(MarketRegimes)
  /\ shifts \in Nat /\ falseAlarms \in Nat
  /\ driftCount \in 0..(shifts + falseAlarms)
  /\ driftCount = shifts + falseAlarms =>
       AllOfMarket(window) /\ (refWindow # NoWindow => AllOfMarket(refWindow))

LEMMA CountOfUniform ==
  ASSUME NEW sample \in Seq(MarketRegimes), AllOfMarket(sample), NEW m
  PROVE  Count(sample, m) = IF m = market THEN Len(sample) ELSE 0
<1>1. Len(sample) \in Nat /\ DOMAIN sample = 1..Len(sample)
  OBVIOUS
<1>2. CASE m = market
  <2>1. {i \in DOMAIN sample : sample[i] = m} = 1..Len(sample)
    BY <1>1, <1>2 DEF AllOfMarket
  <2>2. Cardinality(1..Len(sample)) = Len(sample)
    BY <1>1, FS_Interval
  <2> QED BY <1>2, <2>1, <2>2 DEF Count
<1>3. CASE m # market
  <2>1. {i \in DOMAIN sample : sample[i] = m} = {}
    BY <1>3 DEF AllOfMarket
  <2> QED BY <1>3, <2>1, FS_EmptySet DEF Count
<1> QED BY <1>2, <1>3

\* Nothing is seen between samples of one regime, of whatever length.
LEMMA UniformAreSame ==
  ASSUME NEW left \in Seq(MarketRegimes), NEW right \in Seq(MarketRegimes),
         AllOfMarket(left), AllOfMarket(right)
  PROVE  SameMixture(left, right)
<1>1. ASSUME NEW m \in MarketRegimes
      PROVE  Count(left, m) * Len(right) = Count(right, m) * Len(left)
  <2>1. Len(left) \in Nat /\ Len(right) \in Nat
    OBVIOUS
  <2>2. \A k, n \in Nat : k * n = n * k /\ 0 * n = 0
    OBVIOUS
  <2> QED BY <2>1, <2>2, CountOfUniform
<1> QED BY <1>1 DEF SameMixture

LEMMA HalfIsWithin == Half \in Nat /\ Half <= PsiWindow /\ Half >= 1
BY RouterAssumption DEF Half

\* A drift seen within a market that has not changed since the last report
\* would be seen in samples of one regime.
LEMMA DriftIsNews ==
  ASSUME RouterInv, Compared, Differ(Append(window, market))
  PROVE  driftCount < shifts + falseAlarms
<1> SUFFICES ASSUME driftCount = shifts + falseAlarms PROVE FALSE
  BY DEF RouterInv
<1> DEFINE sample == Append(window, market)
           left == SubSeq(sample, 1, Half)
           right == SubSeq(sample, Half + 1, PsiWindow)
<1>1. /\ sample \in Seq(MarketRegimes) /\ Len(sample) = PsiWindow /\ AllOfMarket(sample)
      /\ refWindow \in Seq(MarketRegimes) /\ AllOfMarket(refWindow)
  <2>1. /\ sample \in Seq(MarketRegimes) /\ Len(sample) = Len(window) + 1 /\ sample[Len(window) + 1] = market
        /\ \A i \in 1..Len(window) : sample[i] = window[i]
    BY DEF RouterInv
  <2>2. \A i \in 1..Len(window) : window[i] = market
    BY DEF RouterInv, AllOfMarket
  <2>3. Len(sample) = PsiWindow
    BY <2>1 DEF Compared
  <2>4. \A i \in 1..Len(sample) : sample[i] = market
    BY <2>1, <2>2 DEF RouterInv
  <2> HIDE DEF sample
  <2>5. AllOfMarket(sample)
    BY <2>1, <2>4 DEF AllOfMarket
  <2> QED BY <2>1, <2>3, <2>5 DEF RouterInv, Compared
<1>2. /\ left \in Seq(MarketRegimes) /\ AllOfMarket(left)
      /\ right \in Seq(MarketRegimes) /\ AllOfMarket(right)
  <2> HIDE DEF sample
  <2>1. \A i \in 1..PsiWindow : sample[i] = market /\ sample[i] \in MarketRegimes
    BY <1>1 DEF AllOfMarket
  <2>2. /\ left = [i \in 1..Half |-> sample[i]]
        /\ right = [i \in 1..(PsiWindow - Half) |-> sample[i + Half]]
    BY <1>1, HalfIsWithin, RouterAssumption
  <2>3. /\ \A i \in 1..Half : i \in 1..PsiWindow
        /\ \A i \in 1..(PsiWindow - Half) : i + Half \in 1..PsiWindow
        /\ Half \in Nat /\ PsiWindow - Half \in Nat
    BY HalfIsWithin, RouterAssumption
  <2> HIDE DEF left, right
  <2>4. /\ left \in [1..Half -> MarketRegimes] /\ right \in [1..(PsiWindow - Half) -> MarketRegimes]
    BY <2>1, <2>2, <2>3
  <2>5. \A n \in Nat : \A f \in [1..n -> MarketRegimes] : f \in Seq(MarketRegimes)
    OBVIOUS
  <2> QED BY <2>1, <2>2, <2>3, <2>4, <2>5 DEF AllOfMarket
<1>3. SameMixture(refWindow, sample) /\ SameMixture(left, right)
  BY <1>1, <1>2, UniformAreSame
<1> QED BY <1>3 DEF Differ

LEMMA RouterStep ==
  ASSUME RouterInv, [RouterNext]_routerVars
  PROVE  RouterInv'
<1> USE DEF RouterInv, history
<1>0. market \in MarketRegimes /\ window \in Seq(MarketRegimes) /\ <<>> \in Seq(MarketRegimes)
  OBVIOUS
<1>1. CASE Shift
  BY <1>1 DEF Shift
<1>2. CASE Route
  <2>1. /\ window' = Append(window, market)
        /\ UNCHANGED <<market, refWindow, driftCount, history>>
    BY <1>2 DEF Route
  <2>2. window' \in Seq(MarketRegimes) /\ (AllOfMarket(window) => AllOfMarket(window)')
    BY <2>1 DEF AllOfMarket
  <2> QED BY <2>1, <2>2 DEF AllOfMarket
<1>3. CASE StoreReference
  <2>1. /\ refWindow' = Append(window, market) /\ window' = <<>>
        /\ UNCHANGED <<market, driftCount, history>>
    BY <1>3 DEF StoreReference
  <2>2. refWindow' \in Seq(MarketRegimes) /\ (AllOfMarket(window) => AllOfMarket(refWindow)')
    BY <2>1 DEF AllOfMarket
  <2>3. window' \in Seq(MarketRegimes) /\ AllOfMarket(window)'
    BY <2>1 DEF AllOfMarket
  <2> QED BY <2>1, <2>2, <2>3
<1>4. CASE SeeNoDrift
  BY <1>4 DEF SeeNoDrift, AllOfMarket
<1>5. CASE SeeDrift
  <2>1. /\ Compared /\ driftCount' = driftCount + 1 /\ refWindow' = NoWindow /\ window' = <<>>
        /\ UNCHANGED <<market, shifts>>
    BY <1>5 DEF SeeDrift
  <2>2. CASE Differ(Append(window, market))
    <3>1. driftCount < shifts + falseAlarms
      BY <2>1, <2>2, DriftIsNews
    <3>2. UNCHANGED falseAlarms
      BY <1>5, <2>2 DEF SeeDrift, CountAlarm
    <3> QED BY <2>1, <3>1, <3>2 DEF AllOfMarket
  <2>3. CASE ~Differ(Append(window, market))
    <3>1. falseAlarms' = falseAlarms + 1
      BY <1>5, <2>3 DEF SeeDrift, CountAlarm
    <3> QED BY <2>1, <3>1 DEF AllOfMarket
  <2> QED BY <2>2, <2>3
<1>6. CASE BgRetrain
  BY <1>6 DEF BgRetrain, AllOfMarket
<1>7. CASE UNCHANGED routerVars
  BY <1>7 DEF routerVars, AllOfMarket
<1> QED BY <1>1, <1>2, <1>3, <1>4, <1>5, <1>6, <1>7 DEF RouterNext

\* There are never more drifts reported than changes of regime and false alarms
\* of the statistics together (see EachShiftReportedOnce), whatever the window,
\* however it is cut in halves and whatever the statistics answer: each change
\* of regime accounts for one report at most.
THEOREM ShiftsCorrect == RouterSpec => []EachShiftReportedOnce
<1>1. RouterInit => RouterInv
  BY DEF RouterInit, RouterInv, AllOfMarket
<1>2. RouterInv => EachShiftReportedOnce
  BY DEF RouterInv, EachShiftReportedOnce
<1> QED BY <1>1, <1>2, RouterStep, PTL DEF RouterSpec
=============================================================================
