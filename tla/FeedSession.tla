----------------------------- MODULE FeedSession -----------------------------
(***************************************************************************)
(* The sessions of the live market-data feed (LiveFeed of                  *)
(* quant_finance/live_feed.py): connect, authenticate, subscribe, stream,  *)
(* and what ends a session - the heartbeat timeout, which tells the engine *)
(* (on_dead_feed), or an exception, which does not.  stream() compares the *)
(* NAME of an exception's type with four names: an exception of a subclass *)
(* is raised again and ends the feed.                                      *)
(***************************************************************************)
EXTENDS Integers

CONSTANTS AuthFrames,     \* frames read for the answer to auth (5)
          MaxBackoff,     \* seconds (30)
          MaxSessions     \* bound of the model

ASSUME FeedAssumption == {AuthFrames, MaxBackoff, MaxSessions} \subseteq Nat \ {0}

VARIABLES feedPc,      \* where stream() is
          frames,      \* frames that _auth has read
          backoff,     \* seconds to the next try
          yielded,     \* this session has given the engine a tick
          connections, \* bound: connections made
          untold       \* history: a session that had yielded ended without
                       \* the engine being told, since it was last told

feedVars == <<feedPc, frames, backoff, yielded, connections, untold>>

FeedInit ==
  /\ feedPc = "connect" /\ frames = 0 /\ backoff = 1
  /\ yielded = FALSE /\ connections = 0 /\ untold = FALSE

\* What the websockets library and the parser may raise.
ClosedErrors == {"ConnectionClosedError", "ConnectionClosedOK"}
RaisedIn(where) ==
  CASE where = "connect" -> {"OSError", "ConnectionRefusedError", "gaierror",
                             "TimeoutError", "InvalidStatus"}
    [] where = "auth" -> ClosedErrors \cup {"ConnectionError", "JSONDecodeError"}
    [] OTHER -> ClosedErrors \cup {"JSONDecodeError"}

RetriedWithSubclasses(error) ==
  error \in {"OSError", "ConnectionRefusedError", "gaierror", "ConnectionError"} \cup ClosedErrors
Retried(error) ==
  error \in {"ConnectionClosed", "WebSocketException", "ConnectionError", "OSError"}

\* The except clause: sleep and double the back-off, or raise again.
Raise(error) ==
  /\ yielded' = FALSE
  /\ untold' = (untold \/ yielded)
  /\ feedPc' = IF Retried(error) THEN "sleep" ELSE "ended"
  /\ UNCHANGED <<frames, backoff, connections>>

Connect ==
  /\ feedPc = "connect" /\ connections < MaxSessions
  /\ connections' = connections + 1
  /\ feedPc' = "auth" /\ frames' = 0
  /\ UNCHANGED <<backoff, yielded, untold>>

\* _auth skips the welcome and everything else it does not know, up to
\* AuthFrames frames.
SkipFrame ==
  /\ feedPc = "auth" /\ frames + 1 < AuthFrames
  /\ frames' = frames + 1
  /\ UNCHANGED <<feedPc, backoff, yielded, connections, untold>>

NoAnswer == feedPc = "auth" /\ frames + 1 = AuthFrames /\ Raise("ConnectionError")

Authenticated ==
  /\ feedPc = "auth" /\ feedPc' = "subscribe"
  /\ UNCHANGED <<frames, backoff, yielded, connections, untold>>

\* The acknowledgement is printed, whatever it says.
Subscribed ==
  /\ feedPc = "subscribe" /\ feedPc' = "stream"
  /\ backoff' = 1
  /\ UNCHANGED <<frames, yielded, connections, untold>>

\* A frame with ticks of the symbol; one without leaves everything as it is.
YieldTicks ==
  /\ feedPc = "stream"
  /\ yielded' = TRUE
  /\ UNCHANGED <<feedPc, frames, backoff, connections, untold>>

\* No frame in time: the engine is told and, when it has cancelled its orders,
\* the session is left for a new one, at once.
HeartbeatTimeout ==
  /\ feedPc = "stream" /\ feedPc' = "callback"
  /\ UNCHANGED <<frames, backoff, yielded, connections, untold>>

CallbackReturns ==
  /\ feedPc = "callback" /\ feedPc' = "connect"
  /\ yielded' = FALSE /\ untold' = FALSE
  /\ UNCHANGED <<frames, backoff, connections>>

Fails ==
  /\ feedPc \in {"connect", "auth", "subscribe", "stream"}
  /\ \E error \in RaisedIn(feedPc) : Raise(error)

Slept ==
  /\ feedPc = "sleep" /\ feedPc' = "connect"
  /\ backoff' = IF 2 * backoff < MaxBackoff THEN 2 * backoff ELSE MaxBackoff
  /\ UNCHANGED <<frames, yielded, connections, untold>>

FeedNext ==
  \/ Connect \/ SkipFrame \/ NoAnswer \/ Authenticated \/ Subscribed
  \/ YieldTicks \/ HeartbeatTimeout \/ CallbackReturns \/ Fails \/ Slept

FeedSpec == FeedInit /\ [][FeedNext]_feedVars

-----------------------------------------------------------------------------
(* Property.                                                               *)

\* The engine never gets a tick of a new session while it still believes in
\* the positions and orders of an earlier one: whenever ticks can flow, the
\* dead-feed callback has run since the last session that had ticks.  It holds
\* only because the exceptions that can break a stream are NOT retried - the
\* feed ends instead of "Reconnects automatically on failure."
\* (live_feed.py:217), which retrying them without the callback would break.
ResumesOnlyAfterCancel == feedPc = "stream" => ~untold
=============================================================================
