----------------------------- MODULE EventStream -----------------------------
(***************************************************************************)
(* The event streams of the admin API (events_stream of admin_api/app.py): *)
(* each dashboard has a generator that subscribes to the model updates in  *)
(* Redis and relays them until the dashboard leaves.  When Redis cannot be *)
(* reached, or fails later, the stream goes on with heartbeats alone; they *)
(* change nothing and are left out.                                        *)
(***************************************************************************)
EXTENDS Integers, Sequences

CONSTANTS Dashboards,
          MaxUpdates   \* bound of the model

ASSUME StreamAssumption == MaxUpdates \in Nat

VARIABLES updates,         \* messages published so far, each its number
          streamPc,        \* of each stream: new, relaying or ended
          redisAvailable,
          subscribed,      \* Redis holds a subscription for it,
          inbox,           \* and these messages
          relayed

perStream == <<streamPc, redisAvailable, subscribed, inbox, relayed>>
streamVars == <<updates, perStream>>

StreamsInit ==
  /\ updates = 0
  /\ streamPc = [d \in Dashboards |-> "new"]
  /\ redisAvailable = [d \in Dashboards |-> FALSE]
  /\ subscribed = [d \in Dashboards |-> FALSE]
  /\ inbox = [d \in Dashboards |-> <<>>]
  /\ relayed = [d \in Dashboards |-> <<>>]

PublishUpdate ==
  /\ updates < MaxUpdates /\ updates' = updates + 1
  /\ inbox' = [d \in Dashboards |->
                 IF subscribed[d] THEN Append(inbox[d], updates') ELSE inbox[d]]
  /\ UNCHANGED <<streamPc, redisAvailable, subscribed, relayed>>

\* The subscription is made, or fails.
OpenStream(d) ==
  /\ streamPc[d] = "new" /\ streamPc' = [streamPc EXCEPT ![d] = "relaying"]
  /\ \E ok \in BOOLEAN : /\ redisAvailable' = [redisAvailable EXCEPT ![d] = ok]
                         /\ subscribed' = [subscribed EXCEPT ![d] = ok]
  /\ UNCHANGED <<updates, inbox, relayed>>

RelayUpdate(d) ==
  /\ streamPc[d] = "relaying" /\ redisAvailable[d] /\ inbox[d] # <<>>
  /\ relayed' = [relayed EXCEPT ![d] = Append(@, Head(inbox[d]))]
  /\ inbox' = [inbox EXCEPT ![d] = Tail(@)]
  /\ UNCHANGED <<updates, streamPc, redisAvailable, subscribed>>

\* get_message raises; the stream never asks again.  The subscription may be
\* lost with its connection, along with the messages it held.
PubsubFailsOnce(d) ==
  /\ streamPc[d] = "relaying" /\ redisAvailable[d]
  /\ inbox' = [inbox EXCEPT ![d] = <<>>]
  /\ UNCHANGED <<updates, streamPc, redisAvailable, subscribed, relayed>>
PubsubFails(d) ==
  /\ streamPc[d] = "relaying" /\ redisAvailable[d]
  /\ redisAvailable' = [redisAvailable EXCEPT ![d] = FALSE]
  /\ \E lost \in BOOLEAN :
       /\ subscribed' = [subscribed EXCEPT ![d] = ~lost]
       /\ inbox' = IF lost THEN [inbox EXCEPT ![d] = <<>>] ELSE inbox
  /\ UNCHANGED <<updates, streamPc, relayed>>

\* The dashboard has gone, or the generator is cancelled: it unsubscribes if
\* Redis was still available, which may fail unseen.
EndStream(d) ==
  /\ streamPc[d] = "relaying" /\ streamPc' = [streamPc EXCEPT ![d] = "ended"]
  /\ \/ UNCHANGED <<subscribed, inbox>>
     \/ /\ redisAvailable[d]
        /\ subscribed' = [subscribed EXCEPT ![d] = FALSE]
        /\ inbox' = [inbox EXCEPT ![d] = <<>>]
  /\ UNCHANGED <<updates, redisAvailable, relayed>>

StreamsNext ==
  \/ PublishUpdate
  \/ \E d \in Dashboards : OpenStream(d) \/ RelayUpdate(d) \/ PubsubFails(d) \/ EndStream(d)

StreamsSpec == StreamsInit /\ [][StreamsNext]_streamVars

-----------------------------------------------------------------------------
(* Property.                                                               *)

\* What a dashboard is shown is a stretch of the updates without a gap: an
\* update may be missing before the stream was opened or after Redis failed,
\* never between two that were relayed (the "hot-swap timeline",
\* admin_api/app.py:535).
RelayedWithoutGap ==
  \A d \in Dashboards : \A i \in DOMAIN relayed[d] :
    relayed[d][i] = relayed[d][1] + i - 1
=============================================================================
