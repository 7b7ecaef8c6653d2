------------------------------- MODULE SSEHub -------------------------------
(***************************************************************************)
(* The fan-out hub (internal/sse/hub.go) and the stream handlers that use  *)
(* it (internal/api/handlers_streams.go): registration, publishing with    *)
(* the slow-subscriber drop, the heartbeat goroutine of each subscriber,   *)
(* unsubscription and Close.                                               *)
(*                                                                         *)
(* The hub's RWMutex is held for reading across the steps of a fan-out and *)
(* of a heartbeat; a section under the write lock is one step. Closing a   *)
(* subscriber takes no lock and is three steps: the closed flag, the       *)
(* stopHeartbeat channel, the message channel. A send on a closed channel, *)
(* and closing one twice, panics; nothing recovers it, so the process is   *)
(* gone.                                                                   *)
(***************************************************************************)
EXTENDS Integers, FiniteSets

CONSTANTS
  Subs,          \* subscribers, each one stream request
  Streams,       \* the named streams (four in the code)
  StreamOf,      \* StreamOf[s]: the stream s subscribes to
  Publishers,    \* goroutines that publish: pipeline, workers, handlers
  BufCap,        \* capacity of a subscriber's channel (64 in the code)
  MaxPublishes,  \* bound on the number of publishes
  MaxBeats       \* bound on the number of heartbeats

ASSUME SSEHubAssumption ==
  /\ StreamOf \in [Subs -> Streams]
  /\ BufCap \in Nat \ {0}
  /\ MaxPublishes \in Nat
  /\ MaxBeats \in Nat
  /\ Publishers \cap Subs = {}
  /\ "closer" \notin Publishers \cup Subs

VARIABLES
  subs,          \* the registry, all streams together
  handler,       \* the request goroutine of each subscriber
  closedFlag,    \* subscriber.closed
  stopped,       \* stopHeartbeat is closed
  chClosed,      \* the message channel is closed
  buf,           \* messages waiting in the channel
  beat,          \* the heartbeat goroutine of each subscriber
  publisher,     \* the goroutines inside Publish
  closer,        \* the goroutine inside Close
  closing,       \* who is inside closeSubscriber, with which subscriber
  hubClosed,     \* Hub.closed
  dropped,       \* the counter of slow subscribers
  removed,       \* history: how a subscriber left the registry
  panicked,      \* history: what made the process panic
  publishes,
  beats

chanVars == <<closedFlag, stopped, chClosed, closing>>
history  == <<removed, panicked>>
counters == <<publishes, beats>>
vars == <<subs, handler, chanVars, buf, beat, publisher, closer, hubClosed,
          dropped, history, counters>>

Goroutines == Subs \cup Publishers \cup {"closer"}

Alive == panicked = "no"

\* Nobody holds the read lock, so the write lock can be taken.
CanWrite ==
  /\ \A p \in Publishers : publisher[p].pc /= "fanout"
  /\ \A s \in Subs : beat[s] /= "checked"

PubIdle == [pc |-> "idle"]
NotIn   == [pc |-> "none"]

\* A goroutine that is not inside closeSubscriber.
Out(g) == closing[g].pc = "none"

-----------------------------------------------------------------------------
Init ==
  /\ subs = {}
  /\ handler = [s \in Subs |-> "new"]
  /\ closedFlag = [s \in Subs |-> FALSE]
  /\ stopped = [s \in Subs |-> FALSE]
  /\ chClosed = [s \in Subs |-> FALSE]
  /\ buf = [s \in Subs |-> 0]
  /\ beat = [s \in Subs |-> "none"]
  /\ publisher = [p \in Publishers |-> PubIdle]
  /\ closer = [pc |-> "idle", all |-> {}]
  /\ closing = [g \in Goroutines |-> NotIn]
  /\ hubClosed = FALSE
  /\ dropped = 0
  /\ removed = [s \in Subs |-> "no"]
  /\ panicked = "no"
  /\ publishes = 0
  /\ beats = 0

-----------------------------------------------------------------------------
(***************************************************************************)
(* closeSubscriber: whoever flips the flag goes on to the channels.        *)
(***************************************************************************)
Enter(g, s) == closing' = [closing EXCEPT ![g] = [pc |-> "flag", s |-> s]]

LoseFlag(g) ==
  /\ Alive
  /\ closing[g].pc = "flag"
  /\ closedFlag[closing[g].s]
  /\ closing' = [closing EXCEPT ![g] = NotIn]
  /\ UNCHANGED <<subs, handler, closedFlag, stopped, chClosed, buf, beat,
                 publisher, closer, hubClosed, dropped, history, counters>>

WinFlag(g) ==
  /\ Alive
  /\ closing[g].pc = "flag"
  /\ ~closedFlag[closing[g].s]
  /\ closedFlag' = [closedFlag EXCEPT ![closing[g].s] = TRUE]
  /\ closing' = [closing EXCEPT ![g].pc = "stop"]
  /\ UNCHANGED <<subs, handler, stopped, chClosed, buf, beat, publisher,
                 closer, hubClosed, dropped, history, counters>>

\* A close that does not tell the heartbeat.
CloseStopForgotten(g) ==
  /\ Alive
  /\ closing[g].pc = "stop"
  /\ closing' = [closing EXCEPT ![g].pc = "close"]
  /\ UNCHANGED <<subs, handler, closedFlag, stopped, chClosed, buf, beat,
                 publisher, closer, hubClosed, dropped, history, counters>>

CloseStop(g) ==
  /\ Alive
  /\ closing[g].pc = "stop"
  /\ stopped' = [stopped EXCEPT ![closing[g].s] = TRUE]
  /\ panicked' = IF stopped[closing[g].s] THEN "close" ELSE panicked
  /\ closing' = [closing EXCEPT ![g].pc = "close"]
  /\ UNCHANGED <<subs, handler, closedFlag, chClosed, buf, beat, publisher,
                 closer, hubClosed, dropped, removed, counters>>

CloseCh(g) ==
  /\ Alive
  /\ closing[g].pc = "close"
  /\ chClosed' = [chClosed EXCEPT ![closing[g].s] = TRUE]
  /\ panicked' = IF chClosed[closing[g].s] THEN "close" ELSE panicked
  /\ closing' = [closing EXCEPT ![g] = NotIn]
  /\ UNCHANGED <<subs, handler, closedFlag, stopped, buf, beat, publisher,
                 closer, hubClosed, dropped, removed, counters>>

-----------------------------------------------------------------------------
(***************************************************************************)
(* Subscribe, the handler's loop and the unsubscription it defers.         *)
(***************************************************************************)

\* On a closed hub the handler gets a closed channel and returns.
SubscribeCheck(s) ==
  /\ Alive
  /\ handler[s] = "new"
  /\ handler' = [handler EXCEPT ![s] = IF hubClosed THEN "gone" ELSE "append"]
  /\ UNCHANGED <<subs, chanVars, buf, beat, publisher, closer, hubClosed,
                 dropped, history, counters>>

SubscribeAppend(s) ==
  /\ Alive
  /\ handler[s] = "append"
  /\ CanWrite
  /\ subs' = subs \cup {s}
  /\ handler' = [handler EXCEPT ![s] = "spawn"]
  /\ UNCHANGED <<chanVars, buf, beat, publisher, closer, hubClosed, dropped,
                 history, counters>>

SubscribeSpawn(s) ==
  /\ Alive
  /\ handler[s] = "spawn"
  /\ beat' = [beat EXCEPT ![s] = "wait"]
  /\ handler' = [handler EXCEPT ![s] = "serving"]
  /\ UNCHANGED <<subs, chanVars, buf, publisher, closer, hubClosed, dropped,
                 history, counters>>

\* The handler takes a message and writes it out.
Receive(s) ==
  /\ Alive
  /\ handler[s] = "serving"
  /\ buf[s] > 0
  /\ buf' = [buf EXCEPT ![s] = @ - 1]
  /\ UNCHANGED <<subs, handler, chanVars, beat, publisher, closer, hubClosed,
                 dropped, history, counters>>

\* An unsubscription that closes the subscriber without detaching it.
UnsubscribeAttached(s) ==
  /\ Alive
  /\ handler[s] = "serving"
  /\ handler' = [handler EXCEPT ![s] = "leaving"]
  /\ Enter(s, s)
  /\ UNCHANGED <<subs, closedFlag, stopped, chClosed, buf, beat, publisher,
                 closer, hubClosed, dropped, history, counters>>

\* The client is gone, a write failed, or the channel is closed: the handler
\* returns, and its deferred unsubscribe detaches the subscriber, if it is
\* still there, and closes it.
Unsubscribe(s) ==
  /\ Alive
  /\ handler[s] = "serving"
  /\ CanWrite
  /\ subs' = subs \ {s}
  /\ removed' = IF s \in subs THEN [removed EXCEPT ![s] = "left"] ELSE removed
  /\ handler' = [handler EXCEPT ![s] = "leaving"]
  /\ Enter(s, s)
  /\ UNCHANGED <<closedFlag, stopped, chClosed, buf, beat, publisher, closer,
                 hubClosed, dropped, panicked, counters>>

HandlerReturn(s) ==
  /\ Alive
  /\ handler[s] = "leaving"
  /\ Out(s)
  /\ handler' = [handler EXCEPT ![s] = "gone"]
  /\ UNCHANGED <<subs, chanVars, buf, beat, publisher, closer, hubClosed,
                 dropped, history, counters>>

-----------------------------------------------------------------------------
(***************************************************************************)
(* Sending. A full channel refuses the message, a closed one panics.       *)
(***************************************************************************)
Full(s) == buf[s] >= BufCap

SendUnbounded(s, who) ==
  /\ panicked' = IF chClosed[s] THEN who ELSE panicked
  /\ buf' = IF chClosed[s] THEN buf ELSE [buf EXCEPT ![s] = @ + 1]

Send(s, who) ==
  /\ panicked' = IF chClosed[s] THEN who ELSE panicked
  /\ buf' = IF chClosed[s] \/ Full(s) THEN buf ELSE [buf EXCEPT ![s] = @ + 1]

(***************************************************************************)
(* Publish and dropSlowSubscriber.                                         *)
(***************************************************************************)

\* Publish on an open hub; on a closed one it does nothing.
PublishBegin(p, st) ==
  /\ Alive
  /\ publisher[p].pc = "idle"
  /\ publishes < MaxPublishes
  /\ ~hubClosed
  /\ publisher' = [publisher EXCEPT ![p] = [pc |-> "lock", stream |-> st,
                     todo |-> {}, open |-> {}, drop |-> {}]]
  /\ publishes' = publishes + 1
  /\ UNCHANGED <<subs, handler, chanVars, buf, beat, closer, hubClosed,
                 dropped, history, beats>>

\* The subscribers of the stream p publishes on.
Listeners(p) == {s \in subs : StreamOf[s] = publisher[p].stream}

PublishLock(p) ==
  /\ Alive
  /\ publisher[p].pc = "lock"
  /\ publisher' = [publisher EXCEPT ![p].pc = "fanout", ![p].todo = Listeners(p)]
  /\ UNCHANGED <<subs, handler, chanVars, buf, beat, closer, hubClosed,
                 dropped, history, counters>>

\* The next subscriber of the fan-out: one that is closed is skipped.
PublishCheck(p, s) ==
  /\ Alive
  /\ publisher[p].pc = "fanout"
  /\ publisher[p].open = {}
  /\ s \in publisher[p].todo
  /\ publisher' = [publisher EXCEPT ![p].todo = @ \ {s},
                     ![p].open = IF closedFlag[s] THEN {} ELSE {s}]
  /\ UNCHANGED <<subs, handler, chanVars, buf, beat, closer, hubClosed,
                 dropped, history, counters>>

\* The send to it; one whose channel is full is remembered for the drop.
PublishSend(p, s) ==
  /\ Alive
  /\ publisher[p].pc = "fanout"
  /\ s \in publisher[p].open
  /\ Send(s, "publish")
  /\ publisher' = [publisher EXCEPT ![p].open = {},
                     ![p].drop = IF Full(s) THEN @ \cup {s} ELSE @]
  /\ UNCHANGED <<subs, handler, chanVars, beat, closer, hubClosed, dropped,
                 removed, counters>>

PublishUnlock(p) ==
  /\ Alive
  /\ publisher[p].pc = "fanout"
  /\ publisher[p].open = {}
  /\ publisher[p].todo = {}
  /\ publisher' = [publisher EXCEPT ![p].pc = "drop"]
  /\ UNCHANGED <<subs, handler, chanVars, buf, beat, closer, hubClosed,
                 dropped, history, counters>>

\* A drop that counts and closes a subscriber somebody else has removed.
DropSlowBlind(p, s) ==
  /\ Alive
  /\ publisher[p].pc = "drop"
  /\ Out(p)
  /\ s \in publisher[p].drop
  /\ CanWrite
  /\ subs' = subs \ {s}
  /\ removed' = IF s \in subs THEN [removed EXCEPT ![s] = "slow"] ELSE removed
  /\ publisher' = [publisher EXCEPT ![p].pc = "count", ![p].drop = @ \ {s},
                                    ![p].open = {s}]
  /\ UNCHANGED <<handler, chanVars, buf, beat, closer, hubClosed, dropped,
                 panicked, counters>>

\* A slow subscriber that is still registered is removed.
DropSlow(p, s) ==
  /\ Alive
  /\ publisher[p].pc = "drop"
  /\ Out(p)
  /\ s \in publisher[p].drop
  /\ CanWrite
  /\ s \in subs
  /\ subs' = subs \ {s}
  /\ removed' = [removed EXCEPT ![s] = "slow"]
  /\ publisher' = [publisher EXCEPT ![p].pc = "count", ![p].drop = @ \ {s},
                                    ![p].open = {s}]
  /\ UNCHANGED <<handler, chanVars, buf, beat, closer, hubClosed, dropped,
                 panicked, counters>>

\* Somebody else removed it meanwhile.
DropGone(p, s) ==
  /\ Alive
  /\ publisher[p].pc = "drop"
  /\ Out(p)
  /\ s \in publisher[p].drop
  /\ CanWrite
  /\ s \notin subs
  /\ publisher' = [publisher EXCEPT ![p].drop = @ \ {s}]
  /\ UNCHANGED <<subs, handler, chanVars, buf, beat, closer, hubClosed,
                 dropped, history, counters>>

\* The removed one is counted and closed.
DropCount(p, s) ==
  /\ Alive
  /\ publisher[p].pc = "count"
  /\ s \in publisher[p].open
  /\ dropped' = dropped + 1
  /\ Enter(p, s)
  /\ publisher' = [publisher EXCEPT ![p].pc = "drop", ![p].open = {}]
  /\ UNCHANGED <<subs, handler, closedFlag, stopped, chClosed, buf, beat,
                 closer, hubClosed, history, counters>>

PublishEnd(p) ==
  /\ Alive
  /\ publisher[p].pc = "drop"
  /\ Out(p)
  /\ publisher[p].drop = {}
  /\ publisher' = [publisher EXCEPT ![p] = PubIdle]
  /\ UNCHANGED <<subs, handler, chanVars, buf, beat, closer, hubClosed,
                 dropped, history, counters>>

-----------------------------------------------------------------------------
(***************************************************************************)
(* runHeartbeat and heartbeatSend.                                         *)
(***************************************************************************)

\* A tick: the read lock, and the closed flag is down.
BeatCheck(s) ==
  /\ Alive
  /\ beat[s] = "wait"
  /\ beats < MaxBeats
  /\ beats' = beats + 1
  /\ beat' = [beat EXCEPT ![s] = IF closedFlag[s] THEN "wait" ELSE "checked"]
  /\ UNCHANGED <<subs, handler, chanVars, buf, publisher, closer, hubClosed,
                 dropped, history, publishes>>

BeatSend(s) ==
  /\ Alive
  /\ beat[s] = "checked"
  /\ Send(s, "heartbeat")
  /\ beat' = [beat EXCEPT ![s] = "wait"]
  /\ UNCHANGED <<subs, handler, chanVars, publisher, closer, hubClosed,
                 dropped, removed, counters>>

BeatExit(s) ==
  /\ Alive
  /\ beat[s] = "wait"
  /\ stopped[s]
  /\ beat' = [beat EXCEPT ![s] = "exited"]
  /\ UNCHANGED <<subs, handler, chanVars, buf, publisher, closer, hubClosed,
                 dropped, history, counters>>

-----------------------------------------------------------------------------
(***************************************************************************)
(* Close, at shutdown.                                                     *)
(***************************************************************************)
CloseBegin ==
  /\ Alive
  /\ ~hubClosed
  /\ hubClosed' = TRUE
  /\ closer' = [pc |-> "swap", all |-> {}]
  /\ UNCHANGED <<subs, handler, chanVars, buf, beat, publisher, dropped,
                 history, counters>>

CloseSwap ==
  /\ Alive
  /\ closer.pc = "swap"
  /\ CanWrite
  /\ closer' = [pc |-> "closing", all |-> subs]
  /\ subs' = {}
  /\ removed' = [s \in Subs |-> IF s \in subs THEN "shutdown" ELSE removed[s]]
  /\ UNCHANGED <<handler, chanVars, buf, beat, publisher, hubClosed, dropped,
                 panicked, counters>>

CloseOne(s) ==
  /\ Alive
  /\ closer.pc = "closing"
  /\ Out("closer")
  /\ s \in closer.all
  /\ closer' = [closer EXCEPT !.all = @ \ {s}]
  /\ Enter("closer", s)
  /\ UNCHANGED <<subs, handler, closedFlag, stopped, chClosed, buf, beat,
                 publisher, hubClosed, dropped, history, counters>>

\* Every heartbeat goroutine started so far has exited: wg.Wait returns.
CloseJoined ==
  /\ Alive
  /\ closer.pc = "closing"
  /\ Out("closer")
  /\ closer.all = {}
  /\ \A s \in Subs : beat[s] \in {"none", "exited"}
  /\ closer' = [closer EXCEPT !.pc = "joined"]
  /\ UNCHANGED <<subs, handler, chanVars, buf, beat, publisher, hubClosed,
                 dropped, history, counters>>

\* Close's context ends first.
CloseTimedOut ==
  /\ Alive
  /\ closer.pc = "closing"
  /\ Out("closer")
  /\ closer.all = {}
  /\ closer' = [closer EXCEPT !.pc = "timedOut"]
  /\ UNCHANGED <<subs, handler, chanVars, buf, beat, publisher, hubClosed,
                 dropped, history, counters>>

\* The process has panicked, or the hub is closed and everybody has left.
Over ==
  /\ \/ ~Alive
     \/ /\ closer.pc \in {"joined", "timedOut"}
        /\ \A s \in Subs : handler[s] = "gone" /\ beat[s] \in {"none", "exited"}
        /\ \A p \in Publishers : publisher[p].pc = "idle"
  /\ UNCHANGED vars

-----------------------------------------------------------------------------
CloseSubscriberStep(g) ==
  LoseFlag(g) \/ WinFlag(g) \/ CloseStop(g) \/ CloseCh(g)

SubscribeStep(s) == SubscribeCheck(s) \/ SubscribeAppend(s) \/ SubscribeSpawn(s)

PublishStep(p) ==
  \/ PublishLock(p)
  \/ \E s \in Subs :
       \/ PublishCheck(p, s) \/ PublishSend(p, s)
       \/ DropSlow(p, s) \/ DropGone(p, s) \/ DropCount(p, s)
  \/ PublishUnlock(p)
  \/ PublishEnd(p)

BeatStep(s) == BeatSend(s) \/ BeatExit(s)

CloserStep ==
  \/ CloseSwap
  \/ \E s \in Subs : CloseOne(s)
  \/ CloseJoined
  \/ CloseTimedOut

Next ==
  \/ \E g \in Goroutines : CloseSubscriberStep(g)
  \/ \E s \in Subs : SubscribeStep(s) \/ Receive(s) \/ Unsubscribe(s) \/ HandlerReturn(s)
  \/ \E p \in Publishers, st \in Streams : PublishBegin(p, st)
  \/ \E p \in Publishers : PublishStep(p)
  \/ \E s \in Subs : BeatCheck(s) \/ BeatStep(s)
  \/ CloseBegin
  \/ CloserStep
  \/ Over

(***************************************************************************)
(* Goroutines that can go on do. Nothing is assumed of a handler that      *)
(* serves: its client may stay for ever, or block it in a write. The hub   *)
(* need not be closed.                                                     *)
(***************************************************************************)
Fairness ==
  /\ \A g \in Goroutines : WF_vars(CloseSubscriberStep(g))
  /\ \A s \in Subs : /\ WF_vars(SubscribeStep(s))
                     /\ WF_vars(BeatStep(s))
  /\ \A p \in Publishers : WF_vars(PublishStep(p))
  /\ WF_vars(CloserStep)

Spec == Init /\ [][Next]_vars /\ Fairness

-----------------------------------------------------------------------------
(***************************************************************************)
(* Properties.                                                             *)
(***************************************************************************)
BusyPublisher ==
  [pc: {"lock", "fanout", "drop", "count"}, stream: Streams,
   todo: SUBSET Subs, open: SUBSET Subs, drop: SUBSET Subs]

\* Every variable has its type; no channel holds more than its capacity.
TypeOK ==
  /\ subs \in SUBSET Subs
  /\ handler \in [Subs -> {"new", "append", "spawn", "serving", "leaving", "gone"}]
  /\ closedFlag \in [Subs -> BOOLEAN]
  /\ stopped \in [Subs -> BOOLEAN]
  /\ chClosed \in [Subs -> BOOLEAN]
  /\ buf \in [Subs -> 0 .. BufCap]
  /\ beat \in [Subs -> {"none", "wait", "checked", "exited"}]
  /\ publisher \in [Publishers -> BusyPublisher \cup {PubIdle}]
  /\ closer \in [pc: {"idle", "swap", "closing", "joined", "timedOut"}, all: SUBSET Subs]
  /\ closing \in [Goroutines ->
       [pc: {"flag", "stop", "close"}, s: Subs] \cup {NotIn}]
  /\ hubClosed \in BOOLEAN
  /\ dropped \in Nat
  /\ removed \in [Subs -> {"no", "left", "slow", "shutdown"}]
  /\ panicked \in {"no", "publish", "heartbeat", "close"}
  /\ publishes \in Nat
  /\ beats \in Nat

\* Publish never sends on a closed channel and no channel is closed twice,
\* although closing takes no lock: a subscriber is detached under the write
\* lock before anybody closes it, and a fan-out holds the read lock
\* (hub.go Publish, removeSubscriber, dropSlowSubscriber, closeSubscriber).
PublishAndCloseSafe == panicked \notin {"publish", "close"}

\* A slow subscriber is counted once, even when several publishers found its
\* buffer full and its client left meanwhile (dropSlowSubscriber).
DroppedOnce ==
  dropped + Cardinality({p \in Publishers : publisher[p].pc = "count"})
    = Cardinality({s \in Subs : removed[s] = "slow"})

\* A subscriber that leaves the registry, as slow, at shutdown or by itself,
\* is released: its channel is closed and its heartbeat goroutine exits, even
\* one that is only started after the drop (closeSubscriber, runHeartbeat).
RemovedIsReleased ==
  \A s \in Subs :
    (removed[s] /= "no") ~> (~Alive \/ (chClosed[s] /\ beat[s] = "exited"))

\* hub.go:339: heartbeatSend sends "under the hub's read lock so it
\* serializes with closeSubscriber (which mutates under the write lock)". It
\* does not: closeSubscriber takes no lock, and a close between the check of
\* the flag and the send makes the heartbeat send on a closed channel.
HeartbeatSafe == panicked /= "heartbeat"
=============================================================================
