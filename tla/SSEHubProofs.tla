---------------------------- MODULE SSEHubProofs ----------------------------
(***************************************************************************)
(* Proofs about SSEHub, for every set of subscribers and publishers and    *)
(* every capacity: type correctness, that neither Publish nor              *)
(* closeSubscriber can panic, and that a slow subscriber is counted once.  *)
(***************************************************************************)
EXTENDS SSEHub, TLAPS, FiniteSetTheorems

USE SSEHubAssumption

Closing == [pc: {"flag", "stop", "close"}, s: Subs]

-----------------------------------------------------------------------------
\* The initial state is well typed.
LEMMA InitType == Init => TypeOK
  <1> SUFFICES ASSUME Init PROVE TypeOK
    OBVIOUS
  <1>1. buf \in [Subs -> 0 .. BufCap]
    BY DEF Init
  <1>2. closing \in [Goroutines -> [pc: {"flag", "stop", "close"}, s: Subs] \cup {NotIn}]
    BY DEF Init
  <1>3. publisher \in [Publishers -> BusyPublisher \cup {PubIdle}]
    BY DEF Init
  <1>4. closer \in [pc: {"idle", "swap", "closing", "joined", "timedOut"}, all: SUBSET Subs]
    BY DEF Init
  <1> QED
    BY <1>1, <1>2, <1>3, <1>4 DEF Init, TypeOK

\* A goroutine inside closeSubscriber holds a subscriber.
LEMMA ClosingType ==
  ASSUME TypeOK, NEW g \in Goroutines, closing[g].pc /= "none"
  PROVE  closing[g] \in Closing
  BY DEF TypeOK, NotIn, Closing

\* A publisher that is not idle has a busy publisher's type.
LEMMA PublisherType ==
  ASSUME TypeOK, NEW p \in Publishers, publisher[p].pc /= "idle"
  PROVE  publisher[p] \in BusyPublisher
  BY DEF TypeOK, PubIdle

\* Entering closeSubscriber.
LEMMA EnterType ==
  ASSUME TypeOK, NEW g \in Goroutines, NEW s \in Subs, Enter(g, s)
  PROVE  closing' \in [Goroutines -> Closing \cup {NotIn}]
  BY DEF TypeOK, Enter, Closing

\* A send keeps the buffers within their capacity.
LEMMA SendType ==
  ASSUME TypeOK, NEW s \in Subs, NEW who \in {"publish", "heartbeat"}, Send(s, who)
  PROVE  /\ buf' \in [Subs -> 0 .. BufCap]
         /\ panicked' \in {"no", "publish", "heartbeat", "close"}
  <1>1. panicked' \in {"no", "publish", "heartbeat", "close"}
    BY DEF TypeOK, Send
  <1>2. CASE chClosed[s] \/ Full(s)
    BY <1>1, <1>2 DEF TypeOK, Send
  <1>3. CASE ~(chClosed[s] \/ Full(s))
    <2>1. buf[s] + 1 \in 0 .. BufCap
      BY <1>3 DEF TypeOK, Full
    <2> QED
      BY <1>1, <1>3, <2>1 DEF TypeOK, Send
  <1> QED
    BY <1>2, <1>3

\* The steps inside closeSubscriber keep the types.
LEMMA CloseSubscriberType ==
  ASSUME TypeOK, NEW g \in Goroutines, CloseSubscriberStep(g)
  PROVE  TypeOK'
  <1>1. closing[g] \in Closing
    BY ClosingType DEF CloseSubscriberStep, LoseFlag, WinFlag, CloseStop, CloseCh
  <1>2. closing[g].s \in Subs
    BY <1>1 DEF Closing
  <1>3. closing' \in [Goroutines -> Closing \cup {NotIn}]
    BY <1>1 DEF TypeOK, CloseSubscriberStep, LoseFlag, WinFlag, CloseStop,
       CloseCh, Closing
  <1>4. CASE LoseFlag(g)
    BY <1>3, <1>4 DEF TypeOK, LoseFlag, Closing, history, counters
  <1>5. CASE WinFlag(g)
    BY <1>2, <1>3, <1>5 DEF TypeOK, WinFlag, Closing, history, counters
  <1>6. CASE CloseStop(g)
    BY <1>2, <1>3, <1>6 DEF TypeOK, CloseStop, Closing, counters
  <1>7. CASE CloseCh(g)
    BY <1>2, <1>3, <1>7 DEF TypeOK, CloseCh, Closing, counters
  <1> QED
    BY <1>4, <1>5, <1>6, <1>7 DEF CloseSubscriberStep

\* So do the handler's.
LEMMA HandlerType ==
  ASSUME TypeOK, NEW s \in Subs,
         SubscribeStep(s) \/ Receive(s) \/ Unsubscribe(s) \/ HandlerReturn(s)
  PROVE  TypeOK'
  <1>1. CASE SubscribeCheck(s)
    BY <1>1 DEF TypeOK, SubscribeCheck, chanVars, history, counters
  <1>2. CASE SubscribeAppend(s)
    BY <1>2 DEF TypeOK, SubscribeAppend, chanVars, history, counters
  <1>3. CASE SubscribeSpawn(s)
    BY <1>3 DEF TypeOK, SubscribeSpawn, chanVars, history, counters
  <1>4. CASE Receive(s)
    <2>1. buf[s] - 1 \in 0 .. BufCap
      BY <1>4 DEF TypeOK, Receive
    <2>2. buf' \in [Subs -> 0 .. BufCap]
      BY <1>4, <2>1 DEF TypeOK, Receive
    <2> QED
      BY <1>4, <2>2 DEF TypeOK, Receive, chanVars, history, counters
  <1>5. CASE Unsubscribe(s)
    <2>1. closing' \in [Goroutines -> Closing \cup {NotIn}]
      BY <1>5, EnterType DEF Unsubscribe, Goroutines
    <2> QED
      BY <1>5, <2>1 DEF TypeOK, Unsubscribe, Closing, counters
  <1>6. CASE HandlerReturn(s)
    BY <1>6 DEF TypeOK, HandlerReturn, chanVars, history, counters
  <1> QED
    BY <1>1, <1>2, <1>3, <1>4, <1>5, <1>6 DEF SubscribeStep

\* And the publishers'.
LEMMA PublishType ==
  ASSUME TypeOK, NEW p \in Publishers,
         PublishStep(p) \/ \E st \in Streams : PublishBegin(p, st)
  PROVE  TypeOK'
  <1>b. publisher[p].pc /= "idle" => publisher[p] \in BusyPublisher
    BY PublisherType
  <1>1. ASSUME NEW st \in Streams, PublishBegin(p, st)
        PROVE  TypeOK'
    <2>1. publisher' \in [Publishers -> BusyPublisher \cup {PubIdle}]
      BY <1>1 DEF TypeOK, PublishBegin, BusyPublisher
    <2> QED
      BY <1>1, <2>1 DEF TypeOK, PublishBegin, chanVars, history
  <1>2. CASE PublishLock(p)
    <2>1. Listeners(p) \in SUBSET Subs
      BY DEF TypeOK, Listeners
    <2>2. publisher' \in [Publishers -> BusyPublisher \cup {PubIdle}]
      BY <1>2, <1>b, <2>1 DEF TypeOK, PublishLock, BusyPublisher
    <2> QED
      BY <1>2, <2>2 DEF TypeOK, PublishLock, chanVars, history, counters
  <1>3. ASSUME NEW s \in Subs, PublishCheck(p, s)
        PROVE  TypeOK'
    <2>1. publisher' \in [Publishers -> BusyPublisher \cup {PubIdle}]
      BY <1>3, <1>b DEF TypeOK, PublishCheck, BusyPublisher
    <2> QED
      BY <1>3, <2>1 DEF TypeOK, PublishCheck, chanVars, history, counters
  <1>4. ASSUME NEW s \in Subs, PublishSend(p, s)
        PROVE  TypeOK'
    <2>1. publisher' \in [Publishers -> BusyPublisher \cup {PubIdle}]
      BY <1>4, <1>b DEF TypeOK, PublishSend, BusyPublisher
    <2>2. /\ buf' \in [Subs -> 0 .. BufCap]
          /\ panicked' \in {"no", "publish", "heartbeat", "close"}
      BY <1>4, SendType DEF PublishSend
    <2> QED
      BY <1>4, <2>1, <2>2 DEF TypeOK, PublishSend, chanVars, counters
  <1>5. CASE PublishUnlock(p)
    <2>1. publisher' \in [Publishers -> BusyPublisher \cup {PubIdle}]
      BY <1>5, <1>b DEF TypeOK, PublishUnlock, BusyPublisher
    <2> QED
      BY <1>5, <2>1 DEF TypeOK, PublishUnlock, chanVars, history, counters
  <1>6. ASSUME NEW s \in Subs, DropSlow(p, s)
        PROVE  TypeOK'
    <2>1. publisher' \in [Publishers -> BusyPublisher \cup {PubIdle}]
      BY <1>6, <1>b DEF TypeOK, DropSlow, BusyPublisher
    <2> QED
      BY <1>6, <2>1 DEF TypeOK, DropSlow, chanVars, counters
  <1>7. ASSUME NEW s \in Subs, DropGone(p, s)
        PROVE  TypeOK'
    <2>1. publisher' \in [Publishers -> BusyPublisher \cup {PubIdle}]
      BY <1>7, <1>b DEF TypeOK, DropGone, BusyPublisher
    <2> QED
      BY <1>7, <2>1 DEF TypeOK, DropGone, chanVars, history, counters
  <1>8. ASSUME NEW s \in Subs, DropCount(p, s)
        PROVE  TypeOK'
    <2>1. publisher' \in [Publishers -> BusyPublisher \cup {PubIdle}]
      BY <1>8, <1>b DEF TypeOK, DropCount, BusyPublisher
    <2>2. closing' \in [Goroutines -> Closing \cup {NotIn}]
      BY <1>8, EnterType DEF DropCount, Goroutines
    <2>3. dropped' \in Nat
      BY <1>8 DEF TypeOK, DropCount
    <2> QED
      BY <1>8, <2>1, <2>2, <2>3 DEF TypeOK, DropCount, Closing, history, counters
  <1>9. CASE PublishEnd(p)
    BY <1>9 DEF TypeOK, PublishEnd, chanVars, history, counters
  <1> QED
    BY <1>1, <1>2, <1>3, <1>4, <1>5, <1>6, <1>7, <1>8, <1>9 DEF PublishStep

\* And those of the heartbeats, of Close and of a state that stays.
LEMMA OtherType ==
  ASSUME TypeOK,
         \/ \E s \in Subs : BeatCheck(s) \/ BeatStep(s)
         \/ CloseBegin \/ CloserStep \/ UNCHANGED vars
  PROVE  TypeOK'
  <1>1. ASSUME NEW s \in Subs, BeatCheck(s)
        PROVE  TypeOK'
    <2>1. beat' \in [Subs -> {"none", "wait", "checked", "exited"}]
      BY <1>1 DEF TypeOK, BeatCheck
    <2>2. beats' \in Nat
      BY <1>1 DEF TypeOK, BeatCheck
    <2> QED
      BY <1>1, <2>1, <2>2 DEF TypeOK, BeatCheck, chanVars, history
  <1>2. ASSUME NEW s \in Subs, BeatSend(s)
        PROVE  TypeOK'
    <2>1. /\ buf' \in [Subs -> 0 .. BufCap]
          /\ panicked' \in {"no", "publish", "heartbeat", "close"}
      BY <1>2, SendType DEF BeatSend
    <2> QED
      BY <1>2, <2>1 DEF TypeOK, BeatSend, chanVars, counters
  <1>3. ASSUME NEW s \in Subs, BeatExit(s)
        PROVE  TypeOK'
    BY <1>3 DEF TypeOK, BeatExit, chanVars, history, counters
  <1>4. CASE CloseBegin
    BY <1>4 DEF TypeOK, CloseBegin, chanVars, history, counters
  <1>5. CASE CloseSwap
    BY <1>5 DEF TypeOK, CloseSwap, chanVars, counters
  <1>6. ASSUME NEW s \in Subs, CloseOne(s)
        PROVE  TypeOK'
    <2>1. closing' \in [Goroutines -> Closing \cup {NotIn}]
      BY <1>6, EnterType DEF CloseOne, Goroutines
    <2> QED
      BY <1>6, <2>1 DEF TypeOK, CloseOne, Closing, history, counters
  <1>7. CASE CloseJoined \/ CloseTimedOut
    BY <1>7 DEF TypeOK, CloseJoined, CloseTimedOut, chanVars, history, counters
  <1>8. CASE UNCHANGED vars
    BY <1>8 DEF TypeOK, vars, chanVars, history, counters
  <1> QED
    BY <1>1, <1>2, <1>3, <1>4, <1>5, <1>6, <1>7, <1>8 DEF BeatStep, CloserStep

\* Every step keeps the types.
LEMMA NextType == TypeOK /\ [Next]_vars => TypeOK'
  BY CloseSubscriberType, HandlerType, PublishType, OtherType DEF Next, Over

\* Every variable keeps its type and every channel its capacity.
THEOREM TypeCorrect == Spec => []TypeOK
  BY InitType, NextType, PTL DEF Spec

-----------------------------------------------------------------------------
(***************************************************************************)
(* Why nothing panics in Publish and closeSubscriber. Whoever is about to  *)
(* close a subscriber has found it out of the registry for good, while a   *)
(* fan-out only holds registered ones, and registration cannot change      *)
(* under its read lock. The flag lets one goroutine at a time go on to the *)
(* channels.                                                               *)
(***************************************************************************)

\* Not registered yet.
Before(s) == handler[s] \in {"new", "append"}

\* Out of the registry for good.
Detached(s) == s \notin subs /\ ~Before(s)

\* A registered subscriber is open and not in Close's hands.
InvListed == \A s \in subs : ~Before(s) /\ ~closedFlag[s] /\ s \notin closer.all

\* So is one that has still to register.
InvBefore == \A s \in Subs : Before(s) => ~closedFlag[s] /\ s \notin closer.all

\* Whatever is being closed, or is about to be, is detached.
InvDetached ==
  /\ \A g \in Goroutines : closing[g].pc /= "none" => Detached(closing[g].s)
  /\ \A p \in Publishers : publisher[p].pc = "count" =>
       \A s \in publisher[p].open : Detached(s)

\* A fan-out holds registered subscribers only.
InvFanout ==
  \A p \in Publishers :
    /\ publisher[p].pc = "lock" => publisher[p].open = {}
    /\ publisher[p].pc = "fanout" =>
         publisher[p].todo \cup publisher[p].open \subseteq subs

\* The channels are closed after the flag is up.
InvFlag == \A s \in Subs : stopped[s] \/ chClosed[s] => closedFlag[s]

\* The winner of the flag has its channels still to close.
InvWinner ==
  \A g \in Goroutines :
    /\ closing[g].pc = "stop" =>
         closedFlag[closing[g].s] /\ ~stopped[closing[g].s] /\ ~chClosed[closing[g].s]
    /\ closing[g].pc = "close" => closedFlag[closing[g].s] /\ ~chClosed[closing[g].s]

\* There is one winner.
InvUnique ==
  \A g, h \in Goroutines :
    /\ closing[g].pc \in {"stop", "close"}
    /\ closing[h].pc \in {"stop", "close"}
    /\ closing[g].s = closing[h].s
    => g = h

HubSafe ==
  /\ InvListed /\ InvBefore /\ InvDetached /\ InvFanout
  /\ InvFlag /\ InvWinner /\ InvUnique
  /\ PublishAndCloseSafe

HubInv == TypeOK /\ HubSafe

\* Nobody subscribes, publishes or closes in the initial state.
LEMMA InitHub == Init => HubInv
  <1> SUFFICES ASSUME Init PROVE HubInv
    OBVIOUS
  <1>1. TypeOK
    BY InitType
  <1>2. /\ subs = {} /\ closer.all = {} /\ panicked = "no"
        /\ \A s \in Subs : ~closedFlag[s] /\ ~stopped[s] /\ ~chClosed[s]
        /\ \A g \in Goroutines : closing[g].pc = "none"
        /\ \A p \in Publishers : publisher[p].pc = "idle"
    BY DEF Init, NotIn, PubIdle
  <1> QED
    BY <1>1, <1>2 DEF HubInv, HubSafe, InvListed, InvBefore, InvDetached,
       InvFanout, InvFlag, InvWinner, InvUnique, PublishAndCloseSafe

\* The steps of closeSubscriber: the registry and the fan-outs do not change.
LEMMA CloseSubscriberHub ==
  ASSUME HubInv, NEW g \in Goroutines, CloseSubscriberStep(g)
  PROVE  HubSafe'
  <1> DEFINE t == closing[g].s
  <1>0. TypeOK /\ HubSafe
    BY DEF HubInv
  <1>1. closing[g] \in Closing /\ t \in Subs
    <2>1. closing[g] \in Closing
      BY <1>0, ClosingType DEF CloseSubscriberStep, LoseFlag, WinFlag, CloseStop, CloseCh
    <2> QED
      BY <2>1 DEF Closing
  <1>2. Detached(t)
    BY <1>0, <1>1 DEF HubSafe, InvDetached, Closing
  <1>3. UNCHANGED <<subs, handler, closer, publisher>>
    BY DEF CloseSubscriberStep, LoseFlag, WinFlag, CloseStop, CloseCh
  <1>4. /\ \A h \in Goroutines : h /= g => closing'[h] = closing[h]
        /\ closing'[g].pc /= "none" => closing'[g].s = t
    BY <1>0, <1>1 DEF CloseSubscriberStep, LoseFlag, WinFlag, CloseStop,
       CloseCh, TypeOK, Closing, NotIn
  <1>5. \A s \in Subs : s /= t =>
          /\ closedFlag'[s] = closedFlag[s]
          /\ stopped'[s] = stopped[s]
          /\ chClosed'[s] = chClosed[s]
    BY <1>0 DEF CloseSubscriberStep, LoseFlag, WinFlag, CloseStop, CloseCh, TypeOK
  <1> HIDE DEF t
  <1>6. InvListed' /\ InvBefore'
    BY <1>0, <1>2, <1>3, <1>5 DEF HubSafe, InvListed, InvBefore, Detached, Before, TypeOK
  <1>7. InvDetached'
    BY <1>0, <1>2, <1>3, <1>4 DEF HubSafe, InvDetached, Detached, Before
  <1>8. InvFanout'
    BY <1>0, <1>3 DEF HubSafe, InvFanout
  <1>9. InvFlag' /\ InvWinner' /\ InvUnique' /\ PublishAndCloseSafe'
    <2>1. CASE LoseFlag(g)
      <3>1. closing'[g].pc = "none" /\ UNCHANGED <<closedFlag, stopped, chClosed, panicked>>
        BY <1>0, <2>1 DEF LoseFlag, NotIn, TypeOK, history
      <3> QED
        BY <1>0, <1>4, <3>1 DEF HubSafe, InvFlag, InvWinner, InvUnique, PublishAndCloseSafe
    <2>2. CASE WinFlag(g)
      <3>1. /\ closing'[g].pc = "stop" /\ closing'[g].s = t
            /\ ~closedFlag[t] /\ closedFlag'[t] = TRUE
            /\ UNCHANGED <<stopped, chClosed, panicked>>
        BY <1>0, <1>1, <2>2 DEF WinFlag, TypeOK, history, Closing, t
      <3>2. ~stopped[t] /\ ~chClosed[t]
        BY <1>0, <1>1, <3>1 DEF HubSafe, InvFlag
      <3>3. \A h \in Goroutines : closing[h].pc \in {"stop", "close"} => closing[h].s /= t
        BY <1>0, <3>1 DEF HubSafe, InvWinner
      <3>4. InvFlag'
        BY <1>0, <1>1, <1>5, <3>1 DEF HubSafe, InvFlag
      <3>5. InvWinner'
        <4> SUFFICES ASSUME NEW h \in Goroutines, closing'[h].pc \in {"stop", "close"}
                     PROVE  /\ closing'[h].pc = "stop" =>
                                 /\ closedFlag'[closing'[h].s]
                                 /\ ~stopped'[closing'[h].s] /\ ~chClosed'[closing'[h].s]
                            /\ closing'[h].pc = "close" =>
                                 /\ closedFlag'[closing'[h].s]
                                 /\ ~chClosed'[closing'[h].s]
          BY DEF InvWinner
        <4>1. CASE h = g
          BY <4>1, <3>1, <3>2
        <4>2. CASE h /= g
          <5>1. closing'[h] = closing[h] /\ closing[h] \in Closing
            BY <4>2, <1>0, <1>4, ClosingType
          <5>2. closing[h].s \in Subs /\ closing[h].s /= t
            BY <5>1, <3>3 DEF Closing
          <5> QED
            BY <5>1, <5>2, <1>0, <1>5, <3>1 DEF HubSafe, InvWinner
        <4> QED
          BY <4>1, <4>2
      <3>6. InvUnique'
        BY <1>0, <1>4, <3>1, <3>3 DEF HubSafe, InvUnique
      <3> QED
        BY <1>0, <3>1, <3>4, <3>5, <3>6 DEF HubSafe, PublishAndCloseSafe
    <2>3. CASE CloseStop(g)
      <3>1. /\ closing[g].pc = "stop" /\ closing'[g].pc = "close" /\ closing'[g].s = t
            /\ UNCHANGED <<closedFlag, chClosed>>
        BY <1>0, <1>1, <2>3 DEF CloseStop, TypeOK, Closing, t
      <3>2. closedFlag[t] /\ ~stopped[t] /\ ~chClosed[t]
        BY <1>0, <3>1 DEF HubSafe, InvWinner, t
      <3>3. panicked' = panicked
        BY <2>3, <3>2 DEF CloseStop, t
      <3>4. \A h \in Goroutines : h /= g /\ closing[h].pc \in {"stop", "close"}
              => closing[h].s /= t
        BY <1>0, <3>1 DEF HubSafe, InvUnique, t
      <3>5. InvFlag'
        BY <1>0, <1>1, <1>5, <3>1, <3>2 DEF HubSafe, InvFlag
      <3>6. InvWinner'
        <4> SUFFICES ASSUME NEW h \in Goroutines, closing'[h].pc \in {"stop", "close"}
                     PROVE  /\ closing'[h].pc = "stop" =>
                                 /\ closedFlag'[closing'[h].s]
                                 /\ ~stopped'[closing'[h].s] /\ ~chClosed'[closing'[h].s]
                            /\ closing'[h].pc = "close" =>
                                 /\ closedFlag'[closing'[h].s]
                                 /\ ~chClosed'[closing'[h].s]
          BY DEF InvWinner
        <4>1. CASE h = g
          BY <4>1, <3>1, <3>2
        <4>2. CASE h /= g
          <5>1. closing'[h] = closing[h] /\ closing[h] \in Closing
            BY <4>2, <1>0, <1>4, ClosingType
          <5>2. closing[h].s \in Subs /\ closing[h].s /= t
            BY <4>2, <5>1, <3>4 DEF Closing
          <5> QED
            BY <5>1, <5>2, <1>0, <1>5, <3>1 DEF HubSafe, InvWinner
        <4> QED
          BY <4>1, <4>2
      <3>7. InvUnique'
        BY <1>0, <1>4, <3>1, <3>4 DEF HubSafe, InvUnique
      <3> QED
        BY <1>0, <3>3, <3>5, <3>6, <3>7 DEF HubSafe, PublishAndCloseSafe
    <2>4. CASE CloseCh(g)
      <3>1. /\ closing[g].pc = "close" /\ closing'[g].pc = "none"
            /\ UNCHANGED <<closedFlag, stopped>>
        BY <1>0, <2>4 DEF CloseCh, NotIn, TypeOK
      <3>2. closedFlag[t] /\ ~chClosed[t]
        BY <1>0, <3>1 DEF HubSafe, InvWinner, t
      <3>3. panicked' = panicked
        BY <2>4, <3>2 DEF CloseCh, t
      <3>4. \A h \in Goroutines : h /= g /\ closing[h].pc \in {"stop", "close"}
              => closing[h].s /= t
        BY <1>0, <3>1 DEF HubSafe, InvUnique, t
      <3>5. InvFlag'
        BY <1>0, <1>1, <1>5, <3>1, <3>2 DEF HubSafe, InvFlag
      <3>6. InvWinner'
        <4> SUFFICES ASSUME NEW h \in Goroutines, closing'[h].pc \in {"stop", "close"}
                     PROVE  /\ closing'[h].pc = "stop" =>
                                 /\ closedFlag'[closing'[h].s]
                                 /\ ~stopped'[closing'[h].s] /\ ~chClosed'[closing'[h].s]
                            /\ closing'[h].pc = "close" =>
                                 /\ closedFlag'[closing'[h].s]
                                 /\ ~chClosed'[closing'[h].s]
          BY DEF InvWinner
        <4>1. h /= g
          BY <3>1
        <4>2. closing'[h] = closing[h] /\ closing[h] \in Closing
          BY <4>1, <1>0, <1>4, ClosingType
        <4>3. closing[h].s \in Subs /\ closing[h].s /= t
          BY <4>1, <4>2, <3>4 DEF Closing
        <4> QED
          BY <4>2, <4>3, <1>0, <1>5, <3>1 DEF HubSafe, InvWinner
      <3>7. InvUnique'
        BY <1>0, <1>4, <3>1 DEF HubSafe, InvUnique
      <3> QED
        BY <1>0, <3>3, <3>5, <3>6, <3>7 DEF HubSafe, PublishAndCloseSafe
    <2> QED
      BY <2>1, <2>2, <2>3, <2>4 DEF CloseSubscriberStep
  <1> QED
    BY <1>6, <1>7, <1>8, <1>9 DEF HubSafe

\* A step outside closeSubscriber that does not touch the registration: the
\* publishers may only take registered subscribers, Close may only let go.
LEMMA QuietHub ==
  ASSUME HubInv,
         UNCHANGED <<subs, handler, closedFlag, stopped, chClosed, closing>>,
         closer'.all \subseteq closer.all,
         panicked' \notin {"publish", "close"},
         \A p \in Publishers :
           \/ publisher'[p] = publisher[p]
           \/ publisher'[p].pc \notin {"lock", "fanout", "count"}
           \/ publisher'[p].pc = "lock" /\ publisher'[p].open = {}
           \/ publisher'[p].pc = "fanout" /\
              publisher'[p].todo \cup publisher'[p].open \subseteq subs
  PROVE  HubSafe'
  <1>1. HubSafe
    BY DEF HubInv
  <1>2. InvListed' /\ InvBefore'
    BY <1>1 DEF HubSafe, InvListed, InvBefore, Before
  <1>3. InvDetached' /\ InvFanout'
    BY <1>1 DEF HubSafe, InvDetached, InvFanout, Detached, Before
  <1>4. InvFlag' /\ InvWinner' /\ InvUnique' /\ PublishAndCloseSafe'
    BY <1>1 DEF HubSafe, InvFlag, InvWinner, InvUnique, PublishAndCloseSafe
  <1> QED
    BY <1>2, <1>3, <1>4 DEF HubSafe

\* Entering closeSubscriber with a detached subscriber.
LEMMA EnterHub ==
  ASSUME HubInv, NEW g \in Goroutines, NEW s \in Subs, Enter(g, s),
         UNCHANGED <<closedFlag, stopped, chClosed>>
  PROVE  /\ InvFlag' /\ InvWinner' /\ InvUnique'
         /\ closing'[g].s = s
         /\ \A h \in Goroutines : h /= g => closing'[h] = closing[h]
  <1>1. TypeOK /\ InvFlag /\ InvWinner /\ InvUnique
    BY DEF HubInv, HubSafe
  <1>2. /\ closing'[g].pc = "flag" /\ closing'[g].s = s
        /\ \A h \in Goroutines : h /= g => closing'[h] = closing[h]
    BY <1>1 DEF Enter, TypeOK
  <1> QED
    BY <1>1, <1>2 DEF InvFlag, InvWinner, InvUnique

\* The handler's steps.
LEMMA HandlerHub ==
  ASSUME HubInv, NEW s \in Subs,
         SubscribeStep(s) \/ Receive(s) \/ Unsubscribe(s) \/ HandlerReturn(s)
  PROVE  HubSafe'
  <1>0. TypeOK /\ HubSafe /\ panicked \notin {"publish", "close"}
    BY DEF HubInv, HubSafe, PublishAndCloseSafe
  <1>t. handler \in [Subs -> {"new", "append", "spawn", "serving", "leaving", "gone"}]
    BY <1>0 DEF TypeOK
  <1>1. CASE SubscribeCheck(s) \/ SubscribeSpawn(s) \/ HandlerReturn(s)
    <2>1. /\ UNCHANGED <<subs, closedFlag, stopped, chClosed, closing, publisher,
                         closer, panicked>>
          /\ \A r \in Subs : Before(r)' => Before(r)
      BY <1>1, <1>t DEF SubscribeCheck, SubscribeSpawn, HandlerReturn, Before,
         chanVars, history
    <2>2. InvListed' /\ InvBefore'
      BY <1>0, <2>1 DEF HubSafe, InvListed, InvBefore, TypeOK
    <2>3. InvDetached'
      <3>1. \A r \in Subs : Detached(r) => Detached(r)'
        BY <2>1 DEF Detached
      <3>2. \A g \in Goroutines : closing[g].pc /= "none" => closing[g].s \in Subs
        BY <1>0, ClosingType DEF Closing
      <3>3. \A p \in Publishers : publisher[p].pc = "count" => publisher[p].open \subseteq Subs
        BY <1>0, PublisherType DEF BusyPublisher
      <3> QED
        BY <1>0, <2>1, <3>1, <3>2, <3>3 DEF HubSafe, InvDetached
    <2>4. InvFanout' /\ InvFlag' /\ InvWinner' /\ InvUnique' /\ PublishAndCloseSafe'
      BY <1>0, <2>1 DEF HubSafe, InvFanout, InvFlag, InvWinner, InvUnique,
         PublishAndCloseSafe
    <2> QED
      BY <2>2, <2>3, <2>4 DEF HubSafe
  <1>2. CASE SubscribeAppend(s)
    <2>1. /\ UNCHANGED <<closedFlag, stopped, chClosed, closing, publisher, closer,
                         panicked>>
          /\ subs' = subs \cup {s} /\ Before(s) /\ ~Before(s)'
          /\ \A r \in Subs : Before(r)' => Before(r)
          /\ \A r \in Subs : r /= s => Before(r)' = Before(r)
      BY <1>2, <1>t DEF SubscribeAppend, Before, chanVars, history
    <2>2. InvListed' /\ InvBefore'
      BY <1>0, <2>1 DEF HubSafe, InvListed, InvBefore, TypeOK
    <2>3. InvDetached'
      <3>1. \A r \in Subs : Detached(r) => Detached(r)'
        BY <2>1 DEF Detached
      <3>2. \A g \in Goroutines : closing[g].pc /= "none" => closing[g].s \in Subs
        BY <1>0, ClosingType DEF Closing
      <3>3. \A p \in Publishers : publisher[p].pc = "count" => publisher[p].open \subseteq Subs
        BY <1>0, PublisherType DEF BusyPublisher
      <3> QED
        BY <1>0, <2>1, <3>1, <3>2, <3>3 DEF HubSafe, InvDetached
    <2>4. InvFanout' /\ InvFlag' /\ InvWinner' /\ InvUnique' /\ PublishAndCloseSafe'
      BY <1>0, <2>1 DEF HubSafe, InvFanout, InvFlag, InvWinner, InvUnique,
         PublishAndCloseSafe
    <2> QED
      BY <2>2, <2>3, <2>4 DEF HubSafe
  <1>3. CASE Receive(s)
    <2>1. UNCHANGED <<subs, handler, closedFlag, stopped, chClosed, closing,
                      closer, panicked, publisher>>
      BY <1>3 DEF Receive, chanVars, history
    <2> QED
      BY <1>0, <2>1, QuietHub
  <1>4. CASE Unsubscribe(s)
    <2>1. /\ UNCHANGED <<closedFlag, stopped, chClosed, publisher, closer, panicked>>
          /\ subs' = subs \ {s} /\ ~Before(s)' /\ ~Before(s) /\ Enter(s, s)
          /\ \A r \in Subs : Before(r)' => Before(r)
          /\ \A p \in Publishers : publisher[p].pc /= "fanout"
      BY <1>4, <1>t DEF Unsubscribe, Before, CanWrite
    <2>2. /\ InvFlag' /\ InvWinner' /\ InvUnique'
          /\ closing'[s].s = s
          /\ \A h \in Goroutines : h /= s => closing'[h] = closing[h]
      BY <2>1, EnterHub DEF Goroutines
    <2>3. InvListed' /\ InvBefore'
      BY <1>0, <2>1 DEF HubSafe, InvListed, InvBefore, TypeOK
    <2>4. InvDetached'
      <3>1. Detached(s)' /\ \A r \in Subs : Detached(r) => Detached(r)'
        BY <2>1 DEF Detached
      <3>2. \A g \in Goroutines : closing[g].pc /= "none" => closing[g].s \in Subs
        BY <1>0, ClosingType DEF Closing
      <3>3. \A p \in Publishers : publisher[p].pc = "count" => publisher[p].open \subseteq Subs
        BY <1>0, PublisherType DEF BusyPublisher
      <3> QED
        BY <1>0, <2>1, <2>2, <3>1, <3>2, <3>3 DEF HubSafe, InvDetached
    <2>5. InvFanout' /\ PublishAndCloseSafe'
      BY <1>0, <2>1 DEF HubSafe, InvFanout, PublishAndCloseSafe
    <2> QED
      BY <2>2, <2>3, <2>4, <2>5 DEF HubSafe
  <1> QED
    BY <1>1, <1>2, <1>3, <1>4 DEF SubscribeStep

\* The publishers' steps. The subscriber a fan-out sends to is registered, so
\* its channel is open.
LEMMA PublishHub ==
  ASSUME HubInv, NEW p \in Publishers,
         PublishStep(p) \/ \E st \in Streams : PublishBegin(p, st)
  PROVE  HubSafe'
  <1>0. TypeOK /\ HubSafe /\ panicked \notin {"publish", "close"}
    BY DEF HubInv, HubSafe, PublishAndCloseSafe
  <1>b. publisher[p].pc /= "idle" => publisher[p] \in BusyPublisher
    BY <1>0, PublisherType
  <1>q. ASSUME UNCHANGED <<subs, handler, closedFlag, stopped, chClosed, closing,
                           closer, panicked>>,
               NEW r, publisher' = [publisher EXCEPT ![p] = r],
               \/ r.pc \notin {"lock", "fanout", "count"}
               \/ r.pc = "lock" /\ r.open = {}
               \/ r.pc = "fanout" /\ r.todo \cup r.open \subseteq subs
        PROVE  HubSafe'
    <2>1. \A q \in Publishers :
            publisher'[q] = IF q = p THEN r ELSE publisher[q]
      BY <1>0, <1>q DEF TypeOK
    <2> QED
      BY <1>0, <1>q, <2>1, QuietHub
  <1>1. ASSUME NEW st \in Streams, PublishBegin(p, st)
        PROVE  HubSafe'
    BY <1>1, <1>q DEF PublishBegin, chanVars, history
  <1>2. CASE PublishLock(p)
    <2> DEFINE r == [publisher[p] EXCEPT !.pc = "fanout", !.todo = Listeners(p)]
    <2>1. publisher[p] \in BusyPublisher
      BY <1>2, <1>b DEF PublishLock
    <2>2. publisher' = [publisher EXCEPT ![p] = r]
      BY <1>2 DEF PublishLock
    <2>3. r.pc = "fanout" /\ r.todo = Listeners(p) /\ r.open = publisher[p].open
      BY <2>1 DEF BusyPublisher
    <2>4. publisher[p].open = {}
      BY <1>0, <1>2 DEF HubSafe, InvFanout, PublishLock
    <2>5. r.todo \cup r.open \subseteq subs
      BY <2>3, <2>4 DEF Listeners
    <2> HIDE DEF r
    <2> QED
      BY <1>2, <1>q, <2>2, <2>3, <2>5 DEF PublishLock, chanVars, history
  <1>3. ASSUME NEW s \in Subs, PublishCheck(p, s)
        PROVE  HubSafe'
    <2> DEFINE r == [publisher[p] EXCEPT !.todo = @ \ {s},
                                         !.open = IF closedFlag[s] THEN {} ELSE {s}]
    <2>1. publisher[p] \in BusyPublisher
      BY <1>3, <1>b DEF PublishCheck
    <2>2. publisher' = [publisher EXCEPT ![p] = r]
      BY <1>3 DEF PublishCheck
    <2>3. /\ r.pc = "fanout" /\ r.todo = publisher[p].todo \ {s}
          /\ r.open \subseteq {s} /\ s \in publisher[p].todo
      BY <1>3, <2>1 DEF BusyPublisher, PublishCheck
    <2>4. r.todo \cup r.open \subseteq subs
      BY <1>0, <1>3, <2>3 DEF HubSafe, InvFanout, PublishCheck
    <2> HIDE DEF r
    <2> QED
      BY <1>3, <1>q, <2>2, <2>3, <2>4 DEF PublishCheck, chanVars, history
  <1>4. ASSUME NEW s \in Subs, PublishSend(p, s)
        PROVE  HubSafe'
    <2> DEFINE r == [publisher[p] EXCEPT !.open = {},
                       !.drop = IF Full(s) THEN @ \cup {s} ELSE @]
    <2>1. publisher[p] \in BusyPublisher
      BY <1>4, <1>b DEF PublishSend
    <2>2. publisher' = [publisher EXCEPT ![p] = r]
      BY <1>4 DEF PublishSend
    <2>3. r.pc = "fanout" /\ r.todo = publisher[p].todo /\ r.open = {}
      BY <1>4, <2>1 DEF BusyPublisher, PublishSend
    <2>4. publisher[p].todo \cup publisher[p].open \subseteq subs
      BY <1>0, <1>4 DEF HubSafe, InvFanout, PublishSend
    <2>5. ~chClosed[s]
      BY <1>0, <1>4, <2>4 DEF HubSafe, InvListed, InvFlag, PublishSend
    <2>6. panicked' = panicked
      BY <1>4, <2>5 DEF PublishSend, Send
    <2> HIDE DEF r
    <2> QED
      BY <1>4, <1>q, <2>2, <2>3, <2>4, <2>6 DEF PublishSend, chanVars
  <1>5. CASE PublishUnlock(p)
    <2>1. publisher[p] \in BusyPublisher
      BY <1>5, <1>b DEF PublishUnlock
    <2>2. [publisher[p] EXCEPT !.pc = "drop"].pc = "drop"
      BY <2>1 DEF BusyPublisher
    <2> QED
      BY <1>5, <1>q, <2>2 DEF PublishUnlock, chanVars, history
  <1>6. ASSUME NEW s \in Subs, DropSlow(p, s)
        PROVE  HubSafe'
    <2>1. publisher[p] \in BusyPublisher
      BY <1>6, <1>b DEF DropSlow
    <2>2. /\ UNCHANGED <<handler, closedFlag, stopped, chClosed, closing, closer, panicked>>
          /\ subs' = subs \ {s} /\ s \in subs
          /\ \A q \in Publishers : publisher[q].pc /= "fanout"
      BY <1>6 DEF DropSlow, CanWrite, chanVars
    <2>3. /\ publisher'[p].pc = "count" /\ publisher'[p].open = {s}
          /\ \A q \in Publishers : q /= p => publisher'[q] = publisher[q]
      BY <1>0, <1>6, <2>1 DEF DropSlow, BusyPublisher, TypeOK
    <2>4. InvListed' /\ InvBefore'
      BY <1>0, <2>2 DEF HubSafe, InvListed, InvBefore, Before
    <2>5. InvDetached'
      <3>1. Detached(s)'
        BY <1>0, <2>2 DEF HubSafe, InvListed, Detached, Before
      <3>2. \A r : Detached(r) => Detached(r)'
        BY <2>2 DEF Detached, Before
      <3> QED
        BY <1>0, <2>2, <2>3, <3>1, <3>2 DEF HubSafe, InvDetached
    <2>6. InvFanout' /\ InvFlag' /\ InvWinner' /\ InvUnique' /\ PublishAndCloseSafe'
      BY <1>0, <2>2, <2>3 DEF HubSafe, InvFanout, InvFlag, InvWinner, InvUnique,
         PublishAndCloseSafe
    <2> QED
      BY <2>4, <2>5, <2>6 DEF HubSafe
  <1>7. ASSUME NEW s \in Subs, DropGone(p, s)
        PROVE  HubSafe'
    <2>1. publisher[p] \in BusyPublisher
      BY <1>7, <1>b DEF DropGone
    <2>2. [publisher[p] EXCEPT !.drop = @ \ {s}].pc = "drop"
      BY <1>7, <2>1 DEF BusyPublisher, DropGone
    <2> QED
      BY <1>7, <1>q, <2>2 DEF DropGone, chanVars, history
  <1>8. ASSUME NEW s \in Subs, DropCount(p, s)
        PROVE  HubSafe'
    <2>1. publisher[p] \in BusyPublisher
      BY <1>8, <1>b DEF DropCount
    <2>2. /\ UNCHANGED <<subs, handler, closedFlag, stopped, chClosed, closer, panicked>>
          /\ Enter(p, s) /\ p \in Goroutines
      BY <1>8 DEF DropCount, history, Goroutines
    <2>3. /\ publisher'[p].pc = "drop"
          /\ \A q \in Publishers : q /= p => publisher'[q] = publisher[q]
      BY <1>0, <1>8, <2>1 DEF DropCount, BusyPublisher, TypeOK
    <2>4. /\ InvFlag' /\ InvWinner' /\ InvUnique'
          /\ closing'[p].s = s
          /\ \A h \in Goroutines : h /= p => closing'[h] = closing[h]
      BY <2>2, EnterHub
    <2>5. InvDetached'
      <3>1. Detached(s)
        BY <1>0, <1>8 DEF HubSafe, InvDetached, DropCount
      <3>2. \A r : Detached(r) => Detached(r)'
        BY <2>2 DEF Detached, Before
      <3> QED
        BY <1>0, <2>3, <2>4, <3>1, <3>2 DEF HubSafe, InvDetached
    <2>6. InvListed' /\ InvBefore' /\ InvFanout' /\ PublishAndCloseSafe'
      BY <1>0, <2>2, <2>3 DEF HubSafe, InvListed, InvBefore, Before, InvFanout,
         PublishAndCloseSafe
    <2> QED
      BY <2>4, <2>5, <2>6 DEF HubSafe
  <1>9. CASE PublishEnd(p)
    BY <1>9, <1>q DEF PublishEnd, PubIdle, chanVars, history
  <1> QED
    BY <1>1, <1>2, <1>3, <1>4, <1>5, <1>6, <1>7, <1>8, <1>9 DEF PublishStep

\* The heartbeats and Close. A heartbeat may panic, as "heartbeat"; Close
\* takes the registry away before it closes anybody.
LEMMA OtherHub ==
  ASSUME HubInv,
         \/ \E s \in Subs : BeatCheck(s) \/ BeatStep(s)
         \/ CloseBegin \/ CloserStep \/ UNCHANGED vars
  PROVE  HubSafe'
  <1>0. TypeOK /\ HubSafe /\ panicked \notin {"publish", "close"}
    BY DEF HubInv, HubSafe, PublishAndCloseSafe
  <1>c. closer \in [pc: {"idle", "swap", "closing", "joined", "timedOut"}, all: SUBSET Subs]
    BY <1>0 DEF TypeOK
  <1>q. ASSUME UNCHANGED <<subs, handler, closedFlag, stopped, chClosed, closing, publisher>>,
               closer'.all \subseteq closer.all,
               panicked' \notin {"publish", "close"}
        PROVE  HubSafe'
    BY <1>q, QuietHub
  <1>1. ASSUME NEW s \in Subs, BeatCheck(s)
        PROVE  HubSafe'
    BY <1>0, <1>1, <1>q DEF BeatCheck, chanVars, history
  <1>2. ASSUME NEW s \in Subs, BeatSend(s)
        PROVE  HubSafe'
    BY <1>0, <1>2, <1>q DEF BeatSend, Send, chanVars
  <1>3. ASSUME NEW s \in Subs, BeatExit(s)
        PROVE  HubSafe'
    BY <1>0, <1>3, <1>q DEF BeatExit, chanVars, history
  <1>4. CASE CloseBegin
    BY <1>0, <1>4, <1>c, <1>q DEF CloseBegin, chanVars, history
  <1>5. CASE CloseSwap
    <2>1. /\ UNCHANGED <<handler, closedFlag, stopped, chClosed, closing, publisher, panicked>>
          /\ subs' = {} /\ closer'.all = subs
          /\ \A q \in Publishers : publisher[q].pc /= "fanout"
      BY <1>5 DEF CloseSwap, CanWrite, chanVars
    <2>2. InvListed' /\ InvBefore'
      BY <1>0, <2>1 DEF HubSafe, InvListed, InvBefore, Before
    <2>3. InvDetached'
      BY <1>0, <2>1 DEF HubSafe, InvDetached, Detached, Before
    <2>4. InvFanout' /\ InvFlag' /\ InvWinner' /\ InvUnique' /\ PublishAndCloseSafe'
      BY <1>0, <2>1 DEF HubSafe, InvFanout, InvFlag, InvWinner, InvUnique,
         PublishAndCloseSafe
    <2> QED
      BY <2>2, <2>3, <2>4 DEF HubSafe
  <1>6. ASSUME NEW s \in Subs, CloseOne(s)
        PROVE  HubSafe'
    <2>1. /\ UNCHANGED <<subs, handler, closedFlag, stopped, chClosed, publisher, panicked>>
          /\ Enter("closer", s) /\ "closer" \in Goroutines
          /\ closer'.all \subseteq closer.all /\ s \in closer.all
      BY <1>6, <1>c DEF CloseOne, history, Goroutines
    <2>2. /\ InvFlag' /\ InvWinner' /\ InvUnique'
          /\ closing'["closer"].s = s
          /\ \A h \in Goroutines : h /= "closer" => closing'[h] = closing[h]
      BY <2>1, EnterHub
    <2>3. InvDetached'
      <3>1. Detached(s)
        BY <1>0, <2>1 DEF HubSafe, InvListed, InvBefore, Detached
      <3>2. \A r : Detached(r) => Detached(r)'
        BY <2>1 DEF Detached, Before
      <3> QED
        BY <1>0, <2>1, <2>2, <3>1, <3>2 DEF HubSafe, InvDetached
    <2>4. InvListed' /\ InvBefore' /\ InvFanout' /\ PublishAndCloseSafe'
      BY <1>0, <2>1 DEF HubSafe, InvListed, InvBefore, Before, InvFanout,
         PublishAndCloseSafe
    <2> QED
      BY <2>2, <2>3, <2>4 DEF HubSafe
  <1>7. CASE CloseJoined \/ CloseTimedOut
    BY <1>0, <1>7, <1>c, <1>q DEF CloseJoined, CloseTimedOut, chanVars, history
  <1>8. CASE UNCHANGED vars
    BY <1>0, <1>8, <1>q DEF vars, chanVars, history
  <1> QED
    BY <1>1, <1>2, <1>3, <1>4, <1>5, <1>6, <1>7, <1>8 DEF BeatStep, CloserStep

\* Every step keeps the invariant.
LEMMA NextHub == HubInv /\ [Next]_vars => HubInv'
  <1> SUFFICES ASSUME HubInv, [Next]_vars PROVE HubInv'
    OBVIOUS
  <1>1. TypeOK'
    BY NextType DEF HubInv
  <1>2. HubSafe'
    BY CloseSubscriberHub, HandlerHub, PublishHub, OtherHub DEF Next, Over
  <1> QED
    BY <1>1, <1>2 DEF HubInv

\* However subscriptions, publishes, drops and Close interleave, Publish never
\* sends on a closed channel and no channel is closed twice (hub.go Publish,
\* closeSubscriber).
THEOREM PublishAndCloseSafeHolds == Spec => []PublishAndCloseSafe
  <1>1. HubInv => PublishAndCloseSafe
    BY DEF HubInv, HubSafe
  <1> QED
    BY <1>1, InitHub, NextHub, PTL DEF Spec

-----------------------------------------------------------------------------
(***************************************************************************)
(* The count of slow subscribers. A subscriber leaves the registry once,   *)
(* so every removal as slow is a new one; the publisher that removed it    *)
(* owes the counter one.                                                   *)
(***************************************************************************)
Slow     == {s \in Subs : removed[s] = "slow"}
Counting == {p \in Publishers : publisher[p].pc = "count"}

\* Nobody who is registered, or has still to register, was removed before.
InvNew == \A s \in Subs : s \in subs \/ Before(s) => removed[s] = "no"

DropInv ==
  /\ HubInv
  /\ InvNew
  /\ IsFiniteSet(Slow) /\ IsFiniteSet(Counting)
  /\ dropped + Cardinality(Counting) = Cardinality(Slow)

\* Nobody has been dropped in the initial state.
LEMMA InitDrop == Init => DropInv
  <1> SUFFICES ASSUME Init PROVE DropInv
    OBVIOUS
  <1>1. Slow = {} /\ Counting = {} /\ dropped = 0
    BY DEF Init, Slow, Counting, PubIdle
  <1>2. IsFiniteSet({}) /\ Cardinality({}) = 0
    BY FS_EmptySet
  <1>3. HubInv /\ InvNew
    BY InitHub DEF Init, InvNew
  <1> QED
    BY <1>1, <1>2, <1>3 DEF DropInv

\* The steps that count, drop and remove nobody.
LEMMA QuietDrop ==
  ASSUME DropInv, HubInv', InvNew', Slow' = Slow, Counting' = Counting,
         dropped' = dropped
  PROVE  DropInv'
  BY DEF DropInv

\* A publisher at another stage than the counting one stays uncounted.
LEMMA CountingSame ==
  ASSUME TypeOK, NEW p \in Publishers,
         publisher[p].pc /= "count", publisher'[p].pc /= "count",
         \A q \in Publishers : q /= p => publisher'[q] = publisher[q]
  PROVE  Counting' = Counting
  BY DEF Counting

\* The steps of a publish.
LEMMA PublishDrop ==
  ASSUME DropInv, HubInv', NEW p \in Publishers,
         PublishStep(p) \/ \E st \in Streams : PublishBegin(p, st)
  PROVE  DropInv'
  <1>0. /\ HubInv /\ TypeOK /\ InvNew /\ InvListed
        /\ publisher \in [Publishers -> BusyPublisher \cup {PubIdle}]
        /\ removed \in [Subs -> {"no", "left", "slow", "shutdown"}]
        /\ dropped \in Nat /\ subs \in SUBSET Subs
    BY DEF DropInv, HubInv, HubSafe, TypeOK
  <1>1. ASSUME NEW st \in Streams, PublishBegin(p, st)
        PROVE  DropInv'
    <2>1. Counting' = Counting
      BY <1>0, <1>1, CountingSame DEF PublishBegin
    <2>2. InvNew' /\ Slow' = Slow /\ dropped' = dropped
      BY <1>0, <1>1 DEF PublishBegin, InvNew, Before, Slow, history
    <2> QED
      BY <2>1, <2>2, QuietDrop
  <1>2. ASSUME publisher[p].pc /= "idle", publisher[p].pc /= "count",
               publisher'[p].pc /= "count",
               \A q \in Publishers : q /= p => publisher'[q] = publisher[q],
               UNCHANGED <<subs, handler, removed, dropped>>
        PROVE  DropInv'
    <2>1. Counting' = Counting
      BY <1>0, <1>2, CountingSame
    <2>2. InvNew' /\ Slow' = Slow
      BY <1>0, <1>2 DEF InvNew, Before, Slow
    <2> QED
      BY <1>2, <2>1, <2>2, QuietDrop
  <1>3. CASE PublishLock(p) \/ PublishUnlock(p) \/ PublishEnd(p)
    <2>1. publisher[p].pc \in {"lock", "fanout", "drop"} /\ publisher[p] \in BusyPublisher
      BY <1>0, <1>3, PublisherType DEF PublishLock, PublishUnlock, PublishEnd
    <2>2. /\ publisher'[p].pc /= "count"
          /\ \A q \in Publishers : q /= p => publisher'[q] = publisher[q]
      BY <1>0, <1>3, <2>1
         DEF PublishLock, PublishUnlock, PublishEnd, PubIdle, BusyPublisher
    <2>3. UNCHANGED <<subs, handler, removed, dropped>>
      BY <1>3 DEF PublishLock, PublishUnlock, PublishEnd, history
    <2> QED
      BY <1>2, <2>1, <2>2, <2>3
  <1>4. ASSUME NEW s \in Subs, PublishCheck(p, s) \/ PublishSend(p, s) \/ DropGone(p, s)
        PROVE  DropInv'
    <2>1. publisher[p].pc \in {"fanout", "drop"} /\ publisher[p] \in BusyPublisher
      BY <1>0, <1>4, PublisherType DEF PublishCheck, PublishSend, DropGone
    <2>2. /\ publisher'[p].pc /= "count"
          /\ \A q \in Publishers : q /= p => publisher'[q] = publisher[q]
      <3>1. CASE PublishCheck(p, s)
        BY <1>0, <2>1, <3>1 DEF PublishCheck, BusyPublisher
      <3>2. CASE PublishSend(p, s)
        BY <1>0, <2>1, <3>2 DEF PublishSend, BusyPublisher
      <3>3. CASE DropGone(p, s)
        BY <1>0, <2>1, <3>3 DEF DropGone, BusyPublisher
      <3> QED
        BY <1>4, <3>1, <3>2, <3>3
    <2>3. UNCHANGED <<subs, handler, removed, dropped>>
      BY <1>4 DEF PublishCheck, PublishSend, DropGone, history
    <2> QED
      BY <1>2, <2>1, <2>2, <2>3
  <1>5. ASSUME NEW s \in Subs, DropSlow(p, s)
        PROVE  DropInv'
    <2>1. publisher[p].pc = "drop" /\ publisher[p] \in BusyPublisher /\ s \in subs
      BY <1>0, <1>5, PublisherType DEF DropSlow
    <2>2. /\ publisher'[p].pc = "count"
          /\ \A q \in Publishers : q /= p => publisher'[q] = publisher[q]
      BY <1>0, <1>5, <2>1 DEF DropSlow, BusyPublisher
    <2>3. Counting' = Counting \cup {p} /\ p \notin Counting
      BY <2>1, <2>2 DEF Counting
    <2>4. /\ removed[s] = "no" /\ removed' = [removed EXCEPT ![s] = "slow"]
          /\ subs' = subs \ {s} /\ handler' = handler /\ dropped' = dropped
      BY <1>0, <1>5, <2>1 DEF DropSlow, InvNew
    <2>5. Slow' = Slow \cup {s} /\ s \notin Slow
      BY <1>0, <2>4 DEF Slow
    <2>6. InvNew'
      BY <1>0, <2>1, <2>4 DEF InvNew, InvListed, Before
    <2>7. /\ IsFiniteSet(Slow') /\ Cardinality(Slow') = Cardinality(Slow) + 1
          /\ IsFiniteSet(Counting')
          /\ Cardinality(Counting') = Cardinality(Counting) + 1
          /\ Cardinality(Slow) \in Nat /\ Cardinality(Counting) \in Nat
      BY <2>3, <2>5, FS_AddElement, FS_CardinalityType DEF DropInv
    <2>8. dropped' + Cardinality(Counting') = Cardinality(Slow')
      BY <1>0, <2>4, <2>7 DEF DropInv
    <2> QED
      BY <2>6, <2>7, <2>8 DEF DropInv
  <1>6. ASSUME NEW s \in Subs, DropCount(p, s)
        PROVE  DropInv'
    <2>1. publisher[p].pc = "count" /\ publisher[p] \in BusyPublisher
      BY <1>0, <1>6, PublisherType DEF DropCount
    <2>2. /\ publisher'[p].pc = "drop"
          /\ \A q \in Publishers : q /= p => publisher'[q] = publisher[q]
      BY <1>0, <1>6, <2>1 DEF DropCount, BusyPublisher
    <2>3. Counting' = Counting \ {p} /\ p \in Counting
      BY <2>1, <2>2 DEF Counting
    <2>4. dropped' = dropped + 1 /\ UNCHANGED <<subs, handler, removed>>
      BY <1>6 DEF DropCount, history
    <2>5. InvNew' /\ Slow' = Slow
      BY <1>0, <2>4 DEF InvNew, Before, Slow
    <2>6. /\ IsFiniteSet(Counting')
          /\ Cardinality(Counting') = Cardinality(Counting) - 1
          /\ Cardinality(Slow) \in Nat /\ Cardinality(Counting) \in Nat
      BY <2>3, FS_RemoveElement, FS_CardinalityType DEF DropInv
    <2>7. dropped' + Cardinality(Counting') = Cardinality(Slow)
      BY <1>0, <2>4, <2>6 DEF DropInv
    <2> QED
      BY <2>5, <2>6, <2>7 DEF DropInv
  <1> QED
    BY <1>1, <1>3, <1>4, <1>5, <1>6 DEF PublishStep

\* Everybody else who takes a subscriber out of the registry.
LEMMA OtherDrop ==
  ASSUME DropInv, HubInv', [Next]_vars, publisher' = publisher
  PROVE  DropInv'
  <1>0. /\ HubInv /\ TypeOK /\ InvNew /\ InvListed
        /\ removed \in [Subs -> {"no", "left", "slow", "shutdown"}]
        /\ handler \in [Subs -> {"new", "append", "spawn", "serving", "leaving", "gone"}]
        /\ subs \in SUBSET Subs
    BY DEF DropInv, HubInv, HubSafe, TypeOK
  <1>1. Counting' = Counting
    BY DEF Counting
  <1>2. ASSUME InvNew', Slow' = Slow, dropped' = dropped PROVE DropInv'
    BY <1>1, <1>2, QuietDrop
  <1>3. ASSUME UNCHANGED <<subs, removed, dropped>>,
               \A s \in Subs : Before(s)' => Before(s)
        PROVE  DropInv'
    <2>1. InvNew' /\ Slow' = Slow
      BY <1>0, <1>3 DEF InvNew, Slow
    <2> QED
      BY <1>2, <1>3, <2>1
  <1>4. CASE \E g \in Goroutines : CloseSubscriberStep(g)
    BY <1>3, <1>4 DEF CloseSubscriberStep, LoseFlag, WinFlag, CloseStop, CloseCh,
       Before, history
  <1>5. ASSUME NEW s \in Subs,
               \/ SubscribeCheck(s) \/ SubscribeSpawn(s) \/ Receive(s)
               \/ HandlerReturn(s) \/ BeatCheck(s) \/ BeatStep(s)
        PROVE  DropInv'
    BY <1>0, <1>3, <1>5 DEF SubscribeCheck, SubscribeSpawn, Receive, HandlerReturn,
       BeatCheck, BeatStep, BeatSend, BeatExit, Before, history
  <1>6. ASSUME NEW s \in Subs, SubscribeAppend(s) PROVE DropInv'
    <2>1. InvNew' /\ Slow' = Slow /\ dropped' = dropped
      BY <1>0, <1>6 DEF SubscribeAppend, InvNew, Before, Slow, history
    <2> QED
      BY <1>2, <2>1
  <1>7. ASSUME NEW s \in Subs, Unsubscribe(s) PROVE DropInv'
    <2>1. /\ subs' = subs \ {s} /\ handler' = [handler EXCEPT ![s] = "leaving"]
          /\ removed' = IF s \in subs THEN [removed EXCEPT ![s] = "left"] ELSE removed
          /\ dropped' = dropped
      BY <1>7 DEF Unsubscribe
    <2>2. InvNew'
      BY <1>0, <2>1 DEF InvNew, Before
    <2>3. Slow' = Slow
      BY <1>0, <2>1 DEF InvNew, Slow
    <2> QED
      BY <1>2, <2>1, <2>2, <2>3
  <1>8. CASE CloseSwap
    <2>1. /\ subs' = {} /\ handler' = handler /\ dropped' = dropped
          /\ removed' = [s \in Subs |-> IF s \in subs THEN "shutdown" ELSE removed[s]]
      BY <1>8 DEF CloseSwap
    <2>2. InvNew' /\ Slow' = Slow
      BY <1>0, <2>1 DEF InvNew, InvListed, Before, Slow
    <2> QED
      BY <1>2, <2>1, <2>2
  <1>9. CASE CloseBegin \/ CloseJoined \/ CloseTimedOut \/ (\E s \in Subs : CloseOne(s))
                \/ UNCHANGED vars
    BY <1>3, <1>9 DEF CloseBegin, CloseJoined, CloseTimedOut, CloseOne, Before,
       history, vars
  <1>10. CASE \E p \in Publishers :
                PublishStep(p) \/ \E st \in Streams : PublishBegin(p, st)
    BY <1>10, PublishDrop
  <1> QED
    BY <1>4, <1>5, <1>6, <1>7, <1>8, <1>9, <1>10
       DEF Next, SubscribeStep, CloserStep, Over

\* A slow subscriber is counted once: the counter and the publishers about to
\* count are as many as the subscribers removed as slow, even when several
\* publishers found the same buffer full, its client left meanwhile or the hub
\* was closed (dropSlowSubscriber).
THEOREM DroppedOnceHolds == Spec => []DroppedOnce
  <1>1. DropInv /\ [Next]_vars => DropInv'
    <2> SUFFICES ASSUME DropInv, [Next]_vars PROVE DropInv'
      OBVIOUS
    <2>1. HubInv'
      BY NextHub DEF DropInv
    <2>2. \/ publisher' = publisher
          \/ \E p \in Publishers : PublishStep(p) \/ \E st \in Streams : PublishBegin(p, st)
      BY DEF Next, CloseSubscriberStep, LoseFlag, WinFlag, CloseStop, CloseCh,
         SubscribeStep, SubscribeCheck, SubscribeAppend, SubscribeSpawn, Receive,
         Unsubscribe, HandlerReturn, BeatCheck, BeatStep, BeatSend, BeatExit,
         CloseBegin, CloserStep, CloseSwap, CloseOne, CloseJoined, CloseTimedOut,
         Over, vars
    <2> QED
      BY <2>1, <2>2, PublishDrop, OtherDrop
  <1>2. DropInv => DroppedOnce
    BY DEF DropInv, DroppedOnce, Counting, Slow
  <1> QED
    BY InitDrop, <1>1, <1>2, PTL DEF Spec
=============================================================================
