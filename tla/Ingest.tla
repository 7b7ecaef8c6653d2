------------------------------- MODULE Ingest -------------------------------
(***************************************************************************)
(* The way of an event through the process: the Pulsar consumer            *)
(* (internal/consumer/pulsar.go), the filter (internal/filter/filter.go),  *)
(* runPipeline, the batching archive writer and the dispatch workers       *)
(* (runtime_pipeline.go), and the process itself: cancellation, the exit   *)
(* of runServe (serve.go), a crash and a new start.                        *)
(*                                                                         *)
(* Pulsar is external: it hands out messages in the order of the topic,    *)
(* and again to the next process when the acknowledgement is missing. A    *)
(* delivery is numbered; the channels hold deliveries. A Go select with    *)
(* several ready cases takes any of them.                                  *)
(***************************************************************************)
EXTENDS Integers, Sequences, FiniteSets

CONSTANTS
  NMsgs,             \* number of messages of the topic
  Malformed,         \* messages that do not parse, or make the parser panic
  WriteKeyOf,        \* WriteKeyOf[m]: the property writeKey of message m
  DeniedConsents,    \* DeniedConsents[m]: the consent ids its user denied
  NoAnon,            \* messages with neither anonymousId nor userId
  AllowedWriteKeys,  \* the filter's allow-list, empty for all
  DropOnConsentDeny, \* the filter's drop-list (empty in the service)
  Workers,           \* dispatch workers (4 in the code)
  OutCap,            \* capacity of consumerOut (1024 in the code)
  ArchiveCap,        \* capacity of archiveCh (1024 in the code)
  BatchSize,         \* archive batch (50 in the code)
  MatchChCap,        \* capacity of matchCh (64 in the code)
  MaxMatches,        \* bound on the number of matches
  MaxFaults,         \* bound on the number of failed acks and inserts
  MaxStarts          \* bound on the number of starts of the process

Msgs == 1 .. NMsgs

ASSUME IngestAssumption ==
  /\ NMsgs \in Nat
  /\ Malformed \subseteq Msgs
  /\ NoAnon \subseteq Msgs
  /\ DOMAIN WriteKeyOf = Msgs
  /\ DOMAIN DeniedConsents = Msgs
  /\ OutCap \in Nat \ {0}
  /\ ArchiveCap \in Nat \ {0}
  /\ BatchSize \in Nat \ {0}
  /\ MatchChCap \in Nat \ {0}
  /\ MaxMatches \in Nat
  /\ MaxFaults \in Nat
  /\ MaxStarts \in Nat \ {0}

VARIABLES
  broker,        \* broker[m]: "ready", "unacked" or "acked"
  process,       \* "up", "cancelled" (the root context), "down"
  consumer,      \* the goroutine inside Consumer.Run
  consumerOut,
  pipeline,      \* the goroutine inside runPipeline
  archiveCh,
  archive,       \* the goroutine inside runArchive
  matchCh,       \* number of matches waiting for a worker
  worker,        \* the dispatch worker goroutines
  events,        \* the Postgres table events, in insertion order
  \* history
  received,      \* received[d]: the message of delivery d
  handed,        \* deliveries put into consumerOut
  applied,       \* deliveries folded into windows, in order
  missed,        \* deliveries the archive lost: channel full, insert failed,
                 \* process gone
  abandoned,     \* deliveries acknowledged at cancellation, unprocessed
  matches, faults, starts

ingestVars  == <<consumer, consumerOut, pipeline, archiveCh, archive>>
poolVars    == <<matchCh, worker>>
historyVars == <<handed, applied, missed, abandoned>>
counterVars == <<matches, faults, starts>>
vars == <<broker, process, ingestVars, poolVars, events, received,
          historyVars, counterVars>>

Elements(s) == {s[i] : i \in DOMAIN s}

Running   == process /= "down"
Cancelled == process = "cancelled"

\* One more acknowledgement or insert fails.
Fault == faults < MaxFaults /\ faults' = faults + 1

AtLoop     == [pc |-> "loop", d |-> 0]
PipeIdle   == [pc |-> "idle", d |-> 0]
ArchIdle   == [pc |-> "idle", batch |-> <<>>]

-----------------------------------------------------------------------------
Init ==
  /\ broker = [m \in Msgs |-> "ready"]
  /\ process = "up"
  /\ consumer = AtLoop
  /\ consumerOut = <<>>
  /\ pipeline = PipeIdle
  /\ archiveCh = <<>>
  /\ archive = ArchIdle
  /\ matchCh = 0
  /\ worker = [w \in Workers |-> "idle"]
  /\ events = <<>>
  /\ received = <<>>
  /\ handed = {}
  /\ applied = <<>>
  /\ missed = {}
  /\ abandoned = {}
  /\ matches = 0
  /\ faults = 0
  /\ starts = 1

-----------------------------------------------------------------------------
(***************************************************************************)
(* Consumer.Run and processMessage.                                        *)
(***************************************************************************)

\* The head of the loop: leave when the context has ended.
CheckContext ==
  /\ Running
  /\ consumer.pc = "loop"
  /\ consumer' = [consumer EXCEPT !.pc = IF Cancelled THEN "exited" ELSE "receive"]
  /\ UNCHANGED <<broker, process, consumerOut, pipeline, archiveCh, archive,
                 poolVars, events, received, historyVars, counterVars>>

\* The first message of the topic that is due.
Deliverable(m) ==
  /\ broker[m] = "ready"
  /\ \A n \in Msgs : broker[n] = "ready" => m <= n

\* A consumer that acknowledges a message before it is handed over.
ReceiveAcking(m) ==
  /\ Running
  /\ consumer.pc = "receive"
  /\ Deliverable(m)
  /\ broker' = [broker EXCEPT ![m] = "acked"]
  /\ received' = Append(received, m)
  /\ consumer' = [pc |-> IF m \in Malformed THEN "ack" ELSE "enqueue",
                  d |-> Len(received) + 1]
  /\ UNCHANGED <<process, consumerOut, pipeline, archiveCh, archive, poolVars,
                 events, historyVars, counterVars>>

\* Receive returns a message, which is parsed. One that does not parse is
\* acknowledged and skipped.
Receive(m) ==
  /\ Running
  /\ consumer.pc = "receive"
  /\ Deliverable(m)
  /\ broker' = [broker EXCEPT ![m] = "unacked"]
  /\ received' = Append(received, m)
  /\ consumer' = [pc |-> IF m \in Malformed THEN "ack" ELSE "enqueue",
                  d |-> Len(received) + 1]
  /\ UNCHANGED <<process, consumerOut, pipeline, archiveCh, archive, poolVars,
                 events, historyVars, counterVars>>

\* Receive returns the context's error.
ReceiveCancelled ==
  /\ Cancelled
  /\ consumer.pc = "receive"
  /\ consumer' = [consumer EXCEPT !.pc = "exited"]
  /\ UNCHANGED <<broker, process, consumerOut, pipeline, archiveCh, archive,
                 poolVars, events, received, historyVars, counterVars>>

\* The event goes into consumerOut; the consumer waits while it is full.
Enqueue ==
  /\ Running
  /\ consumer.pc = "enqueue"
  /\ Len(consumerOut) < OutCap
  /\ consumerOut' = Append(consumerOut, consumer.d)
  /\ handed' = handed \cup {consumer.d}
  /\ consumer' = [consumer EXCEPT !.pc = "ack"]
  /\ UNCHANGED <<broker, process, pipeline, archiveCh, archive, poolVars,
                 events, received, applied, missed, abandoned, counterVars>>

\* A consumer that cannot be interrupted while it waits.
AbandonNever == FALSE /\ UNCHANGED vars

\* The context ends while the consumer waits: it acknowledges all the same.
Abandon ==
  /\ Cancelled
  /\ consumer.pc = "enqueue"
  /\ abandoned' = abandoned \cup {consumer.d}
  /\ consumer' = [consumer EXCEPT !.pc = "ack"]
  /\ UNCHANGED <<broker, process, consumerOut, pipeline, archiveCh, archive,
                 poolVars, events, received, handed, applied, missed,
                 counterVars>>

\* The acknowledgement; a failed one is only logged.
Ack ==
  /\ Running
  /\ consumer.pc = "ack"
  /\ \/ /\ broker' = [broker EXCEPT ![received[consumer.d]] = "acked"]
        /\ UNCHANGED faults
     \/ Fault /\ UNCHANGED broker
  /\ consumer' = AtLoop
  /\ UNCHANGED <<process, consumerOut, pipeline, archiveCh, archive, poolVars,
                 events, received, historyVars, matches, starts>>

-----------------------------------------------------------------------------
(***************************************************************************)
(* runPipeline.                                                            *)
(***************************************************************************)

\* Filter.Process: the write-key allow-list, then the denied consents.
\* Redaction rewrites payload fields no property here tells apart.
Keep(m) ==
  /\ AllowedWriteKeys = {} \/ WriteKeyOf[m] \in AllowedWriteKeys
  /\ DeniedConsents[m] \cap DropOnConsentDeny = {}

\* The filter drops the next event.
FilterEvent ==
  /\ Running
  /\ pipeline.pc = "idle"
  /\ consumerOut /= <<>>
  /\ ~Keep(received[Head(consumerOut)])
  /\ consumerOut' = Tail(consumerOut)
  /\ UNCHANGED <<broker, process, consumer, pipeline, archiveCh, archive,
                 poolVars, events, received, historyVars, counterVars>>

\* The next event is folded into its user's window and published on the
\* streams. An event without an id has no window.
ApplyEvent ==
  /\ Running
  /\ pipeline.pc = "idle"
  /\ consumerOut /= <<>>
  /\ Keep(received[Head(consumerOut)])
  /\ consumerOut' = Tail(consumerOut)
  /\ pipeline' = [pc |-> "archive", d |-> Head(consumerOut)]
  /\ applied' = IF received[Head(consumerOut)] \in NoAnon THEN applied
                ELSE Append(applied, Head(consumerOut))
  /\ UNCHANGED <<broker, process, consumer, archiveCh, archive, poolVars,
                 events, received, handed, missed, abandoned, counterVars>>

\* Rules are evaluated for a user with a window. None matches, or a match is
\* queued; one that finds matchCh full is dropped.
Evaluate(m) ==
  \/ UNCHANGED <<matchCh, matches>>
  \/ /\ m \notin NoAnon
     /\ matches < MaxMatches
     /\ matchCh < MatchChCap
     /\ matchCh' = matchCh + 1
     /\ matches' = matches + 1

\* A hand-off that ignores the channel's capacity.
ArchiveEventUnbounded ==
  /\ Running
  /\ pipeline.pc = "archive"
  /\ archiveCh' = Append(archiveCh, pipeline.d)
  /\ Evaluate(received[pipeline.d])
  /\ pipeline' = PipeIdle
  /\ UNCHANGED <<broker, process, consumer, consumerOut, archive, worker,
                 events, received, historyVars, faults, starts>>

\* The hand-off to the archive writer, which never waits, and the rules.
ArchiveEvent ==
  /\ Running
  /\ pipeline.pc = "archive"
  /\ Len(archiveCh) < ArchiveCap
  /\ archiveCh' = Append(archiveCh, pipeline.d)
  /\ Evaluate(received[pipeline.d])
  /\ pipeline' = PipeIdle
  /\ UNCHANGED <<broker, process, consumer, consumerOut, archive, worker,
                 events, received, historyVars, faults, starts>>

\* The archive channel is full: the event is not archived.
DropFromArchive ==
  /\ Running
  /\ pipeline.pc = "archive"
  /\ Len(archiveCh) >= ArchiveCap
  /\ missed' = missed \cup {pipeline.d}
  /\ Evaluate(received[pipeline.d])
  /\ pipeline' = PipeIdle
  /\ UNCHANGED <<broker, process, consumer, consumerOut, archiveCh, archive,
                 worker, events, received, handed, applied, abandoned, faults,
                 starts>>

PipelineExit ==
  /\ Cancelled
  /\ pipeline.pc = "idle"
  /\ pipeline' = [pipeline EXCEPT !.pc = "exited"]
  /\ UNCHANGED <<broker, process, consumer, consumerOut, archiveCh, archive,
                 poolVars, events, received, historyVars, counterVars>>

-----------------------------------------------------------------------------
(***************************************************************************)
(* runArchive: batches of events, flushed when full, on the ticker, and    *)
(* once more when the context ends.                                        *)
(***************************************************************************)
BatchEvent ==
  /\ Running
  /\ archive.pc = "idle"
  /\ archiveCh /= <<>>
  /\ archiveCh' = Tail(archiveCh)
  /\ archive' = [pc |-> IF Len(archive.batch) + 1 >= BatchSize THEN "flush" ELSE "idle",
                 batch |-> Append(archive.batch, Head(archiveCh))]
  /\ UNCHANGED <<broker, process, consumer, consumerOut, pipeline, poolVars,
                 events, received, historyVars, counterVars>>

\* A writer that only flushes full batches.
FlushTickNever == FALSE /\ UNCHANGED vars

FlushTick ==
  /\ Running
  /\ archive.pc = "idle"
  /\ archive.batch /= <<>>
  /\ archive' = [archive EXCEPT !.pc = "flush"]
  /\ UNCHANGED <<broker, process, consumer, consumerOut, pipeline, archiveCh,
                 poolVars, events, received, historyVars, counterVars>>

FlushLast ==
  /\ Cancelled
  /\ archive.pc = "idle"
  /\ archive' = [archive EXCEPT !.pc = "last"]
  /\ UNCHANGED <<broker, process, consumer, consumerOut, pipeline, archiveCh,
                 poolVars, events, received, historyVars, counterVars>>

Flushing == Running /\ archive.pc \in {"flush", "last"}

\* The next row of a flush. An event without an id has none.
InsertEvent ==
  /\ Flushing
  /\ archive.batch /= <<>>
  /\ ~Cancelled
  /\ events' = IF received[Head(archive.batch)] \in NoAnon THEN events
               ELSE Append(events, Head(archive.batch))
  /\ archive' = [archive EXCEPT !.batch = Tail(@)]
  /\ UNCHANGED <<broker, process, consumer, consumerOut, pipeline, archiveCh,
                 poolVars, received, historyVars, counterVars>>

\* A flush that tries a failed insert again after the rest of the batch.
InsertFailsRequeued ==
  /\ Flushing
  /\ archive.batch /= <<>>
  /\ \/ Fault
     \/ Cancelled /\ UNCHANGED faults
  /\ archive' = [archive EXCEPT !.batch = Append(Tail(@), Head(@))]
  /\ UNCHANGED <<broker, process, consumer, consumerOut, pipeline, archiveCh,
                 poolVars, events, received, historyVars, matches, starts>>

\* The insert fails: by itself, or because its context has ended.
InsertFails ==
  /\ Flushing
  /\ archive.batch /= <<>>
  /\ \/ Fault
     \/ Cancelled /\ UNCHANGED faults
  /\ missed' = missed \cup {Head(archive.batch)}
  /\ archive' = [archive EXCEPT !.batch = Tail(@)]
  /\ UNCHANGED <<broker, process, consumer, consumerOut, pipeline, archiveCh,
                 poolVars, events, received, handed, applied, abandoned,
                 matches, starts>>

FlushDone ==
  /\ Flushing
  /\ archive.batch = <<>>
  /\ archive' = [archive EXCEPT !.pc = IF archive.pc = "last" THEN "exited" ELSE "idle"]
  /\ UNCHANGED <<broker, process, consumer, consumerOut, pipeline, archiveCh,
                 poolVars, events, received, historyVars, counterVars>>

-----------------------------------------------------------------------------
(***************************************************************************)
(* The dispatch workers. When the context ends a worker drains matchCh     *)
(* until its grace period is over; runDispatcher itself has returned.      *)
(***************************************************************************)
Fire(w) ==
  /\ Running
  /\ worker[w] \in {"idle", "draining"}
  /\ matchCh > 0
  /\ matchCh' = matchCh - 1
  /\ worker' = [worker EXCEPT ![w] = IF @ = "idle" THEN "firing" ELSE "lastFiring"]
  /\ UNCHANGED <<broker, process, ingestVars, events, received, historyVars,
                 counterVars>>

Fired(w) ==
  /\ Running
  /\ worker[w] \in {"firing", "lastFiring"}
  /\ worker' = [worker EXCEPT ![w] = IF @ = "firing" THEN "idle" ELSE "draining"]
  /\ UNCHANGED <<broker, process, ingestVars, matchCh, events, received,
                 historyVars, counterVars>>

Drain(w) ==
  /\ Cancelled
  /\ worker[w] = "idle"
  /\ worker' = [worker EXCEPT ![w] = "draining"]
  /\ UNCHANGED <<broker, process, ingestVars, matchCh, events, received,
                 historyVars, counterVars>>

DrainOver(w) ==
  /\ Cancelled
  /\ worker[w] = "draining"
  /\ worker' = [worker EXCEPT ![w] = "exited"]
  /\ UNCHANGED <<broker, process, ingestVars, matchCh, events, received,
                 historyVars, counterVars>>

-----------------------------------------------------------------------------
(***************************************************************************)
(* The process.                                                            *)
(***************************************************************************)

\* SIGTERM, or an error of a member of the errgroup, ends the context.
Cancel ==
  /\ process = "up"
  /\ process' = "cancelled"
  /\ UNCHANGED <<broker, ingestVars, poolVars, events, received, historyVars,
                 counterVars>>

\* The process is gone, and its memory with it. Pulsar will hand out again
\* whatever it did not acknowledge.
Gone ==
  /\ process' = "down"
  /\ broker' = [m \in Msgs |-> IF broker[m] = "unacked" THEN "ready" ELSE broker[m]]
  /\ consumer' = AtLoop
  /\ consumerOut' = <<>>
  /\ pipeline' = PipeIdle
  /\ archiveCh' = <<>>
  /\ archive' = ArchIdle
  /\ matchCh' = 0
  /\ worker' = [w \in Workers |-> "idle"]
  /\ missed' = missed \cup (Elements(applied) \ Elements(events))
  /\ UNCHANGED <<events, received, handed, applied, abandoned, counterVars>>

\* The errgroup's members have returned; the workers are not among them.
Exit ==
  /\ Cancelled
  /\ consumer.pc = "exited"
  /\ pipeline.pc = "exited"
  /\ archive.pc = "exited"
  /\ Gone

Crash == Running /\ Gone

Start ==
  /\ process = "down"
  /\ starts < MaxStarts
  /\ starts' = starts + 1
  /\ process' = "up"
  /\ UNCHANGED <<broker, ingestVars, poolVars, events, received, historyVars,
                 matches, faults>>

Stopped ==
  /\ process = "down"
  /\ starts = MaxStarts
  /\ UNCHANGED vars

-----------------------------------------------------------------------------
ConsumerStep ==
  \/ CheckContext
  \/ \E m \in Msgs : Receive(m)
  \/ ReceiveCancelled
  \/ Enqueue
  \/ Abandon
  \/ Ack

PipelineStep ==
  \/ FilterEvent
  \/ ApplyEvent
  \/ ArchiveEvent
  \/ DropFromArchive
  \/ PipelineExit

ArchiveStep ==
  \/ BatchEvent
  \/ FlushTick
  \/ FlushLast
  \/ InsertEvent
  \/ InsertFails
  \/ FlushDone

WorkerStep(w) == Fire(w) \/ Fired(w) \/ Drain(w) \/ DrainOver(w)

Next ==
  \/ ConsumerStep
  \/ PipelineStep
  \/ ArchiveStep
  \/ \E w \in Workers : WorkerStep(w)
  \/ Cancel
  \/ Exit
  \/ Crash
  \/ Start
  \/ Stopped

(***************************************************************************)
(* Goroutines that can go on do, and main returns when the errgroup does.  *)
(* Nothing makes the process stop, crash or start, and nothing is assumed  *)
(* of the workers.                                                         *)
(***************************************************************************)
Fairness ==
  /\ WF_vars(ConsumerStep)
  /\ WF_vars(PipelineStep)
  /\ WF_vars(ArchiveStep)
  /\ WF_vars(Exit)

Spec == Init /\ [][Next]_vars /\ Fairness

-----------------------------------------------------------------------------
(***************************************************************************)
(* Properties.                                                             *)
(***************************************************************************)
\* Every variable has its type; no channel exceeds its capacity and no batch
\* its size.
TypeOK ==
  /\ broker \in [Msgs -> {"ready", "unacked", "acked"}]
  /\ process \in {"up", "cancelled", "down"}
  /\ consumer \in [pc: {"loop", "receive", "enqueue", "ack", "exited"}, d: Nat]
  /\ consumerOut \in Seq(Nat) /\ Len(consumerOut) <= OutCap
  /\ pipeline \in [pc: {"idle", "archive", "exited"}, d: Nat]
  /\ archiveCh \in Seq(Nat) /\ Len(archiveCh) <= ArchiveCap
  /\ archive \in [pc: {"idle", "flush", "last", "exited"}, batch: Seq(Nat)]
  /\ Len(archive.batch) <= BatchSize
  /\ matchCh \in 0 .. MatchChCap
  /\ worker \in [Workers -> {"idle", "firing", "draining", "lastFiring", "exited"}]
  /\ events \in Seq(Nat)
  /\ received \in Seq(Msgs)
  /\ handed \in SUBSET Nat
  /\ applied \in Seq(Nat)
  /\ missed \in SUBSET Nat
  /\ abandoned \in SUBSET Nat
  /\ matches \in Nat
  /\ faults \in Nat
  /\ starts \in Nat

Increasing(s) == \A i, j \in DOMAIN s : i < j => s[i] < s[j]

\* Windows see the deliveries in the order they were received, each at most
\* once, and the table holds a subsequence of what the windows saw: neither
\* batching nor the three channels reorder or repeat a delivery, across
\* restarts too (runPipeline, runArchive's flush).
ArchiveFollowsWindows ==
  /\ Increasing(applied)
  /\ Increasing(events)
  /\ Elements(events) \subseteq Elements(applied)

\* No message is acknowledged and forgotten: an acknowledged message was
\* unparsable, or was put into consumerOut, or was waiting to be put there
\* when the context ended (processMessage's order of send and Ack). The last
\* is a loss: the comment at pulsar.go:234 has such a message replayed from
\* Postgres, but what has not left the consumer was never archived.
AckedIsHandedOver ==
  \A m \in Msgs : broker[m] = "acked" =>
    \/ m \in Malformed
    \/ \E d \in handed \cup abandoned : received[d] = m

\* A delivery is in a window, and the archive has neither written nor lost it.
Behind == \E d \in Elements(applied) : d \notin Elements(events) \cup missed

\* When no more events come the archive catches up with the windows, unless
\* the process ends first: runArchive's ticker flushes a batch that never
\* fills up.
ArchiveCatchesUp == Behind ~> (~Behind \/ process /= "up")

\* Once the context ends the process exits, whichever of its goroutines was
\* waiting for which channel (Run's and processMessage's select, runPipeline,
\* runArchive, errgroup Wait in serve.go).
ShutdownEnds == Cancelled ~> process = "down"

\* runtime_pipeline.go:162: "On shutdown (gCtx cancelled) the pool drains
\* in-flight items up to a 3s grace period before exiting." The process does
\* not wait for it: runDispatcher returns as soon as the context ends.
DrainedBeforeExit ==
  [][Exit => /\ matchCh = 0
             /\ \A w \in Workers : worker[w] \notin {"firing", "lastFiring"}]_vars
=============================================================================
