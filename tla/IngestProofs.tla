---------------------------- MODULE IngestProofs ----------------------------
(***************************************************************************)
(* Proofs about Ingest, for every topic, every set of workers, every       *)
(* capacity and batch size and any number of starts: type correctness and  *)
(* the capacities, that no message is acknowledged and forgotten, and that *)
(* the archive holds a subsequence of what the windows saw.                *)
(***************************************************************************)
EXTENDS Ingest, SequenceTheorems, TLAPS

-----------------------------------------------------------------------------
(***************************************************************************)
(* The inductive invariants.                                               *)
(***************************************************************************)

\* The writer that collects has room for one more event.
TypeInv == TypeOK /\ (archive.pc = "idle" => Len(archive.batch) < BatchSize)

\* A delivery is a position of received. The one to be acknowledged was
\* unparsable, handed over or abandoned.
InvDelivery ==
  /\ handed \cup abandoned \subseteq DOMAIN received
  /\ consumer.pc \in {"enqueue", "ack"} => consumer.d \in DOMAIN received
  /\ consumer.pc = "ack" => \/ received[consumer.d] \in Malformed
                            \/ consumer.d \in handed \cup abandoned

\* The deliveries at the consumer and at the pipeline, on their way.
AtConsumer == IF consumer.pc = "enqueue" THEN {consumer.d} ELSE {}
AtPipeline == IF pipeline.pc = "archive" THEN {pipeline.d} ELSE {}

\* The deliveries that are on their way at a stage or before it.
ToPipeline == AtConsumer \cup Elements(consumerOut)
ToArchive  == ToPipeline \cup AtPipeline
ToBatch    == ToArchive \cup Elements(archiveCh)
ToTable    == ToBatch \cup Elements(archive.batch)

Precedes(S, T) == \A x \in S, y \in T : x < y

\* The deliveries stand in one line, in the order they were received: those in
\* the table, in the batch, in archiveCh, at the pipeline, in consumerOut and
\* at the consumer.
InvLine ==
  /\ Increasing(events) /\ Increasing(archive.batch) /\ Increasing(archiveCh)
  /\ Increasing(consumerOut)
  /\ Precedes(Elements(events), ToTable)
  /\ Precedes(Elements(archive.batch), ToBatch)
  /\ Precedes(Elements(archiveCh), ToArchive)
  /\ Precedes(AtPipeline, ToPipeline)
  /\ Precedes(Elements(consumerOut), AtConsumer)
  /\ ToTable \subseteq DOMAIN received

\* What has gone by the pipeline and belongs to a user is in a window.
InvApplied ==
  /\ Increasing(applied)
  /\ Elements(applied) \subseteq DOMAIN received
  /\ Precedes(Elements(applied), ToPipeline)
  /\ Elements(events) \subseteq Elements(applied)
  /\ \A d \in AtPipeline \cup Elements(archiveCh) \cup Elements(archive.batch) :
       received[d] \notin NoAnon => d \in Elements(applied)

LineInv == TypeInv /\ InvLine /\ InvApplied
AckInv  == TypeInv /\ InvDelivery /\ AckedIsHandedOver

-----------------------------------------------------------------------------
(***************************************************************************)
(* Sequences of deliveries.                                                *)
(***************************************************************************)

\* A delivery at the end of a sequence.
LEMMA AppendElements ==
  ASSUME NEW S, NEW s \in Seq(S), NEW x \in S
  PROVE  /\ Append(s, x) \in Seq(S) /\ Len(Append(s, x)) = Len(s) + 1
         /\ Elements(Append(s, x)) = Elements(s) \cup {x}
         /\ DOMAIN Append(s, x) = DOMAIN s \cup {Len(s) + 1}
         /\ Append(s, x)[Len(s) + 1] = x
         /\ \A i \in DOMAIN s : Append(s, x)[i] = s[i]
  <1>1. /\ Append(s, x) \in Seq(S) /\ Len(Append(s, x)) = Len(s) + 1
        /\ Append(s, x)[Len(s) + 1] = x
        /\ \A i \in 1 .. Len(s) : Append(s, x)[i] = s[i]
    BY AppendProperties
  <1>2. /\ DOMAIN s = 1 .. Len(s) /\ Len(s) \in Nat
        /\ DOMAIN Append(s, x) = 1 .. Len(s) + 1
    BY <1>1, LenProperties
  <1>3. DOMAIN Append(s, x) = DOMAIN s \cup {Len(s) + 1}
    BY <1>2
  <1>4. Elements(Append(s, x)) = Elements(s) \cup {x}
    BY <1>1, <1>2, <1>3 DEF Elements
  <1> QED
    BY <1>1, <1>2, <1>3, <1>4

\* A later delivery keeps a sequence increasing.
LEMMA AppendIncreasing ==
  ASSUME NEW s \in Seq(Nat), NEW x \in Nat, Increasing(s),
         Precedes(Elements(s), {x})
  PROVE  Increasing(Append(s, x))
  <1>1. /\ DOMAIN Append(s, x) = DOMAIN s \cup {Len(s) + 1}
        /\ Append(s, x)[Len(s) + 1] = x
        /\ \A i \in DOMAIN s : Append(s, x)[i] = s[i]
    BY AppendElements
  <1>2. \A i \in DOMAIN s : i \in 1 .. Len(s) /\ Len(s) \in Nat
    BY LenProperties
  <1>3. \A i \in DOMAIN s : s[i] < x
    BY DEF Precedes, Elements
  <1> QED
    BY <1>1, <1>2, <1>3 DEF Increasing

\* The first delivery of a sequence, and the others.
LEMMA HeadTail ==
  ASSUME NEW S, NEW s \in Seq(S), s /= <<>>
  PROVE  /\ Head(s) \in S /\ Tail(s) \in Seq(S)
         /\ Len(Tail(s)) = Len(s) - 1 /\ Len(s) \in Nat
         /\ Elements(s) = {Head(s)} \cup Elements(Tail(s))
  <1>1. /\ Head(s) = s[1] /\ Head(s) \in S /\ Tail(s) \in Seq(S)
        /\ Len(Tail(s)) = Len(s) - 1 /\ Len(s) \in Nat \ {0}
        /\ \A i \in 1 .. Len(s) - 1 : Tail(s)[i] = s[i + 1]
    BY HeadTailProperties, EmptySeq, LenProperties
  <1>2. DOMAIN s = 1 .. Len(s) /\ DOMAIN Tail(s) = 1 .. Len(s) - 1
    BY <1>1, LenProperties
  <1>3. Elements(s) \subseteq {Head(s)} \cup Elements(Tail(s))
    <2> SUFFICES ASSUME NEW i \in DOMAIN s, i /= 1
                 PROVE  s[i] \in Elements(Tail(s))
      BY <1>1 DEF Elements
    <2>1. i - 1 \in DOMAIN Tail(s) /\ s[i] = Tail(s)[i - 1]
      BY <1>1, <1>2
    <2> QED
      BY <2>1 DEF Elements
  <1>4. {Head(s)} \cup Elements(Tail(s)) \subseteq Elements(s)
    <2>1. 1 \in DOMAIN s
      BY <1>1, <1>2
    <2>2. \A i \in DOMAIN Tail(s) : i + 1 \in DOMAIN s /\ Tail(s)[i] = s[i + 1]
      BY <1>1, <1>2
    <2> QED
      BY <1>1, <2>1, <2>2 DEF Elements
  <1> QED
    BY <1>1, <1>3, <1>4

\* The first one of an increasing sequence precedes the others.
LEMMA TailIncreasing ==
  ASSUME NEW s \in Seq(Nat), s /= <<>>, Increasing(s)
  PROVE  Increasing(Tail(s)) /\ Precedes({Head(s)}, Elements(Tail(s)))
  <1>1. /\ Head(s) = s[1] /\ Len(s) \in Nat \ {0} /\ Tail(s) \in Seq(Nat)
        /\ Len(Tail(s)) = Len(s) - 1
        /\ \A i \in 1 .. Len(s) - 1 : Tail(s)[i] = s[i + 1]
    BY HeadTailProperties, EmptySeq, LenProperties
  <1>2. DOMAIN s = 1 .. Len(s) /\ DOMAIN Tail(s) = 1 .. Len(s) - 1
    BY <1>1, LenProperties
  <1>3. \A i \in DOMAIN Tail(s) : /\ i \in Int /\ i + 1 \in DOMAIN s /\ 1 < i + 1
                                  /\ Tail(s)[i] = s[i + 1]
    BY <1>1, <1>2
  <1>4. Increasing(Tail(s))
    <2> SUFFICES ASSUME NEW i \in DOMAIN Tail(s), NEW j \in DOMAIN Tail(s), i < j
                 PROVE  Tail(s)[i] < Tail(s)[j]
      BY DEF Increasing
    <2>1. i + 1 < j + 1
      BY <1>3
    <2> QED
      BY <1>3, <2>1 DEF Increasing
  <1>5. Precedes({Head(s)}, Elements(Tail(s)))
    <2>1. 1 \in DOMAIN s
      BY <1>1, <1>2
    <2> QED
      BY <1>1, <1>3, <2>1 DEF Increasing, Precedes, Elements
  <1> QED
    BY <1>4, <1>5

\* An empty sequence.
LEMMA EmptyElements ==
  /\ Elements(<<>>) = {} /\ Increasing(<<>>)
  /\ \A S : <<>> \in Seq(S) /\ Len(<<>>) = 0
  <1>1. DOMAIN <<>> = {}
    OBVIOUS
  <1> QED
    BY <1>1, EmptySeq DEF Elements, Increasing

-----------------------------------------------------------------------------
USE IngestAssumption

(***************************************************************************)
(* Type correctness.                                                       *)
(***************************************************************************)

\* The initial state is well typed.
LEMMA InitType == Init => TypeInv
  BY EmptyElements DEF Init, TypeInv, TypeOK, AtLoop, PipeIdle, ArchIdle

\* The consumer's steps.
LEMMA ConsumerType == TypeInv /\ ConsumerStep => TypeInv'
  <1> SUFFICES ASSUME TypeInv, ConsumerStep PROVE TypeInv'
    OBVIOUS
  <1>0. /\ consumer \in [pc: {"loop", "receive", "enqueue", "ack", "exited"}, d: Nat]
        /\ consumer.d \in Nat
    BY DEF TypeInv, TypeOK
  <1>1. CASE CheckContext \/ ReceiveCancelled
    <2>1. consumer' \in [pc: {"loop", "receive", "enqueue", "ack", "exited"}, d: Nat]
      BY <1>0, <1>1 DEF CheckContext, ReceiveCancelled
    <2> QED
      BY <1>1, <2>1 DEF CheckContext, ReceiveCancelled, TypeInv, TypeOK, poolVars,
         historyVars, counterVars
  <1>2. ASSUME NEW m \in Msgs, Receive(m) PROVE TypeInv'
    <2>1. received' \in Seq(Msgs) /\ Len(received) + 1 \in Nat
      BY <1>2, AppendElements, LenProperties DEF Receive, TypeInv, TypeOK
    <2>2. consumer' \in [pc: {"loop", "receive", "enqueue", "ack", "exited"}, d: Nat]
      BY <1>2, <2>1 DEF Receive
    <2>3. broker' \in [Msgs -> {"ready", "unacked", "acked"}]
      BY <1>2 DEF Receive, TypeInv, TypeOK
    <2> QED
      BY <1>2, <2>1, <2>2, <2>3 DEF Receive, TypeInv, TypeOK, poolVars,
         historyVars, counterVars
  <1>3. CASE Enqueue
    <2>1. consumerOut' \in Seq(Nat) /\ Len(consumerOut') <= OutCap
      <3>1. /\ consumerOut \in Seq(Nat) /\ Len(consumerOut) < OutCap
            /\ consumerOut' = Append(consumerOut, consumer.d)
        BY <1>3 DEF Enqueue, TypeInv, TypeOK
      <3> QED
        BY <1>0, <3>1, AppendElements, LenProperties
    <2>2. consumer' \in [pc: {"loop", "receive", "enqueue", "ack", "exited"}, d: Nat]
      BY <1>0, <1>3 DEF Enqueue
    <2>3. handed' \in SUBSET Nat
      BY <1>0, <1>3 DEF Enqueue, TypeInv, TypeOK
    <2> QED
      BY <1>3, <2>1, <2>2, <2>3 DEF Enqueue, TypeInv, TypeOK, poolVars, counterVars
  <1>4. CASE Abandon
    <2>1. consumer' \in [pc: {"loop", "receive", "enqueue", "ack", "exited"}, d: Nat]
      BY <1>0, <1>4 DEF Abandon
    <2>2. abandoned' \in SUBSET Nat
      BY <1>0, <1>4 DEF Abandon, TypeInv, TypeOK
    <2> QED
      BY <1>4, <2>1, <2>2 DEF Abandon, TypeInv, TypeOK, poolVars, counterVars
  <1>5. CASE Ack
    <2>1. broker' \in [Msgs -> {"ready", "unacked", "acked"}]
      BY <1>5 DEF Ack, TypeInv, TypeOK
    <2>2. faults' \in Nat
      BY <1>5 DEF Ack, Fault, TypeInv, TypeOK
    <2>3. consumer' \in [pc: {"loop", "receive", "enqueue", "ack", "exited"}, d: Nat]
      BY <1>5 DEF Ack, AtLoop
    <2> QED
      BY <1>5, <2>1, <2>2, <2>3 DEF Ack, TypeInv, TypeOK, poolVars, historyVars
  <1> QED
    BY <1>1, <1>2, <1>3, <1>4, <1>5 DEF ConsumerStep

\* The rules keep matchCh within its capacity.
LEMMA EvaluateType ==
  ASSUME TypeInv, NEW m, Evaluate(m)
  PROVE  matchCh' \in 0 .. MatchChCap /\ matches' \in Nat
  <1>0. matchCh \in 0 .. MatchChCap /\ matches \in Nat
    BY DEF TypeInv, TypeOK
  <1>1. CASE UNCHANGED <<matchCh, matches>>
    BY <1>0, <1>1
  <1>2. CASE matchCh < MatchChCap /\ matchCh' = matchCh + 1 /\ matches' = matches + 1
    BY <1>0, <1>2
  <1> QED
    BY <1>1, <1>2 DEF Evaluate

\* The pipeline's steps.
LEMMA PipelineType == TypeInv /\ PipelineStep => TypeInv'
  <1> SUFFICES ASSUME TypeInv, PipelineStep PROVE TypeInv'
    OBVIOUS
  <1>0. /\ pipeline \in [pc: {"idle", "archive", "exited"}, d: Nat] /\ pipeline.d \in Nat
        /\ consumerOut \in Seq(Nat) /\ Len(consumerOut) <= OutCap
    BY DEF TypeInv, TypeOK
  <1>1. ASSUME consumerOut /= <<>>
        PROVE  /\ Head(consumerOut) \in Nat /\ Tail(consumerOut) \in Seq(Nat)
               /\ Len(Tail(consumerOut)) <= OutCap
    BY <1>0, <1>1, HeadTail
  <1>2. CASE FilterEvent
    BY <1>1, <1>2 DEF FilterEvent, TypeInv, TypeOK, poolVars, historyVars, counterVars
  <1>3. CASE ApplyEvent
    <2>1. pipeline' \in [pc: {"idle", "archive", "exited"}, d: Nat]
      BY <1>1, <1>3 DEF ApplyEvent
    <2>2. applied' \in Seq(Nat)
      BY <1>1, <1>3, AppendElements DEF ApplyEvent, TypeInv, TypeOK
    <2> QED
      BY <1>1, <1>3, <2>1, <2>2 DEF ApplyEvent, TypeInv, TypeOK, poolVars, counterVars
  <1>4. CASE ArchiveEvent
    <2>1. archiveCh' \in Seq(Nat) /\ Len(archiveCh') <= ArchiveCap
      <3>1. /\ archiveCh \in Seq(Nat) /\ Len(archiveCh) < ArchiveCap
            /\ archiveCh' = Append(archiveCh, pipeline.d)
        BY <1>4 DEF ArchiveEvent, TypeInv, TypeOK
      <3> QED
        BY <1>0, <3>1, AppendElements, LenProperties
    <2>2. matchCh' \in 0 .. MatchChCap /\ matches' \in Nat
      BY <1>4, EvaluateType DEF ArchiveEvent
    <2>3. pipeline' \in [pc: {"idle", "archive", "exited"}, d: Nat]
      BY <1>4 DEF ArchiveEvent, PipeIdle
    <2> QED
      BY <1>4, <2>1, <2>2, <2>3 DEF ArchiveEvent, TypeInv, TypeOK, historyVars
  <1>5. CASE DropFromArchive
    <2>1. missed' \in SUBSET Nat
      BY <1>0, <1>5 DEF DropFromArchive, TypeInv, TypeOK
    <2>2. matchCh' \in 0 .. MatchChCap /\ matches' \in Nat
      BY <1>5, EvaluateType DEF DropFromArchive
    <2>3. pipeline' \in [pc: {"idle", "archive", "exited"}, d: Nat]
      BY <1>5 DEF DropFromArchive, PipeIdle
    <2> QED
      BY <1>5, <2>1, <2>2, <2>3 DEF DropFromArchive, TypeInv, TypeOK
  <1>6. CASE PipelineExit
    <2>1. pipeline' \in [pc: {"idle", "archive", "exited"}, d: Nat]
      BY <1>0, <1>6 DEF PipelineExit
    <2> QED
      BY <1>6, <2>1 DEF PipelineExit, TypeInv, TypeOK, poolVars, historyVars, counterVars
  <1> QED
    BY <1>2, <1>3, <1>4, <1>5, <1>6 DEF PipelineStep

\* The archive writer's steps.
LEMMA ArchiveType == TypeInv /\ ArchiveStep => TypeInv'
  <1> SUFFICES ASSUME TypeInv, ArchiveStep PROVE TypeInv'
    OBVIOUS
  <1>0. /\ archive \in [pc: {"idle", "flush", "last", "exited"}, batch: Seq(Nat)]
        /\ archive.batch \in Seq(Nat) /\ Len(archive.batch) <= BatchSize
        /\ Len(archive.batch) \in Nat
        /\ archive.pc = "idle" => Len(archive.batch) < BatchSize
        /\ archiveCh \in Seq(Nat) /\ Len(archiveCh) <= ArchiveCap
    BY LenProperties DEF TypeInv, TypeOK
  <1>1. ASSUME archive' \in [pc: {"idle", "flush", "last", "exited"}, batch: Seq(Nat)],
               Len(archive'.batch) <= BatchSize,
               archive'.pc = "idle" => Len(archive'.batch) < BatchSize,
               archiveCh' \in Seq(Nat), Len(archiveCh') <= ArchiveCap,
               events' \in Seq(Nat), missed' \in SUBSET Nat, faults' \in Nat,
               UNCHANGED <<broker, process, consumer, consumerOut, pipeline, matchCh,
                           worker, received, handed, applied, abandoned, matches, starts>>
        PROVE  TypeInv'
    BY <1>1 DEF TypeInv, TypeOK
  <1>2. /\ archiveCh \in Seq(Nat) /\ Len(archiveCh) <= ArchiveCap
        /\ events \in Seq(Nat) /\ missed \in SUBSET Nat /\ faults \in Nat
    BY DEF TypeInv, TypeOK
  <1>3. CASE BatchEvent
    <2>1. /\ Head(archiveCh) \in Nat /\ Tail(archiveCh) \in Seq(Nat)
          /\ Len(Tail(archiveCh)) <= ArchiveCap
      BY <1>0, <1>3, HeadTail DEF BatchEvent
    <2>2. /\ Append(archive.batch, Head(archiveCh)) \in Seq(Nat)
          /\ Len(Append(archive.batch, Head(archiveCh))) = Len(archive.batch) + 1
      BY <1>0, <2>1, AppendElements
    <2>3. /\ archive' = [pc |-> IF Len(archive.batch) + 1 >= BatchSize
                                THEN "flush" ELSE "idle",
                         batch |-> Append(archive.batch, Head(archiveCh))]
          /\ archive.pc = "idle" /\ archiveCh' = Tail(archiveCh)
          /\ UNCHANGED <<broker, process, consumer, consumerOut, pipeline, matchCh,
                         worker, events, received, handed, applied, missed, abandoned,
                         matches, faults, starts>>
      BY <1>3 DEF BatchEvent, poolVars, historyVars, counterVars
    <2>4. /\ archive' \in [pc: {"idle", "flush", "last", "exited"}, batch: Seq(Nat)]
          /\ Len(archive'.batch) <= BatchSize
          /\ archive'.pc = "idle" => Len(archive'.batch) < BatchSize
      BY <1>0, <2>2, <2>3
    <2> QED
      BY <1>1, <1>2, <2>1, <2>3, <2>4
  <1>4. CASE FlushTick \/ FlushLast
    <2>1. /\ archive' = [archive EXCEPT !.pc = "flush"] \/ archive' = [archive EXCEPT !.pc = "last"]
          /\ UNCHANGED <<broker, process, consumer, consumerOut, pipeline, archiveCh,
                         matchCh, worker, events, received, handed, applied, missed,
                         abandoned, matches, faults, starts>>
      BY <1>4 DEF FlushTick, FlushLast, poolVars, historyVars, counterVars
    <2>2. /\ archive' \in [pc: {"idle", "flush", "last", "exited"}, batch: Seq(Nat)]
          /\ archive'.batch = archive.batch /\ archive'.pc /= "idle"
      BY <1>0, <2>1
    <2> QED
      BY <1>0, <1>1, <1>2, <2>1, <2>2
  <1>5. CASE InsertEvent \/ InsertFails
    <2>1. /\ archive.pc /= "idle" /\ archive.batch /= <<>>
          /\ archive' = [archive EXCEPT !.batch = Tail(@)]
          /\ UNCHANGED <<broker, process, consumer, consumerOut, pipeline, archiveCh,
                         matchCh, worker, received, handed, applied, abandoned, matches,
                         starts>>
      BY <1>5 DEF InsertEvent, InsertFails, Flushing, poolVars, historyVars, counterVars
    <2>2. /\ Head(archive.batch) \in Nat /\ Tail(archive.batch) \in Seq(Nat)
          /\ Len(Tail(archive.batch)) <= BatchSize
      BY <1>0, <2>1, HeadTail
    <2>3. /\ archive' \in [pc: {"idle", "flush", "last", "exited"}, batch: Seq(Nat)]
          /\ archive'.batch = Tail(archive.batch) /\ archive'.pc /= "idle"
      BY <1>0, <2>1, <2>2
    <2>4. events' \in Seq(Nat)
      <3>1. events' = events \/ events' = Append(events, Head(archive.batch))
        BY <1>5 DEF InsertEvent, InsertFails
      <3>2. Append(events, Head(archive.batch)) \in Seq(Nat)
        BY <1>2, <2>2, AppendElements
      <3> QED
        BY <1>2, <3>1, <3>2
    <2>5. missed' \in SUBSET Nat
      <3>1. missed' = missed \/ missed' = missed \cup {Head(archive.batch)}
        BY <1>5 DEF InsertEvent, InsertFails, historyVars
      <3> QED
        BY <1>2, <2>2, <3>1
    <2>6. faults' \in Nat
      <3>1. faults' = faults \/ faults' = faults + 1
        BY <1>5 DEF InsertEvent, InsertFails, Fault, counterVars
      <3> QED
        BY <1>2, <3>1
    <2> QED
      BY <1>1, <1>2, <2>1, <2>2, <2>3, <2>4, <2>5, <2>6
  <1>6. CASE FlushDone
    <2>1. /\ archive.batch = <<>>
          /\ archive' = [archive EXCEPT !.pc = IF archive.pc = "last" THEN "exited" ELSE "idle"]
          /\ UNCHANGED <<broker, process, consumer, consumerOut, pipeline, archiveCh,
                         matchCh, worker, events, received, handed, applied, missed,
                         abandoned, matches, faults, starts>>
      BY <1>6 DEF FlushDone, poolVars, historyVars, counterVars
    <2>2. /\ archive' \in [pc: {"idle", "flush", "last", "exited"}, batch: Seq(Nat)]
          /\ archive'.batch = <<>> /\ Len(<<>>) = 0
      BY <1>0, <2>1, EmptyElements
    <2> QED
      BY <1>1, <1>2, <2>1, <2>2
  <1> QED
    BY <1>3, <1>4, <1>5, <1>6 DEF ArchiveStep

\* The steps of workers and process.
LEMMA OtherType ==
  TypeInv /\ ((\E w \in Workers : WorkerStep(w)) \/ Cancel \/ Exit \/ Crash \/ Start
                \/ UNCHANGED vars)
    => TypeInv'
  <1> SUFFICES ASSUME TypeInv, \/ \E w \in Workers : WorkerStep(w)
                               \/ Cancel \/ Exit \/ Crash \/ Start \/ UNCHANGED vars
               PROVE  TypeInv'
    OBVIOUS
  <1>1. ASSUME NEW w \in Workers, WorkerStep(w) PROVE TypeInv'
    <2>1. worker' \in [Workers -> {"idle", "firing", "draining", "lastFiring", "exited"}]
      BY <1>1 DEF WorkerStep, Fire, Fired, Drain, DrainOver, TypeInv, TypeOK
    <2>2. matchCh' \in 0 .. MatchChCap
      BY <1>1 DEF WorkerStep, Fire, Fired, Drain, DrainOver, TypeInv, TypeOK
    <2> QED
      BY <1>1, <2>1, <2>2 DEF WorkerStep, Fire, Fired, Drain, DrainOver, TypeInv,
         TypeOK, ingestVars, historyVars, counterVars
  <1>2. CASE Cancel \/ UNCHANGED vars
    BY <1>2 DEF Cancel, TypeInv, TypeOK, vars, ingestVars, poolVars, historyVars,
       counterVars
  <1>3. CASE Start
    <2>1. starts' \in Nat
      BY <1>3 DEF Start, TypeInv, TypeOK
    <2> QED
      BY <1>3, <2>1 DEF Start, TypeInv, TypeOK, ingestVars, poolVars, historyVars
  <1>4. CASE Gone
    <2>1. broker' \in [Msgs -> {"ready", "unacked", "acked"}]
      BY <1>4 DEF Gone, TypeInv, TypeOK
    <2>2. missed' \in SUBSET Nat
      <3>1. applied \in Seq(Nat) /\ missed \in SUBSET Nat
        BY DEF TypeInv, TypeOK
      <3>2. Elements(applied) \subseteq Nat
        BY <3>1, ElementOfSeq, LenProperties DEF Elements
      <3> QED
        BY <1>4, <3>1, <3>2 DEF Gone
    <2>3. /\ <<>> \in Seq(Nat) /\ Len(<<>>) = 0 /\ OutCap \in Nat /\ ArchiveCap \in Nat
          /\ BatchSize \in Nat \ {0}
      BY EmptyElements
    <2>4. /\ consumer' \in [pc: {"loop", "receive", "enqueue", "ack", "exited"}, d: Nat]
          /\ pipeline' \in [pc: {"idle", "archive", "exited"}, d: Nat]
      BY <1>4 DEF Gone, AtLoop, PipeIdle
    <2>5. /\ archive' \in [pc: {"idle", "flush", "last", "exited"}, batch: Seq(Nat)]
          /\ Len(archive'.batch) < BatchSize /\ Len(archive'.batch) <= BatchSize
      BY <1>4, <2>3 DEF Gone, ArchIdle
    <2>6. worker' \in [Workers -> {"idle", "firing", "draining", "lastFiring", "exited"}]
      BY <1>4 DEF Gone
    <2>7. /\ consumerOut' \in Seq(Nat) /\ Len(consumerOut') <= OutCap
          /\ archiveCh' \in Seq(Nat) /\ Len(archiveCh') <= ArchiveCap
          /\ matchCh' \in 0 .. MatchChCap /\ process' = "down"
          /\ UNCHANGED <<events, received, handed, applied, abandoned, matches, faults, starts>>
      BY <1>4, <2>3 DEF Gone, counterVars
    <2> QED
      BY <2>1, <2>2, <2>3, <2>4, <2>5, <2>6, <2>7 DEF TypeInv, TypeOK
  <1> QED
    BY <1>1, <1>2, <1>3, <1>4 DEF Exit, Crash

\* Every step keeps the types.
LEMMA NextType == TypeInv /\ [Next]_vars => TypeInv'
  BY ConsumerType, PipelineType, ArchiveType, OtherType DEF Next, Stopped

\* Every variable keeps its type; consumerOut, archiveCh and matchCh never hold
\* more than their capacity and no batch grows past its size, whatever channel
\* fills up while its reader waits.
THEOREM TypeCorrect == Spec => []TypeOK
  <1>1. TypeInv => TypeOK
    BY DEF TypeInv
  <1> QED
    BY <1>1, InitType, NextType, PTL DEF Spec

-----------------------------------------------------------------------------
(***************************************************************************)
(* No message is acknowledged and forgotten.                               *)
(***************************************************************************)

\* A step that touches neither the consumer nor the broker.
LEMMA QuietAck ==
  ASSUME AckInv, TypeInv', UNCHANGED <<broker, consumer, received, handed, abandoned>>
  PROVE  AckInv'
  BY DEF AckInv, InvDelivery, AckedIsHandedOver

\* The consumer's steps.
LEMMA ConsumerAck ==
  ASSUME AckInv, TypeInv', ConsumerStep
  PROVE  AckInv'
  <1>0. /\ consumer \in [pc: {"loop", "receive", "enqueue", "ack", "exited"}, d: Nat]
        /\ broker \in [Msgs -> {"ready", "unacked", "acked"}]
        /\ received \in Seq(Msgs)
        /\ InvDelivery /\ AckedIsHandedOver
    BY DEF AckInv, TypeInv, TypeOK
  <1>1. CASE CheckContext \/ ReceiveCancelled
    <2>1. /\ consumer'.pc \in {"exited", "receive"}
          /\ UNCHANGED <<broker, received, handed, abandoned>>
      BY <1>0, <1>1 DEF CheckContext, ReceiveCancelled, historyVars
    <2> QED
      BY <1>0, <2>1 DEF AckInv, InvDelivery, AckedIsHandedOver
  <1>2. ASSUME NEW m \in Msgs, Receive(m) PROVE AckInv'
    <2>1. /\ DOMAIN received' = DOMAIN received \cup {Len(received) + 1}
          /\ received'[Len(received) + 1] = m
          /\ \A i \in DOMAIN received : received'[i] = received[i]
      BY <1>0, <1>2, AppendElements DEF Receive
    <2>2. /\ consumer'.d = Len(received) + 1
          /\ consumer'.pc = IF m \in Malformed THEN "ack" ELSE "enqueue"
          /\ handed' = handed /\ abandoned' = abandoned
          /\ broker' = [broker EXCEPT ![m] = "unacked"]
      BY <1>2 DEF Receive, historyVars
    <2>3. InvDelivery'
      BY <1>0, <2>1, <2>2 DEF InvDelivery
    <2>4. AckedIsHandedOver'
      <3> SUFFICES ASSUME NEW n \in Msgs, broker'[n] = "acked", n \notin Malformed
                   PROVE  \E d \in handed' \cup abandoned' : received'[d] = n
        BY DEF AckedIsHandedOver
      <3>1. broker[n] = "acked"
        BY <1>0, <2>2
      <3>2. PICK d \in handed \cup abandoned : received[d] = n
        BY <1>0, <3>1 DEF AckedIsHandedOver
      <3>3. received'[d] = n
        BY <1>0, <2>1, <3>2 DEF InvDelivery
      <3> QED
        BY <2>2, <3>2, <3>3
    <2> QED
      BY <2>3, <2>4 DEF AckInv
  <1>3. CASE Enqueue \/ Abandon
    <2>1. /\ consumer.pc = "enqueue" /\ consumer'.pc = "ack" /\ consumer'.d = consumer.d
          /\ handed' \cup abandoned' = handed \cup abandoned \cup {consumer.d}
          /\ UNCHANGED <<broker, received>>
      BY <1>0, <1>3 DEF Enqueue, Abandon
    <2>2. InvDelivery'
      BY <1>0, <2>1 DEF InvDelivery
    <2>3. AckedIsHandedOver'
      BY <1>0, <2>1 DEF AckedIsHandedOver
    <2> QED
      BY <2>2, <2>3 DEF AckInv
  <1>4. CASE Ack
    <2>1. /\ consumer.pc = "ack" /\ consumer'.pc = "loop"
          /\ UNCHANGED <<received, handed, abandoned>>
      BY <1>4 DEF Ack, AtLoop, historyVars
    <2>2. broker' = broker \/ broker' = [broker EXCEPT ![received[consumer.d]] = "acked"]
      BY <1>4 DEF Ack
    <2>3. InvDelivery'
      BY <1>0, <2>1 DEF InvDelivery
    <2>4. AckedIsHandedOver'
      <3> SUFFICES ASSUME NEW n \in Msgs, broker'[n] = "acked", n \notin Malformed
                   PROVE  \E d \in handed \cup abandoned : received[d] = n
        BY <2>1 DEF AckedIsHandedOver
      <3>1. CASE broker[n] = "acked"
        BY <1>0, <3>1 DEF AckedIsHandedOver
      <3>2. CASE broker[n] /= "acked"
        <4>1. received[consumer.d] = n
          BY <1>0, <2>2, <3>2
        <4> QED
          BY <1>0, <2>1, <4>1 DEF InvDelivery
      <3> QED
        BY <3>1, <3>2
    <2> QED
      BY <2>3, <2>4 DEF AckInv
  <1> QED
    BY <1>1, <1>2, <1>3, <1>4 DEF ConsumerStep

\* Every step keeps the invariant.
LEMMA NextAck == AckInv /\ [Next]_vars => AckInv'
  <1> SUFFICES ASSUME AckInv, [Next]_vars PROVE AckInv'
    OBVIOUS
  <1>0. TypeInv'
    BY NextType DEF AckInv
  <1>1. CASE ConsumerStep
    BY <1>0, <1>1, ConsumerAck
  <1>2. CASE PipelineStep \/ ArchiveStep
    <2>1. UNCHANGED <<broker, consumer, received, handed, abandoned>>
      BY <1>2 DEF PipelineStep, FilterEvent, ApplyEvent, ArchiveEvent, DropFromArchive,
         PipelineExit, ArchiveStep, BatchEvent, FlushTick, FlushLast, InsertEvent,
         InsertFails, FlushDone, historyVars
    <2> QED
      BY <1>0, <2>1, QuietAck
  <1>3. CASE (\E w \in Workers : WorkerStep(w)) \/ Cancel \/ Start \/ UNCHANGED vars
    <2>1. UNCHANGED <<broker, consumer, received, handed, abandoned>>
      BY <1>3 DEF WorkerStep, Fire, Fired, Drain, DrainOver, Cancel, Start, vars,
         ingestVars, historyVars
    <2> QED
      BY <1>0, <2>1, QuietAck
  <1>4. CASE Gone
    <2>1. /\ consumer'.pc = "loop" /\ UNCHANGED <<received, handed, abandoned>>
          /\ \A m \in Msgs : broker'[m] = "acked" => broker[m] = "acked"
      BY <1>4 DEF Gone, AtLoop
    <2> QED
      BY <1>0, <2>1 DEF AckInv, InvDelivery, AckedIsHandedOver
  <1> QED
    BY <1>1, <1>2, <1>3, <1>4 DEF Next, Exit, Crash, Stopped

\* No message is acknowledged and forgotten, however acknowledgements fail and
\* whenever the process is cancelled, crashes and starts again: an acknowledged
\* message was unparsable, or was put into consumerOut, or was waiting to be
\* put there when the context ended (processMessage).
THEOREM AckedIsHandedOverHolds == Spec => []AckedIsHandedOver
  <1>1. Init => AckInv
    <2> SUFFICES ASSUME Init PROVE AckInv
      OBVIOUS
    <2>1. TypeInv
      BY InitType
    <2>2. InvDelivery
      BY DEF Init, InvDelivery, AtLoop
    <2>3. AckedIsHandedOver
      BY DEF Init, AckedIsHandedOver
    <2> QED
      BY <2>1, <2>2, <2>3 DEF AckInv
  <1>2. AckInv => AckedIsHandedOver
    BY DEF AckInv
  <1> QED
    BY <1>1, <1>2, NextAck, PTL DEF Spec

-----------------------------------------------------------------------------
(***************************************************************************)
(* The archive follows the windows.                                        *)
(***************************************************************************)

\* The types the line rests on.
LEMMA LineTypes ==
  ASSUME LineInv
  PROVE  /\ consumer \in [pc: {"loop", "receive", "enqueue", "ack", "exited"}, d: Nat]
         /\ pipeline \in [pc: {"idle", "archive", "exited"}, d: Nat]
         /\ archive \in [pc: {"idle", "flush", "last", "exited"}, batch: Seq(Nat)]
         /\ archive.batch \in Seq(Nat) /\ archiveCh \in Seq(Nat)
         /\ consumerOut \in Seq(Nat) /\ events \in Seq(Nat) /\ applied \in Seq(Nat)
         /\ received \in Seq(Msgs)
         /\ DOMAIN received = 1 .. Len(received) /\ Len(received) \in Nat
         /\ InvLine /\ InvApplied
  BY LenProperties DEF LineInv, TypeInv, TypeOK

\* A step that moves no delivery.
LEMMA QuietLine ==
  ASSUME LineInv, TypeInv', archive'.batch = archive.batch,
         AtConsumer' = AtConsumer, AtPipeline' = AtPipeline,
         UNCHANGED <<consumerOut, archiveCh, events, received, applied>>
  PROVE  LineInv'
  BY DEF LineInv, InvLine, InvApplied, ToTable, ToBatch, ToArchive, ToPipeline

\* The consumer's steps: a new delivery is the last of the line.
LEMMA ConsumerLine ==
  ASSUME LineInv, TypeInv', ConsumerStep
  PROVE  LineInv'
  <1>0. /\ consumer \in [pc: {"loop", "receive", "enqueue", "ack", "exited"}, d: Nat]
        /\ consumerOut \in Seq(Nat) /\ received \in Seq(Msgs)
        /\ DOMAIN received = 1 .. Len(received) /\ Len(received) \in Nat
        /\ InvLine /\ InvApplied
    BY LineTypes
  <1>1. /\ archive' = archive
        /\ UNCHANGED <<pipeline, archiveCh, events, applied>>
        /\ AtPipeline' = AtPipeline
    BY DEF ConsumerStep, CheckContext, Receive, ReceiveCancelled, Enqueue, Abandon, Ack,
       historyVars, AtPipeline
  <1>2. CASE CheckContext \/ ReceiveCancelled \/ Ack
    <2>1. AtConsumer' = AtConsumer
      BY <1>0, <1>2 DEF CheckContext, ReceiveCancelled, Ack, AtLoop, AtConsumer
    <2>2. UNCHANGED <<consumerOut, received>>
      BY <1>2 DEF CheckContext, ReceiveCancelled, Ack
    <2> QED
      BY <1>1, <2>1, <2>2, QuietLine
  <1>3. ASSUME NEW m \in Msgs, Receive(m) PROVE LineInv'
    <2> DEFINE last == Len(received) + 1
    <2>1. /\ DOMAIN received' = DOMAIN received \cup {last}
          /\ \A i \in DOMAIN received : received'[i] = received[i] /\ i < last
      BY <1>0, <1>3, AppendElements DEF Receive
    <2>2. /\ AtConsumer = {} /\ AtConsumer' \subseteq {last}
          /\ consumerOut' = consumerOut
      BY <1>3 DEF Receive, AtConsumer
    <2>3. InvLine'
      <3>1. Elements(events) \cup ToTable \subseteq DOMAIN received
        BY <1>0 DEF InvLine, InvApplied
      <3>2. Precedes(Elements(events) \cup ToTable, {last})
        BY <2>1, <3>1 DEF Precedes
      <3> HIDE DEF last
      <3>3. /\ ToPipeline' \subseteq ToPipeline \cup {last}
            /\ ToArchive' \subseteq ToArchive \cup {last}
            /\ ToBatch' \subseteq ToBatch \cup {last}
            /\ ToTable' \subseteq ToTable \cup {last}
        BY <1>1, <2>2 DEF ToTable, ToBatch, ToArchive, ToPipeline
      <3>4. /\ AtPipeline \subseteq ToTable /\ Elements(consumerOut) \subseteq ToTable
            /\ Elements(archiveCh) \subseteq ToTable
            /\ Elements(archive.batch) \subseteq ToTable
        BY DEF ToTable, ToBatch, ToArchive, ToPipeline
      <3>5. /\ Precedes(Elements(events), ToTable')
            /\ Precedes(Elements(archive.batch), ToBatch')
            /\ Precedes(Elements(archiveCh), ToArchive')
            /\ Precedes(AtPipeline, ToPipeline')
            /\ Precedes(Elements(consumerOut), AtConsumer')
        BY <1>0, <2>2, <3>2, <3>3, <3>4 DEF InvLine, Precedes
      <3> QED
        BY <1>0, <1>1, <2>1, <2>2, <3>1, <3>3, <3>5 DEF InvLine
    <2>4. InvApplied'
      <3>1. AtPipeline \cup Elements(archiveCh) \cup Elements(archive.batch)
              \subseteq DOMAIN received
        BY <1>0 DEF InvLine, ToTable, ToBatch, ToArchive
      <3>2. Precedes(Elements(applied), ToPipeline')
        BY <1>0, <2>1, <2>2 DEF InvApplied, Precedes, ToPipeline
      <3> QED
        BY <1>0, <1>1, <2>1, <3>1, <3>2 DEF InvApplied
    <2> QED
      BY <2>3, <2>4 DEF LineInv
  <1>4. CASE Enqueue
    <2>1. /\ AtConsumer = {consumer.d} /\ AtConsumer' = {}
          /\ consumerOut' = Append(consumerOut, consumer.d) /\ received' = received
      BY <1>0, <1>4 DEF Enqueue, AtConsumer
    <2>2. Elements(consumerOut') = Elements(consumerOut) \cup {consumer.d}
      BY <1>0, <2>1, AppendElements
    <2>3. Increasing(consumerOut')
      BY <1>0, <2>1, AppendIncreasing DEF InvLine
    <2>4. /\ ToPipeline' = ToPipeline /\ ToArchive' = ToArchive
          /\ ToBatch' = ToBatch /\ ToTable' = ToTable
      BY <1>1, <2>1, <2>2 DEF ToTable, ToBatch, ToArchive, ToPipeline
    <2>5. Precedes(Elements(consumerOut'), AtConsumer')
      BY <2>1 DEF Precedes
    <2> QED
      BY <1>0, <1>1, <2>1, <2>3, <2>4, <2>5 DEF LineInv, InvLine, InvApplied
  <1>5. CASE Abandon
    <2>1. AtConsumer' = {} /\ UNCHANGED <<consumerOut, received>>
      BY <1>0, <1>5 DEF Abandon, AtConsumer
    <2>2. /\ ToPipeline' \subseteq ToPipeline /\ ToArchive' \subseteq ToArchive
          /\ ToBatch' \subseteq ToBatch /\ ToTable' \subseteq ToTable
      BY <1>1, <2>1 DEF ToTable, ToBatch, ToArchive, ToPipeline
    <2> QED
      BY <1>0, <1>1, <2>1, <2>2 DEF LineInv, InvLine, InvApplied, Precedes
  <1> QED
    BY <1>2, <1>3, <1>4, <1>5 DEF ConsumerStep

\* The pipeline's steps: it takes the first of consumerOut.
LEMMA PipelineLine ==
  ASSUME LineInv, TypeInv', PipelineStep
  PROVE  LineInv'
  <1>0. /\ pipeline \in [pc: {"idle", "archive", "exited"}, d: Nat]
        /\ consumerOut \in Seq(Nat) /\ archiveCh \in Seq(Nat) /\ applied \in Seq(Nat)
        /\ InvLine /\ InvApplied
    BY LineTypes
  <1>1. /\ archive' = archive /\ AtConsumer' = AtConsumer
        /\ UNCHANGED <<events, received>>
    BY DEF PipelineStep, FilterEvent, ApplyEvent, ArchiveEvent, DropFromArchive,
       PipelineExit, AtConsumer
  <1>2. ASSUME consumerOut /= <<>>
        PROVE  /\ Elements(consumerOut)
                    = {Head(consumerOut)} \cup Elements(Tail(consumerOut))
               /\ Increasing(Tail(consumerOut)) /\ Head(consumerOut) \in Nat
               /\ Precedes({Head(consumerOut)}, Elements(Tail(consumerOut)))
    BY <1>0, <1>2, HeadTail, TailIncreasing DEF InvLine
  <1>3. CASE FilterEvent
    <2>1. /\ consumerOut /= <<>> /\ consumerOut' = Tail(consumerOut)
          /\ AtPipeline' = AtPipeline /\ UNCHANGED <<archiveCh, applied>>
      BY <1>3 DEF FilterEvent, AtPipeline, historyVars
    <2>2. /\ ToPipeline' \subseteq ToPipeline /\ ToArchive' \subseteq ToArchive
          /\ ToBatch' \subseteq ToBatch /\ ToTable' \subseteq ToTable
          /\ Elements(consumerOut') \subseteq Elements(consumerOut)
      BY <1>1, <1>2, <2>1 DEF ToTable, ToBatch, ToArchive, ToPipeline
    <2> QED
      BY <1>0, <1>1, <1>2, <2>1, <2>2 DEF LineInv, InvLine, InvApplied, Precedes
  <1>4. CASE ApplyEvent
    <2> DEFINE h == Head(consumerOut)
    <2>1. /\ consumerOut /= <<>> /\ consumerOut' = Tail(consumerOut)
          /\ AtPipeline = {} /\ AtPipeline' = {h} /\ archiveCh' = archiveCh
          /\ applied' = IF received[h] \in NoAnon THEN applied ELSE Append(applied, h)
      BY <1>4 DEF ApplyEvent, AtPipeline
    <2>2. /\ Elements(consumerOut) = {h} \cup Elements(consumerOut') /\ h \in Nat
          /\ Increasing(consumerOut') /\ Precedes({h}, Elements(consumerOut'))
      BY <1>2, <2>1
    <2> HIDE DEF h
    <2>3. /\ ToPipeline = ToPipeline' \cup {h} /\ ToArchive' = ToArchive
          /\ ToBatch' = ToBatch /\ ToTable' = ToTable
      BY <1>1, <2>1, <2>2 DEF ToTable, ToBatch, ToArchive, ToPipeline
    <2>4. Precedes({h}, ToPipeline')
      BY <1>0, <1>1, <2>2 DEF InvLine, Precedes, ToPipeline
    <2>5. InvLine'
      BY <1>0, <1>1, <2>1, <2>2, <2>3, <2>4 DEF InvLine, Precedes
    <2>6. CASE received[h] \in NoAnon
      <3>1. InvApplied'
        BY <1>0, <1>1, <2>1, <2>3, <2>6 DEF InvApplied, Precedes
      <3> QED
        BY <2>5, <3>1 DEF LineInv
    <2>7. CASE received[h] \notin NoAnon
      <3>0. Elements(Append(applied, h)) = Elements(applied) \cup {h}
        <4>1. applied \in Seq(Nat) /\ h \in Nat
          BY <1>0, <2>2
        <4> QED
          BY <4>1, AppendElements
      <3>1. applied' = Append(applied, h) /\ Elements(applied') = Elements(applied) \cup {h}
        BY <2>1, <2>7, <3>0
      <3>2. Precedes(Elements(applied), {h}) /\ h \in DOMAIN received
        BY <1>0, <2>3 DEF InvLine, InvApplied, Precedes, ToTable, ToBatch, ToArchive
      <3>3. Increasing(applied')
        BY <1>0, <2>2, <3>1, <3>2, AppendIncreasing DEF InvApplied
      <3>4. Precedes(Elements(applied'), ToPipeline')
        BY <1>0, <2>3, <2>4, <3>1 DEF InvApplied, Precedes
      <3>5. InvApplied'
        BY <1>0, <1>1, <2>1, <3>1, <3>2, <3>3, <3>4 DEF InvApplied
      <3> QED
        BY <2>5, <3>5 DEF LineInv
    <2> QED
      BY <2>6, <2>7
  <1>5. CASE ArchiveEvent
    <2>1. /\ AtPipeline = {pipeline.d} /\ AtPipeline' = {}
          /\ archiveCh' = Append(archiveCh, pipeline.d)
          /\ UNCHANGED <<consumerOut, applied>>
      BY <1>5 DEF ArchiveEvent, AtPipeline, PipeIdle, historyVars
    <2>2. Elements(archiveCh') = Elements(archiveCh) \cup AtPipeline
      <3>1. pipeline.d \in Nat
        BY <1>0
      <3>2. Elements(Append(archiveCh, pipeline.d)) = Elements(archiveCh) \cup {pipeline.d}
        BY <1>0, <3>1, AppendElements
      <3> QED
        BY <2>1, <3>2
    <2>3. Increasing(archiveCh')
      <3>1. Precedes(Elements(archiveCh), {pipeline.d}) /\ Increasing(archiveCh)
        BY <1>0, <2>1 DEF InvLine, Precedes, ToArchive
      <3> QED
        BY <1>0, <2>1, <3>1, AppendIncreasing
    <2>4. /\ ToPipeline' = ToPipeline /\ ToArchive' = ToPipeline
          /\ ToBatch' = ToBatch /\ ToTable' = ToTable
      BY <1>1, <2>1, <2>2 DEF ToTable, ToBatch, ToArchive, ToPipeline
    <2>5. Precedes(Elements(archiveCh'), ToArchive') /\ Precedes(AtPipeline', ToPipeline')
      BY <1>0, <2>1, <2>2, <2>4 DEF InvLine, Precedes, ToArchive
    <2>6. InvLine'
      BY <1>0, <1>1, <2>1, <2>3, <2>4, <2>5 DEF InvLine
    <2>7. InvApplied'
      BY <1>0, <1>1, <2>1, <2>2, <2>4 DEF InvApplied
    <2> QED
      BY <2>6, <2>7 DEF LineInv
  <1>6. CASE DropFromArchive
    <2>1. AtPipeline' = {} /\ UNCHANGED <<consumerOut, archiveCh, applied>>
      BY <1>6 DEF DropFromArchive, AtPipeline, PipeIdle
    <2>2. /\ ToPipeline' = ToPipeline /\ ToArchive' \subseteq ToArchive
          /\ ToBatch' \subseteq ToBatch /\ ToTable' \subseteq ToTable
      BY <1>1, <2>1 DEF ToTable, ToBatch, ToArchive, ToPipeline
    <2> QED
      BY <1>0, <1>1, <2>1, <2>2 DEF LineInv, InvLine, InvApplied, Precedes
  <1>7. CASE PipelineExit
    <2>1. /\ AtPipeline' = AtPipeline /\ UNCHANGED <<consumerOut, archiveCh, applied>>
      BY <1>0, <1>7 DEF PipelineExit, AtPipeline, historyVars
    <2> QED
      BY <1>1, <2>1, QuietLine
  <1> QED
    BY <1>3, <1>4, <1>5, <1>6, <1>7 DEF PipelineStep

\* The archive writer's steps: first in, first out.
LEMMA ArchiveLine ==
  ASSUME LineInv, TypeInv', ArchiveStep
  PROVE  LineInv'
  <1>0. /\ archive \in [pc: {"idle", "flush", "last", "exited"}, batch: Seq(Nat)]
        /\ archive.batch \in Seq(Nat) /\ archiveCh \in Seq(Nat) /\ events \in Seq(Nat)
        /\ InvLine /\ InvApplied
    BY LineTypes
  <1>1. /\ AtConsumer' = AtConsumer /\ AtPipeline' = AtPipeline
        /\ UNCHANGED <<consumerOut, received, applied>>
    BY DEF ArchiveStep, BatchEvent, FlushTick, FlushLast, InsertEvent, InsertFails,
       FlushDone, AtConsumer, AtPipeline, historyVars
  <1>2. ToPipeline' = ToPipeline /\ ToArchive' = ToArchive
    BY <1>1 DEF ToArchive, ToPipeline
  <1>3. CASE BatchEvent
    <2> DEFINE h == Head(archiveCh)
    <2>1. /\ archiveCh /= <<>> /\ archiveCh' = Tail(archiveCh) /\ events' = events
          /\ archive'.batch = Append(archive.batch, h)
      BY <1>3 DEF BatchEvent
    <2>2. /\ Elements(archiveCh) = {h} \cup Elements(archiveCh') /\ h \in Nat
          /\ Increasing(archiveCh') /\ Precedes({h}, Elements(archiveCh'))
      BY <1>0, <2>1, HeadTail, TailIncreasing DEF InvLine
    <2> HIDE DEF h
    <2>3. Elements(archive'.batch) = Elements(archive.batch) \cup {h}
      <3>1. Elements(Append(archive.batch, h)) = Elements(archive.batch) \cup {h}
        <4>1. archive.batch \in Seq(Nat) /\ h \in Nat
          BY <1>0, <2>2
        <4> QED
          BY <4>1, AppendElements
      <3> QED
        BY <2>1, <3>1
    <2>4. Increasing(archive'.batch)
      <3>1. Precedes(Elements(archive.batch), {h}) /\ Increasing(archive.batch)
        BY <1>0, <2>2 DEF InvLine, Precedes, ToBatch
      <3> QED
        BY <1>0, <2>1, <2>2, <3>1, AppendIncreasing
    <2>5. ToBatch = ToBatch' \cup {h} /\ ToTable' = ToTable
      BY <1>2, <2>2, <2>3 DEF ToTable, ToBatch
    <2>6. Precedes({h}, ToBatch')
      BY <1>0, <1>2, <2>2 DEF InvLine, Precedes, ToBatch
    <2>7. Precedes(Elements(archive'.batch), ToBatch')
      BY <1>0, <2>3, <2>5, <2>6 DEF InvLine, Precedes
    <2>8. Precedes(Elements(archiveCh'), ToArchive')
      BY <1>0, <1>2, <2>2 DEF InvLine, Precedes
    <2>9. InvLine'
      BY <1>0, <1>1, <1>2, <2>1, <2>2, <2>4, <2>5, <2>7, <2>8 DEF InvLine
    <2>10. InvApplied'
      BY <1>0, <1>1, <1>2, <2>1, <2>2, <2>3 DEF InvApplied
    <2> QED
      BY <2>9, <2>10 DEF LineInv
  <1>4. CASE FlushTick \/ FlushLast \/ FlushDone
    <2>1. archive'.batch = archive.batch /\ UNCHANGED <<archiveCh, events>>
      BY <1>0, <1>4 DEF FlushTick, FlushLast, FlushDone
    <2> QED
      BY <1>1, <2>1, QuietLine
  <1>5. CASE InsertEvent \/ InsertFails
    <2> DEFINE h == Head(archive.batch)
    <2>1. /\ archive.batch /= <<>> /\ archiveCh' = archiveCh
          /\ archive' = [archive EXCEPT !.batch = Tail(@)]
          /\ \/ events' = events
             \/ received[h] \notin NoAnon /\ events' = Append(events, h)
      BY <1>5 DEF InsertEvent, InsertFails
    <2>2. archive'.batch = Tail(archive.batch)
      BY <1>0, <2>1
    <2>3. /\ Elements(archive.batch) = {h} \cup Elements(archive'.batch) /\ h \in Nat
          /\ Increasing(archive'.batch) /\ Precedes({h}, Elements(archive'.batch))
      BY <1>0, <2>1, <2>2, HeadTail, TailIncreasing DEF InvLine
    <2> HIDE DEF h
    <2>4. ToBatch' = ToBatch /\ ToTable = ToTable' \cup {h}
      BY <1>2, <2>1, <2>3 DEF ToTable, ToBatch
    <2>5. Precedes({h}, ToTable')
      BY <1>0, <2>3, <2>4 DEF InvLine, Precedes, ToTable
    <2>6. Precedes(Elements(archive'.batch), ToBatch')
      BY <1>0, <2>3, <2>4 DEF InvLine, Precedes
    <2>7. CASE events' = events
      <3>1. Precedes(Elements(events'), ToTable')
        BY <1>0, <2>4, <2>7 DEF InvLine, Precedes
      <3>2. InvLine'
        BY <1>0, <1>1, <1>2, <2>1, <2>3, <2>4, <2>6, <2>7, <3>1 DEF InvLine
      <3>3. InvApplied'
        BY <1>0, <1>1, <1>2, <2>1, <2>3, <2>7 DEF InvApplied
      <3> QED
        BY <3>2, <3>3 DEF LineInv
    <2>8. CASE received[h] \notin NoAnon /\ events' = Append(events, h)
      <3>1. Elements(Append(events, h)) = Elements(events) \cup {h}
        BY <1>0, <2>3, AppendElements, SMTT(60)
      <3>2. Precedes(Elements(events), {h}) /\ Increasing(events)
        BY <1>0, <2>4 DEF InvLine, Precedes
      <3>3. Increasing(Append(events, h))
        BY <1>0, <2>3, <3>2, AppendIncreasing
      <3>4. Precedes(Elements(events'), ToTable')
        BY <1>0, <2>4, <2>5, <2>8, <3>1 DEF InvLine, Precedes
      <3>5. InvLine'
        BY <1>0, <1>1, <1>2, <2>1, <2>3, <2>4, <2>6, <2>8, <3>3, <3>4 DEF InvLine
      <3>6. Elements(events') \subseteq Elements(applied)
        BY <1>0, <2>3, <2>8, <3>1 DEF InvApplied
      <3>7. InvApplied'
        BY <1>0, <1>1, <1>2, <2>1, <2>3, <3>6 DEF InvApplied
      <3> QED
        BY <3>5, <3>7 DEF LineInv
    <2> QED
      BY <2>1, <2>7, <2>8
  <1> QED
    BY <1>3, <1>4, <1>5 DEF ArchiveStep

\* Every step keeps the line.
LEMMA NextLine == LineInv /\ [Next]_vars => LineInv'
  <1> SUFFICES ASSUME LineInv, [Next]_vars PROVE LineInv'
    OBVIOUS
  <1>0. TypeInv'
    BY NextType DEF LineInv
  <1>1. CASE ConsumerStep \/ PipelineStep \/ ArchiveStep
    BY <1>0, <1>1, ConsumerLine, PipelineLine, ArchiveLine
  <1>2. CASE (\E w \in Workers : WorkerStep(w)) \/ Cancel \/ Start \/ UNCHANGED vars
    <2>1. /\ archive' = archive /\ AtConsumer' = AtConsumer /\ AtPipeline' = AtPipeline
          /\ UNCHANGED <<consumerOut, archiveCh, events, received, applied>>
      BY <1>2 DEF WorkerStep, Fire, Fired, Drain, DrainOver, Cancel, Start, vars,
         ingestVars, historyVars, AtConsumer, AtPipeline
    <2> QED
      BY <1>0, <2>1, QuietLine
  <1>3. CASE Gone
    <2>1. /\ AtConsumer' = {} /\ AtPipeline' = {} /\ consumerOut' = <<>>
          /\ archiveCh' = <<>> /\ archive'.batch = <<>>
          /\ UNCHANGED <<events, received, applied>>
      BY <1>3 DEF Gone, AtLoop, PipeIdle, ArchIdle, AtConsumer, AtPipeline
    <2>2. Elements(<<>>) = {} /\ Increasing(<<>>)
      BY EmptyElements
    <2>3. /\ ToTable' = {} /\ ToBatch' = {} /\ ToArchive' = {} /\ ToPipeline' = {}
      BY <2>1, <2>2 DEF ToTable, ToBatch, ToArchive, ToPipeline
    <2>4. \A S : Precedes(S, {})
      BY DEF Precedes
    <2> QED
      BY <1>0, <2>1, <2>2, <2>3, <2>4 DEF LineInv, InvLine, InvApplied
  <1> QED
    BY <1>1, <1>2, <1>3 DEF Next, Exit, Crash, Stopped

\* Windows see the deliveries in the order they were received, each at most
\* once, and the table events holds a subsequence of what the windows saw, for
\* every capacity and batch size and across crashes and restarts: neither the
\* three channels nor batching reorders or repeats a delivery.
THEOREM ArchiveFollowsWindowsHolds == Spec => []ArchiveFollowsWindows
  <1>1. Init => LineInv
    <2> SUFFICES ASSUME Init PROVE LineInv
      OBVIOUS
    <2>1. /\ AtConsumer = {} /\ AtPipeline = {} /\ consumerOut = <<>>
          /\ archiveCh = <<>> /\ archive.batch = <<>> /\ events = <<>> /\ applied = <<>>
      BY DEF Init, AtLoop, PipeIdle, ArchIdle, AtConsumer, AtPipeline
    <2>2. Elements(<<>>) = {} /\ Increasing(<<>>)
      BY EmptyElements
    <2>3. /\ ToTable = {} /\ ToBatch = {} /\ ToArchive = {} /\ ToPipeline = {}
      BY <2>1, <2>2 DEF ToTable, ToBatch, ToArchive, ToPipeline
    <2>4. \A S : Precedes(S, {})
      BY DEF Precedes
    <2> QED
      BY InitType, <2>1, <2>2, <2>3, <2>4 DEF LineInv, InvLine, InvApplied
  <1>2. LineInv => ArchiveFollowsWindows
    BY DEF LineInv, InvLine, InvApplied, ArchiveFollowsWindows
  <1> QED
    BY <1>1, <1>2, NextLine, PTL DEF Spec
=============================================================================
