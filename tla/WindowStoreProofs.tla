------------------------- MODULE WindowStoreProofs -------------------------
(***************************************************************************)
(* Proofs about WindowStore, for every number of shards and writers, every *)
(* set of users and every bound: type correctness, and that an eviction    *)
(* takes the least recently used window although the scan for it never     *)
(* holds two shard locks; then the counter and the cap: outside a reset    *)
(* the counter never claims a window that is not there, and until a reset  *)
(* runs the cap is exceeded by at most one window per further writer.      *)
(***************************************************************************)
EXTENDS WindowStore, FiniteSetTheorems, TLAPS

USE WindowStoreAssumption

-----------------------------------------------------------------------------
\* The initial state is well typed.
LEMMA InitType == Init => TypeOK
  BY DEF Init, TypeOK, WriterIdle, Shards

\* A stage entered from the cap check has a writer's type.
LEMMA BusyType ==
  ASSUME NEW id \in Ids, NEW pc \in {"cap", "insert", "scan"}, NEW p \in Nat, NEW s \in Nat
  PROVE  /\ Busy(pc, id) \in BusyWriter
         /\ [Busy(pc, id) EXCEPT !.pos = p, !.start = s] \in BusyWriter
  BY DEF Busy, BusyWriter

\* A writer that is not idle has a busy writer's type.
LEMMA WriterType ==
  ASSUME TypeOK, NEW w \in Writers, writer[w].pc /= "idle"
  PROVE  writer[w] \in BusyWriter
  BY DEF TypeOK, WriterIdle

\* Moving a busy writer to another stage keeps its type.
LEMMA GotoType ==
  ASSUME TypeOK, NEW w \in Writers, writer[w].pc /= "idle",
         NEW pc \in {"cap", "scan", "evict", "uncount", "insert", "count"},
         Goto(w, pc)
  PROVE  writer' \in [Writers -> BusyWriter \cup {WriterIdle}]
  <1>1. writer[w] \in BusyWriter
    BY WriterType
  <1> QED
    BY <1>1 DEF TypeOK, Goto, BusyWriter

\* A touch keeps the stamps natural numbers.
LEMMA TouchType ==
  ASSUME TypeOK, NEW id \in Ids, Touch(id)
  PROVE  touched' \in [Ids -> Nat] /\ now' \in Nat
  BY DEF TypeOK, Touch

\* The notification channel stays within its capacity.
LEMMA NotifyType ==
  ASSUME TypeOK, NotifyPruned
  PROVE  prunedCh' \in 0 .. PrunedCap
  BY DEF TypeOK, NotifyPruned

\* Every step of a writer keeps the types.
LEMMA WriterStepType ==
  ASSUME TypeOK, NEW w \in Writers, WriterStep(w)
  PROVE  TypeOK'
  <1>0. writer[w].pc /= "idle"
    BY DEF WriterStep, CheckCap, ScanShard, EndScan, SpareVictim, EvictVictim,
       UncountEvicted, InsertWindow, CountInserted, UpdateAfterMiss
  <1>b. writer[w] \in BusyWriter
    BY <1>0, WriterType
  <1>i. writer[w].id \in Ids /\ writer[w].victim \in Ids
    BY <1>b DEF BusyWriter
  <1>1. CASE CheckCap(w)
    <2>1. writer' \in [Writers -> BusyWriter \cup {WriterIdle}]
      BY <1>1, <1>i, BusyType DEF TypeOK, CheckCap
    <2> QED
      BY <1>1, <2>1 DEF TypeOK, CheckCap
  <1>2. CASE ScanShard(w)
    <2>1. writer' \in [Writers -> BusyWriter \cup {WriterIdle}]
      <3>1. CASE writer' = [writer EXCEPT ![w].pos = writer[w].pos + 1]
        BY <3>1, <1>b DEF TypeOK, BusyWriter
      <3>2. ASSUME NEW v \in Older(w, writer[w].pos),
                   writer' = [writer EXCEPT ![w].pos = writer[w].pos + 1,
                       ![w].found = TRUE, ![w].victim = v, ![w].oldest = touched[v]]
            PROVE  writer' \in [Writers -> BusyWriter \cup {WriterIdle}]
        <4>1. v \in Ids /\ touched[v] \in Nat /\ writer[w].pos + 1 \in Nat
          BY <3>2, <1>b DEF TypeOK, Older, Resident, BusyWriter
        <4> QED
          BY <3>2, <4>1, <1>b DEF TypeOK, BusyWriter
      <3> QED
        BY <1>2, <3>1, <3>2 DEF ScanShard
    <2> QED
      BY <1>2, <2>1 DEF TypeOK, ScanShard
  <1>3. CASE EndScan(w)
    <2>1. writer' \in [Writers -> BusyWriter \cup {WriterIdle}]
      BY <1>0, <1>3, GotoType DEF EndScan
    <2> QED
      BY <1>3, <2>1 DEF TypeOK, EndScan
  <1>4. CASE SpareVictim(w)
    BY <1>0, <1>4, GotoType DEF TypeOK, SpareVictim
  <1>5. CASE EvictVictim(w)
    <2>1. writer' \in [Writers -> BusyWriter \cup {WriterIdle}]
      BY <1>0, <1>5, GotoType DEF EvictVictim
    <2>2. touched' \in [Ids -> Nat] /\ lock' \in [Shards -> Writers \cup {"pruner", "free"}]
      BY <1>5, <1>i DEF TypeOK, EvictVictim
    <2> QED
      BY <1>5, <2>1, <2>2 DEF TypeOK, EvictVictim
  <1>6. CASE UncountEvicted(w)
    <2>1. writer' \in [Writers -> BusyWriter \cup {WriterIdle}]
      BY <1>0, <1>6, GotoType DEF UncountEvicted
    <2>2. prunedCh' \in 0 .. PrunedCap
      BY <1>6, NotifyType DEF UncountEvicted
    <2>3. active' \in Int
      BY <1>6 DEF TypeOK, UncountEvicted
    <2>4. lock' \in [Shards -> Writers \cup {"pruner", "free"}]
      BY <1>6 DEF TypeOK, UncountEvicted
    <2> QED
      BY <1>6, <2>1, <2>2, <2>3, <2>4 DEF TypeOK, UncountEvicted
  <1>7. CASE InsertWindow(w)
    <2>1. writer' \in [Writers -> BusyWriter \cup {WriterIdle}]
      BY <1>0, <1>7, GotoType DEF InsertWindow
    <2>2. touched' \in [Ids -> Nat] /\ now' \in Nat
      BY <1>7, <1>i, TouchType DEF InsertWindow
    <2>3. lock' \in [Shards -> Writers \cup {"pruner", "free"}]
      BY <1>7 DEF TypeOK, InsertWindow
    <2> QED
      BY <1>7, <2>1, <2>2, <2>3 DEF TypeOK, InsertWindow
  <1>8. CASE CountInserted(w)
    <2>1. active' \in Int
      BY <1>8 DEF TypeOK, CountInserted
    <2>2. lock' \in [Shards -> Writers \cup {"pruner", "free"}]
      BY <1>8 DEF TypeOK, CountInserted
    <2>3. writer' \in [Writers -> BusyWriter \cup {WriterIdle}]
      BY <1>8 DEF TypeOK, CountInserted
    <2> QED
      BY <1>8, <2>1, <2>2, <2>3 DEF TypeOK, CountInserted
  <1>9. CASE UpdateAfterMiss(w)
    <2>1. touched' \in [Ids -> Nat] /\ now' \in Nat
      BY <1>9, <1>i, TouchType DEF UpdateAfterMiss
    <2> QED
      BY <1>9, <2>1 DEF TypeOK, UpdateAfterMiss
  <1> QED
    BY <1>1, <1>2, <1>3, <1>4, <1>5, <1>6, <1>7, <1>8, <1>9 DEF WriterStep

\* So does every step of the pruner and of a reset.
LEMMA PrunerResetType ==
  ASSUME TypeOK,
         \/ PruneBegin \/ PrunerStep \/ TakePruned
         \/ ResetBegin \/ ResetShard \/ ResetCounter
  PROVE  TypeOK'
  <1>1. CASE PruneBegin
    BY <1>1 DEF TypeOK, PruneBegin
  <1>2. CASE PruneLock
    BY <1>2 DEF TypeOK, PruneLock
  <1>3. ASSUME NEW id \in Ids, PruneWindow(id)
        PROVE  TypeOK'
    BY <1>3 DEF TypeOK, PruneWindow
  <1>4. CASE UncountPruned
    <2>1. prunedCh' \in 0 .. PrunedCap
      BY <1>4, NotifyType DEF UncountPruned
    <2> QED
      BY <1>4, <2>1 DEF TypeOK, UncountPruned
  <1>5. CASE PruneUnlock
    <2>1. lock' \in [Shards -> Writers \cup {"pruner", "free"}]
      BY <1>5 DEF TypeOK, PruneUnlock
    <2>2. pruner' \in [pc: {"idle", "next", "held", "uncount"}, pos: Nat]
      BY <1>5 DEF TypeOK, PruneUnlock
    <2> QED
      BY <1>5, <2>1, <2>2 DEF TypeOK, PruneUnlock
  <1>6. CASE PruneEnd
    BY <1>6 DEF TypeOK, PruneEnd
  <1>7. CASE TakePruned
    BY <1>7 DEF TypeOK, TakePruned
  <1>8. CASE ResetBegin
    BY <1>8 DEF TypeOK, ResetBegin
  <1>9. CASE ResetShard
    BY <1>9 DEF TypeOK, ResetShard
  <1>10. CASE ResetCounter
    BY <1>10 DEF TypeOK, ResetCounter
  <1> QED
    BY <1>1, <1>2, <1>3, <1>4, <1>5, <1>6, <1>7, <1>8, <1>9, <1>10 DEF PrunerStep

\* Every step keeps the types.
LEMMA NextType == TypeOK /\ [Next]_vars => TypeOK'
  <1> SUFFICES ASSUME TypeOK, [Next]_vars PROVE TypeOK'
    OBVIOUS
  <1>1. ASSUME NEW w \in Writers, NEW id \in Ids, UpdateExisting(w, id)
        PROVE  TypeOK'
    <2>1. touched' \in [Ids -> Nat] /\ now' \in Nat
      BY <1>1, TouchType DEF UpdateExisting
    <2> QED
      BY <1>1, <2>1 DEF TypeOK, UpdateExisting
  <1>2. ASSUME NEW w \in Writers, NEW id \in Ids, MissWindow(w, id)
        PROVE  TypeOK'
    <2>1. Busy("cap", id) \in BusyWriter
      BY BusyType
    <2> QED
      BY <1>2, <2>1 DEF TypeOK, MissWindow
  <1>3. CASE Finished \/ UNCHANGED vars
    BY <1>3 DEF TypeOK, Finished, vars
  <1> QED
    BY <1>1, <1>2, <1>3, WriterStepType, PrunerResetType DEF Next

\* Every variable keeps its type and prunedCh its capacity.
THEOREM TypeCorrect == Spec => []TypeOK
  BY InitType, NextType, PTL DEF Spec

-----------------------------------------------------------------------------
(***************************************************************************)
(* Evictions. What a writer knows while it scans: of the shards behind it, *)
(* no window that has been left alone since the scan began is older than   *)
(* the victim it has. A touch, an insertion or a re-creation gives a stamp *)
(* later than the start, so it takes a window out of the claim.            *)
(***************************************************************************)

\* The windows left alone since writer w's scan began, in shards behind it.
Seen(w) ==
  {id \in Ids : /\ touched[id] > 0
                /\ touched[id] <= writer[w].start
                /\ writer[w].pc = "evict" \/ ShardOf[id] < writer[w].pos}

InvScan ==
  \A w \in Writers :
    writer[w].pc \in {"scan", "evict"} =>
      /\ writer[w].start <= now
      /\ \A id \in Seen(w) : writer[w].found /\ writer[w].oldest <= touched[id]

LRUInv == TypeOK /\ InvScan

\* No writer scans in the initial state.
LEMMA InitLRU == Init => LRUInv
  <1> SUFFICES ASSUME Init PROVE LRUInv
    OBVIOUS
  <1>1. \A w \in Writers : writer[w].pc = "idle"
    BY DEF Init, WriterIdle
  <1> QED
    BY <1>1, InitType DEF LRUInv, InvScan

\* A change of the windows that gives later stamps or removes windows keeps
\* what a writer that does not move knows.
LEMMA StampsKeepScan ==
  ASSUME LRUInv, NEW w \in Writers, writer'[w] = writer[w],
         now' \in Nat, now' >= now,
         \A id \in Ids : touched'[id] \in {touched[id], 0} \cup {n \in Nat : n > now}
  PROVE  writer'[w].pc \in {"scan", "evict"} =>
           /\ writer'[w].start <= now'
           /\ \A id \in Seen(w)' : writer'[w].found /\ writer'[w].oldest <= touched'[id]
  <1> SUFFICES ASSUME writer[w].pc \in {"scan", "evict"}
               PROVE  /\ writer[w].start <= now'
                      /\ \A id \in Seen(w)' : writer[w].found /\ writer[w].oldest <= touched'[id]
    OBVIOUS
  <1>1. /\ writer[w] \in BusyWriter /\ now \in Nat /\ touched \in [Ids -> Nat]
        /\ writer[w].start <= now
        /\ \A id \in Seen(w) : writer[w].found /\ writer[w].oldest <= touched[id]
    BY WriterType DEF LRUInv, InvScan, TypeOK
  <1>2. writer[w].start \in Nat
    BY <1>1 DEF BusyWriter
  <1>3. writer[w].start <= now'
    BY <1>1, <1>2
  <1>4. ASSUME NEW id \in Seen(w)'
        PROVE  id \in Seen(w) /\ touched'[id] = touched[id]
    <2>1. id \in Ids /\ touched'[id] > 0 /\ touched'[id] <= writer[w].start
      BY <1>4 DEF Seen
    <2>2. touched'[id] = touched[id]
      BY <1>1, <1>2, <2>1
    <2> QED
      BY <1>4, <2>2 DEF Seen
  <1> QED
    BY <1>1, <1>3, <1>4

\* One shard of the scan.
LEMMA ScanKeepsScan ==
  ASSUME LRUInv, NEW w \in Writers, ScanShard(w)
  PROVE  \A id \in Seen(w)' : writer'[w].found /\ writer'[w].oldest <= touched'[id]
  <1> SUFFICES ASSUME NEW id \in Seen(w)'
               PROVE  writer'[w].found /\ writer'[w].oldest <= touched[id]
    BY DEF ScanShard
  <1>1. /\ writer[w] \in BusyWriter /\ touched \in [Ids -> Nat] /\ touched' = touched
        /\ writer[w].pc = "scan" /\ writer \in [Writers -> BusyWriter \cup {WriterIdle}]
    BY WriterType DEF LRUInv, TypeOK, ScanShard
  <1>2. writer[w].pos \in Nat /\ writer[w].oldest \in Nat /\ id \in Ids /\ ShardOf[id] \in Nat
    BY <1>1 DEF BusyWriter, Seen
  <1>3. /\ writer'[w].pc = "scan" /\ writer'[w].start = writer[w].start
        /\ writer'[w].pos = writer[w].pos + 1
    <2> DEFINE next == writer[w].pos + 1
    <2>1. \/ writer' = [writer EXCEPT ![w].pos = next]
          \/ \E v \in Older(w, writer[w].pos) :
               writer' = [writer EXCEPT ![w].pos = next, ![w].found = TRUE,
                            ![w].victim = v, ![w].oldest = touched[v]]
      BY DEF ScanShard
    <2> HIDE DEF next
    <2>2. /\ writer'[w].pc = "scan" /\ writer'[w].start = writer[w].start
          /\ writer'[w].pos = next
      <3>1. CASE writer' = [writer EXCEPT ![w].pos = next]
        BY <1>1, <3>1 DEF BusyWriter
      <3>2. ASSUME NEW v, writer' = [writer EXCEPT ![w].pos = next,
                     ![w].found = TRUE, ![w].victim = v, ![w].oldest = touched[v]]
            PROVE  /\ writer'[w].pc = "scan" /\ writer'[w].start = writer[w].start
                   /\ writer'[w].pos = next
        BY <1>1, <3>2 DEF BusyWriter
      <3> QED
        BY <2>1, <3>1, <3>2
    <2> QED
      BY <2>2 DEF next
  <1>4. /\ touched[id] > 0 /\ touched[id] <= writer[w].start
        /\ ShardOf[id] < writer[w].pos + 1
    BY <1>1, <1>3 DEF Seen
  <1>5. id \in Resident
    BY <1>2, <1>4 DEF Resident
  <1>6. ShardOf[id] < writer[w].pos => writer[w].found /\ writer[w].oldest <= touched[id]
    <2>1. ShardOf[id] < writer[w].pos => id \in Seen(w)
      BY <1>2, <1>4 DEF Seen
    <2> QED
      BY <2>1, <1>1 DEF LRUInv, InvScan
  <1>7. ShardOf[id] = writer[w].pos /\ id \notin Older(w, writer[w].pos)
          => writer[w].found /\ writer[w].oldest <= touched[id]
    BY <1>1, <1>2, <1>5 DEF Older
  <1>8. ShardOf[id] < writer[w].pos \/ ShardOf[id] = writer[w].pos
    BY <1>2, <1>4
  <1>9. CASE Older(w, writer[w].pos) = {} /\
             writer' = [writer EXCEPT ![w].pos = writer[w].pos + 1]
    <2>1. writer'[w].found = writer[w].found /\ writer'[w].oldest = writer[w].oldest
      BY <1>1, <1>9 DEF BusyWriter
    <2> QED
      BY <1>6, <1>7, <1>8, <1>9, <2>1
  <1>10. ASSUME NEW v \in Older(w, writer[w].pos),
                \A o \in Older(w, writer[w].pos) : touched[v] <= touched[o],
                writer' = [writer EXCEPT ![w].pos = writer[w].pos + 1,
                   ![w].found = TRUE, ![w].victim = v, ![w].oldest = touched[v]]
         PROVE  writer'[w].found /\ writer'[w].oldest <= touched[id]
    <2>1. writer'[w].found = TRUE /\ writer'[w].oldest = touched[v]
      BY <1>1, <1>10 DEF BusyWriter
    <2>2. CASE id \in Older(w, writer[w].pos)
      BY <1>10, <2>1, <2>2
    <2>3. CASE id \notin Older(w, writer[w].pos)
      <3>1. writer[w].found /\ writer[w].oldest <= touched[id]
        BY <1>6, <1>7, <1>8, <2>3
      <3>2. touched[v] < writer[w].oldest /\ touched[v] \in Nat /\ touched[id] \in Nat
        BY <1>1, <1>2, <1>10, <3>1 DEF Older, Resident
      <3> QED
        BY <1>2, <2>1, <3>1, <3>2
    <2> QED
      BY <2>2, <2>3
  <1> QED
    BY <1>9, <1>10 DEF ScanShard

\* What writer w knows, alone.
ScanOf(w) ==
  writer[w].pc \in {"scan", "evict"} =>
    /\ writer[w].start <= now
    /\ \A id \in Seen(w) : writer[w].found /\ writer[w].oldest <= touched[id]

\* A writer's own step keeps what it knows.
LEMMA OwnStep ==
  ASSUME LRUInv, NEW w \in Writers, WriterStep(w)
  PROVE  ScanOf(w)'
  <1>1. /\ writer \in [Writers -> BusyWriter \cup {WriterIdle}]
        /\ now \in Nat /\ touched \in [Ids -> Nat]
    BY DEF LRUInv, TypeOK
  <1>0. writer[w] \in BusyWriter
    <2>1. writer[w].pc /= "idle"
      BY DEF WriterStep, CheckCap, ScanShard, EndScan, SpareVictim, EvictVictim,
         UncountEvicted, InsertWindow, CountInserted, UpdateAfterMiss
    <2> QED
      BY <2>1, WriterType DEF LRUInv
  <1>2. CASE CheckCap(w)
    <2>1. CASE active >= MaxWindows
      <3>1. writer'[w] = [Busy("scan", writer[w].id) EXCEPT !.pos = 1, !.start = now]
        BY <1>1, <1>2, <2>1 DEF CheckCap
      <3>2. writer'[w].pc = "scan" /\ writer'[w].pos = 1 /\ writer'[w].start = now
        BY <3>1 DEF Busy
      <3>3. \A id \in Ids : ~(ShardOf[id] < 1)
        OBVIOUS
      <3>4. Seen(w)' = {}
        BY <3>2, <3>3 DEF Seen
      <3> QED
        BY <1>1, <1>2, <3>2, <3>4 DEF ScanOf, CheckCap
    <2>2. CASE ~(active >= MaxWindows)
      <3>1. writer'[w].pc = "insert"
        BY <1>1, <1>2, <2>2 DEF CheckCap, Busy
      <3> QED
        BY <3>1 DEF ScanOf
    <2> QED
      BY <2>1, <2>2
  <1>3. CASE ScanShard(w)
    <2>1. \A id \in Seen(w)' : writer'[w].found /\ writer'[w].oldest <= touched'[id]
      BY <1>3, ScanKeepsScan
    <2>2. writer'[w].start = writer[w].start
      <3>1. CASE writer' = [writer EXCEPT ![w].pos = writer[w].pos + 1]
        BY <1>0, <1>1, <3>1 DEF BusyWriter
      <3>2. ASSUME NEW v, writer' = [writer EXCEPT ![w].pos = writer[w].pos + 1,
                     ![w].found = TRUE, ![w].victim = v, ![w].oldest = touched[v]]
            PROVE  writer'[w].start = writer[w].start
        BY <1>0, <1>1, <3>2 DEF BusyWriter
      <3> QED
        BY <1>3, <3>1, <3>2 DEF ScanShard
    <2>3. writer[w].start <= now /\ now' = now
      BY <1>3 DEF LRUInv, InvScan, ScanShard
    <2> QED
      BY <2>1, <2>2, <2>3 DEF ScanOf
  <1>4. CASE EndScan(w)
    <2>1. writer[w].start <= now /\ now' = now /\ touched' = touched
      BY <1>4 DEF LRUInv, InvScan, EndScan
    <2>2. /\ writer'[w].start = writer[w].start /\ writer'[w].found = writer[w].found
          /\ writer'[w].oldest = writer[w].oldest
      BY <1>0, <1>1, <1>4 DEF EndScan, Goto, BusyWriter
    <2>3. Seen(w)' \subseteq Seen(w)
      <3>1. \A id \in Ids : ShardOf[id] < writer[w].pos
        BY <1>0, <1>4 DEF EndScan, BusyWriter
      <3> QED
        BY <2>1, <2>2, <3>1 DEF Seen
    <2> QED
      BY <1>4, <2>1, <2>2, <2>3 DEF ScanOf, LRUInv, InvScan, EndScan
  <1>5. CASE SpareVictim(w) \/ EvictVictim(w) \/ UncountEvicted(w) \/ InsertWindow(w)
    <2>1. writer'[w].pc \in {"cap", "uncount", "count"}
      BY <1>0, <1>1, <1>5 DEF SpareVictim, EvictVictim, UncountEvicted,
         InsertWindow, Goto, BusyWriter
    <2> QED
      BY <2>1 DEF ScanOf
  <1>6. CASE CountInserted(w) \/ UpdateAfterMiss(w)
    <2>1. writer'[w].pc = "idle"
      BY <1>1, <1>6 DEF CountInserted, UpdateAfterMiss, WriterIdle
    <2> QED
      BY <2>1 DEF ScanOf
  <1> QED
    BY <1>2, <1>3, <1>4, <1>5, <1>6 DEF WriterStep

\* Every step gives later stamps, removes windows, or leaves them alone.
LEMMA StampsGrow ==
  ASSUME LRUInv, [Next]_vars
  PROVE  /\ now' \in Nat /\ now' >= now
         /\ \A id \in Ids :
              touched'[id] \in {touched[id], 0} \cup {n \in Nat : n > now}
  <1>1. now \in Nat /\ touched \in [Ids -> Nat]
    BY DEF LRUInv, TypeOK
  <1>2. ASSUME NEW i \in Ids, Touch(i)
        PROVE  /\ now' \in Nat /\ now' >= now
               /\ \A id \in Ids :
                    touched'[id] \in {touched[id], 0} \cup {n \in Nat : n > now}
    BY <1>1, <1>2 DEF Touch
  <1>3. CASE UNCHANGED <<touched, now>>
    BY <1>1, <1>3
  <1>4. ASSUME NEW w \in Writers, NEW i \in Ids, UpdateExisting(w, i) \/ MissWindow(w, i)
        PROVE  UNCHANGED <<touched, now>> \/ \E id \in Ids : Touch(id)
    BY <1>4 DEF UpdateExisting, MissWindow
  <1>5. ASSUME NEW w \in Writers, WriterStep(w)
        PROVE  \/ UNCHANGED <<touched, now>>
               \/ \E id \in Ids : Touch(id)
               \/ now' = now /\ \A id \in Ids : touched'[id] \in {touched[id], 0}
    <2>1. CASE InsertWindow(w) \/ UpdateAfterMiss(w)
      <3>1. writer[w].id \in Ids
        BY <2>1, WriterType DEF LRUInv, InsertWindow, UpdateAfterMiss, BusyWriter
      <3> QED
        BY <2>1, <3>1 DEF InsertWindow, UpdateAfterMiss
    <2>2. CASE EvictVictim(w)
      BY <1>1, <2>2 DEF EvictVictim
    <2> QED
      BY <1>5, <2>1, <2>2 DEF WriterStep, CheckCap, ScanShard, EndScan,
         SpareVictim, UncountEvicted, CountInserted
  <1>6. ASSUME PrunerStep
        PROVE  now' = now /\ \A id \in Ids : touched'[id] \in {touched[id], 0}
    BY <1>1, <1>6 DEF PrunerStep, PruneLock, PruneWindow, UncountPruned,
       PruneUnlock, PruneEnd
  <1>7. CASE PruneBegin \/ TakePruned \/ ResetBegin \/ ResetCounter \/ Finished
             \/ UNCHANGED vars
    BY <1>3, <1>7 DEF PruneBegin, TakePruned, ResetBegin, ResetCounter, Finished, vars
  <1>8. CASE ResetShard
    BY <1>1, <1>8 DEF ResetShard
  <1>9. CASE now' = now /\ \A id \in Ids : touched'[id] \in {touched[id], 0}
    BY <1>1, <1>9
  <1>10. CASE \E w \in Writers, i \in Ids : UpdateExisting(w, i) \/ MissWindow(w, i)
    BY <1>2, <1>3, <1>4, <1>10
  <1>11. CASE \E w \in Writers : WriterStep(w)
    BY <1>2, <1>3, <1>5, <1>9, <1>11
  <1>12. CASE PrunerStep
    BY <1>6, <1>9, <1>12
  <1> QED
    BY <1>7, <1>8, <1>10, <1>11, <1>12 DEF Next

\* Only a writer's own steps, and the start of an update, move a writer.
LEMMA WriterMoves ==
  ASSUME LRUInv, [Next]_vars, NEW w \in Writers
  PROVE  \/ writer'[w] = writer[w]
         \/ WriterStep(w)
         \/ writer'[w].pc = "cap"
  <1>1. writer \in [Writers -> BusyWriter \cup {WriterIdle}]
    BY DEF LRUInv, TypeOK
  <1>2. ASSUME NEW v \in Writers, v /= w, WriterStep(v)
        PROVE  writer'[w] = writer[w]
    BY <1>1, <1>2 DEF WriterStep, CheckCap, ScanShard, EndScan, SpareVictim,
       EvictVictim, UncountEvicted, InsertWindow, CountInserted,
       UpdateAfterMiss, Goto
  <1>3. ASSUME NEW v \in Writers, NEW id \in Ids, UpdateExisting(v, id) \/ MissWindow(v, id)
        PROVE  writer'[w] = writer[w] \/ writer'[w].pc = "cap"
    BY <1>1, <1>3 DEF UpdateExisting, MissWindow, Busy
  <1>4. CASE \/ PruneBegin \/ PrunerStep \/ TakePruned \/ ResetBegin
             \/ ResetShard \/ ResetCounter \/ Finished \/ UNCHANGED vars
    BY <1>4 DEF PruneBegin, PrunerStep, PruneLock, PruneWindow, UncountPruned,
       PruneUnlock, PruneEnd, TakePruned, ResetBegin, ResetShard,
       ResetCounter, Finished, vars
  <1> QED
    BY <1>2, <1>3, <1>4 DEF Next

\* The strengthening is inductive.
LEMMA NextLRU == LRUInv /\ [Next]_vars => LRUInv'
  <1> SUFFICES ASSUME LRUInv, [Next]_vars PROVE LRUInv'
    OBVIOUS
  <1>1. TypeOK'
    BY NextType DEF LRUInv
  <1>2. ASSUME NEW w \in Writers PROVE ScanOf(w)'
    <2>1. CASE writer'[w] = writer[w]
      BY <2>1, StampsGrow, StampsKeepScan DEF ScanOf
    <2>2. CASE WriterStep(w)
      BY <2>2, OwnStep
    <2>3. CASE writer'[w].pc = "cap"
      BY <2>3 DEF ScanOf
    <2> QED
      BY <2>1, <2>2, <2>3, WriterMoves
  <1>3. InvScan'
    BY <1>2 DEF InvScan, ScanOf
  <1> QED
    BY <1>1, <1>3 DEF LRUInv

\* No eviction takes a window in use in place of one left alone since the
\* scan began, whatever is touched, inserted, pruned, evicted or reset
\* between the shards of the scan and before the delete (evictGlobalOldest).
THEOREM EvictsOldestHolds == Spec => EvictsOldest
  <1>1. ASSUME LRUInv, NEW w \in Writers, EvictVictim(w), NEW id \in Resident,
               touched[id] <= writer[w].start
        PROVE  touched[writer[w].victim] <= touched[id]
    <2>1. /\ writer[w].pc = "evict" /\ touched[writer[w].victim] <= writer[w].oldest
          /\ touched \in [Ids -> Nat] /\ writer[w] \in BusyWriter
      BY <1>1, WriterType DEF LRUInv, TypeOK, EvictVictim
    <2>2. writer[w].victim \in Ids /\ writer[w].oldest \in Nat /\ id \in Ids
      BY <2>1 DEF BusyWriter, Resident
    <2>3. id \in Seen(w)
      BY <1>1, <2>1, <2>2 DEF Seen, Resident
    <2>4. writer[w].oldest <= touched[id]
      BY <1>1, <2>1, <2>3 DEF LRUInv, InvScan
    <2> QED
      BY <2>1, <2>2, <2>4
  <1>2. LRUInv =>
          [\A w \in Writers :
             EvictVictim(w) =>
               \A id \in Resident :
                 touched[id] <= writer[w].start =>
                   touched[writer[w].victim] <= touched[id]]_vars
    BY <1>1
  <1> QED
    BY InitLRU, NextLRU, <1>2, PTL DEF Spec, EvictsOldest

-----------------------------------------------------------------------------
(***************************************************************************)
(* Writers by stage, and how the windows change.                           *)
(***************************************************************************)
At(p) == {w \in Writers : writer[w].pc = p}

\* The writers at a stage can be counted.
LEMMA AtFinite ==
  ASSUME NEW p
  PROVE  IsFiniteSet(At(p)) /\ Cardinality(At(p)) \in Nat
  <1>1. At(p) \subseteq Writers
    BY DEF At
  <1> QED
    BY <1>1, FS_Subset, FS_CardinalityType

\* A writer that goes from one stage to another is counted there.
LEMMA AtMove ==
  ASSUME NEW w \in Writers, NEW p, NEW q, p /= q,
         writer[w].pc = p, writer'[w].pc = q,
         \A v \in Writers : v /= w => writer'[v] = writer[v]
  PROVE  /\ w \notin At(q) /\ At(q)' = At(q) \cup {w}
         /\ w \in At(p) /\ At(p)' = At(p) \ {w}
         /\ \A r : r /= p /\ r /= q => At(r)' = At(r)
         /\ Cardinality(At(p)') = Cardinality(At(p)) - 1
         /\ Cardinality(At(q)') = Cardinality(At(q)) + 1
  <1>1. /\ w \notin At(q) /\ At(q)' = At(q) \cup {w}
        /\ w \in At(p) /\ At(p)' = At(p) \ {w}
        /\ \A r : r /= p /\ r /= q => At(r)' = At(r)
    <2>1. w \notin At(q) /\ w \in At(p)
      BY DEF At
    <2>2. At(q)' = At(q) \cup {w}
      BY DEF At
    <2>3. At(p)' = At(p) \ {w}
      BY DEF At
    <2>4. ASSUME NEW r, r /= p, r /= q
          PROVE  At(r)' = At(r)
      BY <2>4 DEF At
    <2> QED
      BY <2>1, <2>2, <2>3, <2>4
  <1>2. IsFiniteSet(At(p)) /\ IsFiniteSet(At(q))
    BY AtFinite
  <1>3. Cardinality(At(p)') = Cardinality(At(p)) - 1
    <2>1. Cardinality(At(p) \ {w}) = Cardinality(At(p)) - 1
      BY <1>1, <1>2, FS_RemoveElement
    <2> QED
      BY <1>1, <2>1
  <1>4. Cardinality(At(q)') = Cardinality(At(q)) + 1
    <2>1. Cardinality(At(q) \cup {w}) = Cardinality(At(q)) + 1
      BY <1>1, <1>2, FS_AddElement
    <2> QED
      BY <1>1, <2>1
  <1> QED
    BY <1>1, <1>3, <1>4

\* A new window.
LEMMA ResidentAdds ==
  ASSUME TypeOK, IsFiniteSet(Resident), NEW id \in Ids, id \notin Resident, Touch(id)
  PROVE  /\ Resident' = Resident \cup {id} /\ IsFiniteSet(Resident')
         /\ Cardinality(Resident') = Cardinality(Resident) + 1
  <1>1. Resident' = Resident \cup {id}
    BY DEF TypeOK, Touch, Resident
  <1> QED
    BY <1>1, FS_AddElement

\* A touch of a window that is there.
LEMMA ResidentKeeps ==
  ASSUME TypeOK, NEW id \in Resident, Touch(id)
  PROVE  Resident' = Resident
  BY DEF TypeOK, Touch, Resident

\* A window that goes.
LEMMA ResidentDrops ==
  ASSUME TypeOK, IsFiniteSet(Resident), NEW id \in Resident,
         touched' = [touched EXCEPT ![id] = 0]
  PROVE  /\ Resident' = Resident \ {id} /\ IsFiniteSet(Resident')
         /\ Cardinality(Resident') = Cardinality(Resident) - 1
  <1>1. Resident' = Resident \ {id}
    BY DEF TypeOK, Resident
  <1> QED
    BY <1>1, FS_RemoveElement

-----------------------------------------------------------------------------
(***************************************************************************)
(* The locks. Between the change of the map and the change of the counter  *)
(* the shard is locked, so what is about to be counted stays.              *)
(***************************************************************************)
LockOf(w) ==
  /\ writer[w].pc = "count" =>
       lock[ShardOf[writer[w].id]] = w /\ writer[w].id \in Resident
  /\ writer[w].pc = "uncount" => lock[ShardOf[writer[w].victim]] = w

LockOfPruner ==
  /\ pruner.pc \in {"held", "uncount"} =>
       pruner.pos \in Shards /\ lock[pruner.pos] = "pruner"
  /\ pruner.pc = "next" => pruner.pos >= 1

InvLock == LockOfPruner /\ \A w \in Writers : LockOf(w)

LockInv == TypeOK /\ IsFiniteSet(Resident) /\ InvLock

\* The store is empty and unlocked in the initial state.
LEMMA InitLock == Init => LockInv
  <1> SUFFICES ASSUME Init PROVE LockInv
    OBVIOUS
  <1>1. Resident = {} /\ \A p : p /= "idle" => At(p) = {}
    BY DEF Init, Resident, At, WriterIdle
  <1>2. IsFiniteSet(Resident)
    BY <1>1, FS_EmptySet
  <1> QED
    BY <1>1, <1>2, InitType DEF Init, LockInv, InvLock, LockOf, LockOfPruner, WriterIdle

\* What a writer holds is typed.
LEMMA WriterFields ==
  ASSUME TypeOK, NEW w \in Writers, writer[w].pc /= "idle"
  PROVE  /\ writer[w].id \in Ids /\ ShardOf[writer[w].id] \in Shards
         /\ writer[w].victim \in Ids /\ ShardOf[writer[w].victim] \in Shards
         /\ writer[w].pos \in Nat /\ writer[w].found \in BOOLEAN
  BY WriterType DEF BusyWriter, Shards

\* A step in which h takes or gives up locks, and that removes no window of a
\* shard another holds, leaves the others what they hold.
LEMMA OthersHold ==
  ASSUME LockInv, NEW h,
         \A i \in Shards : lock'[i] = lock[i] \/ lock[i] \in {"free", h},
         NEW u \in Writers, u /= h, writer'[u] = writer[u],
         \A id \in Resident : lock[ShardOf[id]] = u => id \in Resident'
  PROVE  LockOf(u)'
  <1>0. LockOf(u) /\ TypeOK /\ u /= "free"
    BY DEF LockInv, InvLock
  <1>1. CASE writer[u].pc = "count"
    <2>1. ShardOf[writer[u].id] \in Shards
      BY <1>0, <1>1, WriterFields
    <2> QED
      BY <1>0, <1>1, <2>1 DEF LockOf
  <1>2. CASE writer[u].pc = "uncount"
    <2>1. ShardOf[writer[u].victim] \in Shards
      BY <1>0, <1>2, WriterFields
    <2> QED
      BY <1>0, <1>2, <2>1 DEF LockOf
  <1> QED
    BY <1>1, <1>2 DEF LockOf

\* The same for the pruner.
LEMMA PrunerHolds ==
  ASSUME LockInv, NEW h, h /= "pruner",
         \A i \in Shards : lock'[i] = lock[i] \/ lock[i] \in {"free", h},
         pruner' = pruner
  PROVE  LockOfPruner'
  BY DEF LockInv, InvLock, LockOfPruner

\* Windows that were counted twice or not at all: 0 when the counter is exact.
Balance ==
  active + Cardinality(At("count")) - Cardinality(Resident) - Uncounted

\* The balance is a number, and its parts are.
LEMMA BalanceParts ==
  ASSUME TypeOK, IsFiniteSet(Resident)
  PROVE  /\ active \in Int /\ Cardinality(Resident) \in Nat
         /\ Cardinality(At("count")) \in Nat
         /\ Cardinality(At("uncount")) \in Nat
         /\ Uncounted = Cardinality(At("uncount"))
                          + (IF pruner.pc = "uncount" THEN 1 ELSE 0)
         /\ Uncounted \in Nat
  <1>1. /\ active \in Int /\ Cardinality(Resident) \in Nat
        /\ Cardinality(At("count")) \in Nat
        /\ Cardinality(At("uncount")) \in Nat
    BY AtFinite, FS_CardinalityType DEF TypeOK
  <1>2. Uncounted = Cardinality(At("uncount"))
                      + (IF pruner.pc = "uncount" THEN 1 ELSE 0)
    BY DEF Uncounted, At
  <1> QED
    BY <1>1, <1>2

\* A step that changes none of the parts keeps the balance.
LEMMA BalanceSame ==
  ASSUME Resident' = Resident, At("count")' = At("count"),
         At("uncount")' = At("uncount"), active' = active,
         pruner'.pc = "uncount" <=> pruner.pc = "uncount"
  PROVE  Balance' = Balance
  <1>1. Uncounted = Cardinality(At("uncount"))
                      + (IF pruner.pc = "uncount" THEN 1 ELSE 0)
    BY DEF Uncounted, At
  <1>2. Uncounted' = Cardinality(At("uncount")')
                       + (IF pruner'.pc = "uncount" THEN 1 ELSE 0)
    BY DEF Uncounted, At
  <1> QED
    BY <1>1, <1>2 DEF Balance

\* The stages of a writer that touch neither the map nor the counter.
QuietStep(w) ==
  CheckCap(w) \/ ScanShard(w) \/ EndScan(w) \/ SpareVictim(w)

\* Where a writer's quiet steps lead.
LEMMA QuietStages ==
  ASSUME TypeOK, NEW w \in Writers, QuietStep(w)
  PROVE  /\ writer[w].pc \in {"cap", "scan", "evict"}
         /\ writer'[w].pc \in {"cap", "scan", "evict", "insert"}
         /\ \A v \in Writers : v /= w => writer'[v] = writer[v]
         /\ UNCHANGED <<touched, active, lock, pruner, resetter, resets>>
  <1>0. /\ writer \in [Writers -> BusyWriter \cup {WriterIdle}]
        /\ writer[w].pc \in {"cap", "scan", "evict"}
        /\ UNCHANGED <<touched, active, lock, pruner, resetter, resets>>
    BY DEF TypeOK, QuietStep, CheckCap, ScanShard, EndScan, SpareVictim
  <1>1. writer[w] \in BusyWriter
    BY <1>0, WriterType
  <1>2. CASE CheckCap(w)
    BY <1>0, <1>2 DEF CheckCap, Busy
  <1>3. CASE ScanShard(w)
    <2>1. \/ writer' = [writer EXCEPT ![w].pos = writer[w].pos + 1]
          \/ \E v \in Older(w, writer[w].pos) :
               writer' = [writer EXCEPT ![w].pos = writer[w].pos + 1,
                 ![w].found = TRUE, ![w].victim = v, ![w].oldest = touched[v]]
      BY <1>3 DEF ScanShard
    <2>2. writer[w].pc = "scan"
      BY <1>3 DEF ScanShard
    <2>3. CASE writer' = [writer EXCEPT ![w].pos = writer[w].pos + 1]
      BY <1>0, <1>1, <2>2, <2>3 DEF BusyWriter
    <2>4. ASSUME NEW v, writer' = [writer EXCEPT ![w].pos = writer[w].pos + 1,
                   ![w].found = TRUE, ![w].victim = v, ![w].oldest = touched[v]]
          PROVE  /\ writer'[w].pc = "scan"
                 /\ \A u \in Writers : u /= w => writer'[u] = writer[u]
      BY <1>0, <1>1, <2>2, <2>4 DEF BusyWriter
    <2> QED
      BY <1>0, <2>1, <2>3, <2>4
  <1>4. CASE EndScan(w) \/ SpareVictim(w)
    BY <1>0, <1>1, <1>4 DEF EndScan, SpareVictim, Goto, BusyWriter
  <1> QED
    BY <1>0, <1>2, <1>3, <1>4 DEF QuietStep

\* What each step of a writer does to locks, windows and counter.
LEMMA WriterLock ==
  ASSUME LockInv, NEW w \in Writers, WriterStep(w)
  PROVE  InvLock' /\ IsFiniteSet(Resident') /\ Balance' = Balance
  <1>0. /\ TypeOK /\ InvLock /\ IsFiniteSet(Resident)
        /\ writer \in [Writers -> BusyWriter \cup {WriterIdle}]
        /\ lock \in [Shards -> Writers \cup {"pruner", "free"}]
        /\ writer[w].pc /= "idle" /\ w /= "free" /\ w /= "pruner"
    BY DEF LockInv, TypeOK, WriterStep, CheckCap, ScanShard, EndScan, SpareVictim,
           EvictVictim, UncountEvicted, InsertWindow, CountInserted, UpdateAfterMiss
  <1>1. writer[w] \in BusyWriter
    BY <1>0, WriterType
  <1>2. /\ writer[w].id \in Ids /\ ShardOf[writer[w].id] \in Shards
        /\ writer[w].victim \in Ids /\ ShardOf[writer[w].victim] \in Shards
    BY <1>0, WriterFields
  <1>3. /\ active \in Int /\ Cardinality(Resident) \in Nat
        /\ Cardinality(At("count")) \in Nat
        /\ Cardinality(At("uncount")) \in Nat
        /\ Uncounted = Cardinality(At("uncount"))
                         + (IF pruner.pc = "uncount" THEN 1 ELSE 0)
    BY <1>0, BalanceParts
  <1>4. Uncounted' = Cardinality(At("uncount")')
                       + (IF pruner'.pc = "uncount" THEN 1 ELSE 0)
    BY DEF Uncounted, At
  <1>l. ASSUME \A i \in Shards : lock'[i] = lock[i] \/ lock[i] \in {"free", w},
               \A v \in Writers : v /= w => writer'[v] = writer[v],
               \A v \in Writers : v /= w =>
                 \A id \in Resident : lock[ShardOf[id]] = v => id \in Resident',
               pruner' = pruner, LockOf(w)'
        PROVE  InvLock'
    <2>1. LockOfPruner'
      BY <1>0, <1>l, PrunerHolds
    <2>2. ASSUME NEW v \in Writers, v /= w
          PROVE  LockOf(v)'
      BY <1>l, <2>2, OthersHold
    <2> QED
      BY <1>l, <2>1, <2>2 DEF InvLock
  <1>5. CASE QuietStep(w) \/ UpdateAfterMiss(w)
    <2>1. /\ writer[w].pc \in {"cap", "scan", "evict", "insert"}
          /\ writer'[w].pc \in {"cap", "scan", "evict", "insert", "idle"}
          /\ \A v \in Writers : v /= w => writer'[v] = writer[v]
          /\ UNCHANGED <<active, lock, pruner>>
      BY <1>0, <1>5, QuietStages DEF UpdateAfterMiss, WriterIdle
    <2>2. Resident' = Resident
      <3>1. CASE QuietStep(w)
        BY <1>0, <3>1, QuietStages DEF Resident
      <3>2. CASE UpdateAfterMiss(w)
        BY <1>0, <3>2, ResidentKeeps DEF UpdateAfterMiss
      <3> QED
        BY <1>5, <3>1, <3>2
    <2>3. At("count")' = At("count") /\ At("uncount")' = At("uncount")
      BY <2>1 DEF At
    <2>4. LockOf(w)'
      BY <2>1 DEF LockOf
    <2> QED
      BY <1>0, <1>l, <2>1, <2>2, <2>3, <2>4, BalanceSame
  <1>6. CASE EvictVictim(w)
    <2> DEFINE v == writer[w].victim
    <2>1. /\ writer[w].pc = "evict" /\ writer'[w].pc = "uncount"
          /\ writer'[w].victim = v
          /\ \A u \in Writers : u /= w => writer'[u] = writer[u]
          /\ lock[ShardOf[v]] = "free"
          /\ lock' = [lock EXCEPT ![ShardOf[v]] = w]
          /\ UNCHANGED <<active, pruner>>
      BY <1>0, <1>1, <1>6 DEF EvictVictim, Goto, Free, BusyWriter
    <2>2. /\ Resident' = Resident \ {v} /\ IsFiniteSet(Resident')
          /\ Cardinality(Resident') = Cardinality(Resident) - 1
      BY <1>0, <1>6, ResidentDrops DEF EvictVictim
    <2>3. /\ \A r : r /= "evict" /\ r /= "uncount" => At(r)' = At(r)
          /\ Cardinality(At("uncount")') = Cardinality(At("uncount")) + 1
      BY <2>1, AtMove
    <2>4. Balance' = Balance
      BY <1>3, <1>4, <2>1, <2>2, <2>3 DEF Balance
    <2>5. LockOf(w)'
      BY <1>0, <1>2, <2>1 DEF LockOf
    <2>6. InvLock'
      BY <1>0, <1>l, <2>1, <2>2, <2>5
    <2> QED
      BY <2>2, <2>4, <2>6
  <1>7. CASE UncountEvicted(w)
    <2> DEFINE v == writer[w].victim
    <2>1. /\ writer[w].pc = "uncount" /\ writer'[w].pc = "cap"
          /\ \A u \in Writers : u /= w => writer'[u] = writer[u]
          /\ lock' = [lock EXCEPT ![ShardOf[v]] = "free"]
          /\ active' = active - 1 /\ UNCHANGED <<touched, pruner>>
      BY <1>0, <1>1, <1>7 DEF UncountEvicted, Goto, BusyWriter
    <2>2. lock[ShardOf[v]] = w
      BY <1>0, <2>1 DEF InvLock, LockOf
    <2>3. Resident' = Resident
      BY <2>1 DEF Resident
    <2>4. /\ \A r : r /= "uncount" /\ r /= "cap" => At(r)' = At(r)
          /\ Cardinality(At("uncount")') = Cardinality(At("uncount")) - 1
      BY <2>1, AtMove
    <2>5. Balance' = Balance
      BY <1>3, <1>4, <2>1, <2>3, <2>4 DEF Balance
    <2>6. LockOf(w)'
      BY <2>1 DEF LockOf
    <2>7. InvLock'
      BY <1>0, <1>l, <2>1, <2>2, <2>3, <2>6
    <2> QED
      BY <1>0, <2>3, <2>5, <2>7
  <1>8. CASE InsertWindow(w)
    <2> DEFINE id == writer[w].id
    <2>1. /\ writer[w].pc = "insert" /\ writer'[w].pc = "count"
          /\ writer'[w].id = id
          /\ \A u \in Writers : u /= w => writer'[u] = writer[u]
          /\ lock[ShardOf[id]] = "free"
          /\ lock' = [lock EXCEPT ![ShardOf[id]] = w]
          /\ UNCHANGED <<active, pruner>>
      BY <1>0, <1>1, <1>8 DEF InsertWindow, Goto, Free, BusyWriter
    <2>2. /\ Resident' = Resident \cup {id} /\ IsFiniteSet(Resident')
          /\ Cardinality(Resident') = Cardinality(Resident) + 1
      BY <1>0, <1>2, <1>8, ResidentAdds DEF InsertWindow
    <2>3. /\ \A r : r /= "insert" /\ r /= "count" => At(r)' = At(r)
          /\ Cardinality(At("count")') = Cardinality(At("count")) + 1
      BY <2>1, AtMove
    <2>4. Balance' = Balance
      BY <1>3, <1>4, <2>1, <2>2, <2>3 DEF Balance
    <2>5. LockOf(w)'
      BY <1>0, <1>2, <2>1, <2>2 DEF LockOf
    <2>6. InvLock'
      BY <1>0, <1>l, <2>1, <2>2, <2>5
    <2> QED
      BY <2>2, <2>4, <2>6
  <1>9. CASE CountInserted(w)
    <2> DEFINE id == writer[w].id
    <2>1. /\ writer[w].pc = "count" /\ writer'[w].pc = "idle"
          /\ \A u \in Writers : u /= w => writer'[u] = writer[u]
          /\ lock' = [lock EXCEPT ![ShardOf[id]] = "free"]
          /\ active' = active + 1 /\ UNCHANGED <<touched, pruner>>
      BY <1>0, <1>1, <1>9 DEF CountInserted, WriterIdle
    <2>2. lock[ShardOf[id]] = w
      BY <1>0, <2>1 DEF InvLock, LockOf
    <2>3. Resident' = Resident
      BY <2>1 DEF Resident
    <2>4. /\ \A r : r /= "count" /\ r /= "idle" => At(r)' = At(r)
          /\ Cardinality(At("count")') = Cardinality(At("count")) - 1
      BY <2>1, AtMove
    <2>5. Balance' = Balance
      BY <1>3, <1>4, <2>1, <2>3, <2>4 DEF Balance
    <2>6. LockOf(w)'
      BY <2>1 DEF LockOf
    <2>7. InvLock'
      BY <1>0, <1>l, <2>1, <2>2, <2>3, <2>6
    <2> QED
      BY <1>0, <2>3, <2>5, <2>7
  <1> QED
    BY <1>5, <1>6, <1>7, <1>8, <1>9 DEF WriterStep, QuietStep

\* What each step of the pruner does to them.
LEMMA PrunerLock ==
  ASSUME LockInv, PrunerStep
  PROVE  InvLock' /\ IsFiniteSet(Resident') /\ Balance' = Balance
  <1>0. /\ TypeOK /\ InvLock /\ IsFiniteSet(Resident) /\ LockOfPruner
        /\ lock \in [Shards -> Writers \cup {"pruner", "free"}]
        /\ pruner \in [pc: {"idle", "next", "held", "uncount"}, pos: Nat]
        /\ \A w \in Writers : w /= "pruner" /\ w /= "free"
    BY DEF LockInv, TypeOK, InvLock
  <1>1. writer' = writer /\ \A p : At(p)' = At(p)
    BY DEF PrunerStep, PruneLock, PruneWindow, UncountPruned, PruneUnlock, PruneEnd, At
  <1>l. ASSUME \A i \in Shards : lock'[i] = lock[i] \/ lock[i] \in {"free", "pruner"},
               \A v \in Writers, id \in Resident :
                 lock[ShardOf[id]] = v => id \in Resident',
               LockOfPruner'
        PROVE  InvLock'
    <2>1. ASSUME NEW v \in Writers
          PROVE  LockOf(v)'
      BY <1>0, <1>1, <1>l, OthersHold
    <2> QED
      BY <1>l, <2>1 DEF InvLock
  <1>2. CASE PruneLock
    <2>1. /\ pruner.pc = "next" /\ pruner.pos \in Shards /\ lock[pruner.pos] = "free"
          /\ lock' = [lock EXCEPT ![pruner.pos] = "pruner"]
          /\ pruner'.pc = "held" /\ pruner'.pos = pruner.pos
          /\ UNCHANGED <<touched, active>>
      BY <1>0, <1>2 DEF PruneLock, Free, LockOfPruner, Shards
    <2>2. Resident' = Resident
      BY <2>1 DEF Resident
    <2>3. LockOfPruner'
      BY <1>0, <2>1 DEF LockOfPruner
    <2>4. InvLock'
      BY <1>0, <1>l, <2>1, <2>2, <2>3
    <2> QED
      BY <1>0, <1>1, <2>1, <2>2, <2>4, BalanceSame
  <1>3. ASSUME NEW id \in Ids, PruneWindow(id)
        PROVE  InvLock' /\ IsFiniteSet(Resident') /\ Balance' = Balance
    <2>1. /\ pruner.pc = "held" /\ pruner'.pc = "uncount" /\ pruner'.pos = pruner.pos
          /\ ShardOf[id] = pruner.pos /\ UNCHANGED <<lock, active>>
      BY <1>0, <1>3 DEF PruneWindow
    <2>2. /\ Resident' = Resident \ {id} /\ IsFiniteSet(Resident')
          /\ Cardinality(Resident') = Cardinality(Resident) - 1
      BY <1>0, <1>3, ResidentDrops DEF PruneWindow
    <2>3. LockOfPruner' /\ lock[ShardOf[id]] = "pruner"
      BY <1>0, <2>1 DEF LockOfPruner
    <2>4. InvLock'
      BY <1>0, <1>l, <2>1, <2>2, <2>3
    <2>5. /\ active \in Int /\ Cardinality(Resident) \in Nat
          /\ Cardinality(At("count")) \in Nat /\ Cardinality(At("uncount")) \in Nat
          /\ Uncounted = Cardinality(At("uncount"))
                           + (IF pruner.pc = "uncount" THEN 1 ELSE 0)
      BY <1>0, BalanceParts
    <2>6. Uncounted' = Cardinality(At("uncount")')
                         + (IF pruner'.pc = "uncount" THEN 1 ELSE 0)
      BY DEF Uncounted, At
    <2>7. Uncounted' = Uncounted + 1
      BY <1>1, <2>1, <2>5, <2>6
    <2>8. Balance' = Balance
      BY <1>1, <2>1, <2>2, <2>5, <2>7 DEF Balance
    <2> QED
      BY <2>2, <2>4, <2>8
  <1>4. CASE UncountPruned
    <2>1. /\ pruner.pc = "uncount" /\ pruner'.pc = "held" /\ pruner'.pos = pruner.pos
          /\ active' = active - 1 /\ UNCHANGED <<lock, touched>>
      BY <1>0, <1>4 DEF UncountPruned
    <2>2. Resident' = Resident
      BY <2>1 DEF Resident
    <2>3. LockOfPruner'
      BY <1>0, <2>1 DEF LockOfPruner
    <2>4. InvLock'
      BY <1>0, <1>l, <2>1, <2>2, <2>3
    <2>5. /\ active \in Int /\ Cardinality(Resident) \in Nat
          /\ Cardinality(At("count")) \in Nat /\ Cardinality(At("uncount")) \in Nat
          /\ Uncounted = Cardinality(At("uncount"))
                           + (IF pruner.pc = "uncount" THEN 1 ELSE 0)
      BY <1>0, BalanceParts
    <2>6. Uncounted' = Cardinality(At("uncount")')
                         + (IF pruner'.pc = "uncount" THEN 1 ELSE 0)
      BY DEF Uncounted, At
    <2>7. Uncounted' = Uncounted - 1
      BY <1>1, <2>1, <2>5, <2>6
    <2>8. Balance' = Balance
      BY <1>1, <2>1, <2>2, <2>5, <2>7 DEF Balance
    <2> QED
      BY <1>0, <2>2, <2>4, <2>8
  <1>5. CASE PruneUnlock \/ PruneEnd
    <2>1. /\ pruner.pc \in {"held", "next"} /\ pruner'.pc \in {"idle", "next"}
          /\ pruner'.pc = "next" => pruner'.pos >= 1
          /\ UNCHANGED <<touched, active>>
      BY <1>0, <1>5 DEF PruneUnlock, PruneEnd
    <2>2. \A i \in Shards : lock'[i] = lock[i] \/ lock[i] \in {"free", "pruner"}
      BY <1>0, <1>5 DEF PruneUnlock, PruneEnd, LockOfPruner
    <2>3. Resident' = Resident
      BY <2>1 DEF Resident
    <2>4. LockOfPruner'
      BY <2>1 DEF LockOfPruner
    <2>5. InvLock'
      BY <1>0, <1>l, <2>2, <2>3, <2>4
    <2> QED
      BY <1>0, <1>1, <2>1, <2>3, <2>5, BalanceSame
  <1> QED
    BY <1>2, <1>3, <1>4, <1>5 DEF PrunerStep

\* What the start of an update, of a prune and of a reset, a notification and
\* a reset of one shard do to them.
LEMMA OtherLock ==
  ASSUME LockInv,
         \/ \E w \in Writers, id \in Ids : UpdateExisting(w, id) \/ MissWindow(w, id)
         \/ PruneBegin \/ TakePruned \/ ResetBegin \/ ResetShard \/ ResetCounter
         \/ UNCHANGED vars
  PROVE  /\ InvLock' /\ IsFiniteSet(Resident')
         /\ ~ResetShard /\ ~ResetCounter => Balance' = Balance
  <1>0. /\ TypeOK /\ InvLock /\ IsFiniteSet(Resident) /\ LockOfPruner
        /\ writer \in [Writers -> BusyWriter \cup {WriterIdle}]
        /\ \A w \in Writers : w /= "pruner" /\ w /= "free"
    BY DEF LockInv, TypeOK, InvLock
  <1>1. lock' = lock /\ \A w \in Writers : writer'[w] = writer[w] \/ writer'[w].pc = "cap"
    BY <1>0 DEF UpdateExisting, MissWindow, PruneBegin, TakePruned, ResetBegin,
                ResetShard, ResetCounter, vars, Busy
  <1>2. At("count")' = At("count") /\ At("uncount")' = At("uncount")
    <2>1. ASSUME NEW w \in Writers, NEW id \in Ids, MissWindow(w, id)
          PROVE  At("count")' = At("count") /\ At("uncount")' = At("uncount")
      <3>1. /\ writer[w].pc = "idle" /\ writer'[w].pc = "cap"
            /\ \A v \in Writers : v /= w => writer'[v] = writer[v]
        BY <1>0, <2>1 DEF MissWindow, Busy
      <3> QED
        BY <3>1 DEF At
    <2>2. ASSUME writer' = writer
          PROVE  At("count")' = At("count") /\ At("uncount")' = At("uncount")
      BY <2>2 DEF At
    <2> QED
      BY <2>1, <2>2 DEF UpdateExisting, PruneBegin, TakePruned, ResetBegin,
                        ResetShard, ResetCounter, vars
  <1>3. /\ LockOfPruner'
        /\ pruner'.pc = "uncount" <=> pruner.pc = "uncount"
    BY <1>0, <1>1 DEF UpdateExisting, MissWindow, PruneBegin, TakePruned, ResetBegin,
                ResetShard, ResetCounter, vars, LockOfPruner
  <1>4. CASE ResetShard
    <2>1. Resident' = {id \in Resident : ShardOf[id] /= resetter.pos}
      BY <1>0, <1>4 DEF ResetShard, Resident, TypeOK
    <2>2. IsFiniteSet(Resident')
      BY <1>0, <2>1, FS_Subset
    <2>3. \A id \in Resident : id \notin Resident' => lock[ShardOf[id]] = "free"
      BY <1>4, <2>1 DEF ResetShard, Free
    <2>4. ASSUME NEW v \in Writers
          PROVE  LockOf(v)'
      BY <1>0, <1>1, <1>4, <2>3, OthersHold DEF ResetShard
    <2> QED
      BY <1>3, <1>4, <2>2, <2>4 DEF InvLock
  <1>5. CASE ~ResetShard
    <2>1. Resident' = Resident
      <3>1. ASSUME NEW w \in Writers, NEW id \in Ids, UpdateExisting(w, id)
            PROVE  Resident' = Resident
        BY <1>0, <3>1, ResidentKeeps DEF UpdateExisting
      <3>2. ASSUME touched' = touched
            PROVE  Resident' = Resident
        BY <3>2 DEF Resident
      <3> QED
        BY <1>5, <3>1, <3>2 DEF MissWindow, PruneBegin, TakePruned, ResetBegin,
                                ResetCounter, vars
    <2>2. ASSUME NEW v \in Writers
          PROVE  LockOf(v)'
      <3>1. CASE writer'[v] = writer[v]
        BY <1>0, <1>1, <2>1, <3>1, OthersHold
      <3>2. CASE writer'[v].pc = "cap"
        BY <3>2 DEF LockOf
      <3> QED
        BY <1>1, <3>1, <3>2
    <2>3. ~ResetCounter => active' = active
      BY <1>5 DEF UpdateExisting, MissWindow, PruneBegin, TakePruned, ResetBegin, vars
    <2> QED
      BY <1>0, <1>2, <1>3, <2>1, <2>2, <2>3, BalanceSame DEF InvLock
  <1> QED
    BY <1>4, <1>5

\* Every step keeps the locks, and no step but a reset's changes the balance.
LEMMA NextLock ==
  ASSUME LockInv, [Next]_vars
  PROVE  /\ LockInv'
         /\ ~ResetShard /\ ~ResetCounter => Balance' = Balance
  <1>1. TypeOK'
    BY NextType DEF LockInv
  <1> QED
    BY <1>1, WriterLock, PrunerLock, OtherLock DEF Next, Finished, LockInv

-----------------------------------------------------------------------------
(***************************************************************************)
(* The counter. ActiveNotAbove does not survive a CountInserted by itself: *)
(* the inductive form counts the windows that writers are about to count.  *)
(* A reset sets it right, since each such window is still there, behind a  *)
(* lock of its own.                                                        *)
(***************************************************************************)
InvCounter == resetter.pc = "idle" => Balance <= 0

\* Writers about to count have inserted different windows.
LEMMA CountingBounded ==
  ASSUME LockInv
  PROVE  Cardinality(At("count")) <= Cardinality(Resident)
  <1> DEFINE f == [w \in At("count") |-> writer[w].id]
  <1>1. \A w \in At("count") : lock[ShardOf[writer[w].id]] = w /\ writer[w].id \in Resident
    BY DEF LockInv, InvLock, LockOf, At
  <1>2. f \in Injection(At("count"), Resident)
    BY <1>1 DEF Injection, IsInjective
  <1> QED
    BY <1>2, FS_Injection DEF LockInv

\* Every step keeps the counter's invariant.
LEMMA NextCounter == LockInv /\ InvCounter /\ [Next]_vars => InvCounter'
  <1> SUFFICES ASSUME LockInv, InvCounter, [Next]_vars, resetter'.pc = "idle"
               PROVE  Balance' <= 0
    BY DEF InvCounter
  <1>1. CASE ResetShard
    BY <1>1 DEF ResetShard, LockInv, TypeOK
  <1>2. CASE ResetCounter
    <2>1. /\ At("count")' = At("count") /\ Resident' = Resident
          /\ Uncounted' = Uncounted /\ active' = 0
      BY <1>2 DEF ResetCounter, At, Resident, Uncounted
    <2>2. Cardinality(At("count")) <= Cardinality(Resident)
      BY CountingBounded
    <2> QED
      BY <2>1, <2>2, BalanceParts DEF Balance, LockInv
  <1>3. CASE ~ResetShard /\ ~ResetCounter
    <2>1. Balance' = Balance
      BY <1>3, NextLock
    <2>2. resetter.pc = "idle"
      BY <1>3 DEF Next, UpdateExisting, MissWindow, WriterStep, CheckCap, ScanShard,
         EndScan, SpareVictim, EvictVictim, UncountEvicted, InsertWindow,
         CountInserted, UpdateAfterMiss, PruneBegin, PrunerStep, PruneLock,
         PruneWindow, UncountPruned, PruneUnlock, PruneEnd, TakePruned,
         ResetBegin, Finished, vars
    <2> QED
      BY <2>1, <2>2 DEF InvCounter
  <1> QED
    BY <1>1, <1>2, <1>3

\* Outside a reset the counter never claims a window that is not there: the
\* counter is at most the resident windows and those deleted but still counted,
\* for every number of concurrent writers and whatever the pruner and earlier
\* resets did in between.
THEOREM CounterNotAbove == Spec => []ActiveNotAbove
  <1>1. Init => InvCounter
    <2> SUFFICES ASSUME Init PROVE InvCounter
      OBVIOUS
    <2>1. Resident = {} /\ At("count") = {} /\ active = 0
      BY DEF Init, Resident, At, WriterIdle
    <2>2. LockInv
      BY InitLock
    <2>3. Cardinality(At("count")) = 0 /\ Cardinality(Resident) = 0
      BY <2>1, FS_EmptySet
    <2> QED
      BY <2>1, <2>2, <2>3, BalanceParts DEF InvCounter, Balance, LockInv
  <1>2. LockInv /\ InvCounter => ActiveNotAbove
    BY BalanceParts DEF LockInv, InvCounter, Balance, ActiveNotAbove
  <1>3. LockInv /\ [Next]_vars => LockInv'
    BY NextLock
  <1> QED
    BY InitLock, NextCounter, <1>1, <1>2, <1>3, PTL DEF Spec

-----------------------------------------------------------------------------
(***************************************************************************)
(* The cap. A writer may insert after it read the counter below the cap,   *)
(* or after a scan that found no window at all. Many writers may read the  *)
(* counter before any of them counts; a blind scan may have missed windows *)
(* inserted in the shards behind it. The invariant counts, for every set S *)
(* of writers whose scan has found nothing yet, the windows that all of S  *)
(* have missed: each scan still under way is one insertion that may follow.*)
(***************************************************************************)
Blind == {w \in Writers : writer[w].pc = "scan" /\ writer[w].found = FALSE}

\* The windows in shards that every scan of S has left behind.
Missed(S) == {id \in Resident : \A w \in S : ShardOf[id] < writer[w].pos}

\* Insertions to come leave room for those the scans of S may still bring.
CapOf(S) ==
  Cardinality(Missed(S)) + Cardinality(At("insert"))
    <= MaxWindows + Cardinality(Writers) - 1 - Cardinality(S)

\* Before the first reset the counter is exact.
InvExact == resets = 0 => resetter.pc = "idle" /\ Balance = 0

InvCap == resets = 0 => \A S \in SUBSET Blind : CapOf(S)

CapInv == LockInv /\ InvExact /\ InvCap

\* Sets of blind writers, and what they missed, can be counted.
LEMMA MissedFinite ==
  ASSUME LockInv, NEW S \in SUBSET Blind
  PROVE  /\ IsFiniteSet(S) /\ Cardinality(S) \in Nat
         /\ IsFiniteSet(Missed(S)) /\ Cardinality(Missed(S)) \in Nat
         /\ Cardinality(Missed(S)) <= Cardinality(Resident)
         /\ Cardinality(Resident) \in Nat
         /\ Cardinality(Writers) \in Nat
         /\ Cardinality(At("insert")) \in Nat
  <1>1. S \subseteq Writers /\ Missed(S) \subseteq Resident
    BY DEF Blind, Missed
  <1> QED
    BY <1>1, AtFinite, FS_Subset, FS_CardinalityType DEF LockInv

\* The invariant survives a step that leaves every scan where it is, brings no
\* window and no insertion.
LEMMA CapLess ==
  ASSUME LockInv, NEW S \in SUBSET Blind, CapOf(S),
         \A w \in S : writer'[w].pos = writer[w].pos,
         Resident' \subseteq Resident,
         At("insert")' \subseteq At("insert")
  PROVE  CapOf(S)'
  <1>1. Missed(S)' \subseteq Missed(S)
    BY DEF Missed
  <1>2. /\ IsFiniteSet(Missed(S)) /\ IsFiniteSet(At("insert"))
        /\ Cardinality(S) \in Nat /\ Cardinality(Writers) \in Nat
    BY MissedFinite, AtFinite
  <1>3. /\ IsFiniteSet(Missed(S)') /\ Cardinality(Missed(S)') <= Cardinality(Missed(S))
        /\ IsFiniteSet(At("insert")')
        /\ Cardinality(At("insert")') <= Cardinality(At("insert"))
    BY <1>1, <1>2, FS_Subset
  <1>4. /\ Cardinality(Missed(S)) \in Nat /\ Cardinality(Missed(S)') \in Nat
        /\ Cardinality(At("insert")) \in Nat /\ Cardinality(At("insert")') \in Nat
    BY <1>2, <1>3, FS_CardinalityType
  <1> QED
    BY <1>2, <1>3, <1>4 DEF CapOf

\* One more element is at most one more in number.
LEMMA AddAtMostOne ==
  ASSUME NEW M, IsFiniteSet(M), NEW x
  PROVE  /\ IsFiniteSet(M \cup {x})
         /\ Cardinality(M \cup {x}) <= Cardinality(M) + 1
  <1>1. IsFiniteSet(M \cup {x}) /\ Cardinality(M) \in Nat
    BY FS_AddElement, FS_CardinalityType
  <1>2. \/ Cardinality(M \cup {x}) = Cardinality(M)
        \/ Cardinality(M \cup {x}) = Cardinality(M) + 1
    BY FS_AddElement
  <1> QED
    BY <1>1, <1>2

\* Disjoint sets add up.
LEMMA DisjointSum ==
  ASSUME NEW A, NEW B, IsFiniteSet(A), IsFiniteSet(B), A \cap B = {}
  PROVE  /\ IsFiniteSet(A \cup B) /\ Cardinality(A \cup B) \in Nat
         /\ Cardinality(A \cup B) = Cardinality(A) + Cardinality(B)
  <1>1. /\ IsFiniteSet(A \cup B) /\ IsFiniteSet(A \cap B)
        /\ Cardinality(A \cup B)
             = Cardinality(A) + Cardinality(B) - Cardinality(A \cap B)
    BY FS_Union, FS_EmptySet
  <1>2. Cardinality(A \cap B) = 0
    BY FS_EmptySet
  <1>3. /\ Cardinality(A) \in Nat /\ Cardinality(B) \in Nat
        /\ Cardinality(A \cup B) \in Nat
    BY <1>1, FS_CardinalityType
  <1> QED
    BY <1>1, <1>2, <1>3

\* An insertion turns a pending insertion into a window.
LEMMA CapInsert ==
  ASSUME LockInv, NEW w \in Writers, InsertWindow(w),
         NEW S \in SUBSET Blind, CapOf(S)
  PROVE  CapOf(S)' /\ Blind' = Blind
  <1>0. /\ TypeOK /\ writer \in [Writers -> BusyWriter \cup {WriterIdle}]
        /\ IsFiniteSet(Resident)
        /\ writer[w].pc = "insert"
    BY DEF LockInv, TypeOK, InsertWindow
  <1>1. /\ writer[w] \in BusyWriter /\ writer[w].id \in Ids
    BY <1>0, WriterType, WriterFields
  <1>2. /\ writer'[w].pc = "count"
        /\ \A v \in Writers : v /= w => writer'[v] = writer[v]
    BY <1>0, <1>1 DEF InsertWindow, Goto, BusyWriter
  <1>3. Resident' = Resident \cup {writer[w].id}
    BY <1>0, <1>1, ResidentAdds DEF InsertWindow
  <1>4. Cardinality(At("insert")') = Cardinality(At("insert")) - 1
    BY <1>0, <1>2, AtMove
  <1>5. Blind' = Blind /\ w \notin S
    BY <1>0, <1>2 DEF Blind
  <1>6. Missed(S)' \subseteq Missed(S) \cup {writer[w].id}
    BY <1>2, <1>3, <1>5 DEF Missed, Blind
  <1>7. /\ IsFiniteSet(Missed(S)) /\ Cardinality(Missed(S)) \in Nat
        /\ Cardinality(S) \in Nat /\ Cardinality(Writers) \in Nat
        /\ Cardinality(At("insert")) \in Nat
    BY MissedFinite
  <1>8. /\ IsFiniteSet(Missed(S) \cup {writer[w].id})
        /\ Cardinality(Missed(S) \cup {writer[w].id}) <= Cardinality(Missed(S)) + 1
    BY <1>7, AddAtMostOne
  <1>9. /\ Cardinality(Missed(S)') <= Cardinality(Missed(S) \cup {writer[w].id})
        /\ Cardinality(Missed(S)') \in Nat
        /\ Cardinality(Missed(S) \cup {writer[w].id}) \in Nat
    BY <1>6, <1>8, FS_Subset, FS_CardinalityType
  <1> QED
    BY <1>4, <1>5, <1>7, <1>8, <1>9 DEF CapOf

\* Writers about to insert or to count, and the scans of S, are different.
LEMMA WritersShared ==
  ASSUME NEW S \in SUBSET Blind, NEW w \in Writers, w \notin S,
         writer[w].pc \notin {"insert", "count"}
  PROVE  Cardinality(At("insert")) + Cardinality(At("count")) + Cardinality(S) + 1
           <= Cardinality(Writers)
  <1> DEFINE I == At("insert")
             C == At("count")
             T == S \cup {w}
  <1>1. I \cap C = {} /\ (I \cup C) \cap T = {} /\ (I \cup C) \cup T \subseteq Writers
    BY DEF At, Blind
  <1>2. IsFiniteSet(I) /\ IsFiniteSet(C) /\ IsFiniteSet(S)
    <2>1. S \subseteq Writers
      BY DEF Blind
    <2> QED
      BY <2>1, AtFinite, FS_Subset
  <1>3. IsFiniteSet(T) /\ Cardinality(T) = Cardinality(S) + 1
    BY <1>2, FS_AddElement
  <1> HIDE DEF I, C, T
  <1>4. IsFiniteSet(I \cup C) /\ Cardinality(I \cup C) = Cardinality(I) + Cardinality(C)
    BY <1>1, <1>2, DisjointSum
  <1>5. /\ IsFiniteSet((I \cup C) \cup T)
        /\ Cardinality((I \cup C) \cup T) = Cardinality(I \cup C) + Cardinality(T)
    BY <1>1, <1>3, <1>4, DisjointSum
  <1>6. Cardinality((I \cup C) \cup T) <= Cardinality(Writers)
    BY <1>1, FS_Subset
  <1>7. Cardinality(I) + Cardinality(C) + Cardinality(S) + 1
          = Cardinality((I \cup C) \cup T)
    <2>1. Cardinality(I) \in Nat /\ Cardinality(C) \in Nat /\ Cardinality(S) \in Nat
      BY <1>2, FS_CardinalityType
    <2> QED
      BY <1>3, <1>4, <1>5, <2>1
  <1> QED
    BY <1>6, <1>7 DEF I, C

\* A step that brings no window and sends no writer into a scan or to an
\* insertion keeps the invariant.
LEMMA CapRest ==
  ASSUME CapInv, resets = 0, Resident' \subseteq Resident,
         \A v \in Writers : \/ writer'[v] = writer[v]
                            \/ writer'[v].pc \notin {"scan", "insert"}
  PROVE  \A S \in SUBSET (Blind') : CapOf(S)'
  <1> SUFFICES ASSUME NEW S \in SUBSET (Blind') PROVE CapOf(S)'
    OBVIOUS
  <1>1. S \subseteq Blind /\ \A v \in S : writer'[v].pos = writer[v].pos
    BY DEF Blind
  <1>2. At("insert")' \subseteq At("insert")
    BY DEF At
  <1>3. CapOf(S)
    BY <1>1 DEF CapInv, InvCap
  <1> QED
    BY <1>1, <1>2, <1>3, CapLess DEF CapInv

\* The counter below the cap: the writer may insert. Every other insertion
\* under way and every blind scan belongs to another writer.
LEMMA CapPass ==
  ASSUME CapInv, resets = 0, NEW w \in Writers, CheckCap(w), active < MaxWindows,
         NEW S \in SUBSET (Blind')
  PROVE  CapOf(S)'
  <1>0. /\ TypeOK /\ LockInv /\ Balance = 0 /\ IsFiniteSet(Resident)
        /\ writer \in [Writers -> BusyWriter \cup {WriterIdle}]
        /\ writer[w].pc = "cap"
    BY DEF CapInv, LockInv, InvExact, TypeOK, CheckCap
  <1>1. /\ writer' = [writer EXCEPT ![w] = Busy("insert", writer[w].id)]
        /\ Resident' = Resident
    <2>1. ~(active >= MaxWindows)
      BY <1>0 DEF TypeOK
    <2>2. writer' = [writer EXCEPT ![w] =
            IF active >= MaxWindows
            THEN [Busy("scan", writer[w].id) EXCEPT !.pos = 1, !.start = now]
            ELSE Busy("insert", writer[w].id)]
      BY DEF CheckCap
    <2>3. Resident' = Resident
      BY DEF CheckCap, Resident
    <2> QED
      BY <2>1, <2>2, <2>3
  <1>2. /\ writer'[w].pc = "insert"
        /\ \A v \in Writers : v /= w => writer'[v] = writer[v]
    BY <1>0, <1>1 DEF Busy
  <1>3. S \in SUBSET Blind /\ w \notin S
    BY <1>0, <1>2 DEF Blind
  <1>4. Missed(S)' = Missed(S)
    BY <1>1, <1>2, <1>3 DEF Missed, Blind
  <1>5. Cardinality(At("insert")') = Cardinality(At("insert")) + 1
    BY <1>0, <1>2, AtMove
  <1>6. /\ Cardinality(S) \in Nat /\ Cardinality(Missed(S)) \in Nat
        /\ Cardinality(Missed(S)) <= Cardinality(Resident)
        /\ Cardinality(Writers) \in Nat /\ Cardinality(At("insert")) \in Nat
    BY <1>0, <1>3, MissedFinite
  <1>7. Cardinality(At("insert")) + Cardinality(At("count")) + Cardinality(S) + 1
          <= Cardinality(Writers)
    BY <1>0, <1>3, WritersShared
  <1>8. /\ Cardinality(Resident) <= active + Cardinality(At("count"))
        /\ Cardinality(Resident) \in Nat /\ active \in Int
        /\ Cardinality(At("count")) \in Nat
    <2>1. /\ active \in Int /\ Cardinality(Resident) \in Nat
          /\ Cardinality(At("count")) \in Nat /\ Uncounted \in Nat
      BY <1>0, BalanceParts
    <2> QED
      BY <1>0, <2>1 DEF Balance
  <1> QED
    BY <1>4, <1>5, <1>6, <1>7, <1>8 DEF CapOf

\* The counter at the cap: the writer starts a scan that has missed nothing.
LEMMA CapScan ==
  ASSUME CapInv, resets = 0, NEW w \in Writers, CheckCap(w), active >= MaxWindows,
         NEW S \in SUBSET (Blind')
  PROVE  CapOf(S)'
  <1>0. /\ TypeOK /\ LockInv
        /\ writer \in [Writers -> BusyWriter \cup {WriterIdle}]
        /\ writer[w].pc = "cap"
    BY DEF CapInv, LockInv, TypeOK, CheckCap
  <1>1. /\ writer' = [writer EXCEPT ![w] =
             [Busy("scan", writer[w].id) EXCEPT !.pos = 1, !.start = now]]
        /\ Resident' = Resident
    BY DEF CheckCap, Resident
  <1>2. /\ writer'[w].pc = "scan" /\ writer'[w].pos = 1
        /\ \A v \in Writers : v /= w => writer'[v] = writer[v]
    BY <1>0, <1>1 DEF Busy
  <1>3. At("insert")' = At("insert")
    BY <1>0, <1>2, AtMove
  <1>4. S \ {w} \in SUBSET Blind
    BY <1>2 DEF Blind
  <1>5. CASE w \notin S
    <2>1. S \in SUBSET Blind /\ \A v \in S : writer'[v].pos = writer[v].pos
      BY <1>2, <1>4, <1>5 DEF Blind
    <2>2. CapOf(S)
      BY <2>1 DEF CapInv, InvCap
    <2> QED
      BY <1>0, <1>1, <1>3, <2>1, <2>2, CapLess
  <1>6. CASE w \in S
    <2> DEFINE T == S \ {w}
    <2>1. Missed(S)' = {}
      <3>1. \A id \in Resident : ShardOf[id] \in 1 .. NShards
        BY DEF Resident
      <3> QED
        BY <1>1, <1>2, <1>6, <3>1 DEF Missed
    <2>2. Cardinality(Missed(S)') = 0
      BY <2>1, FS_EmptySet
    <2>3. Cardinality(At("insert")) + Cardinality(At("count")) + Cardinality(T) + 1
            <= Cardinality(Writers)
      BY <1>0, <1>4, WritersShared
    <2>4. /\ Cardinality(T) \in Nat /\ IsFiniteSet(T) /\ Cardinality(Writers) \in Nat
          /\ Cardinality(At("insert")) \in Nat /\ Cardinality(At("count")) \in Nat
      BY <1>0, <1>4, MissedFinite, AtFinite
    <2>5. Cardinality(S) = Cardinality(T) + 1
      <3>1. S = T \cup {w} /\ w \notin T
        BY <1>6
      <3> HIDE DEF T
      <3> QED
        BY <2>4, <3>1, FS_AddElement
    <2> HIDE DEF T
    <2> QED
      BY <1>3, <2>2, <2>3, <2>4, <2>5 DEF CapOf
  <1> QED
    BY <1>5, <1>6

\* One shard of a scan: the writer moves on, and without a victim only when the
\* shard had no window for it.
LEMMA ScanMove ==
  ASSUME TypeOK, NEW w \in Writers, ScanShard(w)
  PROVE  /\ writer'[w].pc = "scan" /\ writer'[w].pos = writer[w].pos + 1
         /\ \A v \in Writers : v /= w => writer'[v] = writer[v]
         /\ writer'[w].found = FALSE =>
              writer[w].found = FALSE /\ Older(w, writer[w].pos) = {}
  <1>0. /\ writer \in [Writers -> BusyWriter \cup {WriterIdle}]
        /\ writer[w].pc = "scan" /\ writer[w] \in BusyWriter
    BY WriterType DEF TypeOK, ScanShard
  <1>1. \/ /\ Older(w, writer[w].pos) = {}
           /\ writer' = [writer EXCEPT ![w].pos = writer[w].pos + 1]
        \/ \E v \in Older(w, writer[w].pos) :
             writer' = [writer EXCEPT ![w].pos = writer[w].pos + 1,
               ![w].found = TRUE, ![w].victim = v, ![w].oldest = touched[v]]
    BY DEF ScanShard
  <1>2. CASE /\ Older(w, writer[w].pos) = {}
             /\ writer' = [writer EXCEPT ![w].pos = writer[w].pos + 1]
    BY <1>0, <1>2 DEF BusyWriter
  <1>3. ASSUME NEW v, writer' = [writer EXCEPT ![w].pos = writer[w].pos + 1,
                 ![w].found = TRUE, ![w].victim = v, ![w].oldest = touched[v]]
        PROVE  /\ writer'[w].pc = "scan" /\ writer'[w].pos = writer[w].pos + 1
               /\ writer'[w].found = TRUE
               /\ \A u \in Writers : u /= w => writer'[u] = writer[u]
    BY <1>0, <1>3 DEF BusyWriter
  <1> QED
    BY <1>1, <1>2, <1>3

\* A scan that goes on without a victim: the shard it leaves is empty, so it
\* has missed no more than before.
LEMMA CapShard ==
  ASSUME CapInv, resets = 0, NEW w \in Writers, ScanShard(w),
         NEW S \in SUBSET (Blind')
  PROVE  CapOf(S)'
  <1>0. /\ TypeOK /\ LockInv
        /\ writer \in [Writers -> BusyWriter \cup {WriterIdle}]
        /\ writer[w].pc = "scan" /\ writer[w] \in BusyWriter
        /\ Resident' = Resident
    BY WriterType DEF CapInv, LockInv, TypeOK, ScanShard, Resident
  <1>1. /\ writer'[w].pc = "scan"
        /\ \A v \in Writers : v /= w => writer'[v] = writer[v]
    BY <1>0, ScanMove
  <1>2. At("insert")' = At("insert")
    BY <1>0, <1>1 DEF At
  <1>3. CASE w \notin S
    <2>1. S \in SUBSET Blind /\ \A v \in S : writer'[v].pos = writer[v].pos
      BY <1>1, <1>3 DEF Blind
    <2>2. CapOf(S)
      BY <2>1 DEF CapInv, InvCap
    <2> QED
      BY <1>0, <1>2, <2>1, <2>2, CapLess
  <1>4. CASE w \in S
    <2>1. writer'[w].found = FALSE
      BY <1>4 DEF Blind
    <2>2. /\ writer[w].found = FALSE /\ writer'[w].pos = writer[w].pos + 1
          /\ Older(w, writer[w].pos) = {}
      BY <1>0, <2>1, ScanMove
    <2>3. S \in SUBSET Blind
      BY <1>0, <1>1, <2>2 DEF Blind
    <2>4. CapOf(S)
      BY <2>3 DEF CapInv, InvCap
    <2>5. \A id \in Resident : ShardOf[id] /= writer[w].pos
      BY <2>2 DEF Older
    <2>6. Missed(S)' \subseteq Missed(S)
      <3> SUFFICES ASSUME NEW id \in Resident, NEW v \in S,
                          ShardOf[id] < writer'[v].pos
                   PROVE  ShardOf[id] < writer[v].pos
        BY <1>0 DEF Missed
      <3>1. CASE v = w
        <4>1. ShardOf[id] \in 1 .. NShards /\ writer[w].pos \in Nat
          BY <1>0, WriterFields DEF Resident
        <4> QED
          BY <2>2, <2>5, <3>1, <4>1
      <3>2. CASE v /= w
        BY <1>1, <2>3, <3>2 DEF Blind
      <3> QED
        BY <3>1, <3>2
    <2>7. /\ IsFiniteSet(Missed(S)) /\ Cardinality(Missed(S)) \in Nat
          /\ Cardinality(S) \in Nat /\ Cardinality(Writers) \in Nat
          /\ Cardinality(At("insert")) \in Nat
      BY <1>0, <2>3, MissedFinite
    <2>8. Cardinality(Missed(S)') <= Cardinality(Missed(S)) /\ Cardinality(Missed(S)') \in Nat
      BY <2>6, <2>7, FS_Subset, FS_CardinalityType
    <2> QED
      BY <1>2, <2>4, <2>7, <2>8 DEF CapOf
  <1> QED
    BY <1>3, <1>4

\* A blind scan is over: every window is behind it, so what the others have
\* missed it has missed too, and its insertion is one the invariant foresaw.
LEMMA CapBlind ==
  ASSUME CapInv, resets = 0, NEW w \in Writers, EndScan(w), writer[w].found = FALSE,
         NEW S \in SUBSET (Blind')
  PROVE  CapOf(S)'
  <1>0. /\ TypeOK /\ LockInv
        /\ writer \in [Writers -> BusyWriter \cup {WriterIdle}]
        /\ writer[w].pc = "scan" /\ writer[w] \in BusyWriter
        /\ writer[w].pos > NShards /\ writer[w].pos \in Nat
        /\ Resident' = Resident
    BY WriterType, WriterFields DEF CapInv, LockInv, TypeOK, EndScan, Resident
  <1>1. /\ writer'[w].pc = "insert"
        /\ \A v \in Writers : v /= w => writer'[v] = writer[v]
    BY <1>0 DEF EndScan, Goto, BusyWriter
  <1>2. S \in SUBSET Blind /\ w \notin S /\ S \cup {w} \in SUBSET Blind
    BY <1>0, <1>1 DEF Blind
  <1>3. CapOf(S \cup {w})
    BY <1>2 DEF CapInv, InvCap
  <1>4. Missed(S \cup {w}) = Missed(S)
    <2>1. \A id \in Resident : ShardOf[id] < writer[w].pos
      BY <1>0 DEF Resident
    <2> QED
      BY <2>1 DEF Missed
  <1>5. Missed(S)' = Missed(S)
    BY <1>0, <1>1, <1>2 DEF Missed, Blind
  <1>6. Cardinality(At("insert")') = Cardinality(At("insert")) + 1
    BY <1>0, <1>1, AtMove
  <1>7. /\ IsFiniteSet(S) /\ Cardinality(S) \in Nat /\ Cardinality(Missed(S)) \in Nat
        /\ Cardinality(Writers) \in Nat /\ Cardinality(At("insert")) \in Nat
    BY <1>0, <1>2, MissedFinite
  <1>8. Cardinality(S \cup {w}) = Cardinality(S) + 1
    BY <1>2, <1>7, FS_AddElement
  <1> QED
    BY <1>3, <1>4, <1>5, <1>6, <1>7, <1>8 DEF CapOf

\* What the other steps do to windows and writers.
LEMMA RestMoves ==
  ASSUME TypeOK, NEW w \in Writers,
         \/ EndScan(w) /\ writer[w].found
         \/ SpareVictim(w) \/ EvictVictim(w) \/ UncountEvicted(w)
         \/ CountInserted(w) \/ UpdateAfterMiss(w)
         \/ \E id \in Ids : UpdateExisting(w, id) \/ MissWindow(w, id)
  PROVE  /\ Resident' \subseteq Resident
         /\ \A v \in Writers : \/ writer'[v] = writer[v]
                               \/ writer'[v].pc \notin {"scan", "insert"}
  <1>0. writer \in [Writers -> BusyWriter \cup {WriterIdle}]
    BY DEF TypeOK
  <1>1. CASE \/ EndScan(w) /\ writer[w].found
             \/ SpareVictim(w) \/ EvictVictim(w) \/ UncountEvicted(w)
    <2>1. writer[w].pc /= "idle" /\ writer[w] \in BusyWriter
      BY <1>1, WriterType DEF EndScan, SpareVictim, EvictVictim, UncountEvicted
    <2>2. \/ Goto(w, "evict") \/ Goto(w, "cap") \/ Goto(w, "uncount")
      BY <1>1 DEF EndScan, SpareVictim, EvictVictim, UncountEvicted
    <2>3. \A v \in Writers : \/ writer'[v] = writer[v]
                             \/ writer'[v].pc \notin {"scan", "insert"}
      BY <1>0, <2>1, <2>2 DEF Goto, BusyWriter
    <2>4. Resident' \subseteq Resident
      BY <1>1 DEF EndScan, SpareVictim, EvictVictim, UncountEvicted, Resident, TypeOK
    <2> QED
      BY <2>3, <2>4
  <1>2. CASE CountInserted(w) \/ UpdateAfterMiss(w)
    <2>1. writer' = [writer EXCEPT ![w] = WriterIdle]
      BY <1>2 DEF CountInserted, UpdateAfterMiss
    <2>2. \A v \in Writers : \/ writer'[v] = writer[v]
                             \/ writer'[v].pc \notin {"scan", "insert"}
      BY <1>0, <2>1 DEF WriterIdle
    <2>3. Resident' = Resident
      BY <1>2, ResidentKeeps DEF CountInserted, UpdateAfterMiss, Resident
    <2> QED
      BY <2>2, <2>3
  <1>3. ASSUME NEW id \in Ids, UpdateExisting(w, id)
        PROVE  Resident' = Resident /\ writer' = writer
    BY <1>3, ResidentKeeps DEF UpdateExisting
  <1>4. ASSUME NEW id \in Ids, MissWindow(w, id)
        PROVE  /\ Resident' = Resident
               /\ \A v \in Writers : \/ writer'[v] = writer[v]
                                     \/ writer'[v].pc \notin {"scan", "insert"}
    BY <1>0, <1>4 DEF MissWindow, Resident, Busy
  <1> QED
    BY <1>1, <1>2, <1>3, <1>4

\* What the steps of pruner and reset do to them.
LEMMA OtherMoves ==
  ASSUME TypeOK,
         \/ PruneBegin \/ PrunerStep \/ TakePruned \/ ResetBegin
         \/ Finished \/ UNCHANGED vars
  PROVE  Resident' \subseteq Resident /\ writer' = writer
  <1>1. CASE \E id \in Ids : PruneWindow(id)
    BY <1>1 DEF PruneWindow, TypeOK, Resident
  <1>2. CASE ~\E id \in Ids : PruneWindow(id)
    BY <1>2 DEF PruneBegin, PrunerStep, PruneLock, UncountPruned, PruneUnlock,
       PruneEnd, TakePruned, ResetBegin, Finished, vars, Resident
  <1> QED
    BY <1>1, <1>2

\* Every step keeps the counter exact until the first reset.
LEMMA NextExact ==
  ASSUME CapInv, [Next]_vars
  PROVE  /\ InvExact'
         /\ resets' = 0 => resets = 0 /\ ~ResetShard /\ ~ResetCounter
  <1> SUFFICES ASSUME resets' = 0
               PROVE  /\ resets = 0 /\ ~ResetShard /\ ~ResetCounter
                      /\ resetter'.pc = "idle" /\ Balance' = 0
    BY DEF InvExact
  <1>1. resets \in Nat
    BY DEF CapInv, LockInv, TypeOK
  <1>2. ~ResetBegin
    BY <1>1 DEF ResetBegin
  <1>3. ASSUME ~ResetShard, ~ResetCounter
        PROVE  resetter' = resetter /\ resets' = resets
    BY <1>2, <1>3 DEF Next, UpdateExisting, MissWindow, WriterStep, CheckCap, ScanShard,
       EndScan, SpareVictim, EvictVictim, UncountEvicted, InsertWindow,
       CountInserted, UpdateAfterMiss, PruneBegin, PrunerStep, PruneLock,
       PruneWindow, UncountPruned, PruneUnlock, PruneEnd, TakePruned,
       Finished, vars
  <1>4. resets = 0
    BY <1>3 DEF ResetShard, ResetCounter
  <1>5. resetter.pc = "idle" /\ Balance = 0
    BY <1>4 DEF CapInv, InvExact
  <1>6. ~ResetShard /\ ~ResetCounter
    BY <1>5 DEF ResetShard, ResetCounter
  <1>7. Balance' = Balance
    BY <1>6, NextLock DEF CapInv
  <1> QED
    BY <1>3, <1>4, <1>5, <1>6, <1>7

\* Every step keeps the cap's invariant.
LEMMA NextCap == CapInv /\ [Next]_vars => CapInv'
  <1> SUFFICES ASSUME CapInv, [Next]_vars PROVE CapInv'
    OBVIOUS
  <1>0. LockInv /\ TypeOK
    BY DEF CapInv, LockInv
  <1>1. LockInv' /\ InvExact'
    BY <1>0, NextLock, NextExact
  <1>2. ASSUME resets' = 0 PROVE \A S \in SUBSET (Blind') : CapOf(S)'
    <2>0. resets = 0 /\ ~ResetShard /\ ~ResetCounter
      BY <1>2, NextExact
    <2>1. ASSUME NEW w \in Writers, CheckCap(w)
          PROVE  \A S \in SUBSET (Blind') : CapOf(S)'
      <3>1. active < MaxWindows \/ active >= MaxWindows
        BY <1>0 DEF TypeOK
      <3> QED
        BY <2>0, <2>1, <3>1, CapPass, CapScan
    <2>2. ASSUME NEW w \in Writers, ScanShard(w)
          PROVE  \A S \in SUBSET (Blind') : CapOf(S)'
      BY <2>0, <2>2, CapShard
    <2>3. ASSUME NEW w \in Writers, EndScan(w), ~writer[w].found
          PROVE  \A S \in SUBSET (Blind') : CapOf(S)'
      <3>1. writer[w].found = FALSE
        BY <1>0, <2>3, WriterFields DEF EndScan
      <3> QED
        BY <2>0, <2>3, <3>1, CapBlind
    <2>4. ASSUME NEW w \in Writers, InsertWindow(w)
          PROVE  \A S \in SUBSET (Blind') : CapOf(S)'
      <3>1. \A S \in SUBSET Blind : CapOf(S)
        BY <2>0 DEF CapInv, InvCap
      <3>2. \A S \in SUBSET Blind : CapOf(S)' /\ Blind' = Blind
        BY <1>0, <2>4, <3>1, CapInsert
      <3> QED
        BY <3>2
    <2>5. ASSUME /\ Resident' \subseteq Resident
                 /\ \A v \in Writers : \/ writer'[v] = writer[v]
                                       \/ writer'[v].pc \notin {"scan", "insert"}
          PROVE  \A S \in SUBSET (Blind') : CapOf(S)'
      BY <2>0, <2>5, CapRest
    <2>6. ASSUME NEW w \in Writers,
                 \/ EndScan(w) /\ writer[w].found
                 \/ SpareVictim(w) \/ EvictVictim(w) \/ UncountEvicted(w)
                 \/ CountInserted(w) \/ UpdateAfterMiss(w)
                 \/ \E id \in Ids : UpdateExisting(w, id) \/ MissWindow(w, id)
          PROVE  \A S \in SUBSET (Blind') : CapOf(S)'
      BY <1>0, <2>5, <2>6, RestMoves
    <2>7. ASSUME \/ PruneBegin \/ PrunerStep \/ TakePruned \/ ResetBegin
                 \/ Finished \/ UNCHANGED vars
          PROVE  \A S \in SUBSET (Blind') : CapOf(S)'
      BY <1>0, <2>5, <2>7, OtherMoves
    <2> QED
      BY <2>0, <2>1, <2>2, <2>3, <2>4, <2>6, <2>7 DEF Next, WriterStep
  <1> QED
    BY <1>1, <1>2 DEF CapInv, InvCap

\* Until a reset runs the store exceeds its cap by at most one window for each
\* writer but one, whatever the writers, the pruner and the touched victims do
\* between the reading of the counter, the scan, the eviction and the
\* insertion: a scan that finds nothing never opens the cap further.
THEOREM CapIsSoft == Spec => []SoftCap
  <1>1. Init => CapInv
    <2> SUFFICES ASSUME Init PROVE CapInv
      OBVIOUS
    <2>1. /\ Resident = {} /\ \A p : p /= "idle" => At(p) = {}
          /\ Blind = {} /\ active = 0 /\ resetter.pc = "idle"
      BY DEF Init, Resident, At, Blind, WriterIdle
    <2>2. LockInv /\ Cardinality({}) = 0
      BY InitLock, FS_EmptySet
    <2>3. Uncounted = 0
      <3>1. Uncounted = Cardinality(At("uncount"))
                          + (IF pruner.pc = "uncount" THEN 1 ELSE 0)
        BY <2>2, BalanceParts DEF LockInv
      <3> QED
        BY <2>1, <2>2, <3>1 DEF Init
    <2>4. Balance = 0
      <3>1. Cardinality(At("count")) = 0 /\ Cardinality(Resident) = 0 /\ active = 0
        BY <2>1, <2>2
      <3> QED
        BY <2>3, <3>1 DEF Balance
    <2>5. CapOf({})
      <3>1. Missed({}) = {}
        BY <2>1 DEF Missed
      <3>2. Cardinality(Writers) \in Nat
        BY FS_CardinalityType
      <3> QED
        BY <2>1, <2>2, <3>1, <3>2 DEF CapOf
    <2> QED
      BY <2>1, <2>2, <2>4, <2>5 DEF CapInv, InvExact, InvCap
  <1>2. CapInv => SoftCap
    <2> SUFFICES ASSUME CapInv, resets = 0
                 PROVE  Cardinality(Resident) <= MaxWindows + Cardinality(Writers) - 1
      BY DEF SoftCap
    <2>1. CapOf({})
      BY DEF CapInv, InvCap
    <2>2. Missed({}) = Resident
      BY DEF Missed
    <2>3. /\ Cardinality(Resident) \in Nat /\ Cardinality(Writers) \in Nat
          /\ Cardinality(At("insert")) \in Nat /\ Cardinality({}) = 0
      BY AtFinite, FS_CardinalityType, FS_EmptySet DEF CapInv, LockInv
    <2> QED
      BY <2>1, <2>2, <2>3 DEF CapOf
  <1> QED
    BY NextCap, <1>1, <1>2, PTL DEF Spec
=============================================================================
