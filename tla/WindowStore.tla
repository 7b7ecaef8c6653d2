---------------------------- MODULE WindowStore ----------------------------
(***************************************************************************)
(* The sharded in-memory window store (internal/window/store.go): a map    *)
(* per shard behind its own lock, one lock-free counter of resident        *)
(* windows, a soft cap enforced by evicting the least recently touched     *)
(* window, the idle pruner and the demo reset.                             *)
(*                                                                         *)
(* A critical section is one step, unless it changes the counter: the map  *)
(* and the counter are then two steps with the shard's lock held between   *)
(* them, since Reset stores the counter without a lock. Reads (Snapshot,   *)
(* ScanIdle, SnapshotAll, Active) change nothing and are left out.         *)
(***************************************************************************)
EXTENDS Integers, FiniteSets

CONSTANTS
  Ids,          \* anonymous user ids
  NShards,      \* number of shards (16 in the code)
  ShardOf,      \* ShardOf[id]: the shard owning id (the code hashes with fnv)
  MaxWindows,   \* the cap
  Writers,      \* goroutines calling Update (the service has runPipeline)
  PrunedCap,    \* capacity of prunedCh (256 in the code)
  MaxUpdates,   \* bound on the number of updates
  MaxPrunes,    \* bound on the number of pruner passes
  MaxResets     \* bound on the number of resets

Shards == 1 .. NShards

ASSUME WindowStoreAssumption ==
  /\ NShards \in Nat \ {0}
  /\ ShardOf \in [Ids -> 1 .. NShards]
  /\ MaxWindows \in Nat \ {0}
  /\ PrunedCap \in Nat \ {0}
  /\ MaxUpdates \in Nat
  /\ MaxPrunes \in Nat
  /\ MaxResets \in Nat
  /\ IsFiniteSet(Writers)
  /\ Writers \cap {"pruner", "free"} = {}

VARIABLES
  touched,      \* lastTouched of every resident window, 0 for no window
  now,          \* stamps handed out so far; every touch has a later one
  active,       \* the counter
  lock,         \* lock[i]: holder of shard i's lock between steps
  writer,       \* the goroutines inside WithWindow
  pruner,       \* the pruner goroutine
  resetter,     \* the demo-reset handler inside Reset
  prunedCh,     \* notifications waiting in prunedCh
  updates,      \* updates, prunes and resets begun so far
  prunes,
  resets

vars == <<touched, now, active, lock, writer, pruner, resetter, prunedCh,
          updates, prunes, resets>>

Resident == {id \in Ids : touched[id] > 0}

Free(i) == lock[i] = "free"

Touch(id) ==
  /\ now' = now + 1
  /\ touched' = [touched EXCEPT ![id] = now + 1]

\* A send that ignores the channel's capacity.
NotifyPrunedUnbounded == prunedCh' = prunedCh + 1

\* A non-blocking send: a full channel loses the notification.
NotifyPruned ==
  prunedCh' = IF prunedCh < PrunedCap THEN prunedCh + 1 ELSE prunedCh

WriterIdle == [pc |-> "idle"]

\* WithWindow has missed the window and is at stage pc.
Busy(pc, id) ==
  [pc |-> pc, id |-> id, pos |-> 0, found |-> FALSE, victim |-> id,
   oldest |-> 0, start |-> 0]

Goto(w, pc) == writer' = [writer EXCEPT ![w].pc = pc]

-----------------------------------------------------------------------------
Init ==
  /\ touched = [id \in Ids |-> 0]
  /\ now = 0
  /\ active = 0
  /\ lock = [i \in Shards |-> "free"]
  /\ writer = [w \in Writers |-> WriterIdle]
  /\ pruner = [pc |-> "idle", pos |-> 0]
  /\ resetter = [pc |-> "idle", pos |-> 0]
  /\ prunedCh = 0
  /\ updates = 0
  /\ prunes = 0
  /\ resets = 0

-----------------------------------------------------------------------------
(***************************************************************************)
(* WithWindow and evictGlobalOldest.                                       *)
(***************************************************************************)

\* The window exists: fn runs on it under the shard's lock.
UpdateExisting(w, id) ==
  /\ writer[w].pc = "idle"
  /\ updates < MaxUpdates
  /\ Free(ShardOf[id])
  /\ id \in Resident
  /\ Touch(id)
  /\ updates' = updates + 1
  /\ UNCHANGED <<active, lock, writer, pruner, resetter, prunedCh, prunes, resets>>

\* No window: the lock is given up before the cap is looked at.
MissWindow(w, id) ==
  /\ writer[w].pc = "idle"
  /\ updates < MaxUpdates
  /\ Free(ShardOf[id])
  /\ id \notin Resident
  /\ writer' = [writer EXCEPT ![w] = Busy("cap", id)]
  /\ updates' = updates + 1
  /\ UNCHANGED <<touched, now, active, lock, pruner, resetter, prunedCh, prunes, resets>>

\* A cap check that is off by one.
CheckCapLate(w) ==
  /\ writer[w].pc = "cap"
  /\ writer' = [writer EXCEPT ![w] =
       IF active > MaxWindows
       THEN [Busy("scan", writer[w].id) EXCEPT !.pos = 1, !.start = now]
       ELSE Busy("insert", writer[w].id)]
  /\ UNCHANGED <<touched, now, active, lock, pruner, resetter, prunedCh,
                 updates, prunes, resets>>

\* The head of the eviction loop: read the counter, without a lock.
CheckCap(w) ==
  /\ writer[w].pc = "cap"
  /\ writer' = [writer EXCEPT ![w] =
       IF active >= MaxWindows
       THEN [Busy("scan", writer[w].id) EXCEPT !.pos = 1, !.start = now]
       ELSE Busy("insert", writer[w].id)]
  /\ UNCHANGED <<touched, now, active, lock, pruner, resetter, prunedCh,
                 updates, prunes, resets>>

\* A scan that forgets, at each shard, the victim it has.
OlderInShard(w, i) == {id \in Resident : ShardOf[id] = i}

\* The windows of shard i that the scan prefers to the victim it has.
Older(w, i) ==
  {id \in Resident : /\ ShardOf[id] = i
                     /\ writer[w].found => touched[id] < writer[w].oldest}

\* One shard of the scan, under its read lock.
ScanShard(w) ==
  LET s == writer[w] IN
  /\ s.pc = "scan"
  /\ s.pos <= NShards
  /\ Free(s.pos)
  /\ \/ /\ Older(w, s.pos) = {}
        /\ writer' = [writer EXCEPT ![w].pos = s.pos + 1]
     \/ \E v \in Older(w, s.pos) :
          /\ \A id \in Older(w, s.pos) : touched[v] <= touched[id]
          /\ writer' = [writer EXCEPT ![w].pos = s.pos + 1, ![w].found = TRUE,
                                      ![w].victim = v, ![w].oldest = touched[v]]
  /\ UNCHANGED <<touched, now, active, lock, pruner, resetter, prunedCh,
                 updates, prunes, resets>>

\* The scan is over. Without a victim the loop ends and the window goes in.
EndScan(w) ==
  /\ writer[w].pc = "scan"
  /\ writer[w].pos > NShards
  /\ Goto(w, IF writer[w].found THEN "evict" ELSE "insert")
  /\ UNCHANGED <<touched, now, active, lock, pruner, resetter, prunedCh,
                 updates, prunes, resets>>

\* A victim that is gone is tried for again, without a new scan.
SpareVictimStuck(w) ==
  LET v == writer[w].victim IN
  /\ writer[w].pc = "evict"
  /\ Free(ShardOf[v])
  /\ v \notin Resident \/ touched[v] > writer[w].oldest
  /\ Goto(w, IF v \notin Resident THEN "evict" ELSE "cap")
  /\ UNCHANGED <<touched, now, active, lock, pruner, resetter, prunedCh,
                 updates, prunes, resets>>

\* The victim is gone, or was touched after the scan: back to the cap.
SpareVictim(w) ==
  LET v == writer[w].victim IN
  /\ writer[w].pc = "evict"
  /\ Free(ShardOf[v])
  /\ v \notin Resident \/ touched[v] > writer[w].oldest
  /\ Goto(w, "cap")
  /\ UNCHANGED <<touched, now, active, lock, pruner, resetter, prunedCh,
                 updates, prunes, resets>>

\* The victim goes, unless it was touched since the scan saw it.
EvictVictim(w) ==
  LET v == writer[w].victim IN
  /\ writer[w].pc = "evict"
  /\ Free(ShardOf[v])
  /\ v \in Resident
  /\ touched[v] <= writer[w].oldest
  /\ touched' = [touched EXCEPT ![v] = 0]
  /\ lock' = [lock EXCEPT ![ShardOf[v]] = w]
  /\ Goto(w, "uncount")
  /\ UNCHANGED <<now, active, pruner, resetter, prunedCh, updates, prunes, resets>>

UncountEvicted(w) ==
  /\ writer[w].pc = "uncount"
  /\ active' = active - 1
  /\ NotifyPruned
  /\ lock' = [lock EXCEPT ![ShardOf[writer[w].victim]] = "free"]
  /\ Goto(w, "cap")
  /\ UNCHANGED <<touched, now, pruner, resetter, updates, prunes, resets>>

\* An insertion that does not look for the window again.
InsertWindowBlind(w) ==
  LET id == writer[w].id IN
  /\ writer[w].pc = "insert"
  /\ Free(ShardOf[id])
  /\ Touch(id)
  /\ lock' = [lock EXCEPT ![ShardOf[id]] = w]
  /\ Goto(w, "count")
  /\ UNCHANGED <<active, pruner, resetter, prunedCh, updates, prunes, resets>>

InsertWindow(w) ==
  LET id == writer[w].id IN
  /\ writer[w].pc = "insert"
  /\ Free(ShardOf[id])
  /\ id \notin Resident
  /\ Touch(id)
  /\ lock' = [lock EXCEPT ![ShardOf[id]] = w]
  /\ Goto(w, "count")
  /\ UNCHANGED <<active, pruner, resetter, prunedCh, updates, prunes, resets>>

CountInserted(w) ==
  /\ writer[w].pc = "count"
  /\ active' = active + 1
  /\ lock' = [lock EXCEPT ![ShardOf[writer[w].id]] = "free"]
  /\ writer' = [writer EXCEPT ![w] = WriterIdle]
  /\ UNCHANGED <<touched, now, pruner, resetter, prunedCh, updates, prunes, resets>>

\* Another goroutine created the window meanwhile: fn runs on that one.
UpdateAfterMiss(w) ==
  LET id == writer[w].id IN
  /\ writer[w].pc = "insert"
  /\ Free(ShardOf[id])
  /\ id \in Resident
  /\ Touch(id)
  /\ writer' = [writer EXCEPT ![w] = WriterIdle]
  /\ UNCHANGED <<active, lock, pruner, resetter, prunedCh, updates, prunes, resets>>

-----------------------------------------------------------------------------
(***************************************************************************)
(* Prune. LastSeen, the time it compares with the cutoff, is not modelled: *)
(* any resident window may be stale.                                       *)
(***************************************************************************)
PruneBegin ==
  /\ pruner.pc = "idle"
  /\ prunes < MaxPrunes
  /\ pruner' = [pc |-> "next", pos |-> 1]
  /\ prunes' = prunes + 1
  /\ UNCHANGED <<touched, now, active, lock, writer, resetter, prunedCh,
                 updates, resets>>

PruneLock ==
  /\ pruner.pc = "next"
  /\ pruner.pos <= NShards
  /\ Free(pruner.pos)
  /\ lock' = [lock EXCEPT ![pruner.pos] = "pruner"]
  /\ pruner' = [pruner EXCEPT !.pc = "held"]
  /\ UNCHANGED <<touched, now, active, writer, resetter, prunedCh, updates,
                 prunes, resets>>

PruneWindow(id) ==
  /\ pruner.pc = "held"
  /\ id \in Resident
  /\ ShardOf[id] = pruner.pos
  /\ touched' = [touched EXCEPT ![id] = 0]
  /\ pruner' = [pruner EXCEPT !.pc = "uncount"]
  /\ UNCHANGED <<now, active, lock, writer, resetter, prunedCh, updates,
                 prunes, resets>>

UncountPruned ==
  /\ pruner.pc = "uncount"
  /\ active' = active - 1
  /\ NotifyPruned
  /\ pruner' = [pruner EXCEPT !.pc = "held"]
  /\ UNCHANGED <<touched, now, lock, writer, resetter, updates, prunes, resets>>

PruneUnlock ==
  /\ pruner.pc = "held"
  /\ lock' = [lock EXCEPT ![pruner.pos] = "free"]
  /\ pruner' = [pc |-> "next", pos |-> pruner.pos + 1]
  /\ UNCHANGED <<touched, now, active, writer, resetter, prunedCh, updates,
                 prunes, resets>>

PruneEnd ==
  /\ pruner.pc = "next"
  /\ pruner.pos > NShards
  /\ pruner' = [pc |-> "idle", pos |-> 0]
  /\ UNCHANGED <<touched, now, active, lock, writer, resetter, prunedCh,
                 updates, prunes, resets>>

\* fanoutPrunes takes a notification.
TakePruned ==
  /\ prunedCh > 0
  /\ prunedCh' = prunedCh - 1
  /\ UNCHANGED <<touched, now, active, lock, writer, pruner, resetter,
                 updates, prunes, resets>>

-----------------------------------------------------------------------------
(***************************************************************************)
(* Reset: every shard in turn, then the counter, with no lock held.        *)
(***************************************************************************)
ResetBegin ==
  /\ resetter.pc = "idle"
  /\ resets < MaxResets
  /\ resetter' = [pc |-> "shard", pos |-> 1]
  /\ resets' = resets + 1
  /\ UNCHANGED <<touched, now, active, lock, writer, pruner, prunedCh,
                 updates, prunes>>

ResetShard ==
  /\ resetter.pc = "shard"
  /\ resetter.pos <= NShards
  /\ Free(resetter.pos)
  /\ touched' = [id \in Ids |-> IF ShardOf[id] = resetter.pos THEN 0 ELSE touched[id]]
  /\ resetter' = [resetter EXCEPT !.pos = @ + 1]
  /\ UNCHANGED <<now, active, lock, writer, pruner, prunedCh, updates, prunes,
                 resets>>

ResetCounter ==
  /\ resetter.pc = "shard"
  /\ resetter.pos > NShards
  /\ active' = 0
  /\ resetter' = [pc |-> "idle", pos |-> 0]
  /\ UNCHANGED <<touched, now, lock, writer, pruner, prunedCh, updates, prunes,
                 resets>>

\* Every bound is used up and nothing is under way.
Finished ==
  /\ updates = MaxUpdates
  /\ \A w \in Writers : writer[w].pc = "idle"
  /\ pruner.pc = "idle"
  /\ resetter.pc = "idle"
  /\ UNCHANGED vars

-----------------------------------------------------------------------------
WriterStep(w) ==
  \/ CheckCap(w)
  \/ ScanShard(w)
  \/ EndScan(w)
  \/ SpareVictim(w)
  \/ EvictVictim(w)
  \/ UncountEvicted(w)
  \/ InsertWindow(w)
  \/ CountInserted(w)
  \/ UpdateAfterMiss(w)

PrunerStep ==
  \/ PruneLock
  \/ \E id \in Ids : PruneWindow(id)
  \/ UncountPruned
  \/ PruneUnlock
  \/ PruneEnd

Next ==
  \/ \E w \in Writers, id \in Ids : UpdateExisting(w, id) \/ MissWindow(w, id)
  \/ \E w \in Writers : WriterStep(w)
  \/ PruneBegin
  \/ PrunerStep
  \/ TakePruned
  \/ ResetBegin
  \/ ResetShard
  \/ ResetCounter
  \/ Finished

(***************************************************************************)
(* A goroutine inside a store call that can go on does. Weak fairness is   *)
(* enough: every holder of a shard lock releases it by steps of its own.   *)
(***************************************************************************)
Fairness ==
  /\ \A w \in Writers : WF_vars(WriterStep(w))
  /\ WF_vars(PrunerStep)

Spec == Init /\ [][Next]_vars /\ Fairness

-----------------------------------------------------------------------------
(***************************************************************************)
(* Properties.                                                             *)
(***************************************************************************)
BusyWriter ==
  [pc: {"cap", "scan", "evict", "uncount", "insert", "count"}, id: Ids,
   pos: Nat, found: BOOLEAN, victim: Ids, oldest: Nat, start: Nat]

\* Every variable has its type.
TypeOK ==
  /\ touched \in [Ids -> Nat]
  /\ now \in Nat
  /\ active \in Int
  /\ lock \in [Shards -> Writers \cup {"pruner", "free"}]
  /\ writer \in [Writers -> BusyWriter \cup {WriterIdle}]
  /\ pruner \in [pc: {"idle", "next", "held", "uncount"}, pos: Nat]
  /\ resetter \in [pc: {"idle", "shard"}, pos: Nat]
  /\ prunedCh \in 0 .. PrunedCap
  /\ updates \in Nat
  /\ prunes \in Nat
  /\ resets \in Nat

\* Windows deleted from a shard and still counted.
Uncounted ==
  Cardinality({w \in Writers : writer[w].pc = "uncount"})
    + (IF pruner.pc = "uncount" THEN 1 ELSE 0)

\* Outside a reset the counter never claims a window that is not there, so
\* the cap never evicts on behalf of windows that are gone (store.go active,
\* WithWindow, Prune, evictGlobalOldest).
ActiveNotAbove ==
  resetter.pc = "idle" => active <= Cardinality(Resident) + Uncounted

\* The cap is soft by one window per further writer and no more, as long as
\* no reset has run: a victim that vanished or was touched sends the writer
\* back to the counter (WithWindow's loop, evictGlobalOldest's returns).
SoftCap ==
  resets = 0 =>
    Cardinality(Resident) <= MaxWindows + Cardinality(Writers) - 1

\* A window in use is never evicted in place of an idle one: no window that
\* has been left alone since the scan began is older than the victim, even
\* though the scan never holds two locks (evictGlobalOldest).
EvictsOldest ==
  [][\A w \in Writers :
       EvictVictim(w) =>
         \A id \in Resident :
           touched[id] <= writer[w].start =>
             touched[writer[w].victim] <= touched[id]]_vars

\* An update always completes, whatever is pruned, reset or touched while it
\* looks for a victim (WithWindow's loop ends).
UpdateCompletes ==
  \A w \in Writers : (writer[w].pc /= "idle") ~> (writer[w].pc = "idle")
=============================================================================
