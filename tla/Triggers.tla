------------------------------ MODULE Triggers ------------------------------
(***************************************************************************)
(* The trigger path of the service: the rule evaluators and the in-memory  *)
(* cooldown gate (internal/rules/engine.go), the bounded match channel and *)
(* its worker pool (runtime_pipeline.go), fireMatch with its Postgres      *)
(* cooldown row (runtime_dispatch.go), the demo reset (handlers_demo.go,   *)
(* runtime.go) and the loss of all process memory at a restart.            *)
(*                                                                         *)
(* Two goroutines evaluate rules: runPipeline after every event, with all  *)
(* rules, and runIdleTicker every second, with the time-dependent ones.    *)
(* The gate's Allow and Mark lock separately, so they are separate steps.  *)
(* Whether a rule's When-tree holds is left open: any rule may match.      *)
(***************************************************************************)
EXTENDS Integers, Sequences, FiniteSets

CONSTANTS
  Anons,        \* anonymous user ids
  Rules,        \* enabled rules, by name
  TimeRules,    \* rules whose When-tree UsesTime (window.idle_seconds)
  Personas,     \* the personas evaluateAndDispatchSnap probes, in order
  Scope,        \* Scope[r]: the personas rule r applies to
  Cooldown,     \* Cooldown[r]: its cooldown in clock units, 0 for none
  Workers,      \* the dispatch workers (4 in the code)
  MatchChCap,   \* capacity of matchCh (64 in the code)
  MaxTime,      \* bound on the clock
  MaxEvals,     \* bound on the number of evaluated snapshots
  MaxMatches,   \* bound on the number of matches
  MaxFaults,    \* bound on the number of failed Postgres and LLM calls
  MaxResets,    \* bound on the number of demo resets
  MaxRestarts   \* bound on the number of process restarts

ASSUME TriggersAssumption ==
  /\ TimeRules \subseteq Rules
  /\ Personas \in Seq(STRING)
  /\ Len(Personas) \in Nat \ {0}
  /\ Scope \in [Rules -> SUBSET STRING]
  /\ Cooldown \in [Rules -> Nat]
  /\ IsFiniteSet(Workers)
  /\ MatchChCap \in Nat \ {0}
  /\ MaxTime \in Nat
  /\ MaxEvals \in Nat
  /\ MaxMatches \in Nat
  /\ MaxFaults \in Nat
  /\ MaxResets \in Nat
  /\ MaxRestarts \in Nat

VARIABLES
  clock,        \* wall clock, shared by the process and Postgres
  windows,      \* users with a resident window
  gate,         \* MemoryCooldownGate.state: deadline per key, 0 when absent
  eval,         \* the two evaluator goroutines
  matchCh,      \* the channel of matches waiting for a worker
  worker,       \* the worker goroutines, each inside fireMatch or idle
  cooldowns,    \* Postgres table cooldowns: a set of rows, one per key
  triggers,     \* Postgres table triggers: ids of the matches with a row
  resetPc,      \* progress of the demo-reset handler
  \* history
  emitted,      \* every match the engine ever returned
  outcome,      \* how matches ended, ids per outcome
  evals,        \* snapshots evaluated so far
  faults,       \* calls that failed so far
  epoch,        \* demo resets so far, counted at the database commit
  gateEpoch,    \* times the in-memory gate was emptied
  gen,          \* process restarts so far
  cleanReset    \* the last reset began with no match under way

memoryVars == <<windows, gate, eval, matchCh, worker, resetPc>>
pgVars     == <<cooldowns, triggers>>
counters   == <<evals, faults, epoch, gateEpoch, gen, cleanReset>>
otherCounters == <<evals, epoch, gateEpoch, gen, cleanReset>>
vars == <<clock, memoryVars, pgVars, emitted, outcome, counters>>

Evaluators == {"event", "tick"}
Keys       == Anons \X Rules
Outcomes   == {"fired", "suppressed", "failed", "dropped", "lost"}

Match == [id: Nat, anon: Anons, rule: Rules, firedAt: Nat,
          gateEpoch: Nat, epoch: Nat]

KeyOf(m)    == <<m.anon, m.rule>>
CooldownRow == [key: Keys, at: Nat, expires: Nat, gen: Nat, epoch: Nat]

EvalIdle   == [pc |-> "idle"]
WorkerIdle == [pc |-> "idle"]

(***************************************************************************)
(* Where matches are.                                                      *)
(***************************************************************************)
Elements(s) == {s[i] : i \in DOMAIN s}

Resolved == UNION {outcome[o] : o \in Outcomes}
Pending  == {m \in emitted : m.id \notin Resolved}

Resolve(o, ids) == outcome' = [outcome EXCEPT ![o] = @ \cup ids]

Quiescent ==
  /\ Pending = {}
  /\ \A e \in Evaluators : eval[e].pc = "idle"

-----------------------------------------------------------------------------
Init ==
  /\ clock = 0
  /\ windows = {}
  /\ gate = [k \in Keys |-> 0]
  /\ eval = [e \in Evaluators |-> EvalIdle]
  /\ matchCh = <<>>
  /\ worker = [w \in Workers |-> WorkerIdle]
  /\ cooldowns = {}
  /\ triggers = {}
  /\ resetPc = "idle"
  /\ emitted = {}
  /\ outcome = [o \in Outcomes |-> {}]
  /\ evals = 0
  /\ faults = 0
  /\ epoch = 0
  /\ gateEpoch = 0
  /\ gen = 0
  /\ cleanReset = TRUE

Tick ==
  /\ clock < MaxTime
  /\ clock' = clock + 1
  /\ UNCHANGED <<memoryVars, pgVars, emitted, outcome, counters>>

-----------------------------------------------------------------------------
(***************************************************************************)
(* Rule evaluation.                                                        *)
(***************************************************************************)

\* The rules evaluate considers for a persona: the ones in scope, and only
\* the time-dependent ones on a tick.
CandidatesUnfiltered(e, p) == {r \in Rules : Personas[p] \in Scope[r]}

Candidates(e, p) ==
  {r \in Rules : /\ Personas[p] \in Scope[r]
                 /\ e = "tick" => r \in TimeRules}

\* Start evaluating a snapshot. The pipeline has just updated the user's
\* window, creating it if needed; the ticker found the window in its scan.
\* `now` is read once for all rules and personas.
StartEval(e, a) ==
  /\ eval[e].pc = "idle"
  /\ evals < MaxEvals
  /\ e = "tick" => a \in windows
  /\ windows' = windows \cup {a}
  /\ eval' = [eval EXCEPT ![e] = [pc |-> "rules", anon |-> a, now |-> clock,
                persona |-> 1, todo |-> Candidates(e, 1), allowed |-> {},
                out |-> <<>>]]
  /\ evals' = evals + 1
  /\ UNCHANGED <<clock, gate, matchCh, worker, resetPc, pgVars, emitted,
                 outcome, faults, epoch, gateEpoch, gen, cleanReset>>

\* MemoryCooldownGate.Allow: denied only before the stored deadline.
Allow(a, r, now) == ~(now < gate[<<a, r>>])

\* The evaluator is at the head of its rule loop.
BetweenRules(e) == eval[e].pc = "rules" /\ eval[e].allowed = {}

\* A rule's When-tree is false, or the gate denies it.
SkipRule(e, r) ==
  /\ BetweenRules(e)
  /\ r \in eval[e].todo
  /\ eval' = [eval EXCEPT ![e].todo = @ \ {r}]
  /\ UNCHANGED <<clock, windows, gate, matchCh, worker, resetPc, pgVars,
                 emitted, outcome, counters>>

\* Rules past Allow and not yet marked.
Marking ==
  Cardinality({e \in Evaluators : eval[e].pc = "rules" /\ eval[e].allowed /= {}})

\* A rule's When-tree is true and the gate lets it pass.
AllowRule(e, r) ==
  /\ BetweenRules(e)
  /\ r \in eval[e].todo
  /\ Allow(eval[e].anon, r, eval[e].now)
  /\ Cardinality(emitted) + Marking < MaxMatches
  /\ eval' = [eval EXCEPT ![e].todo = @ \ {r}, ![e].allowed = {r}]
  /\ UNCHANGED <<clock, windows, gate, matchCh, worker, resetPc, pgVars,
                 emitted, outcome, counters>>

\* MemoryCooldownGate.Mark: a no-op without a cooldown, else the deadline
\* replaces whatever was stored.
Mark(a, r, now) ==
  gate' = IF Cooldown[r] > 0 THEN [gate EXCEPT ![<<a, r>>] = now + Cooldown[r]]
                             ELSE gate

NewMatch(e, r) ==
  [id |-> Cardinality(emitted), anon |-> eval[e].anon, rule |-> r,
   firedAt |-> eval[e].now, gateEpoch |-> gateEpoch, epoch |-> epoch]

\* evaluate marks the gate and appends the match to its result.
MarkRule(e, r) ==
  /\ eval[e].pc = "rules"
  /\ r \in eval[e].allowed
  /\ Mark(eval[e].anon, r, eval[e].now)
  /\ emitted' = emitted \cup {NewMatch(e, r)}
  /\ eval' = [eval EXCEPT ![e].allowed = {},
                          ![e].out = Append(@, NewMatch(e, r))]
  /\ UNCHANGED <<clock, windows, matchCh, worker, resetPc, pgVars, outcome,
                 counters>>

EvalDone(e) == BetweenRules(e) /\ eval[e].todo = {}

\* A send that ignores the channel's capacity.
SendMatchUnbounded(e) ==
  /\ EvalDone(e)
  /\ eval[e].out /= <<>>
  /\ matchCh' = Append(matchCh, Head(eval[e].out))
  /\ eval' = [eval EXCEPT ![e].out = Tail(@)]
  /\ UNCHANGED <<clock, windows, gate, worker, resetPc, pgVars, emitted,
                 outcome, counters>>

\* evaluateAndDispatchSnap hands the persona's matches over, never waiting.
SendMatch(e) ==
  /\ EvalDone(e)
  /\ eval[e].out /= <<>>
  /\ Len(matchCh) < MatchChCap
  /\ matchCh' = Append(matchCh, Head(eval[e].out))
  /\ eval' = [eval EXCEPT ![e].out = Tail(@)]
  /\ UNCHANGED <<clock, windows, gate, worker, resetPc, pgVars, emitted,
                 outcome, counters>>

\* The channel is full: the match is gone, and its gate entry stays.
DropMatch(e) ==
  /\ EvalDone(e)
  /\ eval[e].out /= <<>>
  /\ Len(matchCh) >= MatchChCap
  /\ Resolve("dropped", {Head(eval[e].out).id})
  /\ eval' = [eval EXCEPT ![e].out = Tail(@)]
  /\ UNCHANGED <<clock, windows, gate, matchCh, worker, resetPc, pgVars,
                 emitted, counters>>

\* Go on with the next persona.
NextPersona(e) ==
  /\ EvalDone(e)
  /\ eval[e].out = <<>>
  /\ eval[e].persona < Len(Personas)
  /\ eval' = [eval EXCEPT ![e].persona = @ + 1,
                          ![e].todo = Candidates(e, eval[e].persona + 1)]
  /\ UNCHANGED <<clock, windows, gate, matchCh, worker, resetPc, pgVars,
                 emitted, outcome, counters>>

\* All personas are done: the evaluator waits for another snapshot.
EndEval(e) ==
  /\ EvalDone(e)
  /\ eval[e].out = <<>>
  /\ eval[e].persona >= Len(Personas)
  /\ eval' = [eval EXCEPT ![e] = EvalIdle]
  /\ UNCHANGED <<clock, windows, gate, matchCh, worker, resetPc, pgVars,
                 emitted, outcome, counters>>

-----------------------------------------------------------------------------
(***************************************************************************)
(* The worker pool and fireMatch. Every Postgres, LLM and dispatch call    *)
(* may fail; its context times out, so each one returns.                   *)
(***************************************************************************)
Holds(w, pc) == worker[w].pc = pc

\* One more call fails.
Fault == faults < MaxFaults /\ faults' = faults + 1

\* fireMatch goes on to another stage.
Advance(w, pc) == worker' = [worker EXCEPT ![w].pc = pc]

\* fireMatch returns.
Return(w, o) ==
  /\ worker' = [worker EXCEPT ![w] = WorkerIdle]
  /\ Resolve(o, {worker[w].m.id})

\* A worker that reads the head of the queue without removing it.
TakeMatchKeeping(w) ==
  /\ Holds(w, "idle")
  /\ matchCh /= <<>>
  /\ worker' = [worker EXCEPT ![w] = [pc |-> "check", m |-> Head(matchCh),
                                      sure |-> FALSE, at |-> 0]]
  /\ UNCHANGED <<clock, windows, gate, eval, matchCh, resetPc, pgVars,
                 emitted, outcome, counters>>

TakeMatch(w) ==
  /\ Holds(w, "idle")
  /\ matchCh /= <<>>
  /\ worker' = [worker EXCEPT ![w] = [pc |-> "check", m |-> Head(matchCh),
                                      sure |-> FALSE, at |-> 0]]
  /\ matchCh' = Tail(matchCh)
  /\ UNCHANGED <<clock, windows, gate, eval, resetPc, pgVars, emitted,
                 outcome, counters>>

\* IsCooledDown: is there a row that has not expired?
IsCooledDown(k) == \E row \in cooldowns : row.key = k /\ row.expires > clock

SuppressMatch(w) ==
  /\ Holds(w, "check")
  /\ IsCooledDown(KeyOf(worker[w].m))
  /\ Return(w, "suppressed")
  /\ UNCHANGED <<clock, windows, gate, eval, matchCh, resetPc, pgVars,
                 emitted, counters>>

\* No live row, or a failed query, which counts as no row.
PassCheck(w) ==
  /\ Holds(w, "check")
  /\ ~IsCooledDown(KeyOf(worker[w].m))
  /\ worker' = [worker EXCEPT ![w].pc = "generate", ![w].sure = TRUE]
  /\ UNCHANGED <<clock, windows, gate, eval, matchCh, resetPc, pgVars,
                 emitted, outcome, counters>>

FailCheck(w) ==
  /\ Holds(w, "check")
  /\ Fault
  /\ Advance(w, "generate")
  /\ UNCHANGED <<clock, windows, gate, eval, matchCh, resetPc, pgVars,
                 emitted, outcome, otherCounters>>

\* The LLM answers, the time of the fire is read, and the message goes out.
\* Whether the destination took it only shows in the trigger row's status.
GenerateAndDispatch(w) ==
  /\ Holds(w, "generate")
  /\ worker' = [worker EXCEPT ![w].pc = "insert", ![w].at = clock]
  /\ UNCHANGED <<clock, windows, gate, eval, matchCh, resetPc, pgVars,
                 emitted, outcome, counters>>

\* A worker whose loop ends on an error instead of taking the next match.
FailGenerateExits(w) ==
  /\ Holds(w, "generate")
  /\ Fault
  /\ Advance(w, "exited")
  /\ UNCHANGED <<clock, windows, gate, eval, matchCh, resetPc, pgVars,
                 emitted, outcome, otherCounters>>

\* No LLM answer: fireMatch returns without a trigger row or a cooldown row,
\* and the gate stays marked.
FailGenerate(w) ==
  /\ Holds(w, "generate")
  /\ Fault
  /\ Return(w, "failed")
  /\ UNCHANGED <<clock, windows, gate, eval, matchCh, resetPc, pgVars,
                 emitted, otherCounters>>

\* The trigger row; a failed insert is only logged.
InsertTrigger(w) ==
  /\ Holds(w, "insert")
  /\ Advance(w, "upsert")
  /\ \/ triggers' = triggers \cup {worker[w].m.id} /\ UNCHANGED faults
     \/ Fault /\ UNCHANGED triggers
  /\ UNCHANGED <<clock, windows, gate, eval, matchCh, resetPc, cooldowns,
                 emitted, outcome, otherCounters>>

\* The row the upsert writes: it replaces the key's row, whatever that was.
RowFromFiredAt(w) ==
  [key |-> KeyOf(worker[w].m), at |-> worker[w].at,
   expires |-> worker[w].m.firedAt + Cooldown[worker[w].m.rule],
   gen |-> gen, epoch |-> worker[w].m.epoch]

RowOf(w) ==
  [key |-> KeyOf(worker[w].m), at |-> worker[w].at,
   expires |-> worker[w].at + Cooldown[worker[w].m.rule],
   gen |-> gen, epoch |-> worker[w].m.epoch]

\* The last stage; a failed upsert is ignored. The SSE publishes that follow
\* it in the code change no state of this module.
UpsertCooldown(w) ==
  /\ Holds(w, "upsert")
  /\ Return(w, "fired")
  /\ \/ /\ Cooldown[worker[w].m.rule] > 0
        /\ cooldowns' = {row \in cooldowns : row.key /= KeyOf(worker[w].m)}
                          \cup {RowOf(w)}
        /\ UNCHANGED faults
     \/ /\ Cooldown[worker[w].m.rule] = 0
        /\ UNCHANGED <<cooldowns, faults>>
     \/ /\ Cooldown[worker[w].m.rule] > 0
        /\ Fault
        /\ UNCHANGED cooldowns
  /\ UNCHANGED <<clock, windows, gate, eval, matchCh, resetPc, triggers,
                 emitted, otherCounters>>

-----------------------------------------------------------------------------
(***************************************************************************)
(* Demo reset: one database transaction, then the gate, then the windows.  *)
(* A transaction that fails changes nothing and ends the handler.          *)
(***************************************************************************)

\* A transaction that forgets the cooldowns table.
ResetDatabaseKeeping ==
  /\ resetPc = "idle"
  /\ epoch < MaxResets
  /\ triggers' = {}
  /\ resetPc' = "gate"
  /\ epoch' = epoch + 1
  /\ cleanReset' = Quiescent
  /\ UNCHANGED <<clock, windows, gate, eval, matchCh, worker, cooldowns,
                 emitted, outcome, evals, faults, gateEpoch, gen>>

ResetDatabase ==
  /\ resetPc = "idle"
  /\ epoch < MaxResets
  /\ cooldowns' = {}
  /\ triggers' = {}
  /\ resetPc' = "gate"
  /\ epoch' = epoch + 1
  /\ cleanReset' = Quiescent
  /\ UNCHANGED <<clock, windows, gate, eval, matchCh, worker, emitted,
                 outcome, evals, faults, gateEpoch, gen>>

PurgeCooldowns ==
  /\ resetPc = "gate"
  /\ gate' = [k \in Keys |-> 0]
  /\ gateEpoch' = gateEpoch + 1
  /\ resetPc' = "windows"
  /\ UNCHANGED <<clock, windows, eval, matchCh, worker, pgVars, emitted,
                 outcome, evals, faults, epoch, gen, cleanReset>>

ResetWindows ==
  /\ resetPc = "windows"
  /\ windows' = {}
  /\ resetPc' = "idle"
  /\ UNCHANGED <<clock, gate, eval, matchCh, worker, pgVars, emitted,
                 outcome, counters>>

\* The process dies and comes back: everything but Postgres is lost.
Restart ==
  /\ gen < MaxRestarts
  /\ gen' = gen + 1
  /\ windows' = {}
  /\ gate' = [k \in Keys |-> 0]
  /\ gateEpoch' = gateEpoch + 1
  /\ eval' = [e \in Evaluators |-> EvalIdle]
  /\ matchCh' = <<>>
  /\ worker' = [w \in Workers |-> WorkerIdle]
  /\ resetPc' = "idle"
  /\ Resolve("lost", {m.id : m \in Pending})
  /\ UNCHANGED <<clock, pgVars, emitted, evals, faults, epoch, cleanReset>>

\* Every bound is used up and nothing is under way.
Finished ==
  /\ clock = MaxTime
  /\ evals = MaxEvals
  /\ Quiescent
  /\ resetPc = "idle"
  /\ UNCHANGED vars

-----------------------------------------------------------------------------
EvalStep(e) ==
  \/ \E r \in Rules : SkipRule(e, r) \/ AllowRule(e, r) \/ MarkRule(e, r)
  \/ SendMatch(e)
  \/ DropMatch(e)
  \/ NextPersona(e)
  \/ EndEval(e)

FireStep(w) ==
  \/ SuppressMatch(w)
  \/ PassCheck(w)
  \/ FailCheck(w)
  \/ GenerateAndDispatch(w)
  \/ FailGenerate(w)
  \/ InsertTrigger(w)
  \/ UpsertCooldown(w)

Next ==
  \/ Tick
  \/ \E e \in Evaluators, a \in Anons : StartEval(e, a)
  \/ \E e \in Evaluators : EvalStep(e)
  \/ \E w \in Workers : TakeMatch(w)
  \/ \E w \in Workers : FireStep(w)
  \/ ResetDatabase
  \/ PurgeCooldowns
  \/ ResetWindows
  \/ Restart
  \/ Finished

(***************************************************************************)
(* Goroutines that can take a step do: evaluators finish the snapshot they *)
(* hold, workers leave their loop only at shutdown, and every call inside  *)
(* fireMatch is bounded by its 30s context.                                *)
(***************************************************************************)
Fairness ==
  /\ \A e \in Evaluators : WF_vars(EvalStep(e))
  /\ \A w \in Workers : WF_vars(TakeMatch(w)) /\ WF_vars(FireStep(w))

Spec == Init /\ [][Next]_vars /\ Fairness

-----------------------------------------------------------------------------
(***************************************************************************)
(* Properties.                                                             *)
(***************************************************************************)
BusyEval ==
  [pc: {"rules"}, anon: Anons, now: Nat, persona: Nat, todo: SUBSET Rules,
   allowed: SUBSET Rules, out: Seq(Match)]

BusyWorker ==
  [pc: {"check", "generate", "insert", "upsert"}, m: Match, sure: BOOLEAN,
   at: Nat]

\* Every variable has its type; matchCh never exceeds its capacity.
TypeOK ==
  /\ clock \in Nat
  /\ windows \in SUBSET Anons
  /\ gate \in [Keys -> Nat]
  /\ eval \in [Evaluators -> BusyEval \cup {EvalIdle}]
  /\ matchCh \in Seq(Match)
  /\ Len(matchCh) <= MatchChCap
  /\ worker \in [Workers -> BusyWorker \cup {WorkerIdle}]
  /\ cooldowns \in SUBSET CooldownRow
  /\ triggers \in SUBSET Nat
  /\ resetPc \in {"idle", "gate", "windows"}
  /\ emitted \in SUBSET Match
  /\ outcome \in [Outcomes -> SUBSET Nat]
  /\ evals \in Nat
  /\ faults \in Nat
  /\ epoch \in Nat
  /\ gateEpoch \in Nat
  /\ gen \in Nat
  /\ cleanReset \in BOOLEAN

Apart(m, n) ==
  \/ m.firedAt >= n.firedAt + Cooldown[m.rule]
  \/ n.firedAt >= m.firedAt + Cooldown[m.rule]

SameGate(m, n) ==
  /\ m.id /= n.id
  /\ KeyOf(m) = KeyOf(n)
  /\ m.gateEpoch = n.gateEpoch

\* A rule that does not depend on time matches one user at most once per
\* cooldown while the gate is not emptied: only the pipeline goroutine
\* evaluates such a rule, so its Allow and Mark cannot be interleaved with
\* another evaluation of it (engine.go evaluate, Allow, Mark).
MatchSpacing ==
  \A m, n \in emitted :
    SameGate(m, n) /\ m.rule \notin TimeRules => Apart(m, n)

Places(m) ==
  {<<"out", e>> : e \in {f \in Evaluators :
       eval[f].pc /= "idle" /\ m \in Elements(eval[f].out)}} \cup
  {<<"queue", i>> : i \in {j \in DOMAIN matchCh : matchCh[j] = m}} \cup
  {<<"worker", w>> : w \in {v \in Workers :
       worker[v].pc /= "idle" /\ worker[v].m = m}} \cup
  {<<"outcome", o>> : o \in {q \in Outcomes : m.id \in outcome[q]}}

\* A match is always in exactly one place: with the evaluator that found it,
\* in the channel, with one worker, or ended in one way. None is fired by two
\* workers and none disappears unaccounted (evaluateAndDispatchSnap's send or
\* drop, the workers' receive, fireMatch's returns).
EachMatchOnce == \A m \in emitted : Cardinality(Places(m)) = 1

\* A fire recorded before a restart holds after it: a worker of the new
\* process that got an answer from Postgres and is past the check fires no
\* earlier than one cooldown after the fire that the row of the old process
\* records (IsCooledDown, UpsertCooldown).
CooldownSurvivesRestart ==
  \A w \in Workers :
    LET s == worker[w] IN
    s.pc \in {"insert", "upsert"} /\ s.sure =>
      \A row \in cooldowns :
        row.key = KeyOf(s.m) /\ row.gen < gen =>
          s.at >= row.at + Cooldown[s.m.rule]

\* Every deadline of the gate is of a match found in the current demo.
GateIsOfDemo ==
  \A k \in Keys : gate[k] > 0 =>
    \E m \in emitted : KeyOf(m) = k /\ m.epoch = epoch

\* A reset that begins while no match is under way leaves nothing of the
\* earlier demo behind: every cooldown row and every trigger row belongs to a
\* match found since, and so does every deadline in the gate once the gate has
\* been purged, whatever evaluators run between the reset's steps
\* (handleDemoReset, OnDemoReset).
QuiescentResetIsClean ==
  cleanReset =>
    /\ \A row \in cooldowns : row.epoch = epoch
    /\ \A m \in emitted : m.id \in triggers => m.epoch = epoch
    /\ resetPc /= "gate" => GateIsOfDemo

\* A match in the channel is eventually fired, suppressed, failed, or lost
\* with the process (runDispatcher's workers never stay away from matchCh).
QueuedMatchResolved ==
  \A i \in 0 .. (MaxMatches - 1) :
    (\E j \in DOMAIN matchCh : matchCh[j].id = i) ~> (i \in Resolved)

\* The matches as AtMostOnce sees them.
WaitingIds ==
  {m.id : m \in Elements(matchCh)} \cup
  UNION {{m.id : m \in Elements(eval[e].out)} :
           e \in {f \in Evaluators : eval[f].pc /= "idle"}}

FiringIds == {worker[w].m.id : w \in {v \in Workers : ~Holds(v, "idle")}}

Promise == INSTANCE AtMostOnce
             WITH Ids <- 0 .. (MaxMatches - 1), Firers <- Cardinality(Workers),
                  waiting <- WaitingIds, firing <- FiringIds, ended <- Resolved

\* The trigger path implements AtMostOnce: through full channels, failing calls
\* and restarts, no match is picked by two workers or queued again after it was
\* picked, and fireMatch ends for every match it was called with
\* (evaluateAndDispatchSnap, runDispatcher, fireMatch).
FiresAtMostOnce == Promise!Spec

\* DEMO_RUNBOOK.md:298: "Same anonymousId firing the rule twice within an
\* hour gets the second fire suppressed", for every rule. Not so: Allow and
\* Mark are two critical sections and both evaluators can pass Allow.
SecondFireSuppressed ==
  \A m, n \in emitted :
    SameGate(m, n) /\ {m.id, n.id} \subseteq outcome["fired"] => Apart(m, n)
=============================================================================
