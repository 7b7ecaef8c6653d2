--------------------------- MODULE TriggersProofs ---------------------------
(***************************************************************************)
(* Proofs about Triggers, for every set of users, rules and workers, every *)
(* cooldown and every bound: type correctness, the spacing of the matches  *)
(* of a rule that only the pipeline evaluates, and the cooldown a restart  *)
(* must respect.                                                           *)
(***************************************************************************)
EXTENDS Triggers, FiniteSetTheorems, TLAPS

USE TriggersAssumption

-----------------------------------------------------------------------------
(***************************************************************************)
(* Types. A match's id is the number of matches before it, so the type     *)
(* invariant needs the history to be finite.                               *)
(***************************************************************************)
TypeInv == TypeOK /\ IsFiniteSet(emitted)

\* A new match has a match's type.
LEMMA NewMatchType ==
  ASSUME TypeInv, NEW e \in Evaluators, NEW r \in Rules,
         eval[e] \in BusyEval
  PROVE  NewMatch(e, r) \in Match
  <1>1. Cardinality(emitted) \in Nat
    BY FS_CardinalityType DEF TypeInv
  <1> QED
    BY <1>1 DEF TypeInv, TypeOK, NewMatch, Match, BusyEval

\* The initial state is well typed.
LEMMA InitType == Init => TypeInv
  <1> SUFFICES ASSUME Init PROVE TypeInv
    OBVIOUS
  <1>1. IsFiniteSet(emitted)
    BY FS_EmptySet DEF Init
  <1> QED
    BY <1>1 DEF Init, TypeInv, TypeOK, EvalIdle, WorkerIdle, Keys

\* Every step of an evaluator keeps the types.
LEMMA EvalType ==
  ASSUME TypeInv, NEW e \in Evaluators, EvalStep(e)
  PROVE  TypeInv'
  <1> USE DEF TypeInv
  <1>0. eval[e].pc = "rules" => eval[e] \in BusyEval
    BY DEF TypeOK, EvalIdle
  <1>1. ASSUME NEW r \in Rules, SkipRule(e, r)
        PROVE  TypeInv'
    <2>1. eval'[e] \in BusyEval /\ eval' \in [Evaluators -> BusyEval \cup {EvalIdle}]
      BY <1>0, <1>1 DEF TypeOK, SkipRule, BetweenRules, BusyEval
    <2> QED
      BY <2>1, <1>1 DEF TypeOK, SkipRule, pgVars, counters
  <1>2. ASSUME NEW r \in Rules, AllowRule(e, r)
        PROVE  TypeInv'
    <2>1. eval' \in [Evaluators -> BusyEval \cup {EvalIdle}]
      BY <1>0, <1>2 DEF TypeOK, AllowRule, BetweenRules, BusyEval
    <2> QED
      BY <2>1, <1>2 DEF TypeOK, AllowRule, pgVars, counters
  <1>3. ASSUME NEW r \in Rules, MarkRule(e, r)
        PROVE  TypeInv'
    <2>1. NewMatch(e, r) \in Match
      BY <1>0, <1>3, NewMatchType DEF MarkRule
    <2>2. eval' \in [Evaluators -> BusyEval \cup {EvalIdle}]
      <3> DEFINE new == NewMatch(e, r)
      <3>1. eval[e] \in BusyEval /\ eval[e].out \in Seq(Match)
        BY <1>0, <1>3 DEF MarkRule, BusyEval
      <3>2. new \in Match
        BY <2>1
      <3>3. eval' = [eval EXCEPT ![e].allowed = {}, ![e].out = Append(@, new)]
        BY <1>3 DEF MarkRule
      <3> HIDE DEF new
      <3>4. Append(eval[e].out, new) \in Seq(Match)
        BY <3>1, <3>2
      <3> QED
        BY <3>1, <3>3, <3>4 DEF TypeOK, BusyEval
    <2>3. gate' \in [Keys -> Nat]
      <3>1. eval[e].anon \in Anons /\ eval[e].now \in Nat
        BY <1>0, <1>3 DEF MarkRule, BusyEval
      <3>2. eval[e].now + Cooldown[r] \in Nat
        BY <3>1
      <3> QED
        BY <1>3, <3>2 DEF TypeOK, MarkRule, Mark
    <2>4. emitted' \in SUBSET Match /\ IsFiniteSet(emitted')
      BY <2>1, <1>3, FS_AddElement DEF TypeOK, MarkRule
    <2> QED
      BY <2>2, <2>3, <2>4, <1>3 DEF TypeOK, MarkRule, pgVars, counters
  <1>4. ASSUME SendMatch(e)
        PROVE  TypeInv'
    <2>1. Head(eval[e].out) \in Match /\ Tail(eval[e].out) \in Seq(Match)
      BY <1>0, <1>4 DEF SendMatch, EvalDone, BetweenRules, BusyEval
    <2>2. eval' \in [Evaluators -> BusyEval \cup {EvalIdle}]
      BY <1>0, <1>4, <2>1 DEF TypeOK, SendMatch, EvalDone, BetweenRules, BusyEval
    <2>3. matchCh' \in Seq(Match) /\ Len(matchCh') <= MatchChCap
      BY <1>4, <2>1 DEF TypeOK, SendMatch
    <2> QED
      BY <2>2, <2>3, <1>4 DEF TypeOK, SendMatch, pgVars, counters
  <1>5. ASSUME DropMatch(e)
        PROVE  TypeInv'
    <2>1. Head(eval[e].out) \in Match /\ Tail(eval[e].out) \in Seq(Match)
      BY <1>0, <1>5 DEF DropMatch, EvalDone, BetweenRules, BusyEval
    <2>2. eval' \in [Evaluators -> BusyEval \cup {EvalIdle}]
      BY <1>0, <1>5, <2>1 DEF TypeOK, DropMatch, EvalDone, BetweenRules, BusyEval
    <2>3. outcome' \in [Outcomes -> SUBSET Nat]
      BY <1>5, <2>1 DEF TypeOK, DropMatch, Resolve, Match, Outcomes
    <2> QED
      BY <2>2, <2>3, <1>5 DEF TypeOK, DropMatch, pgVars, counters
  <1>6. ASSUME NextPersona(e)
        PROVE  TypeInv'
    <2>1. eval' \in [Evaluators -> BusyEval \cup {EvalIdle}]
      <3> DEFINE cands == Candidates(e, eval[e].persona + 1)
      <3>1. eval[e] \in BusyEval
        BY <1>0, <1>6 DEF NextPersona, EvalDone, BetweenRules
      <3>2. cands \in SUBSET Rules
        BY DEF Candidates
      <3> DEFINE next == eval[e].persona + 1
      <3>3. eval' = [eval EXCEPT ![e].persona = next, ![e].todo = cands]
        BY <1>6 DEF NextPersona
      <3>4. next \in Nat
        BY <3>1 DEF BusyEval
      <3> HIDE DEF cands, next
      <3> QED
        BY <3>1, <3>2, <3>3, <3>4 DEF TypeOK, BusyEval
    <2> QED
      BY <2>1, <1>6 DEF TypeOK, NextPersona, pgVars, counters
  <1>7. ASSUME EndEval(e)
        PROVE  TypeInv'
    BY <1>7 DEF TypeOK, EndEval, pgVars, counters
  <1> QED
    BY <1>1, <1>2, <1>3, <1>4, <1>5, <1>6, <1>7 DEF EvalStep

\* So does every step of a worker.
LEMMA WorkerType ==
  ASSUME TypeInv, NEW w \in Workers, TakeMatch(w) \/ FireStep(w)
  PROVE  TypeInv'
  <1> USE DEF TypeInv
  <1>0. worker[w].pc /= "idle" => worker[w] \in BusyWorker
    BY DEF TypeOK, WorkerIdle
  <1>1. CASE TakeMatch(w)
    <2>1. Head(matchCh) \in Match /\ Tail(matchCh) \in Seq(Match)
            /\ Len(Tail(matchCh)) <= MatchChCap
      BY <1>1 DEF TypeOK, TakeMatch
    <2>2. worker' \in [Workers -> BusyWorker \cup {WorkerIdle}]
      BY <1>1, <2>1 DEF TypeOK, TakeMatch, BusyWorker
    <2> QED
      BY <1>1, <2>1, <2>2 DEF TypeOK, TakeMatch, pgVars, counters
  <1>2. ASSUME worker[w].pc /= "idle", NEW o \in Outcomes, Return(w, o)
        PROVE  /\ worker' \in [Workers -> BusyWorker \cup {WorkerIdle}]
               /\ outcome' \in [Outcomes -> SUBSET Nat]
    <2>1. worker[w].m.id \in Nat
      BY <1>0, <1>2 DEF BusyWorker, Match
    <2> QED
      BY <1>2, <2>1 DEF TypeOK, Return, Resolve
  <1>3. ASSUME worker[w].pc /= "idle",
               NEW pc \in {"check", "generate", "insert", "upsert"}, Advance(w, pc)
        PROVE  worker' \in [Workers -> BusyWorker \cup {WorkerIdle}]
    BY <1>0, <1>3 DEF TypeOK, Advance, BusyWorker
  <1>4. CASE SuppressMatch(w)
    BY <1>2, <1>4 DEF TypeOK, SuppressMatch, Holds, Outcomes, pgVars, counters
  <1>5. CASE PassCheck(w)
    <2>1. worker' \in [Workers -> BusyWorker \cup {WorkerIdle}]
      BY <1>0, <1>5 DEF TypeOK, PassCheck, Holds, BusyWorker
    <2> QED
      BY <1>5, <2>1 DEF TypeOK, PassCheck, pgVars, counters
  <1>6. CASE FailCheck(w)
    BY <1>3, <1>6 DEF TypeOK, FailCheck, Holds, Fault, pgVars, otherCounters
  <1>7. CASE GenerateAndDispatch(w)
    <2>1. worker' \in [Workers -> BusyWorker \cup {WorkerIdle}]
      BY <1>0, <1>7 DEF TypeOK, GenerateAndDispatch, Holds, BusyWorker
    <2> QED
      BY <1>7, <2>1 DEF TypeOK, GenerateAndDispatch, pgVars, counters
  <1>8. CASE FailGenerate(w)
    BY <1>2, <1>8 DEF TypeOK, FailGenerate, Holds, Fault, Outcomes, pgVars, otherCounters
  <1>9. CASE InsertTrigger(w)
    <2>1. worker' \in [Workers -> BusyWorker \cup {WorkerIdle}]
      BY <1>3, <1>9 DEF InsertTrigger, Holds
    <2>2. triggers' \in SUBSET Nat /\ faults' \in Nat
      <3>1. worker[w].m.id \in Nat
        BY <1>0, <1>9 DEF InsertTrigger, Holds, BusyWorker, Match
      <3>2. triggers \in SUBSET Nat /\ faults \in Nat
        BY DEF TypeOK
      <3>3. \/ triggers' = triggers \cup {worker[w].m.id} /\ faults' = faults
            \/ triggers' = triggers /\ faults' = faults + 1
        BY <1>9 DEF InsertTrigger, Fault
      <3> QED
        BY <3>1, <3>2, <3>3
    <2> QED
      BY <1>9, <2>1, <2>2 DEF TypeOK, InsertTrigger, otherCounters
  <1>10. CASE UpsertCooldown(w)
    <2>1. worker[w] \in BusyWorker
      BY <1>0, <1>10 DEF UpsertCooldown, Holds
    <2>2. RowOf(w) \in CooldownRow
      BY <2>1 DEF TypeOK, RowOf, CooldownRow, BusyWorker, Match, KeyOf, Keys
    <2>3. cooldowns' \in SUBSET CooldownRow /\ faults' \in Nat
      BY <1>10, <2>2 DEF TypeOK, UpsertCooldown, Fault
    <2>4. /\ worker' \in [Workers -> BusyWorker \cup {WorkerIdle}]
          /\ outcome' \in [Outcomes -> SUBSET Nat]
      BY <1>2, <1>10 DEF UpsertCooldown, Holds, Outcomes
    <2> QED
      BY <1>10, <2>3, <2>4 DEF TypeOK, UpsertCooldown, otherCounters
  <1> QED
    BY <1>1, <1>4, <1>5, <1>6, <1>7, <1>8, <1>9, <1>10 DEF FireStep

\* And every other step: the clock, a new evaluation, the reset, a restart.
LEMMA OtherType ==
  ASSUME TypeInv,
         \/ Tick
         \/ \E e \in Evaluators, a \in Anons : StartEval(e, a)
         \/ ResetDatabase \/ PurgeCooldowns \/ ResetWindows
         \/ Restart
         \/ UNCHANGED vars
  PROVE  TypeInv'
  <1> USE DEF TypeInv
  <1>1. CASE Tick
    BY <1>1 DEF TypeOK, Tick, memoryVars, pgVars, counters
  <1>2. ASSUME NEW e \in Evaluators, NEW a \in Anons, StartEval(e, a)
        PROVE  TypeInv'
    <2>1. Candidates(e, 1) \in SUBSET Rules
      BY DEF Candidates
    <2>2. eval' \in [Evaluators -> BusyEval \cup {EvalIdle}]
      <3> DEFINE cands == Candidates(e, 1)
      <3>1. eval' = [eval EXCEPT ![e] = [pc |-> "rules", anon |-> a,
                       now |-> clock, persona |-> 1, todo |-> cands,
                       allowed |-> {}, out |-> <<>>]]
        BY <1>2 DEF StartEval
      <3>2. cands \in SUBSET Rules
        BY <2>1
      <3> HIDE DEF cands
      <3> QED
        BY <3>1, <3>2 DEF TypeOK, BusyEval
    <2> QED
      BY <1>2, <2>2 DEF TypeOK, StartEval, pgVars
  <1>3. CASE ResetDatabase
    <2>1. cleanReset' \in BOOLEAN
      BY <1>3 DEF ResetDatabase, Quiescent
    <2> QED
      BY <1>3, <2>1 DEF TypeOK, ResetDatabase
  <1>4. CASE PurgeCooldowns
    BY <1>4 DEF TypeOK, PurgeCooldowns, pgVars
  <1>5. CASE ResetWindows
    BY <1>5 DEF TypeOK, ResetWindows, pgVars, counters
  <1>6. CASE Restart
    <2>1. {m.id : m \in Pending} \in SUBSET Nat
      BY DEF TypeOK, Pending, Match
    <2>2. outcome' \in [Outcomes -> SUBSET Nat]
      BY <1>6, <2>1 DEF TypeOK, Restart, Resolve
    <2> QED
      BY <1>6, <2>2 DEF TypeOK, Restart, pgVars
  <1>7. CASE UNCHANGED vars
    BY <1>7 DEF TypeOK, vars, memoryVars, pgVars, counters
  <1> QED
    BY <1>1, <1>2, <1>3, <1>4, <1>5, <1>6, <1>7

\* Every step keeps the types.
LEMMA NextType == TypeInv /\ [Next]_vars => TypeInv'
  BY EvalType, WorkerType, OtherType DEF Next, Finished

\* Every variable keeps its type and matchCh its capacity, whatever the
\* number of users, rules, workers, resets and restarts.
THEOREM TypeCorrect == Spec => []TypeOK
  <1>1. TypeInv => TypeOK
    BY DEF TypeInv
  <1> QED
    BY InitType, NextType, <1>1, PTL DEF Spec

-----------------------------------------------------------------------------
(***************************************************************************)
(* Spacing of matches. MatchSpacing is not inductive: it says nothing of   *)
(* the gate nor of a rule that has passed Allow and is not marked yet. The *)
(* strengthening adds both, and that the ticker holds time rules only.     *)
(***************************************************************************)

\* The matches the gate as it is now is answerable for.
Current ==
  {m \in emitted : /\ m.rule \notin TimeRules
                   /\ m.gateEpoch = gateEpoch
                   /\ Cooldown[m.rule] > 0}

\* No match is from a gate that does not exist yet.
InvEpoch == \A m \in emitted : m.gateEpoch <= gateEpoch

\* The gate is closed until a cooldown after every current match.
InvGate == \A m \in Current : gate[KeyOf(m)] >= m.firedAt + Cooldown[m.rule]

\* A rule past Allow is due: no current match of it is too recent.
InvAllowed ==
  eval["event"].pc = "rules" =>
    \A m \in Current :
      m.anon = eval["event"].anon /\ m.rule \in eval["event"].allowed =>
        eval["event"].now >= m.firedAt + Cooldown[m.rule]

\* The ticker evaluates time-dependent rules only.
InvTick ==
  eval["tick"].pc = "rules" =>
    eval["tick"].todo \cup eval["tick"].allowed \subseteq TimeRules

SpacingInv ==
  TypeInv /\ InvEpoch /\ InvGate /\ InvAllowed /\ InvTick /\ MatchSpacing

\* Nothing has matched in the initial state.
LEMMA InitSpacing == Init => SpacingInv
  <1> SUFFICES ASSUME Init PROVE SpacingInv
    OBVIOUS
  <1>1. TypeInv
    BY InitType
  <1>2. emitted = {} /\ Current = {} /\ eval["tick"].pc = "idle"
    BY DEF Init, Current, Evaluators, EvalIdle
  <1> QED
    BY <1>1, <1>2 DEF SpacingInv, InvEpoch, InvGate, InvAllowed, InvTick, MatchSpacing

\* Two matches without a cooldown are apart in one order or the other.
LEMMA ApartWithoutCooldown ==
  ASSUME NEW m \in Match, NEW n \in Match, Cooldown[m.rule] = 0
  PROVE  Apart(m, n)
  <1>1. m.firedAt \in Nat /\ n.firedAt \in Nat
    BY DEF Match
  <1> QED
    BY <1>1 DEF Apart

\* The one step that adds a match: it is due, and the gate is closed for it.
LEMMA MarkSpacing ==
  ASSUME SpacingInv, NEW e \in Evaluators, NEW r \in Rules, MarkRule(e, r)
  PROVE  InvEpoch' /\ InvGate' /\ InvAllowed' /\ InvTick' /\ MatchSpacing'
  <1> DEFINE new == NewMatch(e, r)
  <1>0. eval[e] \in BusyEval /\ TypeInv
    <2>1. TypeInv
      BY DEF SpacingInv
    <2>2. eval[e].pc = "rules"
      BY DEF MarkRule
    <2> QED
      BY <2>1, <2>2 DEF TypeInv, TypeOK, EvalIdle
  <1>1. new \in Match
    BY <1>0, NewMatchType
  <1>2. /\ emitted' = emitted \cup {new}
        /\ new.gateEpoch = gateEpoch /\ new.rule = r
        /\ new.anon = eval[e].anon /\ new.firedAt = eval[e].now
    BY DEF MarkRule, NewMatch
  <1>3. gateEpoch' = gateEpoch /\ gateEpoch \in Nat
    BY <1>0 DEF MarkRule, counters, TypeInv, TypeOK
  <1>4. eval'[e].allowed = {} /\ \A f \in Evaluators : f /= e => eval'[f] = eval[f]
    BY <1>0 DEF MarkRule, TypeInv, TypeOK, BusyEval
  <1>5. eval'[e].todo = eval[e].todo /\ eval'[e].pc = "rules" /\ r \in eval[e].allowed
    BY <1>0 DEF MarkRule, TypeInv, TypeOK, BusyEval
  <1>6. e = "tick" => r \in TimeRules
    BY <1>5 DEF SpacingInv, InvTick, MarkRule
  <1>7. \A m \in emitted : m \in Match
    BY <1>0 DEF TypeInv, TypeOK
  <1>8. \A m \in Current : KeyOf(m) = <<eval[e].anon, r>> =>
          eval[e].now >= m.firedAt + Cooldown[m.rule]
    <2> SUFFICES ASSUME NEW m \in Current, KeyOf(m) = <<eval[e].anon, r>>
                 PROVE  eval[e].now >= m.firedAt + Cooldown[m.rule]
      OBVIOUS
    <2>1. m.anon = eval[e].anon /\ m.rule = r /\ r \notin TimeRules
      BY DEF KeyOf, Current
    <2>2. e = "event"
      BY <1>6, <2>1 DEF Evaluators
    <2> QED
      BY <2>1, <2>2, <1>5 DEF SpacingInv, InvAllowed, MarkRule
  <1> HIDE DEF new
  <1>9. Current' \subseteq Current \cup {new}
    BY <1>2, <1>3 DEF Current
  <1>a. InvEpoch'
    BY <1>1, <1>2, <1>3 DEF SpacingInv, InvEpoch, Match
  <1>b. InvGate'
    <2> SUFFICES ASSUME NEW m \in Current'
                 PROVE  gate'[KeyOf(m)] >= m.firedAt + Cooldown[m.rule]
      BY DEF InvGate
    <2>0. m \in Match /\ Cooldown[m.rule] > 0
      BY <1>1, <1>2, <1>7 DEF Current
    <2>1. KeyOf(m) \in Keys /\ KeyOf(new) \in Keys /\ KeyOf(new) = <<eval[e].anon, r>>
      BY <1>1, <1>2, <2>0 DEF KeyOf, Keys, Match
    <2>2. CASE KeyOf(m) = KeyOf(new)
      <3>1. m.rule = r
        BY <2>1, <2>2 DEF KeyOf
      <3>2. gate'[KeyOf(m)] = eval[e].now + Cooldown[r]
        BY <1>0, <2>0, <2>1, <2>2, <3>1 DEF MarkRule, Mark, TypeInv, TypeOK
      <3>3. eval[e].now >= m.firedAt
        <4>1. CASE m = new
          BY <4>1, <1>2, <1>0 DEF BusyEval
        <4>2. CASE m \in Current
          <5>1. eval[e].now >= m.firedAt + Cooldown[m.rule]
            BY <4>2, <1>8, <2>1, <2>2
          <5>2. m.firedAt \in Nat /\ Cooldown[m.rule] \in Nat /\ eval[e].now \in Nat
            BY <2>0, <1>0 DEF Match, BusyEval
          <5> QED
            BY <5>1, <5>2
        <4> QED
          BY <4>1, <4>2, <1>9
      <3>4. m.firedAt \in Nat /\ Cooldown[r] \in Nat /\ eval[e].now \in Nat
        BY <2>0, <1>0 DEF Match, BusyEval
      <3> QED
        BY <3>1, <3>2, <3>3, <3>4
    <2>3. CASE KeyOf(m) /= KeyOf(new)
      <3>1. m \in Current
        BY <2>3, <1>9
      <3>2. gate'[KeyOf(m)] = gate[KeyOf(m)]
        BY <1>0, <2>1, <2>3 DEF MarkRule, Mark, TypeInv, TypeOK
      <3> QED
        BY <3>1, <3>2 DEF SpacingInv, InvGate
    <2> QED
      BY <2>2, <2>3
  <1>c. InvAllowed'
    <2>1. CASE e = "event"
      BY <2>1, <1>4 DEF InvAllowed
    <2>2. CASE e = "tick"
      <3>1. eval'["event"] = eval["event"]
        BY <2>2, <1>4 DEF Evaluators
      <3>2. Current' = Current
        BY <2>2, <1>2, <1>3, <1>6 DEF Current
      <3> QED
        BY <3>1, <3>2 DEF SpacingInv, InvAllowed
    <2> QED
      BY <2>1, <2>2 DEF Evaluators
  <1>d. InvTick'
    <2>1. CASE e = "tick"
      BY <2>1, <1>4, <1>5 DEF SpacingInv, InvTick, MarkRule
    <2>2. CASE e = "event"
      BY <2>2, <1>4 DEF SpacingInv, InvTick, Evaluators
    <2> QED
      BY <2>1, <2>2 DEF Evaluators
  <1>e. ASSUME NEW m \in emitted, m.rule \notin TimeRules, KeyOf(m) = KeyOf(new),
               m.gateEpoch = new.gateEpoch
        PROVE  Apart(m, new) /\ Apart(new, m)
    <2>1. m.rule = r /\ m.anon = eval[e].anon /\ m \in Match
      BY <1>e, <1>2, <1>7 DEF KeyOf
    <2>2. CASE Cooldown[r] = 0
      BY <2>1, <2>2, <1>1, <1>2, ApartWithoutCooldown
    <2>3. CASE Cooldown[r] > 0
      <3>1. m \in Current
        BY <1>e, <1>2, <2>1, <2>3 DEF Current
      <3>2. eval[e].now >= m.firedAt + Cooldown[r]
        BY <3>1, <2>1, <1>8 DEF KeyOf
      <3> QED
        BY <3>2, <2>1, <1>2 DEF Apart
    <2> QED
      BY <2>2, <2>3
  <1>f. MatchSpacing'
    <2> SUFFICES ASSUME NEW m \in emitted', NEW n \in emitted',
                        SameGate(m, n), m.rule \notin TimeRules
                 PROVE  Apart(m, n)
      BY DEF MatchSpacing, SameGate, Apart, KeyOf
    <2>1. m.id /= n.id /\ KeyOf(m) = KeyOf(n) /\ m.gateEpoch = n.gateEpoch
      BY DEF SameGate
    <2>2. n.rule \notin TimeRules
      BY <2>1 DEF KeyOf
    <2>3. CASE m \in emitted /\ n \in emitted
      BY <2>3 DEF SpacingInv, MatchSpacing
    <2>4. CASE m \in emitted /\ n = new
      BY <2>1, <2>4, <1>e
    <2>5. CASE m = new /\ n \in emitted
      BY <2>1, <2>2, <2>5, <1>e
    <2> QED
      BY <2>1, <2>3, <2>4, <2>5, <1>2
  <1> QED
    BY <1>a, <1>b, <1>c, <1>d, <1>f

\* Steps that neither add a match nor touch the gate.
LEMMA QuietSpacing ==
  ASSUME SpacingInv, UNCHANGED <<emitted, gate, gateEpoch>>
  PROVE  /\ InvEpoch' /\ InvGate' /\ MatchSpacing'
         /\ Current' = Current
  <1>1. Current' = Current
    BY DEF Current
  <1> QED
    BY <1>1 DEF SpacingInv, InvEpoch, InvGate, MatchSpacing

\* An evaluator's other steps: Allow is what makes a rule due.
LEMMA EvalSpacing ==
  ASSUME SpacingInv, NEW e \in Evaluators, EvalStep(e)
  PROVE  InvEpoch' /\ InvGate' /\ InvAllowed' /\ InvTick' /\ MatchSpacing'
  <1>0. TypeInv /\ InvGate /\ InvAllowed /\ InvTick
    BY DEF SpacingInv
  <1>t. eval \in [Evaluators -> BusyEval \cup {EvalIdle}]
    BY <1>0 DEF TypeInv, TypeOK
  <1>b. eval[e].pc = "rules" => eval[e] \in BusyEval
    BY <1>t DEF EvalIdle
  <1>1. ASSUME NEW r \in Rules, MarkRule(e, r)
        PROVE  InvEpoch' /\ InvGate' /\ InvAllowed' /\ InvTick' /\ MatchSpacing'
    BY <1>1, MarkSpacing
  <1>2. ASSUME UNCHANGED <<emitted, gate, gateEpoch>>,
               \A f \in Evaluators : f /= e => eval'[f] = eval[f],
               eval'[e].pc = "rules" =>
                 /\ eval[e].pc = "rules"
                 /\ eval'[e].anon = eval[e].anon
                 /\ eval'[e].now = eval[e].now
                 /\ eval'[e].allowed \subseteq eval[e].allowed
                 /\ e = "tick" => eval'[e].todo \subseteq TimeRules
        PROVE  InvEpoch' /\ InvGate' /\ InvAllowed' /\ InvTick' /\ MatchSpacing'
    <2>1. InvEpoch' /\ InvGate' /\ MatchSpacing' /\ Current' = Current
      BY <1>2, QuietSpacing
    <2>2. CASE e = "event"
      BY <1>0, <1>2, <2>1, <2>2 DEF InvAllowed, InvTick, Evaluators
    <2>3. CASE e = "tick"
      BY <1>0, <1>2, <2>1, <2>3 DEF InvAllowed, InvTick, Evaluators
    <2> QED
      BY <2>2, <2>3, <2>1 DEF Evaluators
  <1>3. ASSUME NEW r \in Rules, SkipRule(e, r)
        PROVE  InvEpoch' /\ InvGate' /\ InvAllowed' /\ InvTick' /\ MatchSpacing'
    <2>1. /\ eval[e].pc = "rules" /\ eval[e] \in BusyEval
          /\ eval' = [eval EXCEPT ![e].todo = @ \ {r}]
          /\ UNCHANGED <<emitted, gate, gateEpoch>>
      BY <1>3, <1>b DEF SkipRule, BetweenRules, counters
    <2> QED
      BY <1>0, <1>2, <1>t, <2>1 DEF BusyEval, InvTick
  <1>4. ASSUME NEW r \in Rules, AllowRule(e, r)
        PROVE  InvEpoch' /\ InvGate' /\ InvAllowed' /\ InvTick' /\ MatchSpacing'
    <2>1. /\ eval[e].pc = "rules" /\ eval[e] \in BusyEval /\ r \in eval[e].todo
          /\ eval' = [eval EXCEPT ![e].todo = @ \ {r}, ![e].allowed = {r}]
          /\ UNCHANGED <<emitted, gate, gateEpoch>>
          /\ Allow(eval[e].anon, r, eval[e].now)
      BY <1>4, <1>b DEF AllowRule, BetweenRules, counters
    <2>2. InvEpoch' /\ InvGate' /\ MatchSpacing' /\ Current' = Current
      BY <2>1, QuietSpacing
    <2>3. /\ eval'[e].pc = "rules"
          /\ eval'[e].anon = eval[e].anon
          /\ eval'[e].now = eval[e].now
          /\ eval'[e].allowed = {r}
          /\ eval'[e].todo \subseteq eval[e].todo
          /\ \A f \in Evaluators : f /= e => eval'[f] = eval[f]
      BY <1>t, <2>1 DEF BusyEval
    <2>4. \A m \in Current : m.anon = eval[e].anon /\ m.rule = r =>
            eval[e].now >= m.firedAt + Cooldown[m.rule]
      <3> SUFFICES ASSUME NEW m \in Current, m.anon = eval[e].anon, m.rule = r
                   PROVE  eval[e].now >= m.firedAt + Cooldown[r]
        OBVIOUS
      <3>1. gate[<<eval[e].anon, r>>] >= m.firedAt + Cooldown[r]
        BY <1>0 DEF InvGate, KeyOf
      <3>2. ~(eval[e].now < gate[<<eval[e].anon, r>>])
        BY <2>1 DEF Allow
      <3>3. m.firedAt \in Nat /\ Cooldown[r] \in Nat /\ eval[e].now \in Nat
        BY <1>0, <2>1 DEF Current, TypeInv, TypeOK, Match, BusyEval
      <3>4. gate[<<eval[e].anon, r>>] \in Nat
        BY <1>0, <2>1 DEF TypeInv, TypeOK, Keys, BusyEval
      <3> QED
        BY <3>1, <3>2, <3>3, <3>4
    <2>5. CASE e = "event"
      BY <2>2, <2>3, <2>4, <2>5, <1>0 DEF InvAllowed, InvTick, Evaluators
    <2>6. CASE e = "tick"
      BY <2>1, <2>2, <2>3, <2>6, <1>0 DEF InvAllowed, InvTick, Evaluators
    <2> QED
      BY <2>2, <2>5, <2>6 DEF Evaluators
  <1>5. CASE SendMatch(e) \/ DropMatch(e)
    <2>1. /\ eval[e].pc = "rules" /\ eval[e] \in BusyEval
          /\ eval' = [eval EXCEPT ![e].out = Tail(@)]
          /\ UNCHANGED <<emitted, gate, gateEpoch>>
      BY <1>5, <1>b DEF SendMatch, DropMatch, EvalDone, BetweenRules, counters
    <2> QED
      BY <1>0, <1>2, <1>t, <2>1 DEF BusyEval, InvTick
  <1>6. CASE NextPersona(e)
    <2> DEFINE cands == Candidates(e, eval[e].persona + 1)
    <2> DEFINE next == eval[e].persona + 1
    <2>1. /\ eval[e].pc = "rules" /\ eval[e] \in BusyEval
          /\ eval' = [eval EXCEPT ![e].persona = next, ![e].todo = cands]
          /\ UNCHANGED <<emitted, gate, gateEpoch>>
      BY <1>6, <1>b DEF NextPersona, EvalDone, BetweenRules, counters
    <2>2. e = "tick" => cands \subseteq TimeRules
      BY DEF Candidates
    <2> HIDE DEF cands, next
    <2>3. /\ eval'[e].anon = eval[e].anon
          /\ eval'[e].now = eval[e].now
          /\ eval'[e].allowed = eval[e].allowed
          /\ eval'[e].todo = cands
          /\ \A f \in Evaluators : f /= e => eval'[f] = eval[f]
      BY <1>t, <2>1 DEF BusyEval
    <2> QED
      BY <1>2, <2>1, <2>2, <2>3
  <1>7. CASE EndEval(e)
    BY <1>7, <1>2, <1>t DEF EndEval, EvalIdle, counters
  <1> QED
    BY <1>1, <1>3, <1>4, <1>5, <1>6, <1>7 DEF EvalStep

\* A new evaluation holds no allowed rule; a ticker's holds time rules.
LEMMA StartSpacing ==
  ASSUME SpacingInv, NEW e \in Evaluators, NEW a \in Anons, StartEval(e, a)
  PROVE  InvEpoch' /\ InvGate' /\ InvAllowed' /\ InvTick' /\ MatchSpacing'
  <1> DEFINE cands == Candidates(e, 1)
  <1>0. InvAllowed /\ InvTick /\ eval \in [Evaluators -> BusyEval \cup {EvalIdle}]
    BY DEF SpacingInv, TypeInv, TypeOK
  <1>1. /\ eval' = [eval EXCEPT ![e] = [pc |-> "rules", anon |-> a, now |-> clock,
                      persona |-> 1, todo |-> cands, allowed |-> {}, out |-> <<>>]]
        /\ UNCHANGED <<emitted, gate, gateEpoch>>
    BY DEF StartEval
  <1>2. e = "tick" => cands \subseteq TimeRules
    BY DEF Candidates
  <1> HIDE DEF cands
  <1>3. eval'[e].allowed = {} /\ eval'[e].todo = cands
          /\ \A f \in Evaluators : f /= e => eval'[f] = eval[f]
    BY <1>0, <1>1
  <1>4. InvEpoch' /\ InvGate' /\ MatchSpacing' /\ Current' = Current
    BY <1>1, QuietSpacing
  <1>5. CASE e = "event"
    BY <1>0, <1>3, <1>4, <1>5 DEF InvAllowed, InvTick, Evaluators
  <1>6. CASE e = "tick"
    BY <1>0, <1>2, <1>3, <1>4, <1>6 DEF InvAllowed, InvTick, Evaluators
  <1> QED
    BY <1>4, <1>5, <1>6 DEF Evaluators

\* Emptying the gate starts a new gate epoch, which no match belongs to.
LEMMA EmptyGateSpacing ==
  ASSUME SpacingInv, PurgeCooldowns \/ Restart
  PROVE  InvEpoch' /\ InvGate' /\ InvAllowed' /\ InvTick' /\ MatchSpacing'
  <1>1. /\ emitted' = emitted /\ gateEpoch' = gateEpoch + 1
        /\ gateEpoch \in Nat /\ emitted \subseteq Match
    BY DEF SpacingInv, TypeInv, TypeOK, PurgeCooldowns, Restart
  <1>2. Current' = {}
    BY <1>1 DEF SpacingInv, InvEpoch, Current, Match
  <1>3. InvEpoch'
    BY <1>1 DEF SpacingInv, InvEpoch, Match
  <1>4. InvTick'
    BY DEF SpacingInv, InvTick, PurgeCooldowns, Restart, EvalIdle, Evaluators
  <1>5. MatchSpacing'
    BY <1>1 DEF SpacingInv, MatchSpacing
  <1> QED
    BY <1>2, <1>3, <1>4, <1>5 DEF InvGate, InvAllowed

\* The strengthening is inductive.
LEMMA NextSpacing == SpacingInv /\ [Next]_vars => SpacingInv'
  <1> SUFFICES ASSUME SpacingInv, [Next]_vars PROVE SpacingInv'
    OBVIOUS
  <1>1. TypeInv'
    BY NextType DEF SpacingInv
  <1>2. ASSUME UNCHANGED <<emitted, gate, gateEpoch, eval>>
        PROVE  InvEpoch' /\ InvGate' /\ InvAllowed' /\ InvTick' /\ MatchSpacing'
    BY <1>2, QuietSpacing DEF SpacingInv, InvAllowed, InvTick
  <1>3. ASSUME NEW w \in Workers, TakeMatch(w) \/ FireStep(w)
        PROVE  UNCHANGED <<emitted, gate, gateEpoch, eval>>
    BY <1>3 DEF FireStep, TakeMatch, SuppressMatch, PassCheck, FailCheck,
         GenerateAndDispatch, FailGenerate, InsertTrigger, UpsertCooldown,
         counters, otherCounters
  <1>4. CASE Tick \/ ResetDatabase \/ ResetWindows \/ Finished \/ UNCHANGED vars
    <2>1. UNCHANGED <<emitted, gate, gateEpoch, eval>>
      BY <1>4 DEF Tick, ResetDatabase, ResetWindows, Finished, vars,
           memoryVars, counters
    <2> QED
      BY <1>1, <1>2, <2>1 DEF SpacingInv
  <1> QED
    BY <1>1, <1>2, <1>3, <1>4, EvalSpacing, StartSpacing, EmptyGateSpacing
       DEF Next, SpacingInv

\* A rule that only the pipeline evaluates matches a user at most once per
\* cooldown, for as long as the in-memory gate is not emptied: the separate
\* locking of Allow and Mark cannot hurt it, whatever the ticker, the workers
\* and a demo reset do in between (engine.go evaluate, Allow, Mark).
THEOREM MatchSpacingHolds == Spec => []MatchSpacing
  <1>1. SpacingInv => MatchSpacing
    BY DEF SpacingInv
  <1> QED
    BY InitSpacing, NextSpacing, <1>1, PTL DEF Spec

-----------------------------------------------------------------------------
(***************************************************************************)
(* Cooldowns across a restart. The property speaks of the last two stages  *)
(* of fireMatch; the strengthening follows a worker from the check on, and *)
(* ties a row's expiry to the fire it records.                             *)
(***************************************************************************)

\* A row expires one cooldown of its rule after the fire it records.
InvRows == \A row \in cooldowns : row.expires = row.at + Cooldown[row.key[2]]

\* The time fireMatch will record as the time of the fire, or the earliest.
FireTime(w) == IF worker[w].pc = "generate" THEN clock ELSE worker[w].at

\* A worker past a check that Postgres answered has let every row of an
\* earlier process expire.
InvPassed ==
  \A w \in Workers, row \in cooldowns :
    /\ worker[w].pc \in {"generate", "insert", "upsert"}
    /\ worker[w].sure
    /\ row.key = KeyOf(worker[w].m)
    /\ row.gen < gen
    => FireTime(w) >= row.expires

\* Before the check nothing is sure.
InvUnsure == \A w \in Workers : worker[w].pc = "check" => ~worker[w].sure

RestartInv == TypeInv /\ InvRows /\ InvPassed /\ InvUnsure

\* There are no rows in the initial state.
LEMMA InitRestart == Init => RestartInv
  BY InitType DEF Init, RestartInv, InvRows, InvPassed, InvUnsure, WorkerIdle

\* A step that takes no worker past the check and writes no row.
LEMMA QuietRestart ==
  ASSUME RestartInv, TypeInv', cooldowns' \subseteq cooldowns, gen' = gen,
         clock' >= clock,
         \A w \in Workers :
           \/ worker'[w] = worker[w]
           \/ worker'[w].pc = "idle"
           \/ ~worker'[w].sure
           \/ /\ worker[w].pc \in {"insert", "upsert"}
              /\ worker'[w].pc \in {"insert", "upsert"}
              /\ worker'[w].sure = worker[w].sure
              /\ worker'[w].m = worker[w].m
              /\ worker'[w].at = worker[w].at
  PROVE  RestartInv'
  <1>1. InvRows'
    BY DEF RestartInv, InvRows
  <1>2. InvPassed'
    <2> SUFFICES ASSUME NEW w \in Workers, NEW row \in cooldowns',
                        worker'[w].pc \in {"generate", "insert", "upsert"},
                        worker'[w].sure,
                        row.key = KeyOf(worker'[w].m),
                        row.gen < gen'
                 PROVE  FireTime(w)' >= row.expires
      BY DEF InvPassed, KeyOf
    <2>1. row \in cooldowns /\ row.expires \in Nat /\ clock \in Nat /\ clock' \in Nat
      BY DEF RestartInv, TypeInv, TypeOK, CooldownRow
    <2>2. CASE worker'[w] = worker[w]
      <3>1. FireTime(w) >= row.expires
        BY <2>1, <2>2 DEF RestartInv, InvPassed, KeyOf
      <3> QED
        BY <2>1, <2>2, <3>1 DEF FireTime
    <2>3. CASE /\ worker[w].pc \in {"insert", "upsert"}
               /\ worker'[w].pc \in {"insert", "upsert"}
               /\ worker'[w].sure = worker[w].sure
               /\ worker'[w].m = worker[w].m
               /\ worker'[w].at = worker[w].at
      <3>1. FireTime(w) >= row.expires
        BY <2>1, <2>3 DEF RestartInv, InvPassed, KeyOf
      <3> QED
        BY <2>3, <3>1 DEF FireTime
    <2> QED
      BY <2>2, <2>3
  <1>3. InvUnsure'
    BY DEF RestartInv, InvUnsure
  <1> QED
    BY <1>1, <1>2, <1>3 DEF RestartInv

\* A worker's steps.
LEMMA WorkerRestart ==
  ASSUME RestartInv, TypeInv', NEW w \in Workers, TakeMatch(w) \/ FireStep(w)
  PROVE  RestartInv'
  <1>t. /\ worker \in [Workers -> BusyWorker \cup {WorkerIdle}]
        /\ clock \in Nat /\ gen \in Nat /\ cooldowns \subseteq CooldownRow
    BY DEF RestartInv, TypeInv, TypeOK
  <1>u. clock' = clock /\ gen' = gen
    BY DEF FireStep, TakeMatch, SuppressMatch, PassCheck, FailCheck,
       GenerateAndDispatch, FailGenerate, InsertTrigger, UpsertCooldown,
       counters, otherCounters
  <1>b. worker[w].pc /= "idle" => worker[w] \in BusyWorker
    BY <1>t DEF WorkerIdle
  <1>1. CASE TakeMatch(w) \/ SuppressMatch(w) \/ FailGenerate(w)
    <2>1. /\ cooldowns' = cooldowns
          /\ worker'[w].pc = "idle" \/ ~worker'[w].sure
          /\ \A v \in Workers : v /= w => worker'[v] = worker[v]
      BY <1>1, <1>t DEF TakeMatch, SuppressMatch, FailGenerate, Return,
         WorkerIdle, pgVars
    <2> QED
      BY <2>1, <1>t, <1>u, QuietRestart
  <1>2. CASE FailCheck(w)
    <2>1. worker[w] \in BusyWorker /\ ~worker[w].sure
      BY <1>2, <1>b DEF FailCheck, Holds, RestartInv, InvUnsure
    <2>2. /\ cooldowns' = cooldowns
          /\ ~worker'[w].sure
          /\ \A v \in Workers : v /= w => worker'[v] = worker[v]
      BY <1>2, <1>t, <2>1 DEF FailCheck, Advance, BusyWorker, pgVars
    <2> QED
      BY <2>2, <1>t, <1>u, QuietRestart
  <1>3. CASE PassCheck(w)
    <2>1. /\ worker[w] \in BusyWorker /\ cooldowns' = cooldowns
          /\ ~IsCooledDown(KeyOf(worker[w].m))
          /\ worker' = [worker EXCEPT ![w].pc = "generate", ![w].sure = TRUE]
      BY <1>3, <1>b DEF PassCheck, Holds, pgVars
    <2>2. /\ worker'[w].pc = "generate" /\ worker'[w].m = worker[w].m
          /\ \A v \in Workers : v /= w => worker'[v] = worker[v]
      BY <1>t, <2>1 DEF BusyWorker
    <2>3. InvUnsure' /\ InvRows'
      BY <2>1, <2>2 DEF RestartInv, InvUnsure, InvRows
    <2>4. \A row \in cooldowns : row.key = KeyOf(worker[w].m) => clock >= row.expires
      BY <1>t, <2>1 DEF IsCooledDown, CooldownRow
    <2>5. InvPassed'
      <3> SUFFICES ASSUME NEW v \in Workers, NEW row \in cooldowns,
                          worker'[v].pc \in {"generate", "insert", "upsert"},
                          worker'[v].sure,
                          row.key = KeyOf(worker'[v].m),
                          row.gen < gen
                   PROVE  FireTime(v)' >= row.expires
        BY <1>u, <2>1 DEF InvPassed, KeyOf
      <3>1. CASE v = w
        BY <3>1, <1>u, <2>2, <2>4 DEF FireTime, KeyOf
      <3>2. CASE v /= w
        BY <3>2, <1>u, <2>2 DEF RestartInv, InvPassed, FireTime, KeyOf
      <3> QED
        BY <3>1, <3>2
    <2> QED
      BY <2>3, <2>5 DEF RestartInv
  <1>4. CASE GenerateAndDispatch(w)
    <2>1. /\ worker[w] \in BusyWorker /\ cooldowns' = cooldowns
          /\ worker[w].pc = "generate"
          /\ worker' = [worker EXCEPT ![w].pc = "insert", ![w].at = clock]
      BY <1>4, <1>b DEF GenerateAndDispatch, Holds, pgVars
    <2>2. /\ worker'[w].pc = "insert" /\ worker'[w].m = worker[w].m
          /\ worker'[w].at = clock /\ worker'[w].sure = worker[w].sure
          /\ \A v \in Workers : v /= w => worker'[v] = worker[v]
      BY <1>t, <2>1 DEF BusyWorker
    <2>3. InvUnsure' /\ InvRows'
      BY <2>1, <2>2 DEF RestartInv, InvUnsure, InvRows
    <2>4. InvPassed'
      <3> SUFFICES ASSUME NEW v \in Workers, NEW row \in cooldowns,
                          worker'[v].pc \in {"generate", "insert", "upsert"},
                          worker'[v].sure,
                          row.key = KeyOf(worker'[v].m),
                          row.gen < gen
                   PROVE  FireTime(v)' >= row.expires
        BY <1>u, <2>1 DEF InvPassed, KeyOf
      <3>1. CASE v = w
        BY <3>1, <2>1, <2>2, SMTT(60) DEF RestartInv, InvPassed, FireTime, KeyOf
      <3>2. CASE v /= w
        BY <3>2, <1>u, <2>2 DEF RestartInv, InvPassed, FireTime, KeyOf
      <3> QED
        BY <3>1, <3>2
    <2> QED
      BY <2>3, <2>4 DEF RestartInv
  <1>5. CASE InsertTrigger(w)
    <2>1. /\ worker[w] \in BusyWorker /\ cooldowns' = cooldowns
          /\ worker[w].pc = "insert"
          /\ worker' = [worker EXCEPT ![w].pc = "upsert"]
      BY <1>5, <1>b DEF InsertTrigger, Holds, Advance
    <2>2. /\ worker'[w].pc = "upsert" /\ worker'[w].m = worker[w].m
          /\ worker'[w].at = worker[w].at /\ worker'[w].sure = worker[w].sure
          /\ \A v \in Workers : v /= w => worker'[v] = worker[v]
      BY <1>t, <2>1 DEF BusyWorker
    <2> QED
      BY <2>1, <2>2, <1>t, <1>u, QuietRestart
  <1>6. CASE UpsertCooldown(w)
    <2>1. /\ worker[w] \in BusyWorker
          /\ cooldowns' \subseteq cooldowns \cup {RowOf(w)}
          /\ worker'[w].pc = "idle"
          /\ \A v \in Workers : v /= w => worker'[v] = worker[v]
      BY <1>6, <1>b, <1>t DEF UpsertCooldown, Holds, Return, WorkerIdle
    <2>2. /\ RowOf(w).gen = gen
          /\ RowOf(w).expires = RowOf(w).at + Cooldown[RowOf(w).key[2]]
      BY DEF RowOf, KeyOf
    <2>3. InvUnsure' /\ InvRows'
      BY <2>1, <2>2 DEF RestartInv, InvUnsure, InvRows
    <2>4. InvPassed'
      <3> SUFFICES ASSUME NEW v \in Workers, NEW row \in cooldowns',
                          worker'[v].pc \in {"generate", "insert", "upsert"},
                          worker'[v].sure,
                          row.key = KeyOf(worker'[v].m),
                          row.gen < gen
                   PROVE  FireTime(v)' >= row.expires
        BY <1>u DEF InvPassed, KeyOf
      <3>1. row \in cooldowns /\ v /= w
        BY <2>1, <2>2, <1>t
      <3> QED
        BY <3>1, <1>u, <2>1 DEF RestartInv, InvPassed, FireTime, KeyOf
    <2> QED
      BY <2>3, <2>4 DEF RestartInv
  <1> QED
    BY <1>1, <1>2, <1>3, <1>4, <1>5, <1>6 DEF FireStep

\* The strengthening is inductive: a restart leaves no worker past a check,
\* and no other step writes a row.
LEMMA NextRestart == RestartInv /\ [Next]_vars => RestartInv'
  <1> SUFFICES ASSUME RestartInv, [Next]_vars PROVE RestartInv'
    OBVIOUS
  <1>1. TypeInv /\ TypeInv'
    BY NextType DEF RestartInv
  <1>2. clock \in Nat
    BY <1>1 DEF TypeInv, TypeOK
  <1>3. ASSUME UNCHANGED <<worker, gen>>, cooldowns' \subseteq cooldowns,
               clock' >= clock
        PROVE  RestartInv'
    BY <1>1, <1>3, QuietRestart
  <1>4. CASE Tick
    BY <1>2, <1>3, <1>4 DEF Tick, memoryVars, pgVars, counters
  <1>5. ASSUME NEW e \in Evaluators, NEW a \in Anons, StartEval(e, a)
        PROVE  RestartInv'
    BY <1>2, <1>3, <1>5 DEF StartEval, pgVars
  <1>6. ASSUME NEW e \in Evaluators, EvalStep(e)
        PROVE  RestartInv'
    <2>1. UNCHANGED <<worker, gen, cooldowns, clock>>
      BY <1>6 DEF EvalStep, SkipRule, AllowRule, MarkRule, SendMatch,
         DropMatch, NextPersona, EndEval, pgVars, counters
    <2> QED
      BY <1>2, <1>3, <2>1
  <1>7. CASE ResetDatabase \/ PurgeCooldowns \/ ResetWindows
    BY <1>2, <1>3, <1>7 DEF ResetDatabase, PurgeCooldowns, ResetWindows,
       pgVars, counters
  <1>8. CASE Restart
    <2>1. /\ \A w \in Workers : worker'[w].pc = "idle"
          /\ cooldowns' = cooldowns
      BY <1>8 DEF Restart, WorkerIdle, pgVars
    <2> QED
      BY <1>1, <2>1 DEF RestartInv, InvRows, InvPassed, InvUnsure
  <1>9. CASE Finished \/ UNCHANGED vars
    BY <1>2, <1>3, <1>9 DEF Finished, vars, memoryVars, pgVars, counters
  <1> QED
    BY <1>1, <1>4, <1>5, <1>6, <1>7, <1>8, <1>9, WorkerRestart DEF Next

\* The cooldown row of a fire before a restart is respected after it: a
\* worker that got an answer from Postgres fires no earlier than a cooldown
\* after the fire recorded there, although the in-memory gate was lost
\* (queries.go IsCooledDown and UpsertCooldown, fireMatch).
THEOREM CooldownSurvivesRestartHolds == Spec => []CooldownSurvivesRestart
  <1>1. RestartInv => CooldownSurvivesRestart
    <2> SUFFICES ASSUME RestartInv, NEW w \in Workers,
                        worker[w].pc \in {"insert", "upsert"}, worker[w].sure,
                        NEW row \in cooldowns,
                        row.key = KeyOf(worker[w].m), row.gen < gen
                 PROVE  worker[w].at >= row.at + Cooldown[worker[w].m.rule]
      BY DEF CooldownSurvivesRestart
    <2>1. FireTime(w) >= row.expires /\ FireTime(w) = worker[w].at
      BY DEF RestartInv, InvPassed, FireTime
    <2>2. row.expires = row.at + Cooldown[worker[w].m.rule]
      BY DEF RestartInv, InvRows, KeyOf
    <2> QED
      BY <2>1, <2>2
  <1> QED
    BY InitRestart, NextRestart, <1>1, PTL DEF Spec
=============================================================================
