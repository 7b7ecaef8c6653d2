--------------------------- MODULE TriggersPlaces ---------------------------
(***************************************************************************)
(* Proofs about where the matches of Triggers are, for every number of     *)
(* users, rules and workers and every bound: a match is always in exactly  *)
(* one place, a demo reset that begins with nothing under way leaves       *)
(* nothing behind, and every step of the trigger path is a step of         *)
(* AtMostOnce or none at all.                                              *)
(***************************************************************************)
EXTENDS TriggersProofs, SequenceTheorems

-----------------------------------------------------------------------------
(***************************************************************************)
(* Sequences without repetition, as an evaluator's result and the channel  *)
(* are: what appending to one and taking its head do to its elements.      *)
(***************************************************************************)
Distinct(s) == \A i, j \in DOMAIN s : s[i] = s[j] => i = j

\* Appending adds one element.
LEMMA ElementsAppend ==
  ASSUME NEW S, NEW s \in Seq(S), NEW x \in S
  PROVE  /\ Elements(Append(s, x)) = Elements(s) \cup {x}
         /\ x \notin Elements(s) /\ Distinct(s) => Distinct(Append(s, x))
  <1>1. /\ DOMAIN Append(s, x) = 1 .. (Len(s) + 1)
        /\ DOMAIN s = 1 .. Len(s)
        /\ Len(s) \in Nat
        /\ \A i \in 1 .. Len(s) : Append(s, x)[i] = s[i]
        /\ Append(s, x)[Len(s) + 1] = x
    OBVIOUS
  <1> DEFINE t == Append(s, x)
  <1>2. DOMAIN t = 1 .. (Len(s) + 1) /\ t[Len(s) + 1] = x
          /\ \A i \in 1 .. Len(s) : t[i] = s[i]
    BY <1>1
  <1> HIDE DEF t
  <1>3. Elements(t) = Elements(s) \cup {x}
    BY <1>1, <1>2 DEF Elements
  <1>4. x \notin Elements(s) /\ Distinct(s) => Distinct(t)
    BY <1>1, <1>2 DEF Elements, Distinct
  <1> QED
    BY <1>3, <1>4 DEF t

\* Taking the head of a sequence without repetition removes one element.
LEMMA ElementsTail ==
  ASSUME NEW S, NEW s \in Seq(S), s /= <<>>
  PROVE  /\ Head(s) \in Elements(s)
         /\ Distinct(s) => /\ Elements(Tail(s)) = Elements(s) \ {Head(s)}
                           /\ Distinct(Tail(s))
  <1> DEFINE t == Tail(s)
             h == Head(s)
  <1>1. /\ DOMAIN s = 1 .. Len(s)
        /\ Len(s) \in Nat /\ Len(s) >= 1
        /\ DOMAIN t = 1 .. (Len(s) - 1)
        /\ \A i \in 1 .. (Len(s) - 1) : t[i] = s[i + 1]
        /\ h = s[1]
    OBVIOUS
  <1> HIDE DEF t, h
  <1>2. h \in Elements(s)
    BY <1>1 DEF Elements
  <1>3. ASSUME Distinct(s)
        PROVE  Distinct(t) /\ Elements(t) = Elements(s) \ {h}
    <2>1. Distinct(t)
      <3> SUFFICES ASSUME NEW i \in 1 .. (Len(s) - 1),
                          NEW j \in 1 .. (Len(s) - 1), t[i] = t[j]
                   PROVE  i = j
        BY <1>1 DEF Distinct
      <3>1. /\ i + 1 \in DOMAIN s /\ j + 1 \in DOMAIN s
            /\ s[i + 1] = s[j + 1]
        BY <1>1
      <3>2. i + 1 = j + 1
        BY <1>3, <3>1 DEF Distinct
      <3> QED
        BY <3>2
    <2>2. ASSUME NEW y \in Elements(s), y /= h
          PROVE  y \in Elements(t)
      <3>1. PICK i \in 1 .. Len(s) : y = s[i]
        BY <1>1 DEF Elements
      <3>2. i - 1 \in 1 .. (Len(s) - 1) /\ t[i - 1] = s[i]
        BY <1>1, <2>2, <3>1
      <3> QED
        BY <1>1, <3>1, <3>2 DEF Elements
    <2>3. ASSUME NEW y \in Elements(t)
          PROVE  y \in Elements(s) /\ y /= h
      <3>1. PICK i \in 1 .. (Len(s) - 1) : y = t[i]
        BY <1>1, <2>3 DEF Elements
      <3>2. i + 1 \in 1 .. Len(s) /\ i + 1 /= 1 /\ y = s[i + 1]
        BY <1>1, <3>1
      <3> QED
        BY <1>1, <1>3, <3>2 DEF Elements, Distinct
    <2> QED
      BY <2>1, <2>2, <2>3
  <1> QED
    BY <1>2, <1>3 DEF t, h

-----------------------------------------------------------------------------
(***************************************************************************)
(* The invariant. EachMatchOnce alone is not inductive: a queue that held  *)
(* the same match twice, or a match that was never emitted, would break it *)
(* later; and a new match is new because ids count the matches.            *)
(***************************************************************************)

\* The matches an evaluator holds, the channel holds, and the workers hold.
OutOf(e) == IF eval[e].pc = "idle" THEN {} ELSE Elements(eval[e].out)
Queued   == Elements(matchCh)
Busy     == {w \in Workers : worker[w].pc /= "idle"}
Held     == {worker[w].m : w \in Busy}

\* All matches that are somewhere in memory.
Carried == OutOf("event") \cup OutOf("tick") \cup Queued \cup Held

\* A match is known by its id, and ids count up.
InvIds ==
  /\ \A m \in emitted : m.id < Cardinality(emitted)
  /\ \A m, n \in emitted : m.id = n.id => m = n

\* No match is twice in the same place.
InvDistinct ==
  /\ \A e \in Evaluators : eval[e].pc /= "idle" => Distinct(eval[e].out)
  /\ Distinct(matchCh)
  /\ \A v, w \in Busy : worker[v].m = worker[w].m => v = w

\* No match is in two places.
InvSeparate ==
  /\ OutOf("event") \cap OutOf("tick") = {}
  /\ (OutOf("event") \cup OutOf("tick")) \cap (Queued \cup Held) = {}
  /\ Queued \cap Held = {}
  /\ \A o, p \in Outcomes : o /= p => outcome[o] \cap outcome[p] = {}

\* What memory holds is what was emitted and has not ended.
InvPending ==
  /\ Carried = Pending
  /\ Resolved \subseteq {m.id : m \in emitted}

PlaceInv == TypeInv /\ InvIds /\ InvDistinct /\ InvSeparate /\ InvPending

\* The bound on matches counts the rules that are about to be marked.
InvBound == Cardinality(emitted) + Marking <= MaxMatches

\* After a clean reset, what is under way belongs to the new demo.
InvClean ==
  cleanReset => /\ \A m \in Pending : m.epoch = epoch
                /\ \A row \in cooldowns : row.epoch = epoch
                /\ \A m \in emitted : m.id \in triggers => m.epoch = epoch
                /\ resetPc /= "gate" => GateIsOfDemo

-----------------------------------------------------------------------------
(***************************************************************************)
(* What a step does to the matches, whatever else it does: seven kinds of  *)
(* move, stated over the sets above.                                       *)
(***************************************************************************)
OthersKeep(e) == \A f \in Evaluators \ {e} : OutOf(f)' = OutOf(f)

\* No match moves.
Stays ==
  /\ \A e \in Evaluators : OutOf(e)' = OutOf(e)
  /\ Queued' = Queued /\ Busy' = Busy /\ Held' = Held
  /\ UNCHANGED <<emitted, outcome>>

\* evaluate appends a new match to an evaluator's result.
Finds(e, m) ==
  /\ m \in Match /\ m.id = Cardinality(emitted) /\ m.epoch = epoch
  /\ emitted' = emitted \cup {m}
  /\ OutOf(e)' = OutOf(e) \cup {m} /\ OthersKeep(e)
  /\ Queued' = Queued /\ Busy' = Busy /\ Held' = Held
  /\ UNCHANGED outcome

\* The evaluator hands a match over to the channel.
Sends(e, m) ==
  /\ m \in OutOf(e)
  /\ OutOf(e)' = OutOf(e) \ {m} /\ OthersKeep(e)
  /\ Queued' = Queued \cup {m} /\ Busy' = Busy /\ Held' = Held
  /\ UNCHANGED <<emitted, outcome>>

\* The evaluator finds the channel full.
Drops(e, m) ==
  /\ m \in OutOf(e)
  /\ OutOf(e)' = OutOf(e) \ {m} /\ OthersKeep(e)
  /\ Queued' = Queued /\ Busy' = Busy /\ Held' = Held
  /\ Resolve("dropped", {m.id})
  /\ UNCHANGED emitted

\* A worker receives a match.
Takes(w, m) ==
  /\ m \in Queued /\ w \in Workers \ Busy
  /\ \A e \in Evaluators : OutOf(e)' = OutOf(e)
  /\ Queued' = Queued \ {m} /\ Busy' = Busy \cup {w} /\ Held' = Held \cup {m}
  /\ UNCHANGED <<emitted, outcome>>

\* fireMatch returns.
Ends(m, o) ==
  /\ m \in Held
  /\ \A e \in Evaluators : OutOf(e)' = OutOf(e)
  /\ Queued' = Queued /\ Held' = Held \ {m}
  /\ Resolve(o, {m.id})
  /\ UNCHANGED emitted

\* The process dies.
Loses ==
  /\ \A e \in Evaluators : OutOf(e)' = {}
  /\ Queued' = {} /\ Busy' = {} /\ Held' = {}
  /\ Resolve("lost", {m.id : m \in Pending})
  /\ UNCHANGED emitted

Moves ==
  \/ Stays
  \/ \E e \in Evaluators, m \in Match :
       Finds(e, m) \/ Sends(e, m) \/ Drops(e, m)
  \/ \E w \in Workers, m \in Match : Takes(w, m)
  \/ \E m \in Match, o \in Outcomes : Ends(m, o)
  \/ Loses

\* Nothing is carried that is not a match.
LEMMA CarriedType ==
  ASSUME TypeInv
  PROVE  /\ \A e \in Evaluators : OutOf(e) \subseteq Match
         /\ Queued \subseteq Match
         /\ Held \subseteq Match
  <1>1. ASSUME NEW e \in Evaluators
        PROVE  OutOf(e) \subseteq Match
    <2>1. eval[e].pc /= "idle" => eval[e].out \in Seq(Match)
      BY DEF TypeInv, TypeOK, BusyEval, EvalIdle
    <2> QED
      BY <2>1 DEF OutOf, Elements
  <1>2. Queued \subseteq Match
    BY DEF TypeInv, TypeOK, Queued, Elements
  <1>3. Held \subseteq Match
    BY DEF TypeInv, TypeOK, Held, Busy, BusyWorker, WorkerIdle
  <1> QED
    BY <1>1, <1>2, <1>3

\* A step that leaves the workers and the channel alone leaves their matches.
LEMMA WorkersKept ==
  ASSUME UNCHANGED <<worker, matchCh>>
  PROVE  Queued' = Queued /\ Busy' = Busy /\ Held' = Held
  BY DEF Queued, Busy, Held

\* A step that leaves an evaluator alone leaves its matches.
LEMMA EvaluatorKept ==
  ASSUME NEW e, eval'[e] = eval[e]
  PROVE  OutOf(e)' = OutOf(e)
  BY DEF OutOf

\* What is carried was emitted and has not ended.
LEMMA CarriedPending ==
  ASSUME PlaceInv, NEW m \in Carried
  PROVE  m \in emitted /\ m.id \notin Resolved
  BY DEF PlaceInv, InvPending, Pending

\* A rule that does not match, one that passes Allow, another persona and the
\* end of an evaluation move no match.
LEMMA EvalStays ==
  ASSUME PlaceInv, NEW e \in Evaluators,
         \/ \E r \in Rules : SkipRule(e, r) \/ AllowRule(e, r)
         \/ NextPersona(e)
         \/ EndEval(e)
  PROVE  InvDistinct' /\ Stays
  <1>0. /\ TypeInv /\ InvDistinct
        /\ eval[e].pc = "rules"
        /\ eval \in [Evaluators -> BusyEval \cup {EvalIdle}]
    BY DEF PlaceInv, TypeInv, TypeOK, SkipRule, AllowRule, NextPersona, EndEval,
           EvalDone, BetweenRules
  <1>1. eval[e] \in BusyEval
    BY <1>0 DEF EvalIdle
  <1>2. UNCHANGED <<matchCh, worker, emitted, outcome>>
    BY DEF SkipRule, AllowRule, NextPersona, EndEval
  <1>3. \A f \in Evaluators : f /= e => eval'[f] = eval[f]
    BY <1>0 DEF SkipRule, AllowRule, NextPersona, EndEval
  <1>4. /\ eval'[e].pc /= "idle" => eval'[e].out = eval[e].out
        /\ OutOf(e)' = OutOf(e)
    <2>1. CASE \E r \in Rules : SkipRule(e, r) \/ AllowRule(e, r)
      <3>1. eval'[e].pc = "rules" /\ eval'[e].out = eval[e].out
        BY <1>0, <1>1, <2>1 DEF SkipRule, AllowRule, BusyEval
      <3> QED
        BY <1>0, <3>1 DEF OutOf
    <2>2. CASE NextPersona(e)
      <3>1. eval'[e].pc = "rules" /\ eval'[e].out = eval[e].out
        BY <1>0, <1>1, <2>2 DEF NextPersona, BusyEval
      <3> QED
        BY <1>0, <3>1 DEF OutOf
    <2>3. CASE EndEval(e)
      <3>1. eval'[e].pc = "idle" /\ eval[e].out = <<>>
        BY <1>0, <2>3 DEF EndEval, EvalIdle
      <3> QED
        BY <1>0, <3>1 DEF OutOf, Elements
    <2> QED
      BY <2>1, <2>2, <2>3
  <1>5. \A f \in Evaluators : OutOf(f)' = OutOf(f)
    BY <1>3, <1>4, EvaluatorKept
  <1>6. Stays
    BY <1>2, <1>5, WorkersKept DEF Stays
  <1>7. InvDistinct'
    BY <1>0, <1>2, <1>3, <1>4 DEF InvDistinct, Busy
  <1> QED
    BY <1>6, <1>7

\* MarkRule finds a match.
LEMMA MarkFinds ==
  ASSUME PlaceInv, NEW e \in Evaluators, NEW r \in Rules, MarkRule(e, r)
  PROVE  InvDistinct' /\ Finds(e, NewMatch(e, r)) /\ NewMatch(e, r) \notin emitted
  <1> DEFINE new == NewMatch(e, r)
  <1>0. /\ TypeInv /\ InvDistinct /\ InvIds
        /\ eval[e].pc = "rules"
        /\ eval \in [Evaluators -> BusyEval \cup {EvalIdle}]
    BY DEF PlaceInv, TypeInv, TypeOK, MarkRule
  <1>1. eval[e] \in BusyEval /\ eval[e].out \in Seq(Match)
    BY <1>0 DEF EvalIdle, BusyEval
  <1>2. new \in Match /\ new.id = Cardinality(emitted) /\ new.epoch = epoch
    BY <1>0, <1>1, NewMatchType DEF NewMatch
  <1>3. new \notin emitted
    <2>1. Cardinality(emitted) \in Nat
      BY <1>0, FS_CardinalityType DEF TypeInv
    <2> QED
      BY <1>0, <1>2, <2>1 DEF InvIds
  <1>4. OutOf(e) = Elements(eval[e].out) /\ OutOf(e) \subseteq emitted
    <2>1. OutOf(e) = Elements(eval[e].out)
      BY <1>0 DEF OutOf
    <2>2. OutOf(e) \subseteq Carried
      BY DEF Carried, Evaluators
    <2> QED
      BY <2>1, <2>2, CarriedPending
  <1>5. /\ eval' = [eval EXCEPT ![e].allowed = {}, ![e].out = Append(@, new)]
        /\ emitted' = emitted \cup {new}
        /\ UNCHANGED <<matchCh, worker, outcome>>
    BY DEF MarkRule
  <1> HIDE DEF new
  <1>6. /\ eval'[e].pc = "rules" /\ eval'[e].out = Append(eval[e].out, new)
        /\ \A f \in Evaluators : f /= e => eval'[f] = eval[f]
    BY <1>0, <1>1, <1>5 DEF BusyEval
  <1>7. /\ OutOf(e)' = OutOf(e) \cup {new}
        /\ Distinct(eval'[e].out)
    <2>1. Distinct(eval[e].out)
      BY <1>0 DEF InvDistinct
    <2>2. /\ Elements(Append(eval[e].out, new)) = OutOf(e) \cup {new}
          /\ Distinct(Append(eval[e].out, new))
      BY <1>1, <1>2, <1>3, <1>4, <2>1, ElementsAppend
    <2> QED
      BY <1>6, <2>2 DEF OutOf
  <1>8. OthersKeep(e)
    BY <1>6, EvaluatorKept DEF OthersKeep
  <1>9. Finds(e, new)
    BY <1>2, <1>5, <1>7, <1>8, WorkersKept DEF Finds
  <1>10. InvDistinct'
    BY <1>0, <1>5, <1>6, <1>7 DEF InvDistinct, Busy
  <1> QED
    BY <1>3, <1>9, <1>10 DEF new

\* What both ends of an evaluator's hand-over share: its result loses its head.
LEMMA EvalHandsOver ==
  ASSUME PlaceInv, NEW e \in Evaluators, EvalDone(e), eval[e].out /= <<>>,
         eval' = [eval EXCEPT ![e].out = Tail(@)]
  PROVE  /\ Head(eval[e].out) \in OutOf(e) /\ Head(eval[e].out) \in Match
         /\ OutOf(e)' = OutOf(e) \ {Head(eval[e].out)} /\ OthersKeep(e)
         /\ \A f \in Evaluators : eval'[f].pc /= "idle" => Distinct(eval'[f].out)
  <1>0. /\ TypeInv /\ InvDistinct
        /\ eval[e].pc = "rules"
        /\ eval \in [Evaluators -> BusyEval \cup {EvalIdle}]
    BY DEF PlaceInv, TypeInv, TypeOK, EvalDone, BetweenRules
  <1>1. eval[e] \in BusyEval /\ eval[e].out \in Seq(Match)
    BY <1>0 DEF EvalIdle, BusyEval
  <1>2. OutOf(e) = Elements(eval[e].out) /\ Distinct(eval[e].out)
    BY <1>0 DEF OutOf, InvDistinct
  <1> DEFINE h == Head(eval[e].out)
             t == Tail(eval[e].out)
  <1>3. h \in OutOf(e) /\ Elements(t) = OutOf(e) \ {h} /\ Distinct(t)
    BY <1>1, <1>2, ElementsTail
  <1>4. h \in Match
    BY <1>0, <1>3, CarriedType
  <1>5. eval' = [eval EXCEPT ![e].out = t]
    OBVIOUS
  <1> HIDE DEF h, t
  <1>6. /\ eval'[e].pc = "rules" /\ eval'[e].out = t
        /\ \A f \in Evaluators : f /= e => eval'[f] = eval[f]
    BY <1>0, <1>1, <1>5 DEF BusyEval
  <1>7. OutOf(e)' = OutOf(e) \ {h}
    BY <1>3, <1>6 DEF OutOf
  <1>8. OthersKeep(e)
    BY <1>6, EvaluatorKept DEF OthersKeep
  <1>9. \A f \in Evaluators : eval'[f].pc /= "idle" => Distinct(eval'[f].out)
    BY <1>0, <1>3, <1>6 DEF InvDistinct
  <1> QED
    BY <1>3, <1>4, <1>7, <1>8, <1>9 DEF h

\* SendMatch moves a match into the channel.
LEMMA SendSends ==
  ASSUME PlaceInv, NEW e \in Evaluators, SendMatch(e)
  PROVE  InvDistinct' /\ Sends(e, Head(eval[e].out)) /\ Head(eval[e].out) \in Match
  <1> DEFINE h == Head(eval[e].out)
  <1>1. /\ h \in OutOf(e) /\ h \in Match
        /\ OutOf(e)' = OutOf(e) \ {h} /\ OthersKeep(e)
        /\ \A f \in Evaluators : eval'[f].pc /= "idle" => Distinct(eval'[f].out)
    BY EvalHandsOver DEF SendMatch
  <1>2. matchCh' = Append(matchCh, h) /\ UNCHANGED <<worker, emitted, outcome>>
    BY DEF SendMatch
  <1>3. matchCh \in Seq(Match) /\ Distinct(matchCh) /\ InvDistinct
    BY DEF PlaceInv, TypeInv, TypeOK, InvDistinct
  <1>4. h \notin Elements(matchCh)
    BY <1>1 DEF PlaceInv, InvSeparate, Queued, Evaluators
  <1> HIDE DEF h
  <1>5. Queued' = Queued \cup {h} /\ Distinct(matchCh')
    BY <1>1, <1>2, <1>3, <1>4, ElementsAppend DEF Queued
  <1>6. Busy' = Busy /\ Held' = Held
    BY <1>2 DEF Busy, Held
  <1>7. Sends(e, h)
    BY <1>1, <1>2, <1>5, <1>6 DEF Sends
  <1>8. InvDistinct'
    BY <1>1, <1>2, <1>3, <1>5 DEF InvDistinct, Busy
  <1> QED
    BY <1>1, <1>7, <1>8 DEF h

\* DropMatch ends a match.
LEMMA DropDrops ==
  ASSUME PlaceInv, NEW e \in Evaluators, DropMatch(e)
  PROVE  InvDistinct' /\ Drops(e, Head(eval[e].out)) /\ Head(eval[e].out) \in Match
  <1> DEFINE h == Head(eval[e].out)
  <1>1. /\ h \in OutOf(e) /\ h \in Match
        /\ OutOf(e)' = OutOf(e) \ {h} /\ OthersKeep(e)
        /\ \A f \in Evaluators : eval'[f].pc /= "idle" => Distinct(eval'[f].out)
    BY EvalHandsOver DEF DropMatch
  <1>2. Resolve("dropped", {h.id}) /\ UNCHANGED <<matchCh, worker, emitted>>
    BY DEF DropMatch
  <1>3. InvDistinct
    BY DEF PlaceInv
  <1> HIDE DEF h
  <1>4. Drops(e, h)
    BY <1>1, <1>2, WorkersKept DEF Drops
  <1>5. InvDistinct'
    BY <1>1, <1>2, <1>3 DEF InvDistinct, Busy
  <1> QED
    BY <1>1, <1>4, <1>5 DEF h

\* TakeMatch moves a match from the channel to an idle worker.
LEMMA TakeTakes ==
  ASSUME PlaceInv, NEW w \in Workers, TakeMatch(w)
  PROVE  InvDistinct' /\ Takes(w, Head(matchCh)) /\ Head(matchCh) \in Match
  <1> DEFINE h == Head(matchCh)
             t == Tail(matchCh)
  <1>0. /\ TypeInv /\ InvDistinct
        /\ matchCh \in Seq(Match) /\ Distinct(matchCh)
        /\ worker \in [Workers -> BusyWorker \cup {WorkerIdle}]
    BY DEF PlaceInv, TypeInv, TypeOK, InvDistinct
  <1>1. /\ worker[w].pc = "idle" /\ matchCh /= <<>>
        /\ worker' = [worker EXCEPT ![w] = [pc |-> "check", m |-> h,
                                            sure |-> FALSE, at |-> 0]]
        /\ matchCh' = t
        /\ UNCHANGED <<eval, emitted, outcome>>
    BY DEF TakeMatch, Holds
  <1>2. h \in Queued /\ Elements(t) = Queued \ {h} /\ Distinct(t)
    BY <1>0, <1>1, ElementsTail DEF Queued
  <1>3. h \in Match
    BY <1>0, <1>2, CarriedType
  <1> HIDE DEF h, t
  <1>4. /\ worker'[w].pc /= "idle" /\ worker'[w].m = h
        /\ \A v \in Workers : v /= w => worker'[v] = worker[v]
    BY <1>0, <1>1
  <1>5. w \notin Busy /\ Busy' = Busy \cup {w}
    BY <1>1, <1>4 DEF Busy
  <1>6. Held' = Held \cup {h}
    BY <1>4, <1>5 DEF Held, Busy
  <1>7. Takes(w, h)
    BY <1>1, <1>2, <1>5, <1>6, EvaluatorKept DEF Takes, Queued
  <1>8. \A v \in Busy : worker[v].m /= h
    BY <1>2 DEF PlaceInv, InvSeparate, Held
  <1>9. InvDistinct'
    <2>1. \A u, v \in Busy' : worker'[u].m = worker'[v].m => u = v
      BY <1>0, <1>4, <1>5, <1>8 DEF InvDistinct, Busy
    <2> QED
      BY <1>0, <1>1, <1>2, <2>1 DEF InvDistinct
  <1> QED
    BY <1>3, <1>7, <1>9 DEF h

\* A worker that goes on to another stage keeps its match.
LEMMA FireStays ==
  ASSUME PlaceInv, NEW w \in Workers,
         PassCheck(w) \/ FailCheck(w) \/ GenerateAndDispatch(w) \/ InsertTrigger(w)
  PROVE  InvDistinct' /\ Stays
  <1>0. /\ InvDistinct
        /\ worker \in [Workers -> BusyWorker \cup {WorkerIdle}]
        /\ worker[w].pc /= "idle"
    BY DEF PlaceInv, TypeInv, TypeOK, PassCheck, FailCheck, GenerateAndDispatch,
           InsertTrigger, Holds
  <1>1. worker[w] \in BusyWorker
    BY <1>0 DEF WorkerIdle
  <1>2. UNCHANGED <<eval, matchCh, emitted, outcome>>
    BY DEF PassCheck, FailCheck, GenerateAndDispatch, InsertTrigger
  <1>3. /\ worker'[w].pc /= "idle" /\ worker'[w].m = worker[w].m
        /\ \A v \in Workers : v /= w => worker'[v] = worker[v]
    BY <1>0, <1>1 DEF PassCheck, FailCheck, GenerateAndDispatch, InsertTrigger,
                      Advance, BusyWorker
  <1>4. Busy' = Busy /\ \A v \in Workers : worker'[v].m = worker[v].m
    BY <1>0, <1>3 DEF Busy
  <1>5. Held' = Held
    BY <1>4 DEF Held, Busy
  <1>6. Stays
    BY <1>2, <1>4, <1>5, EvaluatorKept DEF Stays, Queued
  <1>7. InvDistinct'
    BY <1>0, <1>2, <1>4 DEF InvDistinct, Busy
  <1> QED
    BY <1>6, <1>7

\* The stages at which fireMatch returns, and how the match ends there.
FireReturns(w, o) ==
  \/ o = "suppressed" /\ SuppressMatch(w)
  \/ o = "failed" /\ FailGenerate(w)
  \/ o = "fired" /\ UpsertCooldown(w)

\* A worker that returns ends its match.
LEMMA FireEnds ==
  ASSUME PlaceInv, NEW w \in Workers, NEW o \in Outcomes, FireReturns(w, o)
  PROVE  InvDistinct' /\ Ends(worker[w].m, o) /\ worker[w].m \in Match
  <1>0. /\ TypeInv /\ InvDistinct
        /\ worker \in [Workers -> BusyWorker \cup {WorkerIdle}]
        /\ worker[w].pc /= "idle"
    BY DEF PlaceInv, TypeInv, TypeOK, FireReturns, SuppressMatch, FailGenerate,
           UpsertCooldown, Holds
  <1>1. w \in Busy /\ worker[w].m \in Held /\ worker[w].m \in Match
    BY <1>0, CarriedType DEF Busy, Held
  <1>2. Return(w, o) /\ UNCHANGED <<eval, matchCh, emitted>>
    BY DEF FireReturns, SuppressMatch, FailGenerate, UpsertCooldown
  <1>3. /\ worker'[w].pc = "idle"
        /\ \A v \in Workers : v /= w => worker'[v] = worker[v]
    BY <1>0, <1>2 DEF Return, WorkerIdle
  <1>4. Busy' = Busy \ {w}
    BY <1>0, <1>3 DEF Busy
  <1>5. Held' = Held \ {worker[w].m}
    <2>1. \A v \in Busy : worker[v].m = worker[w].m => v = w
      BY <1>0, <1>1 DEF InvDistinct
    <2>2. \A v \in Busy' : v \in Busy /\ v /= w /\ worker'[v].m = worker[v].m
      BY <1>3, <1>4 DEF Busy
    <2> QED
      BY <1>1, <1>4, <2>1, <2>2 DEF Held
  <1>6. Ends(worker[w].m, o)
    BY <1>1, <1>2, <1>5, EvaluatorKept DEF Ends, Queued, Return
  <1>7. InvDistinct'
    BY <1>0, <1>2, <1>3, <1>4 DEF InvDistinct, Busy
  <1> QED
    BY <1>1, <1>6, <1>7

\* A new evaluation, the clock and the reset move no match; a restart loses all.
LEMMA OtherMoves ==
  ASSUME PlaceInv,
         \/ Tick
         \/ \E e \in Evaluators, a \in Anons : StartEval(e, a)
         \/ ResetDatabase \/ PurgeCooldowns \/ ResetWindows
         \/ Restart
         \/ UNCHANGED vars
  PROVE  InvDistinct' /\ (Stays \/ Loses)
  <1>0. InvDistinct /\ eval \in [Evaluators -> BusyEval \cup {EvalIdle}]
    BY DEF PlaceInv, TypeInv, TypeOK
  <1>1. CASE Tick \/ ResetDatabase \/ PurgeCooldowns \/ ResetWindows \/ UNCHANGED vars
    <2>1. UNCHANGED <<eval, matchCh, worker, emitted, outcome>>
      BY <1>1 DEF Tick, ResetDatabase, PurgeCooldowns, ResetWindows, vars, memoryVars
    <2>2. Stays
      BY <2>1, WorkersKept, EvaluatorKept DEF Stays
    <2> QED
      BY <1>0, <2>1, <2>2 DEF InvDistinct, Busy
  <1>2. ASSUME NEW e \in Evaluators, NEW a \in Anons, StartEval(e, a)
        PROVE  InvDistinct' /\ Stays
    <2>1. UNCHANGED <<matchCh, worker, emitted, outcome>>
      BY <1>2 DEF StartEval
    <2>2. /\ eval[e].pc = "idle" /\ eval'[e].pc = "rules" /\ eval'[e].out = <<>>
          /\ \A f \in Evaluators : f /= e => eval'[f] = eval[f]
      BY <1>0, <1>2 DEF StartEval
    <2>3. OutOf(e) = {} /\ OutOf(e)' = {}
      BY <2>2 DEF OutOf, Elements
    <2>4. Stays
      BY <2>1, <2>2, <2>3, WorkersKept, EvaluatorKept DEF Stays
    <2>5. Distinct(eval'[e].out)
      BY <2>2 DEF Distinct
    <2> QED
      BY <1>0, <2>1, <2>2, <2>4, <2>5 DEF InvDistinct, Busy
  <1>3. CASE Restart
    <2>1. /\ \A e \in Evaluators : eval'[e].pc = "idle"
          /\ \A w \in Workers : worker'[w].pc = "idle"
          /\ matchCh' = <<>>
          /\ Resolve("lost", {m.id : m \in Pending})
          /\ UNCHANGED emitted
      BY <1>3 DEF Restart, EvalIdle, WorkerIdle
    <2>2. Busy' = {} /\ Queued' = {}
      BY <2>1 DEF Busy, Queued, Elements
    <2>3. Held' = {} /\ \A e \in Evaluators : OutOf(e)' = {}
      BY <2>1, <2>2 DEF Held, OutOf
    <2>4. Distinct(matchCh')
      BY <2>1 DEF Distinct
    <2> QED
      BY <2>1, <2>2, <2>3, <2>4 DEF Loses, InvDistinct
  <1> QED
    BY <1>1, <1>2, <1>3

\* Every step of the service is one of the seven moves.
LEMMA NextMoves ==
  ASSUME PlaceInv, [Next]_vars
  PROVE  InvDistinct' /\ Moves
  <1>1. ASSUME NEW e \in Evaluators, EvalStep(e)
        PROVE  InvDistinct' /\ Moves
    <2>1. ASSUME NEW r \in Rules, MarkRule(e, r)
          PROVE  InvDistinct' /\ Moves
      <3>1. InvDistinct' /\ Finds(e, NewMatch(e, r))
        BY <2>1, MarkFinds
      <3> QED
        BY <3>1 DEF Moves, Finds
    <2> QED
      BY <1>1, <2>1, EvalStays, SendSends, DropDrops DEF EvalStep, Moves
  <1>2. ASSUME NEW w \in Workers, TakeMatch(w)
        PROVE  InvDistinct' /\ Moves
    BY <1>2, TakeTakes DEF Moves
  <1>3. ASSUME NEW w \in Workers, FireStep(w)
        PROVE  InvDistinct' /\ Moves
    <2>1. ASSUME NEW o \in Outcomes, FireReturns(w, o)
          PROVE  InvDistinct' /\ Moves
      BY <2>1, FireEnds DEF Moves
    <2>2. SuppressMatch(w) \/ FailGenerate(w) \/ UpsertCooldown(w)
            => \E o \in Outcomes : FireReturns(w, o)
      BY DEF FireReturns, Outcomes
    <2> QED
      BY <1>3, <2>1, <2>2, FireStays DEF FireStep, Moves
  <1> QED
    BY <1>1, <1>2, <1>3, OtherMoves DEF Next, Finished, Moves

-----------------------------------------------------------------------------
(***************************************************************************)
(* The moves keep the invariant.                                           *)
(***************************************************************************)

\* Ids that end in one way, and had not ended, keep the outcomes apart.
LEMMA ResolveAdds ==
  ASSUME TypeInv, InvSeparate, NEW o \in Outcomes, NEW ids \in SUBSET Nat,
         Resolve(o, ids), ids \cap Resolved = {}
  PROVE  /\ Resolved' = Resolved \cup ids
         /\ \A p, q \in Outcomes : p /= q => outcome'[p] \cap outcome'[q] = {}
  <1>1. outcome \in [Outcomes -> SUBSET Nat]
    BY DEF TypeInv, TypeOK
  <1>2. /\ outcome'[o] = outcome[o] \cup ids
        /\ \A p \in Outcomes : p /= o => outcome'[p] = outcome[p]
    BY <1>1 DEF Resolve
  <1>3. Resolved' = Resolved \cup ids
    BY <1>2 DEF Resolved
  <1>4. \A p \in Outcomes : outcome[p] \cap ids = {}
    BY DEF Resolved
  <1>5. \A p, q \in Outcomes : p /= q => outcome[p] \cap outcome[q] = {}
    BY DEF InvSeparate
  <1> QED
    BY <1>2, <1>3, <1>4, <1>5

\* With the outcomes and the history as they are, the invariant only asks that
\* what is carried does not change and stays apart.
LEMMA SameCarried ==
  ASSUME PlaceInv, UNCHANGED <<emitted, outcome>>, Carried' = Carried
  PROVE  InvIds' /\ InvPending'
  BY DEF PlaceInv, InvIds, InvPending, Pending, Resolved

\* One match leaves what is carried and ends.
LEMMA OneEnds ==
  ASSUME PlaceInv, NEW o \in Outcomes, NEW m \in Carried,
         Carried' = Carried \ {m}, Resolve(o, {m.id}), UNCHANGED emitted
  PROVE  /\ InvIds' /\ InvPending'
         /\ Resolved' = Resolved \cup {m.id}
         /\ \A p, q \in Outcomes : p /= q => outcome'[p] \cap outcome'[q] = {}
  <1>1. m \in emitted /\ m.id \notin Resolved /\ m.id \in Nat
    BY CarriedPending DEF PlaceInv, TypeInv, TypeOK, Match
  <1>2. /\ Resolved' = Resolved \cup {m.id}
        /\ \A p, q \in Outcomes : p /= q => outcome'[p] \cap outcome'[q] = {}
    BY <1>1, ResolveAdds DEF PlaceInv
  <1>3. InvIds /\ InvPending
    BY DEF PlaceInv
  <1>4. InvIds'
    BY <1>3 DEF InvIds
  <1>5. Pending' = Pending \ {m}
    BY <1>1, <1>2, <1>3 DEF Pending, InvIds
  <1>6. InvPending'
    BY <1>1, <1>2, <1>3, <1>5 DEF InvPending
  <1> QED
    BY <1>2, <1>4, <1>6

\* A new match has a new id and has not ended.
LEMMA OneFound ==
  ASSUME PlaceInv, NEW m \in Match, m.id = Cardinality(emitted),
         emitted' = emitted \cup {m}, Carried' = Carried \cup {m},
         UNCHANGED outcome
  PROVE  /\ m \notin emitted /\ m.id \notin Resolved
         /\ InvIds' /\ InvPending'
  <1>0. InvIds /\ InvPending /\ IsFiniteSet(emitted) /\ emitted \subseteq Match
    BY DEF PlaceInv, TypeInv, TypeOK
  <1>1. Cardinality(emitted) \in Nat
    BY <1>0, FS_CardinalityType
  <1>2. m \notin emitted /\ \A n \in emitted : n.id /= m.id /\ n.id < m.id
    BY <1>0, <1>1 DEF InvIds, Match
  <1>3. m.id \notin Resolved
    BY <1>0, <1>2 DEF InvPending
  <1>4. Cardinality(emitted') = Cardinality(emitted) + 1
    BY <1>0, <1>2, FS_AddElement
  <1>5. InvIds'
    <2>1. ASSUME NEW n \in emitted'
          PROVE  n.id < Cardinality(emitted')
      BY <1>0, <1>1, <1>2, <1>4 DEF Match
    <2>2. \A n, k \in emitted' : n.id = k.id => n = k
      BY <1>0, <1>2 DEF InvIds
    <2> QED
      BY <2>1, <2>2 DEF InvIds
  <1>6. Resolved' = Resolved
    BY DEF Resolved
  <1>7. Pending' = Pending \cup {m}
    BY <1>3, <1>6 DEF Pending
  <1>8. InvPending'
    BY <1>0, <1>6, <1>7 DEF InvPending
  <1> QED
    BY <1>2, <1>3, <1>5, <1>8

\* Every move keeps the matches apart and accounted for.
LEMMA MovesKeepPlaces ==
  ASSUME PlaceInv, Moves
  PROVE  InvIds' /\ InvSeparate' /\ InvPending'
  <1>0. InvSeparate /\ TypeInv
    BY DEF PlaceInv
  <1>1. CASE Stays
    <2>1. Carried' = Carried
      BY <1>1 DEF Stays, Carried, Evaluators
    <2>2. InvSeparate'
      BY <1>0, <1>1 DEF Stays, InvSeparate, Evaluators
    <2> QED
      BY <1>1, <2>1, <2>2, SameCarried DEF Stays
  <1>2. ASSUME NEW e \in Evaluators, NEW m \in Match, Finds(e, m)
        PROVE  InvIds' /\ InvSeparate' /\ InvPending'
    <2>1. Carried' = Carried \cup {m}
      BY <1>2 DEF Finds, OthersKeep, Carried, Evaluators
    <2>2. m \notin emitted /\ InvIds' /\ InvPending'
      BY <1>2, <2>1, OneFound DEF Finds
    <2>3. m \notin Carried
      BY <2>2, CarriedPending
    <2>4. InvSeparate'
      BY <1>0, <1>2, <2>3 DEF Finds, OthersKeep, InvSeparate, Carried, Evaluators
    <2> QED
      BY <2>2, <2>4
  <1>3. ASSUME NEW e \in Evaluators, NEW m \in Match, Sends(e, m)
        PROVE  InvIds' /\ InvSeparate' /\ InvPending'
    <2>1. Carried' = Carried
      BY <1>0, <1>3 DEF Sends, OthersKeep, InvSeparate, Carried, Evaluators
    <2>2. InvSeparate'
      BY <1>0, <1>3 DEF Sends, OthersKeep, InvSeparate, Evaluators
    <2> QED
      BY <1>3, <2>1, <2>2, SameCarried DEF Sends
  <1>4. ASSUME NEW e \in Evaluators, NEW m \in Match, Drops(e, m)
        PROVE  InvIds' /\ InvSeparate' /\ InvPending'
    <2>1. Carried' = Carried \ {m} /\ m \in Carried
      BY <1>0, <1>4 DEF Drops, OthersKeep, InvSeparate, Carried, Evaluators
    <2>2. /\ InvIds' /\ InvPending'
          /\ \A p, q \in Outcomes : p /= q => outcome'[p] \cap outcome'[q] = {}
      BY <1>4, <2>1, OneEnds DEF Drops, Outcomes
    <2>3. InvSeparate'
      BY <1>0, <1>4, <2>2 DEF Drops, OthersKeep, InvSeparate, Evaluators
    <2> QED
      BY <2>2, <2>3
  <1>5. ASSUME NEW w \in Workers, NEW m \in Match, Takes(w, m)
        PROVE  InvIds' /\ InvSeparate' /\ InvPending'
    <2>1. Carried' = Carried
      BY <1>5 DEF Takes, Carried, Evaluators
    <2>2. InvSeparate'
      BY <1>0, <1>5 DEF Takes, InvSeparate, Evaluators
    <2> QED
      BY <1>5, <2>1, <2>2, SameCarried DEF Takes
  <1>6. ASSUME NEW m \in Match, NEW o \in Outcomes, Ends(m, o)
        PROVE  InvIds' /\ InvSeparate' /\ InvPending'
    <2>1. Carried' = Carried \ {m} /\ m \in Carried
      BY <1>0, <1>6 DEF Ends, InvSeparate, Carried, Evaluators
    <2>2. /\ InvIds' /\ InvPending'
          /\ \A p, q \in Outcomes : p /= q => outcome'[p] \cap outcome'[q] = {}
      BY <1>6, <2>1, OneEnds DEF Ends
    <2>3. InvSeparate'
      BY <1>0, <1>6, <2>2 DEF Ends, InvSeparate, Evaluators
    <2> QED
      BY <2>2, <2>3
  <1>7. CASE Loses
    <2> DEFINE ids == {m.id : m \in Pending}
    <2>1. ids \in SUBSET Nat /\ ids \cap Resolved = {}
      BY <1>0 DEF Pending, TypeInv, TypeOK, Match
    <2>2. Resolve("lost", ids) /\ emitted' = emitted
      BY <1>7 DEF Loses
    <2> HIDE DEF ids
    <2>3. /\ Resolved' = Resolved \cup ids
          /\ \A p, q \in Outcomes : p /= q => outcome'[p] \cap outcome'[q] = {}
      BY <1>0, <2>1, <2>2, ResolveAdds DEF Outcomes
    <2>4. Pending' = {}
      BY <2>2, <2>3 DEF Pending, ids
    <2>5. Carried' = {}
      BY <1>7 DEF Loses, Carried, Evaluators
    <2>6. InvPending'
      BY <2>2, <2>3, <2>4, <2>5 DEF InvPending, PlaceInv, Pending, ids
    <2>7. InvSeparate' /\ InvIds'
      BY <1>7, <2>2, <2>3 DEF Loses, InvSeparate, Evaluators, PlaceInv, InvIds
    <2> QED
      BY <2>6, <2>7
  <1> QED
    BY <1>1, <1>2, <1>3, <1>4, <1>5, <1>6, <1>7 DEF Moves

\* Initially there is no match anywhere.
LEMMA InitPlaces == Init => PlaceInv
  <1> SUFFICES ASSUME Init PROVE PlaceInv
    OBVIOUS
  <1>1. TypeInv
    BY InitType
  <1>2. /\ \A e \in Evaluators : eval[e].pc = "idle"
        /\ \A w \in Workers : worker[w].pc = "idle"
        /\ matchCh = <<>> /\ emitted = {}
        /\ \A o \in Outcomes : outcome[o] = {}
    BY DEF Init, EvalIdle, WorkerIdle
  <1>3. Busy = {} /\ Queued = {} /\ \A e \in Evaluators : OutOf(e) = {}
    BY <1>2 DEF Busy, Queued, OutOf, Elements
  <1>4. Held = {}
    BY <1>3 DEF Held
  <1>5. Resolved = {} /\ Pending = {}
    BY <1>2 DEF Resolved, Pending
  <1>6. InvIds
    BY <1>2 DEF InvIds
  <1>7. InvDistinct
    BY <1>2, <1>3 DEF InvDistinct, Distinct
  <1>8. InvSeparate
    BY <1>2, <1>3, <1>4 DEF InvSeparate, Evaluators
  <1>9. InvPending
    BY <1>3, <1>4, <1>5 DEF InvPending, Carried, Evaluators
  <1> QED
    BY <1>1, <1>6, <1>7, <1>8, <1>9 DEF PlaceInv

\* Every step keeps the invariant.
LEMMA NextPlaces == PlaceInv /\ [Next]_vars => PlaceInv'
  <1> SUFFICES ASSUME PlaceInv, [Next]_vars
               PROVE  PlaceInv'
    OBVIOUS
  <1>1. TypeInv'
    BY NextType DEF PlaceInv
  <1> QED
    BY <1>1, NextMoves, MovesKeepPlaces DEF PlaceInv

-----------------------------------------------------------------------------
\* The invariant gives every match exactly one place.
LEMMA OnePlace == PlaceInv => EachMatchOnce
  <1> SUFFICES ASSUME PlaceInv, NEW m \in emitted
               PROVE  Cardinality(Places(m)) = 1
    BY DEF EachMatchOnce
  <1>0. InvDistinct /\ InvSeparate /\ InvPending
    BY DEF PlaceInv
  <1> DEFINE InOut    == {f \in Evaluators : m \in OutOf(f)}
             InQueue  == {j \in DOMAIN matchCh : matchCh[j] = m}
             InWorker == {v \in Busy : worker[v].m = m}
             InEnd    == {q \in Outcomes : m.id \in outcome[q]}
  <1>1. Places(m) = {<<"out", e>> : e \in InOut} \cup
                    {<<"queue", i>> : i \in InQueue} \cup
                    {<<"worker", w>> : w \in InWorker} \cup
                    {<<"outcome", o>> : o \in InEnd}
    <2>1. InOut = {f \in Evaluators : eval[f].pc /= "idle"
                                        /\ m \in Elements(eval[f].out)}
      BY DEF OutOf
    <2>2. InWorker = {v \in Workers : worker[v].pc /= "idle" /\ worker[v].m = m}
      BY DEF Busy
    <2> QED
      BY <2>1, <2>2 DEF Places
  <1>2. /\ m \in Queued <=> InQueue /= {}
        /\ m \in Held <=> InWorker /= {}
        /\ m \in OutOf("event") \cup OutOf("tick") <=> InOut /= {}
        /\ m.id \in Resolved <=> InEnd /= {}
    BY DEF Queued, Elements, Held, Evaluators, Resolved
  <1>3. /\ \A e, f \in InOut : e = f
        /\ \A i, j \in InQueue : i = j
        /\ \A v, w \in InWorker : v = w
        /\ \A o, p \in InEnd : o = p
    <2>1. \A e, f \in InOut : e = f
      BY <1>0 DEF InvSeparate, Evaluators
    <2>2. \A i, j \in InQueue : i = j
      BY <1>0 DEF InvDistinct, Distinct
    <2>3. \A v, w \in InWorker : v = w
      BY <1>0 DEF InvDistinct
    <2>4. \A o, p \in InEnd : o = p
      BY <1>0 DEF InvSeparate
    <2> QED
      BY <2>1, <2>2, <2>3, <2>4
  <1> HIDE DEF InOut, InQueue, InWorker, InEnd
  <1>4. m.id \notin Resolved <=> m \in Carried
    BY <1>0 DEF InvPending, Pending
  <1>5. \E p : Places(m) = {p}
    <2>1. CASE m.id \in Resolved
      <3>1. InOut = {} /\ InQueue = {} /\ InWorker = {}
        BY <1>2, <1>4, <2>1 DEF Carried
      <3>2. PICK o \in InEnd : TRUE
        BY <1>2, <2>1
      <3>3. InEnd = {o}
        BY <1>3, <3>2
      <3>4. Places(m) = {<<"outcome", o>>}
        BY <1>1, <3>1, <3>3
      <3> QED
        BY <3>4
    <2>2. CASE m \in OutOf("event") \cup OutOf("tick")
      <3>1. InQueue = {} /\ InWorker = {} /\ InEnd = {}
        BY <1>0, <1>2, <1>4, <2>2 DEF Carried, InvSeparate
      <3>2. PICK e \in InOut : TRUE
        BY <1>2, <2>2
      <3>3. InOut = {e}
        BY <1>3, <3>2
      <3>4. Places(m) = {<<"out", e>>}
        BY <1>1, <3>1, <3>3
      <3> QED
        BY <3>4
    <2>3. CASE m \in Queued
      <3>1. InOut = {} /\ InWorker = {} /\ InEnd = {}
        BY <1>0, <1>2, <1>4, <2>3 DEF Carried, InvSeparate
      <3>2. PICK i \in InQueue : TRUE
        BY <1>2, <2>3
      <3>3. InQueue = {i}
        BY <1>3, <3>2
      <3>4. Places(m) = {<<"queue", i>>}
        BY <1>1, <3>1, <3>3
      <3> QED
        BY <3>4
    <2>4. CASE m \in Held
      <3>1. InOut = {} /\ InQueue = {} /\ InEnd = {}
        BY <1>0, <1>2, <1>4, <2>4 DEF Carried, InvSeparate
      <3>2. PICK w \in InWorker : TRUE
        BY <1>2, <2>4
      <3>3. InWorker = {w}
        BY <1>3, <3>2
      <3>4. Places(m) = {<<"worker", w>>}
        BY <1>1, <3>1, <3>3
      <3> QED
        BY <3>4
    <2> QED
      BY <1>4, <2>1, <2>2, <2>3, <2>4 DEF Carried
  <1> QED
    BY <1>5, FS_Singleton

\* Whatever the number of evaluated snapshots, workers, failing calls and
\* restarts, a match that evaluate returned is in exactly one place: an
\* evaluator's result, the channel, one worker, or one outcome.
THEOREM MatchesInOnePlace == Spec => []EachMatchOnce
  BY InitPlaces, NextPlaces, OnePlace, PTL DEF Spec

-----------------------------------------------------------------------------
(***************************************************************************)
(* The demo reset. QuiescentResetIsClean is not inductive: a match still   *)
(* under way could write its rows later. InvClean adds that, after a reset *)
(* that began with nothing under way, whatever is pending was found since. *)
(***************************************************************************)

\* No move makes an old match pending.
LEMMA PendingIsOldOrNew ==
  ASSUME PlaceInv, Moves
  PROVE  /\ \A m \in Pending' : m \in Pending \/ (m \notin emitted /\ m.epoch = epoch)
         /\ \A m \in emitted' :
              m \in emitted \/ (m.id = Cardinality(emitted) /\ m.epoch = epoch)
  <1>1. Resolved \subseteq Resolved'
    <2>1. outcome \in [Outcomes -> SUBSET Nat]
      BY DEF PlaceInv, TypeInv, TypeOK
    <2>2. ASSUME NEW o \in Outcomes, NEW ids, Resolve(o, ids)
          PROVE  Resolved \subseteq Resolved'
      BY <2>1, <2>2 DEF Resolve, Resolved
    <2>3. ASSUME outcome' = outcome
          PROVE  Resolved \subseteq Resolved'
      BY <2>3 DEF Resolved
    <2> QED
      BY <2>2, <2>3 DEF Moves, Stays, Finds, Sends, Drops, Takes, Ends, Loses, Outcomes
  <1>2. \/ emitted' = emitted
        \/ \E m \in Match : /\ emitted' = emitted \cup {m}
                            /\ m.id = Cardinality(emitted) /\ m.epoch = epoch
    BY DEF Moves, Stays, Finds, Sends, Drops, Takes, Ends, Loses
  <1> QED
    BY <1>1, <1>2 DEF Pending

\* A step that does not begin a reset writes no row but of a pending match.
LEMMA RowsOfPending ==
  ASSUME PlaceInv, [Next]_vars, ~ResetDatabase
  PROVE  /\ UNCHANGED <<epoch, cleanReset>>
         /\ \A row \in cooldowns' :
              row \in cooldowns \/ \E m \in Pending : row.epoch = m.epoch
         /\ \A i \in triggers' : i \in triggers \/ \E m \in Pending : i = m.id
  <1>0. ASSUME NEW w \in Workers, worker[w].pc /= "idle"
        PROVE  worker[w].m \in Pending
    BY <1>0 DEF PlaceInv, InvPending, Carried, Held, Busy
  <1>1. ASSUME NEW e \in Evaluators, EvalStep(e)
        PROVE  UNCHANGED <<epoch, cleanReset, cooldowns, triggers>>
    BY <1>1 DEF EvalStep, SkipRule, AllowRule, MarkRule, SendMatch, DropMatch,
                NextPersona, EndEval, pgVars, counters
  <1>2. ASSUME NEW w \in Workers, TakeMatch(w)
        PROVE  UNCHANGED <<epoch, cleanReset, cooldowns, triggers>>
    BY <1>2 DEF TakeMatch, pgVars, counters
  <1>3. ASSUME NEW w \in Workers,
               \/ SuppressMatch(w) \/ PassCheck(w) \/ FailCheck(w)
               \/ GenerateAndDispatch(w) \/ FailGenerate(w)
        PROVE  UNCHANGED <<epoch, cleanReset, cooldowns, triggers>>
    BY <1>3 DEF SuppressMatch, PassCheck, FailCheck, GenerateAndDispatch,
                FailGenerate, pgVars, counters, otherCounters
  <1>4. ASSUME NEW w \in Workers, InsertTrigger(w)
        PROVE  /\ UNCHANGED <<epoch, cleanReset, cooldowns>>
               /\ \A i \in triggers' : i \in triggers \/ \E m \in Pending : i = m.id
    BY <1>0, <1>4 DEF InsertTrigger, Holds, otherCounters
  <1>5. ASSUME NEW w \in Workers, UpsertCooldown(w)
        PROVE  /\ UNCHANGED <<epoch, cleanReset, triggers>>
               /\ \A row \in cooldowns' :
                    row \in cooldowns \/ \E m \in Pending : row.epoch = m.epoch
    <2>1. RowOf(w).epoch = worker[w].m.epoch
      BY DEF RowOf
    <2>2. cooldowns' \subseteq cooldowns \cup {RowOf(w)}
      BY <1>5 DEF UpsertCooldown
    <2>3. worker[w].m \in Pending
      BY <1>0, <1>5 DEF UpsertCooldown, Holds
    <2> QED
      BY <1>5, <2>1, <2>2, <2>3 DEF UpsertCooldown, otherCounters
  <1>6. ASSUME \/ Tick
               \/ \E e \in Evaluators, a \in Anons : StartEval(e, a)
               \/ PurgeCooldowns \/ ResetWindows \/ Restart \/ UNCHANGED vars
        PROVE  UNCHANGED <<epoch, cleanReset, cooldowns, triggers>>
    BY <1>6 DEF Tick, StartEval, PurgeCooldowns, ResetWindows, Restart, vars,
                pgVars, counters
  <1> QED
    BY <1>1, <1>2, <1>3, <1>4, <1>5, <1>6 DEF Next, Finished, FireStep

\* A step that does not begin a reset marks the gate for a match of the
\* current demo, or clears it.
LEMMA MarksOfDemo ==
  ASSUME PlaceInv, [Next]_vars, ~ResetDatabase, NEW k \in Keys, gate'[k] > 0
  PROVE  \/ gate'[k] = gate[k] /\ resetPc' = resetPc
         \/ gate'[k] = gate[k] /\ resetPc /= "gate"
         \/ \E m \in emitted' : KeyOf(m) = k /\ m.epoch = epoch
  <1>0. gate \in [Keys -> Nat]
    BY DEF PlaceInv, TypeInv, TypeOK
  <1>1. ASSUME NEW e \in Evaluators, NEW r \in Rules, MarkRule(e, r)
        PROVE  \/ gate'[k] = gate[k] /\ resetPc' = resetPc
               \/ \E m \in emitted' : KeyOf(m) = k /\ m.epoch = epoch
    <2>1. /\ Mark(eval[e].anon, r, eval[e].now)
          /\ NewMatch(e, r) \in emitted' /\ resetPc' = resetPc
      BY <1>1 DEF MarkRule
    <2>2. CASE k = <<eval[e].anon, r>>
      <3>1. KeyOf(NewMatch(e, r)) = k /\ NewMatch(e, r).epoch = epoch
        BY <2>2 DEF KeyOf, NewMatch
      <3> QED
        BY <2>1, <3>1
    <2>3. CASE k /= <<eval[e].anon, r>>
      BY <1>0, <2>1, <2>3 DEF Mark
    <2> QED
      BY <2>2, <2>3
  <1>2. ASSUME NEW e \in Evaluators, EvalStep(e),
               \A r \in Rules : ~MarkRule(e, r)
        PROVE  UNCHANGED <<gate, resetPc>>
    BY <1>2 DEF EvalStep, SkipRule, AllowRule, SendMatch, DropMatch, NextPersona,
                EndEval
  <1>3. ASSUME NEW w \in Workers, TakeMatch(w) \/ FireStep(w)
        PROVE  UNCHANGED <<gate, resetPc>>
    BY <1>3 DEF TakeMatch, FireStep, SuppressMatch, PassCheck, FailCheck,
                GenerateAndDispatch, FailGenerate, InsertTrigger, UpsertCooldown
  <1>4. ASSUME PurgeCooldowns \/ Restart
        PROVE  gate'[k] = 0
    BY <1>4 DEF PurgeCooldowns, Restart
  <1>5. ASSUME \/ Tick
               \/ \E e \in Evaluators, a \in Anons : StartEval(e, a)
               \/ UNCHANGED vars
        PROVE  UNCHANGED <<gate, resetPc>>
    BY <1>5 DEF Tick, StartEval, vars, memoryVars
  <1>6. ASSUME ResetWindows
        PROVE  gate' = gate /\ resetPc = "windows"
    BY <1>6 DEF ResetWindows
  <1>7. /\ ~(PurgeCooldowns \/ Restart)
        /\ Finished => UNCHANGED vars
    BY <1>4 DEF Finished
  <1>8. \/ \E e \in Evaluators : EvalStep(e)
        \/ \E w \in Workers : TakeMatch(w) \/ FireStep(w)
        \/ \/ Tick
           \/ \E e \in Evaluators, a \in Anons : StartEval(e, a)
           \/ UNCHANGED vars
        \/ ResetWindows
    BY <1>7 DEF Next
  <1> QED
    BY <1>1, <1>2, <1>3, <1>5, <1>6, <1>8

\* Every step keeps InvClean.
LEMMA NextClean == PlaceInv /\ InvClean /\ [Next]_vars => InvClean'
  <1> SUFFICES ASSUME PlaceInv, InvClean, [Next]_vars, cleanReset'
               PROVE  /\ \A m \in Pending' : m.epoch = epoch'
                      /\ \A row \in cooldowns' : row.epoch = epoch'
                      /\ \A m \in emitted' : m.id \in triggers' => m.epoch = epoch'
                      /\ resetPc' /= "gate" => GateIsOfDemo'
    BY DEF InvClean
  <1>1. CASE ResetDatabase
    <2>1. /\ cooldowns' = {} /\ triggers' = {} /\ UNCHANGED <<emitted, outcome>>
          /\ resetPc' = "gate"
      BY <1>1 DEF ResetDatabase
    <2>2. Pending = {}
      BY <1>1 DEF ResetDatabase, Quiescent
    <2>3. Pending' = {}
      BY <2>1, <2>2 DEF Pending, Resolved
    <2> QED
      BY <2>1, <2>3
  <1>2. CASE ~ResetDatabase
    <2>1. /\ UNCHANGED <<epoch, cleanReset>>
          /\ \A row \in cooldowns' :
               row \in cooldowns \/ \E m \in Pending : row.epoch = m.epoch
          /\ \A i \in triggers' : i \in triggers \/ \E m \in Pending : i = m.id
      BY <1>2, RowsOfPending
    <2>2. /\ \A m \in Pending : m.epoch = epoch
          /\ \A row \in cooldowns : row.epoch = epoch
          /\ \A m \in emitted : m.id \in triggers => m.epoch = epoch
      BY <2>1 DEF InvClean
    <2>3. /\ \A m \in Pending' : m \in Pending \/ (m \notin emitted /\ m.epoch = epoch)
          /\ \A m \in emitted' :
               m \in emitted \/ (m.id = Cardinality(emitted) /\ m.epoch = epoch)
      BY NextMoves, PendingIsOldOrNew
    <2>4. ASSUME NEW m \in emitted', m.id \in triggers'
          PROVE  m.epoch = epoch'
      <3>1. CASE m \notin emitted
        BY <2>1, <2>3, <3>1
      <3>2. CASE m \in emitted /\ m.id \in triggers
        BY <2>1, <2>2, <3>2
      <3>3. CASE m \in emitted /\ m.id \notin triggers
        <4>1. PICK n \in Pending : m.id = n.id
          BY <2>1, <2>4, <3>3
        <4>2. m = n
          BY <3>3, <4>1 DEF PlaceInv, InvIds, Pending
        <4> QED
          BY <2>1, <2>2, <4>2
      <3> QED
        BY <3>1, <3>2, <3>3
    <2>5. ASSUME resetPc' /= "gate"
          PROVE  GateIsOfDemo'
      <3>1. emitted \subseteq emitted'
        BY NextMoves DEF Moves, Stays, Finds, Sends, Drops, Takes, Ends, Loses
      <3> SUFFICES ASSUME NEW k \in Keys, gate'[k] > 0
                   PROVE  \E m \in emitted' : KeyOf(m) = k /\ m.epoch = epoch
        BY <2>1 DEF GateIsOfDemo, KeyOf
      <3>2. CASE gate'[k] = gate[k] /\ resetPc /= "gate"
        <4>1. GateIsOfDemo
          BY <2>1, <3>2 DEF InvClean
        <4> QED
          BY <3>1, <3>2, <4>1 DEF GateIsOfDemo
      <3> QED
        BY <1>2, <2>5, <3>2, MarksOfDemo
    <2> QED
      BY <2>1, <2>2, <2>3, <2>4, <2>5
  <1> QED
    BY <1>1, <1>2

\* A demo reset that begins while no match is under way leaves no cooldown
\* row, no trigger row and, once the gate is purged, no deadline of the earlier
\* demo, and none appears afterwards, whatever runs beside and after the reset.
THEOREM CleanReset == Spec => []QuiescentResetIsClean
  <1>1. Init => InvClean
    <2>1. Init => \A k \in Keys : gate[k] = 0
      BY DEF Init
    <2>2. Init => GateIsOfDemo
      BY <2>1 DEF GateIsOfDemo
    <2> QED
      BY <2>2 DEF Init, InvClean, Pending
  <1>2. InvClean => QuiescentResetIsClean
    BY DEF InvClean, QuiescentResetIsClean
  <1> QED
    BY InitPlaces, NextPlaces, NextClean, <1>1, <1>2, PTL DEF Spec

-----------------------------------------------------------------------------
(***************************************************************************)
(* The bound on matches, which gives AtMostOnce its ids.                   *)
(***************************************************************************)
USE TriggersAssumption

MarkSet == {e \in Evaluators : eval[e].pc = "rules" /\ eval[e].allowed /= {}}

\* Marking counts a finite set.
LEMMA MarkSetFinite ==
  /\ Marking = Cardinality(MarkSet)
  /\ IsFiniteSet(MarkSet)
  /\ Marking \in Nat
  <1>1. Marking = Cardinality(MarkSet)
    BY DEF Marking, MarkSet
  <1>2. IsFiniteSet({"event", "tick"})
    <2>1. IsFiniteSet({"event"})
      BY FS_Singleton
    <2>2. IsFiniteSet({"event"} \cup {"tick"})
      BY <2>1, FS_AddElement
    <2>3. {"event"} \cup {"tick"} = {"event", "tick"}
      OBVIOUS
    <2> QED
      BY <2>2, <2>3
  <1>3. IsFiniteSet(MarkSet)
    <2>1. MarkSet \subseteq {"event", "tick"}
      BY DEF MarkSet, Evaluators
    <2> QED
      BY <1>2, <2>1, FS_Subset
  <1> QED
    BY <1>1, <1>3, FS_CardinalityType

\* The one step that emits a match takes a rule that was counted before.
LEMMA MarkBound ==
  ASSUME PlaceInv, InvBound, NEW e \in Evaluators, NEW r \in Rules, MarkRule(e, r)
  PROVE  InvBound' /\ Cardinality(emitted) < MaxMatches
  <1>0. /\ IsFiniteSet(emitted) /\ eval[e].pc = "rules" /\ eval[e].allowed /= {}
        /\ eval \in [Evaluators -> BusyEval \cup {EvalIdle}]
    BY DEF PlaceInv, TypeInv, TypeOK, MarkRule
  <1>1. eval[e] \in BusyEval
    BY <1>0 DEF EvalIdle
  <1>2. NewMatch(e, r) \notin emitted
    BY MarkFinds
  <1>3. /\ eval'[e].allowed = {}
        /\ \A f \in Evaluators : f /= e => eval'[f] = eval[f]
    <2> DEFINE res == Append(eval[e].out, NewMatch(e, r))
    <2>1. eval' = [eval EXCEPT ![e].allowed = {}, ![e].out = res]
      BY DEF MarkRule
    <2> HIDE DEF res
    <2> QED
      BY <1>0, <1>1, <2>1 DEF BusyEval
  <1>4. e \in MarkSet /\ MarkSet' = MarkSet \ {e}
    BY <1>0, <1>3 DEF MarkSet
  <1>5. Marking' = Marking - 1 /\ Marking \in Nat
    <2>1. Marking' = Cardinality(MarkSet')
      BY DEF Marking, MarkSet
    <2> QED
      BY <1>4, <2>1, MarkSetFinite, FS_RemoveElement
  <1>6. Cardinality(emitted') = Cardinality(emitted) + 1 /\ Cardinality(emitted) \in Nat
    BY <1>0, <1>2, FS_AddElement, FS_CardinalityType DEF MarkRule
  <1>7. Marking /= 0
    BY <1>4, MarkSetFinite, FS_EmptySet
  <1> QED
    BY <1>5, <1>6, <1>7 DEF InvBound

\* Every step keeps the bound.
LEMMA NextBound == PlaceInv /\ InvBound /\ [Next]_vars => InvBound'
  <1> SUFFICES ASSUME PlaceInv, InvBound, [Next]_vars
               PROVE  InvBound'
    OBVIOUS
  <1>0. /\ IsFiniteSet(emitted)
        /\ eval \in [Evaluators -> BusyEval \cup {EvalIdle}]
    BY DEF PlaceInv, TypeInv, TypeOK
  <1>1. Cardinality(emitted) \in Nat /\ MaxMatches \in Nat /\ Marking \in Nat
    BY <1>0, FS_CardinalityType, MarkSetFinite
  <1>2. ASSUME emitted' = emitted, MarkSet' = MarkSet
        PROVE  InvBound'
    <2>1. Marking' = Cardinality(MarkSet')
      BY DEF Marking, MarkSet
    <2> QED
      BY <1>2, <2>1, MarkSetFinite DEF InvBound
  <1>3. ASSUME NEW e \in Evaluators, NEW r \in Rules, SkipRule(e, r)
        PROVE  InvBound'
    <2>1. eval[e] \in BusyEval /\ emitted' = emitted
      BY <1>0, <1>3 DEF SkipRule, BetweenRules, EvalIdle
    <2>2. /\ eval'[e].pc = eval[e].pc /\ eval'[e].allowed = eval[e].allowed
          /\ \A f \in Evaluators : f /= e => eval'[f] = eval[f]
      BY <1>0, <1>3, <2>1 DEF SkipRule, BusyEval
    <2> QED
      BY <1>2, <2>1, <2>2 DEF MarkSet
  <1>4. ASSUME NEW e \in Evaluators, NEW r \in Rules, AllowRule(e, r)
        PROVE  InvBound'
    <2>1. eval[e] \in BusyEval /\ emitted' = emitted
      BY <1>0, <1>4 DEF AllowRule, BetweenRules, EvalIdle
    <2>2. /\ eval'[e].pc = "rules" /\ eval'[e].allowed = {r}
          /\ \A f \in Evaluators : f /= e => eval'[f] = eval[f]
      BY <1>0, <1>4, <2>1 DEF AllowRule, BetweenRules, BusyEval
    <2>3. e \notin MarkSet /\ MarkSet' = MarkSet \cup {e}
      BY <1>4, <2>2 DEF AllowRule, BetweenRules, MarkSet
    <2>4. Marking' = Marking + 1
      <3>1. Marking' = Cardinality(MarkSet')
        BY DEF Marking, MarkSet
      <3> QED
        BY <2>3, <3>1, MarkSetFinite, FS_AddElement
    <2> QED
      BY <1>1, <1>4, <2>1, <2>4 DEF AllowRule, InvBound
  <1>5. ASSUME NEW e \in Evaluators, SendMatch(e) \/ DropMatch(e)
        PROVE  InvBound'
    <2>1. eval[e] \in BusyEval /\ emitted' = emitted
      BY <1>0, <1>5 DEF SendMatch, DropMatch, EvalDone, BetweenRules, EvalIdle
    <2>2. eval' = [eval EXCEPT ![e].out = Tail(@)]
      BY <1>5 DEF SendMatch, DropMatch
    <2>3. /\ eval'[e].pc = eval[e].pc /\ eval'[e].allowed = eval[e].allowed
          /\ \A f \in Evaluators : f /= e => eval'[f] = eval[f]
      BY <1>0, <2>1, <2>2 DEF BusyEval
    <2> QED
      BY <1>2, <2>1, <2>3 DEF MarkSet
  <1>6. ASSUME NEW e \in Evaluators, NextPersona(e)
        PROVE  InvBound'
    <2>1. eval[e] \in BusyEval /\ emitted' = emitted
      BY <1>0, <1>6 DEF NextPersona, EvalDone, BetweenRules, EvalIdle
    <2>2. /\ eval'[e].pc = eval[e].pc /\ eval'[e].allowed = eval[e].allowed
          /\ \A f \in Evaluators : f /= e => eval'[f] = eval[f]
      BY <1>0, <1>6, <2>1 DEF NextPersona, BusyEval
    <2> QED
      BY <1>2, <2>1, <2>2 DEF MarkSet
  <1>7. ASSUME NEW e \in Evaluators, EndEval(e)
        PROVE  InvBound'
    <2>1. /\ eval'[e].pc = "idle" /\ eval[e].allowed = {} /\ emitted' = emitted
          /\ \A f \in Evaluators : f /= e => eval'[f] = eval[f]
      BY <1>0, <1>7 DEF EndEval, EvalDone, BetweenRules, EvalIdle
    <2> QED
      BY <1>2, <2>1 DEF MarkSet
  <1>8. ASSUME NEW e \in Evaluators, NEW a \in Anons, StartEval(e, a)
        PROVE  InvBound'
    <2>1. /\ eval[e].pc = "idle" /\ eval'[e].allowed = {} /\ emitted' = emitted
          /\ \A f \in Evaluators : f /= e => eval'[f] = eval[f]
      BY <1>0, <1>8 DEF StartEval
    <2> QED
      BY <1>2, <2>1 DEF MarkSet
  <1>9. CASE Restart
    <2>1. emitted' = emitted /\ \A e \in Evaluators : eval'[e].pc = "idle"
      BY <1>9 DEF Restart, EvalIdle
    <2>2. MarkSet' = {}
      BY <2>1 DEF MarkSet
    <2>3. Marking' = 0
      <3>1. Marking' = Cardinality(MarkSet')
        BY DEF Marking, MarkSet
      <3> QED
        BY <2>2, <3>1, FS_EmptySet
    <2> QED
      BY <1>1, <2>1, <2>3 DEF InvBound
  <1>10. ASSUME UNCHANGED <<eval, emitted>>
         PROVE  InvBound'
    BY <1>2, <1>10 DEF MarkSet
  <1>11. ASSUME NEW w \in Workers, TakeMatch(w) \/ FireStep(w)
         PROVE  UNCHANGED <<eval, emitted>>
    BY <1>11 DEF TakeMatch, FireStep, SuppressMatch, PassCheck, FailCheck,
                 GenerateAndDispatch, FailGenerate, InsertTrigger, UpsertCooldown
  <1>12. ASSUME Tick \/ ResetDatabase \/ PurgeCooldowns \/ ResetWindows \/ UNCHANGED vars
         PROVE  UNCHANGED <<eval, emitted>>
    BY <1>12 DEF Tick, ResetDatabase, PurgeCooldowns, ResetWindows, vars, memoryVars
  <1> QED
    BY <1>3, <1>4, <1>5, <1>6, <1>7, <1>8, <1>9, <1>10, <1>11, <1>12, MarkBound
       DEF Next, Finished, EvalStep

-----------------------------------------------------------------------------
(***************************************************************************)
(* The refinement: each move is a step of AtMostOnce.                      *)
(***************************************************************************)

\* The refinement mapping over the sets of matches.
Mapped ==
  /\ WaitingIds = {m.id : m \in Queued \cup OutOf("event") \cup OutOf("tick")}
  /\ FiringIds = {m.id : m \in Held}
  /\ Marking \in Nat

\* It is the one of Triggers, in every state.
LEMMA Mapping == Mapped
  <1>1. WaitingIds = {m.id : m \in Queued} \cup
          UNION {{m.id : m \in OutOf(e)} : e \in Evaluators}
    BY DEF WaitingIds, Queued, OutOf
  <1>2. FiringIds = {m.id : m \in Held}
    BY DEF FiringIds, Held, Busy, Holds
  <1> QED
    BY <1>1, <1>2, MarkSetFinite DEF Evaluators, Mapped

\* What is carried is told apart by its id.
LEMMA CarriedIds ==
  ASSUME PlaceInv
  PROVE  /\ \A m, n \in Carried : m.id = n.id => m = n
         /\ \A m \in Carried : m.id \notin Resolved
  <1>1. \A m \in Carried : m \in emitted /\ m.id \notin Resolved
    BY CarriedPending
  <1> QED
    BY <1>1 DEF PlaceInv, InvIds

\* Ids in use are below the bound.
LEMMA IdsBelowBound ==
  ASSUME PlaceInv, InvBound, NEW m \in Carried
  PROVE  m.id \in 0 .. (MaxMatches - 1)
  <1>1. m \in emitted
    BY CarriedPending
  <1>2. m.id \in Nat /\ IsFiniteSet(emitted)
    BY <1>1 DEF PlaceInv, TypeInv, TypeOK, Match
  <1>3. m.id < Cardinality(emitted) /\ Cardinality(emitted) \in Nat
    BY <1>1, <1>2, FS_CardinalityType DEF PlaceInv, InvIds
  <1> QED
    BY <1>2, <1>3, MarkSetFinite DEF InvBound

\* A worker that is idle leaves room for one more firer.
LEMMA RoomForFirer ==
  ASSUME PlaceInv, NEW w \in Workers \ Busy
  PROVE  Cardinality(FiringIds) < Cardinality(Workers)
  <1>1. /\ IsFiniteSet(Workers \ {w})
        /\ Cardinality(Workers \ {w}) = Cardinality(Workers) - 1
        /\ Cardinality(Workers) \in Nat
    BY FS_RemoveElement, FS_CardinalityType
  <1>2. Busy \subseteq Workers \ {w}
    BY DEF Busy
  <1>3. IsFiniteSet(Busy) /\ Cardinality(Busy) <= Cardinality(Workers) - 1
    BY <1>1, <1>2, FS_Subset
  <1> DEFINE f == [v \in Busy |-> worker[v].m.id]
  <1>4. FiringIds = {f[v] : v \in Busy}
    BY DEF FiringIds, Busy, Holds
  <1>5. f \in Surjection(Busy, FiringIds)
    BY <1>4 DEF Surjection
  <1>6. IsFiniteSet(FiringIds) /\ Cardinality(FiringIds) <= Cardinality(Busy)
    BY <1>3, <1>5, FS_Surjection
  <1>7. Cardinality(FiringIds) \in Nat /\ Cardinality(Busy) \in Nat
    BY <1>3, <1>6, FS_CardinalityType
  <1> QED
    BY <1>1, <1>3, <1>6, <1>7

\* Every step is a step of AtMostOnce, or leaves its variables alone.
LEMMA StepRefines ==
  ASSUME PlaceInv, InvBound, InvBound', PlaceInv', Mapped', [Next]_vars
  PROVE  [Promise!Next]_(Promise!vars)
  <1> USE DEF Promise!Next, Promise!vars
  <1>0. Moves
    BY NextMoves
  <1>1. /\ WaitingIds = {m.id : m \in Queued \cup OutOf("event") \cup OutOf("tick")}
        /\ FiringIds = {m.id : m \in Held}
        /\ WaitingIds' = {m.id : m \in Queued' \cup OutOf("event")' \cup OutOf("tick")'}
        /\ FiringIds' = {m.id : m \in Held'}
    BY Mapping DEF Mapped
  <1>2. /\ \A m, n \in Carried : m.id = n.id => m = n
        /\ \A m \in Carried : m.id \notin Resolved
    BY CarriedIds
  <1>3. InvSeparate /\ TypeInv /\ InvPending
    BY DEF PlaceInv
  <1>4. CASE Stays
    <2>1. UNCHANGED <<WaitingIds, FiringIds, Resolved>>
      BY <1>1, <1>4 DEF Stays, Evaluators, Resolved
    <2> QED
      BY <2>1
  <1>5. ASSUME NEW e \in Evaluators, NEW m \in Match, Finds(e, m)
        PROVE  Promise!Next
    <2>1. Carried' = Carried \cup {m} /\ m \in Carried'
      BY <1>5 DEF Finds, OthersKeep, Carried, Evaluators
    <2>2. m \notin emitted /\ m.id \notin Resolved
      BY <1>5, <2>1, OneFound DEF Finds
    <2>3. m.id \in 0 .. (MaxMatches - 1)
      <3>1. m \in emitted' /\ m.id \in Nat
        BY <1>5 DEF Finds, Match
      <3>2. m.id < Cardinality(emitted') /\ IsFiniteSet(emitted')
        BY <3>1 DEF PlaceInv, InvIds, TypeInv
      <3>3. Cardinality(emitted') \in Nat
        BY <3>2, FS_CardinalityType
      <3>4. Marking' \in Nat
        BY DEF Mapped
      <3>5. Cardinality(emitted') + Marking' <= MaxMatches
        BY DEF InvBound
      <3> QED
        BY <3>1, <3>2, <3>3, <3>4, <3>5
    <2>4. \A n \in Carried : n.id /= m.id
      BY <1>5, <2>2, CarriedPending DEF Finds, PlaceInv, InvIds, TypeInv, TypeOK
    <2>5. m.id \notin WaitingIds \cup FiringIds \cup Resolved
      BY <1>1, <2>2, <2>4 DEF Carried
    <2>6. /\ WaitingIds' = WaitingIds \cup {m.id}
          /\ FiringIds' = FiringIds /\ Resolved' = Resolved
      BY <1>1, <1>5 DEF Finds, OthersKeep, Evaluators, Resolved
    <2>7. Promise!Find(m.id)
      BY <2>5, <2>6 DEF Promise!Find
    <2> QED
      BY <2>3, <2>7
  <1>6. ASSUME NEW e \in Evaluators, NEW m \in Match, Sends(e, m)
        PROVE  UNCHANGED <<WaitingIds, FiringIds, Resolved>>
    <2>1. Queued' \cup OutOf("event")' \cup OutOf("tick")'
            = Queued \cup OutOf("event") \cup OutOf("tick")
      BY <1>3, <1>6 DEF Sends, OthersKeep, Evaluators, InvSeparate
    <2>2. Held' = Held /\ Resolved' = Resolved
      BY <1>6 DEF Sends, Resolved
    <2> QED
      BY <1>1, <2>1, <2>2
  <1>7. ASSUME NEW m \in Match, NEW o \in Outcomes, Resolve(o, {m.id}), m \in Carried
        PROVE  Resolved' = Resolved \cup {m.id}
    BY <1>2, <1>3, <1>7, ResolveAdds DEF Match
  <1>8. ASSUME NEW e \in Evaluators, NEW m \in Match, Drops(e, m)
        PROVE  Promise!Next
    <2>1. m \in Carried /\ m \in OutOf("event") \cup OutOf("tick")
      BY <1>8 DEF Drops, Carried, Evaluators
    <2>2. Queued' \cup OutOf("event")' \cup OutOf("tick")'
            = (Queued \cup OutOf("event") \cup OutOf("tick")) \ {m}
      BY <1>3, <1>8 DEF Drops, OthersKeep, Evaluators, InvSeparate
    <2>3. m.id \in WaitingIds /\ WaitingIds' = WaitingIds \ {m.id}
      BY <1>1, <1>2, <2>1, <2>2 DEF Carried
    <2>4. FiringIds' = FiringIds /\ Resolved' = Resolved \cup {m.id}
      BY <1>1, <1>7, <1>8, <2>1 DEF Drops, Outcomes
    <2>5. Promise!Drop(m.id)
      BY <2>3, <2>4 DEF Promise!Drop
    <2> QED
      BY <2>1, <2>5, IdsBelowBound
  <1>9. ASSUME NEW w \in Workers, NEW m \in Match, Takes(w, m)
        PROVE  Promise!Next
    <2>1. m \in Carried /\ m \in Queued /\ w \in Workers \ Busy
      BY <1>9 DEF Takes, Carried
    <2>2. /\ Queued' \cup OutOf("event")' \cup OutOf("tick")'
               = (Queued \cup OutOf("event") \cup OutOf("tick")) \ {m}
          /\ Held' = Held \cup {m}
      BY <1>3, <1>9 DEF Takes, Evaluators, InvSeparate
    <2>3. m.id \in WaitingIds /\ WaitingIds' = WaitingIds \ {m.id}
      BY <1>1, <1>2, <2>1, <2>2 DEF Carried
    <2>4. FiringIds' = FiringIds \cup {m.id} /\ Resolved' = Resolved
      BY <1>1, <1>9, <2>2 DEF Takes, Resolved
    <2>5. Cardinality(FiringIds) < Cardinality(Workers)
      BY <2>1, RoomForFirer
    <2>6. Promise!Pick(m.id)
      BY <2>3, <2>4, <2>5 DEF Promise!Pick, Promise!Cardinality, Cardinality
    <2> QED
      BY <2>1, <2>6, IdsBelowBound
  <1>10. ASSUME NEW m \in Match, NEW o \in Outcomes, Ends(m, o)
         PROVE  Promise!Next
    <2>1. m \in Carried /\ m \in Held
      BY <1>10 DEF Ends, Carried
    <2>2. /\ Queued' \cup OutOf("event")' \cup OutOf("tick")'
               = Queued \cup OutOf("event") \cup OutOf("tick")
          /\ Held' = Held \ {m}
      BY <1>10 DEF Ends, Evaluators
    <2>3. m.id \in FiringIds /\ FiringIds' = FiringIds \ {m.id}
      BY <1>1, <1>2, <2>1, <2>2 DEF Carried
    <2>4. WaitingIds' = WaitingIds /\ Resolved' = Resolved \cup {m.id}
      BY <1>1, <1>7, <1>10, <2>1, <2>2 DEF Ends
    <2>5. Promise!End(m.id)
      BY <2>3, <2>4 DEF Promise!End
    <2> QED
      BY <2>1, <2>5, IdsBelowBound
  <1>11. CASE Loses
    <2> DEFINE ids == {m.id : m \in Pending}
    <2>1. WaitingIds' = {} /\ FiringIds' = {}
      BY <1>1, <1>11 DEF Loses, Evaluators
    <2>2. ids = WaitingIds \cup FiringIds
      BY <1>1, <1>3 DEF InvPending, Carried
    <2>3. ids \in SUBSET Nat /\ ids \cap Resolved = {} /\ Resolve("lost", ids)
      BY <1>3, <1>11 DEF Loses, Pending, TypeInv, TypeOK, Match
    <2> HIDE DEF ids
    <2>4. Resolved' = Resolved \cup ids
      BY <1>3, <2>3, ResolveAdds DEF Outcomes
    <2>5. Promise!Crash
      BY <2>1, <2>2, <2>4 DEF Promise!Crash
    <2> QED
      BY <2>5
  <1> QED
    BY <1>0, <1>4, <1>5, <1>6, <1>8, <1>9, <1>10, <1>11 DEF Moves

\* The trigger path implements the safety part of AtMostOnce, for every number
\* of users, rules, workers, failing calls, resets and restarts: no match is
\* picked by two workers, none is queued again once picked or ended, and no
\* more are fired at a time than there are workers. That a picked match does
\* end is liveness, which FiresAtMostOnce has TLC check.
THEOREM PromiseKept == Spec => Promise!Safety
  <1>1. Init => InvBound
    <2> SUFFICES ASSUME Init PROVE InvBound
      OBVIOUS
    <2>1. emitted = {} /\ \A e \in Evaluators : eval[e].pc = "idle"
      BY DEF Init, EvalIdle
    <2>2. MarkSet = {}
      BY <2>1 DEF MarkSet
    <2>3. Marking = 0 /\ Cardinality(emitted) = 0
      BY <2>1, <2>2, MarkSetFinite, FS_EmptySet
    <2> QED
      BY <2>3 DEF InvBound
  <1>2. Init => Promise!Init
    <2> SUFFICES ASSUME Init PROVE Promise!Init
      OBVIOUS
    <2>1. PlaceInv /\ emitted = {} /\ \A o \in Outcomes : outcome[o] = {}
      BY InitPlaces DEF Init
    <2>2. Resolved = {} /\ Pending = {}
      BY <2>1 DEF Resolved, Pending
    <2>3. Carried = {}
      BY <2>1, <2>2 DEF PlaceInv, InvPending
    <2>4. WaitingIds = {} /\ FiringIds = {}
      BY <2>3, Mapping DEF Mapped, Carried
    <2> QED
      BY <2>2, <2>4 DEF Promise!Init
  <1> QED
    BY <1>1, <1>2, InitPlaces, NextPlaces, NextBound, StepRefines, Mapping, PTL
       DEF Spec, Promise!Safety
=============================================================================
