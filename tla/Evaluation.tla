----------------------------- MODULE Evaluation -----------------------------
(***************************************************************************)
(* One compiled rule against the windows of the visitors: events pass the  *)
(* filter and are folded into windows (Store.Update), every arrival        *)
(* evaluates the rule (EvaluateOnEvent), and the idle ticker evaluates it  *)
(* on the windows that have been silent for IdleAtLeast, when it depends   *)
(* on time (ScanIdle, EvaluateOnTick).  The cooldown gate and the concurrency of   *)
(* the two evaluators are the subject of module Triggers.                  *)
(*                                                                         *)
(* What a rule is, when it holds and whether it depends on time are left   *)
(* to constants; RuleLanguage has their values in the service.             *)
(***************************************************************************)
EXTENDS EventFilter

CONSTANTS
  Events,      \* the events that may arrive
  Rules,       \* the compiled rules
  Holds(_, _, _),    \* Holds(rule, window, now)
  DependsOnTime(_),  \* DependsOnTime(rule): an idle leaf is in it
  MaxEvents,   \* bound on the number of events
  MaxTime      \* bound on the clock

ASSUME EvaluationAssumption ==
  /\ MaxEvents \in Nat
  /\ MaxTime \in Nat \ {0}

ASSUME EventsAssumption ==
  \A e \in Events : {"props", "traits", "ctx"} \subseteq DOMAIN e

VARIABLES
  rule,      \* the compiled rule
  windows,   \* the resident windows, by anonymous id
  matched,   \* the ids whose window matched the rule since their last event
  now,       \* the wall clock
  ticked,    \* the last step was a scan of the idle ticker
  \* history
  hist       \* the events applied, each with its id and receive time

vars == <<rule, windows, matched, now, ticked, hist>>

\* ScanIdle's threshold: one second.
IdleAtLeast == 1

Window(id) == IF id \in DOMAIN windows THEN windows[id] ELSE newUserWindow

Init ==
  /\ rule \in Rules
  /\ windows = EmptyMap
  /\ matched = {}
  /\ now = 1
  /\ ticked = FALSE
  /\ hist = <<>>

LastReceived == IF hist = <<>> THEN 1 ELSE hist[Len(hist)].at

\* The id whose snapshot the pipeline evaluates after an event.
EvaluatedByAnonymousID(e) == e.anon

Evaluated(e) == EffectiveAnonymousID(e)

\* The pipeline takes an event that passes the filter, stamped at receivedAt,
\* possibly before now: it is applied to the window of its id, which is
\* created if needed, and the rule evaluated on the fresh snapshot.  Update
\* ignores an event without an id, and a dropped one changes nothing.
Update(e, receivedAt) ==
  LET p  == Process(e)
      id == EffectiveAnonymousID(p)
      w  == apply(Window(id), p, receivedAt)
  IN  /\ Len(hist) < MaxEvents
      /\ Passes(e)
      /\ id /= ""
      /\ receivedAt >= LastReceived
      /\ windows' = Put(windows, id, w)
      /\ matched' = IF Holds(rule, w, now) THEN matched \cup {Evaluated(p)}
                    ELSE matched \ {Evaluated(p)}
      /\ hist' = Append(hist, [id |-> id, e |-> p, at |-> receivedAt])
      /\ ticked' = FALSE
      /\ UNCHANGED <<rule, now>>

\* The windows a scan hands to its callback.
Idle == {id \in DOMAIN windows : now - windows[id].LastSeen >= IdleAtLeast}

\* evaluate with timeOnly: rules that do not depend on time are skipped.
EvaluateOnTick ==
  /\ ~ticked
  /\ ticked' = TRUE
  /\ matched' = matched \cup
       {id \in Idle : DependsOnTime(rule) /\ Holds(rule, windows[id], now)}
  /\ UNCHANGED <<rule, windows, now, hist>>

Pass ==
  /\ now < MaxTime
  /\ now' = now + 1
  /\ ticked' = FALSE
  /\ UNCHANGED <<rule, windows, matched, hist>>

Next ==
  \/ \E e \in Events, receivedAt \in 1..now : Update(e, receivedAt)
  \/ EvaluateOnTick
  \/ Pass

Spec == Init /\ [][Next]_vars

-----------------------------------------------------------------------------
(***************************************************************************)
(* What the aggregations are in terms of the whole history.                *)
(***************************************************************************)

\* The positions of id's events in the history.
EventsOf(id) == {i \in DOMAIN hist : hist[i].id = id}

Latest(S) == CHOOSE i \in S : \A j \in S : j <= i
Earliest(S) == CHOOSE i \in S : \A j \in S : i <= j

\* The most frequent suburb, of equally frequent ones the last one seen.
InSuburb(id, x) == {i \in EventsOf(id) : SuburbOf(hist[i].e) = x}

Suburbs(id) == {SuburbOf(hist[i].e) : i \in EventsOf(id)} \ {""}

TopSuburbs(id) ==
  {x \in Suburbs(id) : \A y \in Suburbs(id) :
     Cardinality(InSuburb(id, x)) >= Cardinality(InSuburb(id, y))}

ModeSuburb(id) ==
  IF Suburbs(id) = {} THEN ""
  ELSE SuburbOf(hist[Latest({i \in EventsOf(id) :
                               SuburbOf(hist[i].e) \in TopSuburbs(id)})].e)

\* A trait's value: the last identify that carries it, else the first
\* context that does.
Identified(id, k) == {i \in EventsOf(id) : k \in DOMAIN Identifying(hist[i].e)}

InContext(id, k) == {i \in EventsOf(id) : k \in DOMAIN hist[i].e.ctx}

TraitOf(id, k) ==
  IF Identified(id, k) /= {} THEN hist[Latest(Identified(id, k))].e.traits[k]
  ELSE hist[Earliest(InContext(id, k))].e.ctx[k]

TraitKeys(id) ==
  UNION {DOMAIN Identifying(hist[i].e) \cup DOMAIN hist[i].e.ctx : i \in EventsOf(id)}

-----------------------------------------------------------------------------
(***************************************************************************)
(* Properties.                                                             *)
(***************************************************************************)

\* An event in the history.
Ids == {EffectiveAnonymousID(Process(e)) : e \in Events} \ {""}

Entry == [id: Ids, e: {Process(e) : e \in Events}, at: 1..MaxTime]

\* Every variable has its type, and every window its events.
TypeOK ==
  /\ rule \in Rules
  /\ hist \in Seq(Entry)
  /\ Len(hist) <= MaxEvents
  /\ DOMAIN windows = {hist[i].id : i \in DOMAIN hist}
  /\ matched \subseteq DOMAIN windows
  /\ now \in 1..MaxTime
  /\ ticked \in BOOLEAN

\* The incrementally kept DominantSuburb is the most frequent suburb of all
\* the visitor's events, and among equally frequent ones the most recently
\* seen (UserWindow.DominantSuburb): it decides which realtor is assigned.
DominantSuburbIsMode ==
  \A id \in DOMAIN windows : windows[id].DominantSuburb = ModeSuburb(id)

\* A trait the visitor identified with is never replaced by a weaker context
\* trait, before or after it, and context traits keep their first value
\* (UserWindow.apply): traits.known and traits.value rules rest on it.
TraitsPreferIdentify ==
  \A id \in DOMAIN windows :
    /\ DOMAIN windows[id].Traits = TraitKeys(id)
    /\ \A k \in TraitKeys(id) : windows[id].Traits[k] = TraitOf(id, k)

\* No e-mail address or telephone number is kept in a window, whichever of
\* the three containers of an event carried it and however often it was
\* replaced or filled in: what a window holds of such a field is the
\* redaction mark (filter.Process, UserWindow.apply).
PersonalDataRedacted ==
  \A id \in DOMAIN windows :
    LET w == windows[id]
    IN  \A m \in {w.Traits, w.PropertyLast, w.LastListingProps,
                  w.LastFilterProps, w.LastErrorEvent.props} :
          \A k \in DOMAIN m \cap {"email", "phone"} : m[k] = Redacted

\* A rule that UsesTime calls independent of time does not change its answer
\* on a window as time passes (Expr.UsesTime).
TimelessIsTimeless ==
  ~DependsOnTime(rule) =>
    \A id \in DOMAIN windows, t \in 1..MaxTime :
      Holds(rule, windows[id], t) = Holds(rule, windows[id], now)

\* After a scan of the idle ticker, every silent window on which the rule
\* holds now has been matched, by this scan or when its last event arrived:
\* skipping the rules that UsesTime calls independent of time misses none
\* (Engine.EvaluateOnTick, Expr.UsesTime).
TickMissesNoMatch ==
  ticked => \A id \in Idle : Holds(rule, windows[id], now) => id \in matched
=============================================================================
