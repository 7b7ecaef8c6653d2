--------------------------- MODULE RuleProperties ---------------------------
(***************************************************************************)
(* The rule language and the wizard on the windows that Evaluation         *)
(* reaches: what a rule written back, or rewritten by an answer, does.     *)
(***************************************************************************)
EXTENDS Evaluation, Onboarding

CONSTANTS
  IdleChoices, \* the idle_seconds answers tried in the wizard
  NameChoices  \* the error_events answers tried in the wizard

ASSUME RulePropertiesAssumption == IdleChoices \subseteq Nat \ {0}

\* A compiled rule written back with MarshalSpec and read again with
\* UnmarshalSpec compiles, holds on the same windows at the same times, and
\* depends on time exactly when the original does.
RoundTripPreservesRule ==
  LET again == UnmarshalSpec(MarshalSpec(rule))
  IN  /\ ~Failed(again)
      /\ UsesTime(again) = UsesTime(rule)
      /\ \A id \in DOMAIN windows :
           Eval(again, windows[id], now) = Eval(rule, windows[id], now)

\* The rules of a generated document.
CompiledRules(doc) == [i \in DOMAIN doc.rules |-> buildExpr(doc.rules[i].when)]

WithoutIdle(e) ==
  IF e.k = "all"
  THEN AllOf(SelectSeq(e.kids, LAMBDA c : ~(c.k = "pred" /\ c.name \in usesTime)))
  ELSE e

\* Every rule still compiles, and an idle_seconds answer takes effect in every
\* rule with an idle leaf: the rule holds exactly when its other conditions do
\* and the visitor has been idle for at least the answer (setIdleSecondsInAll).
IdleAnswerTakesEffect ==
  \A persona \in {"realestate", "rs-self"}, n \in IdleChoices :
    LET doc == handleGenerateConfig(persona, "idle_seconds" :> Num(n))
        compiled == CompiledRules(doc)
    IN  \A i \in DOMAIN compiled :
          /\ ~Failed(compiled[i])
          /\ UsesTime(compiled[i]) =>
               \A id \in DOMAIN windows :
                 Eval(compiled[i], windows[id], now) =
                   /\ Eval(WithoutIdle(compiled[i]), windows[id], now)
                   /\ IdleFor(windows[id], now) >= n

\* With a list of error events, onboarding_errored holds exactly for the
\* visitors who sent one of them (setOnboardingErroredEvents).
ErrorEventsAnswerTakesEffect ==
  \A names \in NameChoices :
    LET doc == handleGenerateConfig("rs-self", "error_events" :> List(names))
    IN  \A id \in DOMAIN windows :
          Eval(CompiledRules(doc)[1], windows[id], now) =
            (\E i \in EventsOf(id), j \in DOMAIN names : hist[i].e.name = names[j])

\* An answer given in the wizard takes effect in the rules of the document it
\* generates, on every window (applyAnswers).
AnswersTakeEffect == IdleAnswerTakesEffect /\ ErrorEventsAnswerTakesEffect
=============================================================================
