----------------------------- MODULE Onboarding -----------------------------
(***************************************************************************)
(* The wizard's configuration generator (handlers_onboarding.go): the seed *)
(* document of a persona, rewritten by the answers given.  A document has  *)
(* a sequence of rules, each with its name and when-spec, and the roster   *)
(* of realtors; answers is a map, as in the request.  A realtors answer is *)
(* the sequence of its lines, each split or found malformed.               *)
(***************************************************************************)
EXTENDS RuleLanguage

Leaf(name, x) == Map([k \in {name} |-> x])
Op(op, n)     == Map([k \in {op} |-> Num(n)])
Node(key, xs) == [k \in {key} |-> List(xs)]

Hours == "09:00-18:00 IST"

\* seed/persona-configs/realestate.yaml: two rules told apart by the email.
HighIntent(last) ==
  Node("all", <<Leaf("window.event_count", Op(">=", 3)),
                Leaf("window.event_path_matches", Str("^/listings(/|$).*")),
                Leaf("window.idle_seconds", Op(">=", 8)),
                Leaf("window.has_event_type", Str("page")), last>>)

RealestateSeed ==
  [rules |-> <<
     [name |-> "realtor_known_high_intent",
      when |-> HighIntent(Leaf("traits.known", Str("email")))],
     [name |-> "realtor_anonymous_high_intent",
      when |-> HighIntent(Leaf("not", Leaf("traits.known", Str("email"))))]>>,
   realtors |-> <<[name |-> "Priya N.", suburbs |-> {"suburb-1", "suburb-2"},
                   hours |-> Hours],
                  [name |-> "Arjun M.", suburbs |-> {"suburb-3"},
                   hours |-> "10:00-19:00 IST"]>>]

\* seed/persona-configs/rs-self.yaml.
RSSelfSeed ==
  [rules |-> <<
     [name |-> "onboarding_errored",
      when |-> Node("any",
        <<Leaf("window.has_event_name", Str("Source Setup Error")),
          Leaf("window.has_event_name", Str("Destination Setup Error")),
          Leaf("window.has_event_name", Str("Webhook Send Error"))>>)],
     [name |-> "onboarding_stuck",
      when |-> Node("all",
        <<Leaf("window.has_event_name", Str("Source Created")),
          Leaf("window.event_count_of_name",
               Map([k \in {"name", "=="} |->
                      IF k = "name" THEN Str("Destination Created") ELSE Num(0)])),
          Leaf("window.idle_seconds", Op(">=", 15))>>)]>>,
   realtors |-> <<>>]

SeedDoc(persona) == IF persona = "realestate" THEN RealestateSeed ELSE RSSelfSeed

-----------------------------------------------------------------------------
NotFound == [failed |-> TRUE]

\* setIdleSecondsInAll: the threshold is set in the first idle leaf of the
\* spec, its own or one reached through all-lists.
IdleLeaf(x, n) ==
  IF x.t = "map" THEN Map((">=" :> Num(n)) @@ x.m) ELSE Op(">=", n)

RECURSIVE HasIdleInAll(_)
HasIdleInAll(spec) ==
  \/ "window.idle_seconds" \in DOMAIN spec
  \/ /\ "all" \in DOMAIN spec
     /\ spec["all"].t = "list"
     /\ \E i \in DOMAIN spec["all"].l :
          spec["all"].l[i].t = "map" /\ HasIdleInAll(spec["all"].l[i].m)

RECURSIVE setIdleSecondsInAll(_, _)
setIdleSecondsInAll(spec, n) ==
  IF "window.idle_seconds" \in DOMAIN spec
  THEN [spec EXCEPT !["window.idle_seconds"] = IdleLeaf(@, n)]
  ELSE LET items == spec["all"].l
           Has(i) == items[i].t = "map" /\ HasIdleInAll(items[i].m)
           first == CHOOSE i \in DOMAIN items :
                      Has(i) /\ \A j \in 1..(i - 1) : ~Has(j)
       IN  [spec EXCEPT !["all"] = List([items EXCEPT ![first] =
              Map(setIdleSecondsInAll(items[first].m, n))])]

\* The first rule of that name is changed, when it has an idle leaf.
RuleIndex(doc, name) == {i \in DOMAIN doc.rules : doc.rules[i].name = name}

CanSetIdle(doc, name) ==
  \E i \in RuleIndex(doc, name) : HasIdleInAll(doc.rules[i].when)

setRuleIdleSeconds(doc, name, n) ==
  IF ~CanSetIdle(doc, name) THEN doc
  ELSE LET i == CHOOSE i \in RuleIndex(doc, name) : TRUE
       IN  [doc EXCEPT !.rules[i].when = setIdleSecondsInAll(@, n)]

setFirstErroredEvent(doc, names) ==
  LET i == CHOOSE i \in RuleIndex(doc, "onboarding_errored") : TRUE
      leaf == Leaf("window.has_event_name", Str(names[1]))
  IN  [doc EXCEPT !.rules[i].when = ("any" :> List(<<leaf>>)) @@ @]

setOnboardingErroredEvents(doc, names) ==
  LET i == CHOOSE i \in RuleIndex(doc, "onboarding_errored") : TRUE
      leaves == [j \in DOMAIN names |-> Leaf("window.has_event_name", Str(names[j]))]
  IN  [doc EXCEPT !.rules[i].when = ("any" :> List(leaves)) @@ @]

-----------------------------------------------------------------------------
\* An answer that parses to a positive number of seconds.
IdleAnswer(answers) ==
  IF "idle_seconds" \in DOMAIN answers /\ answers["idle_seconds"].t = "num"
  THEN answers["idle_seconds"].n ELSE 0

RealestateRules == <<"realtor_known_high_intent",
                     "realtor_anonymous_high_intent",
                     "realtor_session_abandoned">>

\* A roster line keeps the hours of the realtor of that name; the malformed
\* ones are skipped and an answer without any good line changes nothing.
Roster(doc, lines) ==
  LET Good(l) == l.ok /\ l.name /= ""
      HoursOf(name) ==
        LET old == {i \in DOMAIN doc.realtors : doc.realtors[i].name = name}
        IN  IF old = {} THEN Hours ELSE doc.realtors[CHOOSE i \in old : TRUE].hours
      kept == SelectSeq(lines, Good)
  IN  [i \in DOMAIN kept |-> [name |-> kept[i].name, suburbs |-> kept[i].suburbs,
                              hours |-> HoursOf(kept[i].name)]]

applyRealestateAnswers(doc, answers) ==
  LET roster == IF "realtors" \in DOMAIN answers
                THEN Roster(doc, answers["realtors"].l) ELSE <<>>
      named  == IF roster = <<>> THEN doc ELSE [doc EXCEPT !.realtors = roster]
      n      == IdleAnswer(answers)
      Set(d, i) == setRuleIdleSeconds(d, RealestateRules[i], n)
  IN  IF n <= 0 THEN named
      ELSE IF ~\E i \in DOMAIN RealestateRules : CanSetIdle(named, RealestateRules[i])
      THEN NotFound
      ELSE Set(Set(Set(named, 1), 2), 3)

\* The in-app banner marker is a key the engine ignores and is left out.
applyRSSelfAnswers(doc, answers) ==
  LET names == IF "error_events" \in DOMAIN answers
               THEN answers["error_events"].l ELSE <<>>
      errored == IF names = <<>> THEN doc ELSE setOnboardingErroredEvents(doc, names)
      n == IdleAnswer(answers)
  IN  IF names /= <<>> /\ RuleIndex(doc, "onboarding_errored") = {} THEN NotFound
      ELSE IF n <= 0 THEN errored
      ELSE IF ~CanSetIdle(errored, "onboarding_stuck") THEN NotFound
      ELSE setRuleIdleSeconds(errored, "onboarding_stuck", n)

applyAnswers(persona, answers) ==
  IF persona = "realestate"
  THEN applyRealestateAnswers(SeedDoc(persona), answers)
  ELSE applyRSSelfAnswers(SeedDoc(persona), answers)

\* handleGenerateConfig: without answers the seed document itself.
handleGenerateConfig(persona, answers) ==
  IF DOMAIN answers = {} THEN SeedDoc(persona) ELSE applyAnswers(persona, answers)

=============================================================================
