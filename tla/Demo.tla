-------------------------------- MODULE Demo --------------------------------
(***************************************************************************)
(* A demo run end to end: a fire-script request puts its sessions' events  *)
(* into the topic, the rules they satisfy fire, and the fires deliver.     *)
(* What lies between the topic and the match (consumer, windows, rule      *)
(* evaluation, match queue) is modelled by Ingest, WindowStore, Evaluation *)
(* and Triggers; here a rule may match at any time once the events its     *)
(* conditions look for are in the topic, or never.                         *)
(***************************************************************************)
EXTENDS DemoFire, Delivery

CONSTANTS
  UserOf,        \* [Sessions -> Users], the user whose events a session sends
  CustomRules    \* rules of an activated configuration of one's own

ASSUME DemoAssumption ==
  /\ UserOf \in [Sessions -> Users]
  /\ MaxFaults \in Nat

vars == <<fireVars, deliveryVars, faults>>

\* The events of a session the window holds after the first n.
Seen(s, n) == {Script(s)[i] : i \in 1 .. n}

\* The rules of seed/persona-configs, by what the events must hold and whether
\* the visitor's email must be known.
RealestateRules ==
  {[persona |-> "realestate", template |-> "realestate_realtor_pitch",
    scheme |-> "slack", needs |-> {"page"}, atLeast |-> 3, email |-> {TRUE}],
   [persona |-> "realestate", template |-> "realestate_realtor_anonymous",
    scheme |-> "slack", needs |-> {"page"}, atLeast |-> 3, email |-> {FALSE}]}

RsSelfRules ==
  {[persona |-> "rs-self", template |-> "rs_destination_error",
    scheme |-> "email", needs |-> {"Destination Setup Error"}, atLeast |-> 1,
    email |-> BOOLEAN],
   [persona |-> "rs-self", template |-> "rs_onboarding_stuck",
    scheme |-> "email", needs |-> {"Source Created"}, atLeast |-> 1,
    email |-> BOOLEAN]}

SeededRules == RealestateRules \cup RsSelfRules

\* The traits in a session's events have an email, but for the third and the
\* eighth visitor of the real-estate site.
EmailKnown(s) == ~(req.persona = "realestate" /\ s \in {3, 8})

Matches(rule, s, n) ==
  /\ rule.persona = req.persona
  /\ EmailKnown(s) \in rule.email
  /\ rule.needs \subseteq Seen(s, n)
  /\ n >= rule.atLeast

SnapshotOf(s, n) ==
  [DominantSuburb   |-> IF "Listing Viewed" \in Seen(s, n) THEN "suburb-1" ELSE "",
   LastListingProps |-> IF "Listing Viewed" \notin Seen(s, n) THEN EmptyMap
                        ELSE [listing_id |-> Say("L112"), price |-> Num(1200000)],
   LastErrorProps   |-> IF "Destination Setup Error" \notin Seen(s, n) THEN EmptyMap
                        ELSE [error_code |-> Say("AMP_INVALID_API_KEY")]]

Init == FireInit /\ DeliveryInit /\ faults = 0

\* A fire reads only the window it matched on, and a rule may have matched
\* after any of the events. So fires are explored once a run is answered with
\* all of its events in the topic: what they do in the middle of a run, or in
\* one cut short, is the same.
Fires(s) ==
  \E rule \in SeededRules \cup CustomRules, n \in 1 .. accepted[s] :
    /\ req.status = 200
    /\ Matches(rule, s, n)
    /\ Start(UserOf[s], rule.persona, rule.template, rule.scheme, SnapshotOf(s, n))
    /\ UNCHANGED fireVars

Next ==
  \/ FireNext /\ UNCHANGED deliveryVars
  \/ \E s \in Sessions : Fires(s)
  \/ \E u \in Users : (DeliveryStep(u) \/ ContextEnds(u)) /\ UNCHANGED fireVars

\* The program keeps running while it has something to do: sleeps end, and
\* every call returns, since HTTP calls have timeouts and contexts deadlines.
\* No goroutine needs more than that.
Runs ==
  \/ (Answer \/ \E s \in Sessions : SessionStep(s)) /\ UNCHANGED deliveryVars
  \/ \E u \in Users : DeliveryStep(u) /\ UNCHANGED fireVars

Fairness == WF_vars(Runs)

Spec == Init /\ [][Next]_vars /\ Fairness

-----------------------------------------------------------------------------
\* Every variable has its type.
TypeOK == FireTypeOK /\ DeliveryTypeOK /\ faults \in 0 .. MaxFaults

\* The status a fire stores and publishes is what reached the destination:
\* "sent" means the message arrived, exactly once but for attempts whose
\* answer was lost; "failed" means it did not, but for those (Slack's three
\* attempts, MockEmailBackend.Dispatch, fireMatch's DispatchStatus).
StatusIsTrue ==
  \A u \in Users :
    LET known == arrived[u] - unsure[u] IN
    /\ sse[u] /= Nil => known = IF sse[u].status = "sent" THEN 1 ELSE 0
    /\ row[u] /= Nil => known = IF row[u].status = "sent" THEN 1 ELSE 0

\* Whose an email is. An answer that names a recipient is sent there. One
\* that names none never goes to the user of another fire, though fires share
\* the built-in answers: it goes to the fire's own user, or to the default when
\* that user's email is unknown, and the dashboard shows the same (fireMatch's
\* to_email, MockEmailBackend, Render).
\* A recipient that is there but blank breaks what runtime_dispatch.go:79-84
\* promises, "keeping the persisted DB row, the SSE publish, and the
\* OutcomeBanner display consistent": the email goes to the default although
\* the user's is known, and the dashboard shows the user's.
RecipientIsOwn ==
  \A u \in Users : mail[u] /= Nil =>
    LET answer == Render(fire[u].raw, RenderContext(u))
        named  == stringOrEmpty(answer, "to_email")
        absent == "to_email" \notin DOMAIN Entries(answer)
        own    == TraitEmail(u)
        shown  == sse[u] /= Nil /\ sse[u].email /\ own /= Empty
    IN  /\ named /= Empty => mail[u].to = named
        /\ named = Empty =>
             \A v \in Users \ {u} : mail[u].to /= Say(EmailOf[v])
        /\ absent => /\ mail[u].to = OrElse(own, DefaultTo)
                     /\ shown => sse[u].to = mail[u].to
        /\ named = Empty /\ ~absent => /\ mail[u].to = DefaultTo
                                       /\ shown => sse[u].to = own

\* The request is unanswered, or a fire has not ended.
UnderWay ==
  req.pc = "running" \/ \E u \in Users : fire[u].pc \notin {"idle", "done"}

\* A run is answered, and every fire it causes ends, whatever fails
\* (RunConcurrent's WaitGroup, fireMatch's returns, Slack's bounded retries).
RunEnds ==
  UnderWay ~> ~UnderWay
=============================================================================
