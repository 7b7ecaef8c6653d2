------------------------------ MODULE Delivery ------------------------------
(***************************************************************************)
(* What one fire delivers: fireMatch from the cooldown row on, with the    *)
(* profile lookup, the generation of the answer, its rendering, the Slack  *)
(* and mock-email back ends, the trigger row and the two SSE messages      *)
(* (runtime_dispatch.go, activation/mock.go, llm/canned.go, local_agent.go,*)
(* dispatch/).  Who fires and when is left to the module that composes.    *)
(*                                                                         *)
(* Tables are external: a lookup finds any row it may find, and fails or   *)
(* not.  A call that times out may have taken effect.  Maps are shared by  *)
(* reference as in Go, so the answers live in heap: one entry for each     *)
(* built-in answer and one for each fire's own map.                        *)
(***************************************************************************)
EXTENDS Templates, Faults

CONSTANTS
  Configurations,  \* a subset of [llm: {"canned", "live"}, slack: BOOLEAN]
  Users,           \* who fires: one user, one fire
  EmailOf,         \* [Users -> STRING], the email in the user's profile
  CannedOf         \* [template -> the answers its canned row may hold]

VARIABLES
  cfg,        \* LLM_MODE, and whether SLACK_WEBHOOK_URL is set
  fire,       \* per user: the stage of fireMatch and its locals
  heap,       \* the maps answers are kept in
  arrived,    \* per user: the messages Slack or mock_emails got
  unsure,     \* per user: the attempts whose outcome the program cannot know
  slackBox,   \* per user: the last message Slack got
  mail,       \* per user: the row of mock_emails
  row,        \* per user: the row of triggers
  sse         \* per user: what was published

deliveryVars == <<cfg, fire, heap, arrived, unsure, slackBox, mail, row, sse>>

Builtins == DOMAIN defaultRegistry

ASSUME DeliveryAssumption ==
  /\ Users \cap Builtins = {}
  /\ \A t \in DOMAIN CannedOf : \A a \in CannedOf[t] : a.t \in {"map", "nil"}

\* No two users have the same email, and none has the default recipient's.
ASSUME EmailsAssumption ==
  \A u \in Users : /\ Say(EmailOf[u]) /= DefaultTo
                   /\ \A v \in Users \ {u} : EmailOf[u] /= EmailOf[v]

NoFire == [pc |-> "idle", persona |-> "", template |-> "", scheme |-> "",
           snap |-> Nil, traits |-> Nil, raw |-> Nil, ref |-> "",
           attempt |-> 0, status |-> "", expired |-> FALSE, stored |-> FALSE]

NoRow     == [kind |-> "none"]
FailedRow == [kind |-> "error"]

DeliveryInit ==
  /\ cfg \in Configurations
  /\ fire = [u \in Users |-> NoFire]
  /\ heap = [r \in Builtins \cup Users |->
               IF r \in Builtins THEN defaultRegistry[r] ELSE Nil]
  /\ arrived = [u \in Users |-> 0]
  /\ unsure = [u \in Users |-> 0]
  /\ slackBox = [u \in Users |-> Nil]
  /\ mail = [u \in Users |-> Nil]
  /\ row = [u \in Users |-> Nil]
  /\ sse = [u \in Users |-> Nil]

At(u, pc) == fire[u].pc = pc

-----------------------------------------------------------------------------
(***************************************************************************)
(* The match is taken.  A live cooldown row ends the fire at once; when    *)
(* the lookup fails the fire goes on.                                      *)
(***************************************************************************)
Start(u, persona, template, scheme, snap) ==
  /\ At(u, "idle")
  /\ \/ fire' = [fire EXCEPT ![u] = [NoFire EXCEPT
                   !.pc = "profile", !.persona = persona, !.template = template,
                   !.scheme = scheme, !.snap = snap]]
     \/ fire' = [fire EXCEPT ![u].pc = "done"]
  /\ NoFault
  /\ UNCHANGED <<cfg, heap, arrived, unsure, slackBox, mail, row, sse>>

-----------------------------------------------------------------------------
(***************************************************************************)
(* GetProfile.  The row may be absent, hold null, be undecodable, or the   *)
(* lookup may fail; a failure leaves the traits of the fire nil.           *)
(***************************************************************************)
ProfileRows(u) ==
  {[kind |-> "row", traits |-> Map([first_name |-> Say("name"),
                                    email |-> Say(EmailOf[u])])],
   [kind |-> "row", traits |-> Nil],
   NoRow, FailedRow}

TraitsIn(r) ==
  CASE r.kind = "row"   -> IF r.traits = Nil THEN Map(EmptyMap) ELSE r.traits
    [] r.kind = "none"  -> Map(EmptyMap)
    [] r.kind = "error" -> Nil

\* A user_id that misses is tried as an anonymous_id; only rs-self's
\* events carry a user id.
GetProfile(u) ==
  /\ At(u, "profile")
  /\ \E first, second \in ProfileRows(u) :
       LET r == IF fire[u].persona = "rs-self" /\ first = NoRow
                THEN second ELSE first IN
       /\ IF r = FailedRow THEN Fault ELSE NoFault
       /\ fire' = [fire EXCEPT ![u].pc = "generate", ![u].traits = TraitsIn(r)]
  /\ UNCHANGED <<cfg, heap, arrived, unsure, slackBox, mail, row, sse>>

-----------------------------------------------------------------------------
(***************************************************************************)
(* Generate.                                                               *)
(***************************************************************************)

\* The fire ends without an answer: no row, no message.
GenerateFails(u) ==
  /\ At(u, "generate")
  /\ fire' = [fire EXCEPT ![u].pc = "done"]
  /\ Fault
  /\ UNCHANGED <<cfg, heap, arrived, unsure, slackBox, mail, row, sse>>

\* A decoded answer, in a map of its own.
Answered(u, parsed, raw) ==
  /\ heap' = [heap EXCEPT ![u] = parsed]
  /\ fire' = [fire EXCEPT ![u].pc = "fill", ![u].ref = u, ![u].raw = raw]
  /\ NoFault
  /\ UNCHANGED <<cfg, arrived, unsure, slackBox, mail, row, sse>>

\* No canned row, or one that does not decode: the built-in answer itself,
\* not a copy; a generic one, built anew, for a template without any.
hardcodedDefault(u) ==
  LET t == fire[u].template IN
  IF t \in Builtins
  THEN /\ fire' = [fire EXCEPT ![u].pc = "fill", ![u].ref = t,
                               ![u].raw = heap[t]]
       /\ NoFault
       /\ UNCHANGED <<cfg, heap, arrived, unsure, slackBox, mail, row, sse>>
  ELSE Answered(u, GenericDefault, GenericDefault)

\* A row that holds null decodes to a nil map.
GenerateCanned(u) ==
  /\ At(u, "generate")
  /\ cfg.llm = "canned"
  /\ \/ hardcodedDefault(u)
     \/ fire[u].template \in DOMAIN CannedOf
          /\ \E answer \in CannedOf[fire[u].template] : Answered(u, answer, answer)

\* The text streamed by the agent is an object or null, or is wrapped in one.
LiveAnswers ==
  {Nil,
   Map([text |-> Say("prose")]),
   Map([subject |-> Say("subject"), body_markdown |-> Say("body"),
        to_email |-> Text(<<Ph(<<"trait", "email">>, "")>>)])}

GenerateLive(u) ==
  /\ At(u, "generate")
  /\ cfg.llm = "live"
  /\ \E answer \in LiveAnswers : Answered(u, answer, answer)

-----------------------------------------------------------------------------
(***************************************************************************)
(* Rendering, and the recipient put into the rendered map.                 *)
(***************************************************************************)
Realtors == <<[name |-> "Priya N.", suburbs |-> {"suburb-1", "suburb-2"}],
              [name |-> "Arjun M.", suburbs |-> {"suburb-3"}]>>

RenderContext(u) ==
  LET windowMap == BuildWindowMap(fire[u].snap) IN
  [trait   |-> Entries(fire[u].traits),
   window  |-> windowMap,
   realtor |-> RealtorToMap(SelectRealtor(Realtors, fire[u].snap.DominantSuburb)),
   outcome |-> BuildOutcomeMap(fire[u].template, windowMap)]

TraitEmail(u) == stringOrEmpty(fire[u].traits, "email")

\* The profile's email, unless the answer names a recipient.
InjectRecipient(u, rendered) ==
  IF TraitEmail(u) = Empty \/ "to_email" \in DOMAIN Entries(rendered)
  THEN rendered
  ELSE Map(Put(Entries(rendered), "to_email", TraitEmail(u)))

\* The placeholders are filled in the map the answer came in.
RenderedInPlace(u) == fire[u].ref

\* renderMap builds a new map at every level.
RenderedInto(u) == u

Fill(u) ==
  heap' = [heap EXCEPT ![RenderedInto(u)] =
             InjectRecipient(u, Render(heap[fire[u].ref], RenderContext(u)))]

-----------------------------------------------------------------------------
(***************************************************************************)
(* Dispatch.                                                               *)
(***************************************************************************)
slackMaxAttempts == 3

Registered == {"email"} \cup (IF cfg.slack THEN {"slack"} ELSE {})

\* The rendered answer goes to the back end of the destination's scheme; a
\* malformed destination or an unregistered scheme has none.
Dispatch(u) ==
  LET known == fire[u].scheme \in Registered IN
  /\ At(u, "fill")
  /\ Fill(u)
  /\ fire' = [fire EXCEPT ![u].ref = RenderedInto(u),
                          ![u].pc = IF known THEN fire[u].scheme ELSE "record",
                          ![u].status = IF known THEN "" ELSE "failed",
                          ![u].attempt = IF known THEN 1 ELSE 0]
  /\ NoFault
  /\ UNCHANGED <<cfg, arrived, unsure, slackBox, mail, row, sse>>

Payload(u) == heap[fire[u].ref]

Dispatched(u, status) ==
  fire' = [fire EXCEPT ![u].pc = "record", ![u].status = status, ![u].attempt = 0]

\* fireTimeout.  Earlier, it is one of the failures of the calls above.
ContextEnds(u) ==
  /\ fire[u].pc \in {"slack", "email", "record"}
  /\ ~fire[u].expired
  /\ fire' = [fire EXCEPT ![u].expired = TRUE]
  /\ Fault
  /\ UNCHANGED <<cfg, heap, arrived, unsure, slackBox, mail, row, sse>>

Arrives(u) ==
  /\ arrived' = [arrived EXCEPT ![u] = @ + 1]
  /\ IF At(u, "slack")
     THEN /\ slackBox' = [slackBox EXCEPT ![u] =
               buildBlockKit(fire[u].persona, fire[u].template, Payload(u))]
          /\ UNCHANGED mail
     ELSE /\ mail' = [mail EXCEPT ![u] = MailRow(Payload(u), fire[u].raw)]
          /\ UNCHANGED slackBox

LostAnswer(u) == unsure' = [unsure EXCEPT ![u] = @ + 1]

\* One attempt too many.
RetryOnceMore(u) ==
  IF fire[u].attempt > slackMaxAttempts THEN Dispatched(u, "failed")
  ELSE fire' = [fire EXCEPT ![u].attempt = @ + 1]

\* After the third attempt the back end gives up.
Retry(u) ==
  IF fire[u].attempt = slackMaxAttempts THEN Dispatched(u, "failed")
  ELSE fire' = [fire EXCEPT ![u].attempt = @ + 1]

Nothing(u) == UNCHANGED <<arrived, unsure, slackBox, mail>>

\* A refusal that is taken for a delivery.
SlackRefusedAsSent(u) == Dispatched(u, "sent") /\ Nothing(u)

\* A non-2xx answer, or an error before the message got through.
SlackRefused(u) == Retry(u) /\ Nothing(u)

\* postOnce: a 2xx; a refusal; or the message arrives and the answer does not.
\* The context is looked at before each attempt.
SlackAttempt(u) ==
  /\ At(u, "slack")
  /\ IF fire[u].expired THEN Dispatched(u, "failed") /\ Nothing(u) /\ NoFault
     ELSE \/ Dispatched(u, "sent") /\ Arrives(u) /\ UNCHANGED unsure /\ NoFault
          \/ SlackRefused(u) /\ NoFault
          \/ Retry(u) /\ Arrives(u) /\ LostAnswer(u) /\ Fault
  /\ UNCHANGED <<cfg, heap, row, sse>>

\* InsertMockEmail, tried once.
EmailInsert(u) ==
  /\ At(u, "email")
  /\ IF fire[u].expired THEN Dispatched(u, "failed") /\ Nothing(u) /\ NoFault
     ELSE \/ Dispatched(u, "sent") /\ Arrives(u) /\ UNCHANGED unsure /\ NoFault
          \/ Dispatched(u, "failed") /\ Nothing(u) /\ Fault
          \/ Dispatched(u, "failed") /\ Arrives(u) /\ LostAnswer(u) /\ Fault
  /\ UNCHANGED <<cfg, heap, row, sse>>

-----------------------------------------------------------------------------
(***************************************************************************)
(* The trigger row and the messages.                                       *)
(***************************************************************************)

\* mustMarshalRendered: a nil map is stored as the raw answer.
LLMParsed(u) == IF Payload(u) = Nil THEN fire[u].raw ELSE Payload(u)

\* The row is in the table.
RowWritten(u) ==
  row' = [row EXCEPT ![u] = [status |-> fire[u].status, parsed |-> LLMParsed(u)]]

\* The fire goes on, with the id of its row or the zero id.
Recorded(u, stored) ==
  fire' = [fire EXCEPT ![u].pc = "publish", ![u].expired = FALSE,
                       ![u].stored = stored]

\* InsertTrigger fails when the context is over, or for its own reasons; or
\* the row is written and the answer lost.
Record(u) ==
  /\ At(u, "record")
  /\ IF fire[u].expired THEN UNCHANGED row /\ Recorded(u, FALSE) /\ NoFault
     ELSE \/ RowWritten(u) /\ Recorded(u, TRUE) /\ NoFault
          \/ UNCHANGED row /\ Recorded(u, FALSE) /\ Fault
          \/ RowWritten(u) /\ Recorded(u, FALSE) /\ Fault
  /\ UNCHANGED <<cfg, heap, arrived, unsure, slackBox, mail, sse>>

\* The triggers stream, and the mock_emails stream when an email was sent.
\* Only a list is looked into for links.
Publish(u) ==
  LET sent == fire[u].status = "sent" /\ fire[u].scheme = "email" IN
  /\ At(u, "publish")
  /\ sse' = [sse EXCEPT ![u] =
       [status |-> fire[u].status, stored |-> fire[u].stored, parsed |-> Payload(u),
        email |-> sent,
        to |-> IF ~sent THEN Empty
               ELSE OrElse(TraitEmail(u), Say("anon@example.com")),
        links |-> IF sent /\ "doc_links" \in DOMAIN Entries(Payload(u))
                     /\ Entries(Payload(u))["doc_links"].t = "list"
                  THEN Entries(Payload(u))["doc_links"].l ELSE <<>>]]
  /\ fire' = [fire EXCEPT ![u].pc = "done"]
  /\ NoFault
  /\ UNCHANGED <<cfg, heap, arrived, unsure, slackBox, mail, row>>

DeliveryStep(u) ==
  \/ GetProfile(u) \/ GenerateFails(u) \/ GenerateCanned(u) \/ GenerateLive(u)
  \/ Dispatch(u) \/ SlackAttempt(u) \/ EmailInsert(u) \/ Record(u) \/ Publish(u)

-----------------------------------------------------------------------------
Stages == {"idle", "profile", "generate", "fill", "slack", "email",
           "record", "publish", "done"}

DeliveryTypeOK ==
  /\ DOMAIN heap = Builtins \cup Users
  /\ \A r \in DOMAIN heap : heap[r].t \in {"map", "nil"}
  /\ \A u \in Users :
       /\ fire[u].pc \in Stages
       /\ fire[u].attempt \in 0 .. slackMaxAttempts
       /\ fire[u].status \in {"", "sent", "failed"}
       /\ arrived[u] \in 0 .. slackMaxAttempts
       /\ unsure[u] \in 0 .. slackMaxAttempts
=============================================================================
