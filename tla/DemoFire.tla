------------------------------ MODULE DemoFire ------------------------------
(***************************************************************************)
(* POST /api/demo/fire-script: the handler validates the request, builds   *)
(* one script per session and fires them in concurrent goroutines, to the  *)
(* Pulsar topic or to the ingestion service, under one three-minute        *)
(* context (api/handlers_demo.go, cmd/realtime-trigger/runtime.go          *)
(* makeFireScript, internal/demofire).                                     *)
(*                                                                         *)
(* Sleeps take any time.  The producer and the HTTP client are external: a *)
(* send is accepted, refused, or accepted with its answer lost.            *)
(***************************************************************************)
EXTENDS Integers, Sequences, FiniteSets, FiniteSetsExt, TLC, Faults

CONSTANTS
  Personas,     \* the personas a request may name
  Counts,       \* the session counts a request may name
  MaxSessions   \* the sessions modelled; Counts above it are refused ones

ASSUME DemoFireAssumption ==
  /\ MaxSessions \in 1 .. 3
  /\ Counts \cap (MaxSessions + 1 .. 3) = {}

VARIABLES
  req,       \* the request: its stage, persona, count, HTTP status, event count
  session,   \* per session: the goroutine's stage and the sends it counted
  accepted,  \* per session: how many of its events are in the topic
  firstErr,  \* an error has been recorded by some goroutine
  total,     \* totalSent
  expired    \* the request's context has run out

fireVars == <<req, session, accepted, firstErr, total, expired>>

Sessions == 1 .. MaxSessions

NoPersona == ""

-----------------------------------------------------------------------------
(***************************************************************************)
(* personas.go: the scripts, as sequences of event names (types for events *)
(* without one).  Session s fires profile s - 1 of the rotation.           *)
(***************************************************************************)
realestateListings == <<3, 3, 3, 3, 3, 2, 2, 2>>

RealestateScriptForProfile(idx) ==
  <<"identify", "page">>
    \o [i \in 1 .. realestateListings[idx] |-> "Listing Viewed"]
    \o <<"Filter Applied", "page", "Filter Applied">>

RSSelfScriptForProfile ==
  <<"identify", "Account Created", "Source Created",
    "Destination Setup Error", "page">>

ScriptForPersonaIndex(persona, idx) ==
  IF persona = "realestate" THEN RealestateScriptForProfile(idx)
                            ELSE RSSelfScriptForProfile

profileSpecCount(persona) ==
  CASE persona = "realestate" -> 8 [] persona = "rs-self" -> 3 [] OTHER -> 1

Script(s) == ScriptForPersonaIndex(req.persona, s)

-----------------------------------------------------------------------------
(***************************************************************************)
(* The handler.                                                            *)
(***************************************************************************)
Off == [pc |-> "off", sent |-> 0]

FireInit ==
  /\ req = [pc |-> "none", persona |-> NoPersona, count |-> 0, status |-> 0, events |-> 0]
  /\ session = [s \in Sessions |-> Off]
  /\ accepted = [s \in Sessions |-> 0]
  /\ firstErr = FALSE
  /\ total = 0
  /\ expired = FALSE

ValidRequest(persona, count, speedOK) ==
  persona \in {"realestate", "rs-self"} /\ count \in 1 .. 3 /\ speedOK

\* 400: an unsupported persona, count or speed.
Refuse(persona, count, speedOK) ==
  /\ req.pc = "none"
  /\ ~ValidRequest(persona, count, speedOK)
  /\ req' = [pc |-> "answered", persona |-> persona, count |-> count,
             status |-> 400, events |-> 0]
  /\ NoFault
  /\ UNCHANGED <<session, accepted, firstErr, total, expired>>

\* The count is clipped to the profiles there are; RunConcurrent starts a
\* goroutine for each script.
Accept(persona, count) ==
  /\ req.pc = "none"
  /\ ValidRequest(persona, count, TRUE)
  /\ LET n == Min({count, profileSpecCount(persona)}) IN
       /\ req' = [pc |-> "running", persona |-> persona, count |-> n,
                  status |-> 0, events |-> 0]
       /\ session' = [s \in Sessions |->
                        IF s <= n THEN [Off EXCEPT !.pc = "stagger"] ELSE Off]
  /\ NoFault
  /\ UNCHANGED <<accepted, firstErr, total, expired>>

\* The group waits for as many goroutines as could be asked for.
AnswerAfterAll ==
  /\ req.pc = "running"
  /\ \A s \in Sessions : session[s].pc = "ended"
  /\ req' = [req EXCEPT !.pc = "answered",
                        !.status = IF firstErr THEN 500 ELSE 200,
                        !.events = IF firstErr THEN 0 ELSE total]
  /\ NoFault
  /\ UNCHANGED <<session, accepted, firstErr, total, expired>>

\* wg.Wait returned: the total, or the first error.
Answer ==
  /\ req.pc = "running"
  /\ \A s \in 1 .. req.count : session[s].pc = "ended"
  /\ req' = [pc |-> "answered", persona |-> req.persona, count |-> req.count,
             status |-> IF firstErr THEN 500 ELSE 200,
             events |-> IF firstErr THEN 0 ELSE total]
  /\ NoFault
  /\ UNCHANGED <<session, accepted, firstErr, total, expired>>

\* The three minutes are over.
ContextExpires ==
  /\ req.pc = "running"
  /\ ~expired
  /\ expired' = TRUE
  /\ Fault
  /\ UNCHANGED <<req, session, accepted, firstErr, total>>

-----------------------------------------------------------------------------
(***************************************************************************)
(* The goroutine of one session.                                           *)
(***************************************************************************)

\* The outcome of the last goroutine to end.
ErrorAfterLast(err) == err

\* Under the mutex, only a non-nil error, and only the first.
ErrorAfter(err) == firstErr \/ err

\* What Fire returned is added to the total and its error recorded.
End(s, err) ==
  /\ session' = [session EXCEPT ![s].pc = "ended"]
  /\ total' = total + session[s].sent
  /\ firstErr' = ErrorAfter(err)
  /\ UNCHANGED <<req, expired>>

Goes(s, pc) ==
  /\ session' = [session EXCEPT ![s].pc = pc]
  /\ UNCHANGED <<req, firstErr, total, expired>>

\* The first session starts at once, the others after a sleep the context
\* may cut short.
Stagger(s) ==
  /\ session[s].pc = "stagger"
  /\ IF s > 1 /\ expired THEN End(s, TRUE) ELSE Goes(s, "connect")
  /\ NoFault
  /\ UNCHANGED accepted

\* The client and the producer are created (Pulsar only).
Connect(s) ==
  /\ session[s].pc = "connect"
  /\ \/ Goes(s, "send") /\ NoFault
     \/ End(s, TRUE) /\ Fault
  /\ UNCHANGED accepted

Unfinished(s) == session[s].pc = "send" /\ session[s].sent < Len(Script(s))

\* The context ran out before a step or during its delay.
Cancelled(s) ==
  /\ Unfinished(s) /\ expired
  /\ End(s, TRUE)
  /\ NoFault
  /\ UNCHANGED accepted

Accepted(s) == accepted' = [accepted EXCEPT ![s] = @ + 1]

\* A step: delay, then send.
Send(s) ==
  /\ Unfinished(s) /\ ~expired
  /\ Accepted(s)
  /\ session' = [session EXCEPT ![s].sent = @ + 1]
  /\ NoFault
  /\ UNCHANGED <<req, firstErr, total, expired>>

\* The send is refused, or the event is in the topic and the answer lost.
SendFails(s) ==
  /\ Unfinished(s) /\ ~expired
  /\ End(s, TRUE)
  /\ Accepted(s) \/ UNCHANGED accepted
  /\ Fault

\* The script is over; Flush and Close cannot change what was counted.
Finish(s) ==
  /\ session[s].pc = "send"
  /\ session[s].sent = Len(Script(s))
  /\ End(s, FALSE)
  /\ NoFault
  /\ UNCHANGED accepted

SessionStep(s) ==
  \/ Stagger(s) \/ Connect(s) \/ Cancelled(s)
  \/ Send(s) \/ SendFails(s) \/ Finish(s)

FireNext ==
  \/ \E persona \in Personas, count \in Counts, speedOK \in BOOLEAN :
       Refuse(persona, count, speedOK)
  \/ \E persona \in Personas, count \in Counts : Accept(persona, count)
  \/ Answer
  \/ ContextExpires
  \/ \E s \in Sessions : SessionStep(s)

FireTypeOK ==
  /\ req \in [pc: {"none", "running", "answered"}, persona: Personas \cup {NoPersona},
              count: Counts \cup {0}, status: {0, 200, 400, 500}, events: Nat]
  /\ session \in [Sessions -> [pc: {"off", "stagger", "connect", "send", "ended"},
                               sent: Nat]]
  /\ accepted \in [Sessions -> Nat]
  /\ firstErr \in BOOLEAN
  /\ total \in Nat
  /\ expired \in BOOLEAN

\* The request alone; faults that are not its own are left open.
FireSpec == FireInit /\ [][FireNext]_fireVars

\* The events of the request that are in the topic.
InTopic == UNION {{s} \X (1 .. accepted[s]) : s \in 1 .. req.count}

\* A 200 says what happened: every script is in the topic, whole, and the
\* count is theirs. An error is reported if any session was cut short, and
\* only then (RunConcurrent's firstErr and totalSent, handleFireScript).
ReportedIsSent ==
  req.pc = "answered" /\ req.status /= 400 =>
    LET whole == \A s \in 1 .. req.count : session[s].sent = Len(Script(s)) IN
    /\ (req.status = 200) <=> whole
    /\ req.status = 200 =>
         /\ \A s \in 1 .. req.count : accepted[s] = Len(Script(s))
         /\ req.events = Cardinality(InTopic)
=============================================================================
