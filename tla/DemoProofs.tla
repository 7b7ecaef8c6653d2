----------------------------- MODULE DemoProofs -----------------------------
(***************************************************************************)
(* Proofs about a demo run, for every set of personas, counts, sessions    *)
(* and users, any canned answers and any number of faults.  The request:   *)
(* its status and its count say what is in the topic, in whatever order    *)
(* its sessions end or fail.  The fires: the recorded and the published    *)
(* status say what reached the destination, and an email goes to the       *)
(* recipient its answer names or to the fire's own user.                   *)
(***************************************************************************)
EXTENDS Demo, FiniteSetTheorems, SequenceTheorems, TLAPS

-----------------------------------------------------------------------------
(***************************************************************************)
(* The inductive invariant of the request.                                 *)
(***************************************************************************)

\* The request passed its validation.
Valid == req.pc /= "none" /\ req.status /= 400

Ended == {s \in Sessions : session[s].pc = "ended"}

\* The sends that the sessions of T have counted.
Counted(T) == UNION {{s} \X (1 .. session[s].sent) : s \in T}

InvReq ==
  /\ Valid => /\ req.persona \in {"realestate", "rs-self"}
              /\ req.count \in 1 .. 3 /\ req.count <= MaxSessions
  /\ req.pc \in {"none", "running"} => req.status = 0
  /\ req.pc = "answered" => req.status /= 0

\* A session that was started is one of those asked for; what it counted is in
\* the topic, and nothing else is unless its last answer was lost.
InvSession ==
  \A s \in Sessions :
    /\ session[s].pc /= "off" <=> Valid /\ s <= req.count
    /\ session[s].pc \in {"off", "stagger", "connect"} => session[s].sent = 0
    /\ session[s].pc /= "off" => session[s].sent <= Len(Script(s))
    /\ session[s].pc /= "ended" \/ session[s].sent = Len(Script(s)) =>
         accepted[s] = session[s].sent

\* The total and the error are those of the sessions that have ended.
InvTotal ==
  /\ firstErr <=> \E s \in Ended : session[s].sent /= Len(Script(s))
  /\ IsFiniteSet(Counted(Ended)) /\ total = Cardinality(Counted(Ended))

\* The answer is given when all have ended.
InvAnswer ==
  req.pc = "answered" /\ Valid =>
    /\ Ended = 1 .. req.count
    /\ (req.status = 200) <=> ~firstErr
    /\ req.status = 200 => req.events = total

FireInv == FireTypeOK /\ InvReq /\ InvSession /\ InvTotal /\ InvAnswer

USE DemoFireAssumption

-----------------------------------------------------------------------------
(***************************************************************************)
(* Scripts and sums.                                                       *)
(***************************************************************************)

\* The length of a sequence in three parts.
LEMMA ThreeParts ==
  ASSUME NEW k \in Nat, NEW p, NEW q, NEW x, NEW f, NEW g, NEW h
  PROVE  Len((<<p, q>> \o [i \in 1 .. k |-> x]) \o <<f, g, h>>) = k + 5
  <1> DEFINE N == {p, q, x, f, g, h}
             a == <<p, q>>
             b == [i \in 1 .. k |-> x]
             c == <<f, g, h>>
  <1>1. /\ a \in Seq(N) /\ b \in Seq(N) /\ c \in Seq(N)
        /\ Len(a) = 2 /\ Len(b) = k /\ Len(c) = 3
    OBVIOUS
  <1> HIDE DEF a, b, c, N
  <1>2. a \o b \in Seq(N) /\ Len(a \o b) = Len(a) + Len(b)
    BY <1>1, ConcatProperties
  <1>3. Len((a \o b) \o c) = Len(a \o b) + Len(c)
    BY <1>1, <1>2, ConcatProperties
  <1>4. Len((a \o b) \o c) = k + 5
    BY <1>1, <1>2, <1>3
  <1> QED
    BY <1>4 DEF a, b, c

\* A script has at least one event.
LEMMA PersonaScriptLen ==
  ASSUME NEW persona \in {"realestate", "rs-self"}, NEW s \in 1 .. 3
  PROVE  Len(ScriptForPersonaIndex(persona, s)) \in Nat /\ Len(ScriptForPersonaIndex(persona, s)) > 0
  <1>1. CASE persona = "rs-self"
    <2>1. ScriptForPersonaIndex(persona, s) = RSSelfScriptForProfile
      BY <1>1 DEF ScriptForPersonaIndex
    <2>2. Len(RSSelfScriptForProfile) = 5
      BY DEF RSSelfScriptForProfile
    <2> QED
      BY <2>1, <2>2
  <1>2. CASE persona = "realestate"
    <2> DEFINE k == realestateListings[s]
    <2>1. k \in Nat
      BY DEF realestateListings
    <2> HIDE DEF k
    <2> DEFINE script == (<<"identify", "page">> \o [i \in 1 .. k |-> "Listing Viewed"])
                           \o <<"Filter Applied", "page", "Filter Applied">>
    <2>2. ScriptForPersonaIndex(persona, s) = script
      BY <1>2, Zenon DEF ScriptForPersonaIndex, RealestateScriptForProfile, k
    <2>3. \A p, q, x, f, g, h :
            Len((<<p, q>> \o [i \in 1 .. k |-> x]) \o <<f, g, h>>) = k + 5
      BY <2>1, ThreeParts
    <2>4. Len(script) = k + 5
      BY <2>3, Zenon
    <2> HIDE DEF script
    <2> QED
      BY <2>1, <2>2, <2>4
  <1> QED
    BY <1>1, <1>2

\* One more session adds what it counted.
LEMMA CountedAdds ==
  ASSUME NEW T, NEW s, s \notin T, session[s].sent \in Nat, IsFiniteSet(Counted(T))
  PROVE  /\ IsFiniteSet(Counted(T \cup {s}))
         /\ Cardinality(Counted(T \cup {s})) = Cardinality(Counted(T)) + session[s].sent
  <1> DEFINE n == session[s].sent
             P == {s} \X (1 .. n)
  <1>1. Counted(T \cup {s}) = Counted(T) \cup P
    BY DEF Counted
  <1>0. n \in Int /\ n >= 0
    OBVIOUS
  <1>2. Counted(T) \cap P = {}
    BY DEF Counted
  <1>3. IsFiniteSet({s}) /\ Cardinality({s}) = 1
    BY FS_Singleton
  <1>4. IsFiniteSet(1 .. n) /\ Cardinality(1 .. n) = n
    <2> HIDE DEF n
    <2>1. IsFiniteSet(1 .. n) /\ Cardinality(1 .. n) = IF 1 > n THEN 0 ELSE n - 1 + 1
      BY <1>0, FS_Interval
    <2> QED
      BY <1>0, <2>1
  <1>5. IsFiniteSet(P) /\ Cardinality(P) = Cardinality({s}) * Cardinality(1 .. n)
    BY <1>3, <1>4, FS_Product
  <1>6. Cardinality(P) = n
    BY <1>3, <1>4, <1>5
  <1> HIDE DEF P, n
  <1>7. /\ IsFiniteSet(Counted(T) \cup P)
        /\ Cardinality(Counted(T) \cup P) =
             Cardinality(Counted(T)) + Cardinality(P) - Cardinality(Counted(T) \cap P)
    BY <1>5, FS_Union
  <1>8. Cardinality(Counted(T) \cap P) = 0
    BY <1>2, FS_EmptySet
  <1>9. Cardinality(Counted(T)) \in Nat /\ Cardinality(P) \in Nat
    BY <1>5, FS_CardinalityType
  <1>10. Cardinality(Counted(T) \cup P) = Cardinality(Counted(T)) + n
    BY <1>6, <1>7, <1>8, <1>9
  <1> QED
    BY <1>1, <1>7, <1>10 DEF n

-----------------------------------------------------------------------------
(***************************************************************************)
(* The steps of a session.                                                 *)
(***************************************************************************)

\* What is known of a session under way.
LEMMA SessionUnderWay ==
  ASSUME FireInv, NEW s \in Sessions, session[s].pc \in {"stagger", "connect", "send"}
  PROVE  /\ req.pc = "running" /\ Valid /\ s <= req.count /\ s \notin Ended
         /\ Len(Script(s)) \in Nat /\ Len(Script(s)) > 0
         /\ session[s].sent \in Nat /\ session[s].sent <= Len(Script(s))
         /\ accepted[s] = session[s].sent
  <1>1. Valid /\ s <= req.count /\ s \notin Ended
    BY DEF FireInv, InvSession, Ended
  <1>2. req.pc = "running"
    <2>1. s \in 1 .. req.count
      BY <1>1 DEF FireInv, InvReq, Sessions
    <2>2. req.pc \in {"none", "running", "answered"}
      BY DEF FireInv, FireTypeOK
    <2>3. req.pc = "answered" => Ended = 1 .. req.count
      BY <1>1, Zenon DEF FireInv, InvAnswer
    <2>4. req.pc /= "none"
      BY <1>1 DEF Valid
    <2> QED
      BY <1>1, <2>1, <2>2, <2>3, <2>4
  <1>3. s \in 1 .. 3 /\ req.persona \in {"realestate", "rs-self"}
    BY <1>1 DEF FireInv, InvReq, Sessions
  <1>4. Len(Script(s)) \in Nat /\ Len(Script(s)) > 0
    BY <1>3, PersonaScriptLen DEF Script
  <1>5. session[s].sent \in Nat
    BY DEF FireInv, FireTypeOK
  <1> QED
    BY <1>1, <1>2, <1>4, <1>5 DEF FireInv, InvSession

\* A session goes on without sending.
LEMMA GoKeeps ==
  ASSUME FireInv, NEW s \in Sessions, session[s].pc \in {"stagger", "connect"},
         NEW pc \in {"connect", "send"}, Goes(s, pc), UNCHANGED accepted
  PROVE  FireInv'
  <1>1. /\ session' = [session EXCEPT ![s].pc = pc]
        /\ UNCHANGED <<req, firstErr, total, expired, accepted>>
    BY DEF Goes
  <1>2. /\ session'[s].pc = pc /\ session'[s].sent = session[s].sent
        /\ \A r \in Sessions : r /= s => session'[r] = session[r]
        /\ FireTypeOK'
    BY <1>1 DEF FireInv, FireTypeOK
  <1>3. \A r : Script(r)' = Script(r)
    BY <1>1 DEF Script
  <1>4. InvReq' /\ Valid' = Valid
    BY <1>1 DEF FireInv, InvReq, Valid
  <1>5. InvSession'
    <2>1. /\ Valid /\ s <= req.count /\ session[s].sent <= Len(Script(s))
          /\ accepted[s] = session[s].sent
      BY SessionUnderWay
    <2> QED
      BY <1>1, <1>2, <1>3, <1>4, <2>1 DEF FireInv, InvSession
  <1>6. Ended' = Ended /\ s \notin Ended
    BY <1>2 DEF Ended
  <1>7. \A r \in Ended : session'[r] = session[r]
    BY <1>2, <1>6 DEF Ended
  <1>8. Counted(Ended)' = Counted(Ended)
    BY <1>6, <1>7 DEF Counted
  <1>9. InvTotal'
    BY <1>1, <1>3, <1>6, <1>7, <1>8 DEF FireInv, InvTotal
  <1>10. InvAnswer'
    BY <1>1, <1>4, <1>6 DEF FireInv, InvAnswer
  <1> QED
    BY <1>2, <1>4, <1>5, <1>9, <1>10 DEF FireInv

\* An event is sent and counted.
LEMMA SendKeeps ==
  ASSUME FireInv, NEW s \in Sessions, Send(s)
  PROVE  FireInv'
  <1>1. /\ session' = [session EXCEPT ![s].sent = @ + 1]
        /\ accepted' = [accepted EXCEPT ![s] = @ + 1]
        /\ UNCHANGED <<req, firstErr, total, expired>>
        /\ session[s].pc = "send" /\ session[s].sent < Len(Script(s))
    BY DEF Send, Unfinished, Accepted
  <1>2. /\ req.pc = "running" /\ Valid /\ s <= req.count /\ s \notin Ended
        /\ Len(Script(s)) \in Nat /\ session[s].sent \in Nat
        /\ accepted[s] = session[s].sent
    BY <1>1, SessionUnderWay
  <1>3. /\ session'[s].pc = "send" /\ session'[s].sent = session[s].sent + 1
        /\ accepted'[s] = accepted[s] + 1
        /\ \A r \in Sessions : r /= s => session'[r] = session[r] /\ accepted'[r] = accepted[r]
        /\ FireTypeOK'
    BY <1>1, <1>2 DEF FireInv, FireTypeOK
  <1>4. \A r : Script(r)' = Script(r)
    BY <1>1 DEF Script
  <1>5. InvReq' /\ Valid' = Valid
    BY <1>1 DEF FireInv, InvReq, Valid
  <1>6. InvSession'
    <2>1. ASSUME NEW r \in Sessions
          PROVE  /\ session'[r].pc /= "off" <=> Valid' /\ r <= req'.count
                 /\ session'[r].pc \in {"off", "stagger", "connect"} => session'[r].sent = 0
                 /\ session'[r].pc /= "off" => session'[r].sent <= Len(Script(r))
                 /\ session'[r].pc /= "ended" \/ session'[r].sent = Len(Script(r)) =>
                      accepted'[r] = session'[r].sent
      <3>1. CASE r = s
        BY <1>1, <1>2, <1>3, <1>5, <3>1
      <3>2. CASE r /= s
        BY <1>1, <1>3, <1>5, <3>2 DEF FireInv, InvSession
      <3> QED
        BY <3>1, <3>2
    <2> QED
      BY <1>4, <2>1 DEF InvSession
  <1>7. Ended' = Ended
    BY <1>1, <1>3 DEF Ended
  <1>8. \A r \in Ended : session'[r] = session[r]
    BY <1>2, <1>3 DEF Ended
  <1>9. Counted(Ended)' = Counted(Ended)
    BY <1>7, <1>8 DEF Counted
  <1>10. InvTotal'
    BY <1>1, <1>4, <1>7, <1>8, <1>9 DEF FireInv, InvTotal
  <1>11. InvAnswer'
    BY <1>1, <1>5, <1>7 DEF FireInv, InvAnswer
  <1> QED
    BY <1>3, <1>5, <1>6, <1>10, <1>11 DEF FireInv

\* A session ends: with an error exactly when its script is not over.
LEMMA EndKeeps ==
  ASSUME FireInv, NEW s \in Sessions, session[s].pc \in {"stagger", "connect", "send"},
         NEW err \in BOOLEAN, err <=> session[s].sent /= Len(Script(s)),
         End(s, err), UNCHANGED accepted \/ (err /\ Accepted(s))
  PROVE  FireInv'
  <1>1. /\ session' = [session EXCEPT ![s].pc = "ended"]
        /\ total' = total + session[s].sent /\ firstErr' = (firstErr \/ err)
        /\ UNCHANGED <<req, expired>>
    BY DEF End, ErrorAfter
  <1>2. /\ req.pc = "running" /\ Valid /\ s <= req.count /\ s \notin Ended
        /\ Len(Script(s)) \in Nat /\ session[s].sent \in Nat
        /\ session[s].sent <= Len(Script(s)) /\ accepted[s] = session[s].sent
    BY SessionUnderWay
  <1>3. /\ session'[s].pc = "ended" /\ session'[s].sent = session[s].sent
        /\ \A r \in Sessions : r /= s => session'[r] = session[r] /\ accepted'[r] = accepted[r]
        /\ ~err => accepted'[s] = accepted[s]
        /\ FireTypeOK'
    BY <1>1, <1>2 DEF FireInv, FireTypeOK, Accepted
  <1>4. \A r : Script(r)' = Script(r)
    BY <1>1 DEF Script
  <1>5. InvReq' /\ Valid' = Valid
    BY <1>1 DEF FireInv, InvReq, Valid
  <1>6. InvSession'
    <2>1. ASSUME NEW r \in Sessions
          PROVE  /\ session'[r].pc /= "off" <=> Valid' /\ r <= req'.count
                 /\ session'[r].pc \in {"off", "stagger", "connect"} => session'[r].sent = 0
                 /\ session'[r].pc /= "off" => session'[r].sent <= Len(Script(r))
                 /\ session'[r].pc /= "ended" \/ session'[r].sent = Len(Script(r)) =>
                      accepted'[r] = session'[r].sent
      <3>1. CASE r = s
        BY <1>1, <1>2, <1>3, <1>5, <3>1
      <3>2. CASE r /= s
        BY <1>1, <1>3, <1>5, <3>2 DEF FireInv, InvSession
      <3> QED
        BY <3>1, <3>2
    <2> QED
      BY <1>4, <2>1 DEF InvSession
  <1>7. Ended' = Ended \cup {s}
    BY <1>1, <1>3 DEF Ended
  <1>8. \A r \in Ended \cup {s} : session'[r].sent = session[r].sent
    BY <1>3 DEF Ended
  <1>9. Counted(Ended)' = Counted(Ended \cup {s})
    BY <1>7, <1>8 DEF Counted
  <1>10. IsFiniteSet(Counted(Ended)) /\ total = Cardinality(Counted(Ended))
    BY DEF FireInv, InvTotal
  <1>11. /\ IsFiniteSet(Counted(Ended \cup {s}))
         /\ Cardinality(Counted(Ended \cup {s})) = Cardinality(Counted(Ended)) + session[s].sent
    BY <1>2, <1>10, CountedAdds
  <1>12. firstErr' <=> \E r \in Ended' : session'[r].sent /= Len(Script(r))
    BY <1>1, <1>7, <1>8 DEF FireInv, InvTotal
  <1>13. InvTotal'
    BY <1>1, <1>4, <1>9, <1>10, <1>11, <1>12 DEF InvTotal
  <1>14. InvAnswer'
    BY <1>1, <1>2 DEF InvAnswer
  <1> QED
    BY <1>3, <1>5, <1>6, <1>13, <1>14 DEF FireInv

\* Every step of a session preserves the invariant.
LEMMA SessionKeeps ==
  ASSUME FireInv, NEW s \in Sessions, SessionStep(s)
  PROVE  FireInv'
  <1>1. ASSUME session[s].pc \in {"stagger", "connect"}
        PROVE  session[s].sent /= Len(Script(s))
    <2>1. session[s].sent = 0 /\ Len(Script(s)) > 0
      BY <1>1, SessionUnderWay DEF FireInv, InvSession
    <2> QED
      BY <2>1
  <1>2. ASSUME Unfinished(s)
        PROVE  session[s].pc = "send" /\ session[s].sent /= Len(Script(s))
    <2>1. session[s].pc = "send" /\ session[s].sent < Len(Script(s))
      BY <1>2 DEF Unfinished
    <2>2. Len(Script(s)) \in Nat /\ session[s].sent \in Nat
      BY <2>1, SessionUnderWay
    <2> QED
      BY <2>1, <2>2
  <1>3. CASE Stagger(s)
    <2>1. session[s].pc = "stagger" /\ UNCHANGED accepted /\ (End(s, TRUE) \/ Goes(s, "connect"))
      BY <1>3 DEF Stagger
    <2> QED
      BY <1>1, <2>1, EndKeeps, GoKeeps
  <1>4. CASE Connect(s)
    <2>1. session[s].pc = "connect" /\ UNCHANGED accepted /\ (End(s, TRUE) \/ Goes(s, "send"))
      BY <1>4 DEF Connect
    <2> QED
      BY <1>1, <2>1, EndKeeps, GoKeeps
  <1>5. CASE Cancelled(s)
    BY <1>2, <1>5, EndKeeps DEF Cancelled
  <1>6. CASE Send(s)
    BY <1>6, SendKeeps
  <1>7. CASE SendFails(s)
    BY <1>2, <1>7, EndKeeps DEF SendFails
  <1>8. CASE Finish(s)
    BY <1>8, EndKeeps DEF Finish
  <1> QED
    BY <1>3, <1>4, <1>5, <1>6, <1>7, <1>8 DEF SessionStep

-----------------------------------------------------------------------------
(***************************************************************************)
(* The handler.                                                            *)
(***************************************************************************)

\* Before a request nothing has been started.
LEMMA InitFire ==
  ASSUME FireInit
  PROVE  FireInv
  <1>1. /\ req = [pc |-> "none", persona |-> NoPersona, count |-> 0, status |-> 0, events |-> 0]
        /\ session = [s \in Sessions |-> Off] /\ accepted = [s \in Sessions |-> 0]
        /\ firstErr = FALSE /\ total = 0 /\ expired = FALSE
    BY DEF FireInit
  <1>2. \A s \in Sessions : session[s].pc = "off" /\ session[s].sent = 0 /\ accepted[s] = 0
    BY <1>1 DEF Off
  <1>3. FireTypeOK
    <2>1. req \in [pc: {"none", "running", "answered"}, persona: Personas \cup {NoPersona},
                   count: Counts \cup {0}, status: {0, 200, 400, 500}, events: Nat]
      BY <1>1
    <2>2. session \in [Sessions -> [pc: {"off", "stagger", "connect", "send", "ended"},
                                    sent: Nat]]
      BY <1>1 DEF Off
    <2> QED
      BY <1>1, <2>1, <2>2 DEF FireTypeOK
  <1>4. ~Valid /\ InvReq
    BY <1>1 DEF Valid, InvReq
  <1>5. InvSession
    BY <1>2, <1>4 DEF InvSession
  <1>6. Ended = {}
    BY <1>2 DEF Ended
  <1>7. Counted({}) = {}
    BY DEF Counted
  <1>8. IsFiniteSet({}) /\ Cardinality({}) = 0
    BY FS_EmptySet
  <1>9. InvTotal
    BY <1>1, <1>6, <1>7, <1>8 DEF InvTotal
  <1>10. InvAnswer
    BY <1>4 DEF InvAnswer
  <1> QED
    BY <1>3, <1>4, <1>5, <1>9, <1>10 DEF FireInv

\* The sessions before a request.
LEMMA NoneYet ==
  ASSUME FireInv, req.pc = "none"
  PROVE  /\ \A s \in Sessions : /\ session[s].pc = "off" /\ session[s].sent = 0
                                /\ accepted[s] = 0
         /\ Ended = {} /\ firstErr = FALSE /\ total = 0
  <1>1. \A s \in Sessions : session[s].pc = "off" /\ session[s].sent = 0 /\ accepted[s] = 0
    BY DEF FireInv, InvSession, Valid
  <1>2. Ended = {}
    BY <1>1 DEF Ended
  <1>3. Counted({}) = {} /\ Cardinality({}) = 0
    BY FS_EmptySet DEF Counted
  <1> QED
    BY <1>1, <1>2, <1>3 DEF FireInv, InvTotal, FireTypeOK

\* A request is refused.
LEMMA RefuseKeeps ==
  ASSUME FireInv, NEW persona \in Personas, NEW count \in Counts, NEW speedOK \in BOOLEAN,
         Refuse(persona, count, speedOK)
  PROVE  FireInv'
  <1>1. /\ req.pc = "none"
        /\ req' = [pc |-> "answered", persona |-> persona, count |-> count,
                   status |-> 400, events |-> 0]
        /\ UNCHANGED <<session, accepted, firstErr, total, expired>>
    BY DEF Refuse
  <1>2. FireTypeOK'
    BY <1>1 DEF FireInv, FireTypeOK
  <1>3. ~Valid' /\ InvReq'
    BY <1>1 DEF Valid, InvReq
  <1>4. /\ \A s \in Sessions : /\ session[s].pc = "off" /\ session[s].sent = 0
                               /\ accepted[s] = 0
        /\ Ended = {} /\ firstErr = FALSE /\ total = 0
    BY <1>1, NoneYet
  <1>5. InvSession'
    BY <1>1, <1>3, <1>4 DEF InvSession
  <1>6. Ended' = {} /\ Counted(Ended)' = Counted(Ended)
    BY <1>1, <1>4 DEF Ended, Counted
  <1>7. InvTotal'
    BY <1>1, <1>4, <1>6 DEF FireInv, InvTotal
  <1>8. InvAnswer'
    BY <1>3 DEF InvAnswer
  <1> QED
    BY <1>2, <1>3, <1>5, <1>7, <1>8 DEF FireInv

\* The smaller of two numbers, the first of which is the smaller.
LEMMA MinOfTwo ==
  ASSUME NEW a \in Int, NEW b \in Int, a <= b
  PROVE  Min({a, b}) = a
  <1>1. a \in {a, b} /\ \A y \in {a, b} : a <= y
    OBVIOUS
  <1>2. \A x \in {a, b} : (\A y \in {a, b} : x <= y) => x = a
    OBVIOUS
  <1> QED
    BY <1>1, <1>2 DEF Min

\* A request is accepted, and its sessions start.
LEMMA AcceptKeeps ==
  ASSUME FireInv, NEW persona \in Personas, NEW count \in Counts, Accept(persona, count)
  PROVE  FireInv'
  <1>1. /\ persona \in {"realestate", "rs-self"} /\ count \in 1 .. 3 /\ count <= MaxSessions
        /\ req.pc = "none"
    BY DEF Accept, ValidRequest
  <1>2. Min({count, profileSpecCount(persona)}) = count
    <2>1. profileSpecCount(persona) \in {3, 8}
      BY <1>1 DEF profileSpecCount
    <2> QED
      BY <1>1, <2>1, MinOfTwo
  <1>3. /\ req' = [pc |-> "running", persona |-> persona, count |-> count,
                   status |-> 0, events |-> 0]
        /\ session' = [s \in Sessions |->
                         IF s <= count THEN [Off EXCEPT !.pc = "stagger"] ELSE Off]
        /\ UNCHANGED <<accepted, firstErr, total, expired>>
    BY <1>2 DEF Accept
  <1>4. \A s \in Sessions : /\ session'[s].pc = IF s <= count THEN "stagger" ELSE "off"
                            /\ session'[s].sent = 0
    BY <1>3 DEF Off
  <1>5. FireTypeOK'
    <2>1. session' \in [Sessions -> [pc: {"off", "stagger", "connect", "send", "ended"},
                                     sent: Nat]]
      BY <1>3 DEF Off
    <2> QED
      BY <1>3, <2>1 DEF FireInv, FireTypeOK
  <1>6. Valid' /\ InvReq'
    BY <1>1, <1>3 DEF Valid, InvReq
  <1>7. /\ \A s \in Sessions : accepted[s] = 0
        /\ Ended = {} /\ firstErr = FALSE /\ total = 0
    BY <1>1, NoneYet
  <1>8. InvSession'
    <2> SUFFICES ASSUME NEW s \in Sessions
                 PROVE  /\ session'[s].pc /= "off" <=> Valid' /\ s <= req'.count
                        /\ session'[s].sent = 0 /\ accepted'[s] = 0
                        /\ session'[s].pc /= "off" => 0 <= Len(Script(s)')
      BY DEF InvSession
    <2>1. s <= count => Len(Script(s)') \in Nat
      <3> SUFFICES ASSUME s <= count PROVE Len(Script(s)') \in Nat
        OBVIOUS
      <3>1. s \in 1 .. 3 /\ req'.persona \in {"realestate", "rs-self"}
        BY <1>1, <1>3 DEF Sessions
      <3>2. Len(ScriptForPersonaIndex(req'.persona, s)) \in Nat
        BY <3>1, PersonaScriptLen
      <3> QED
        BY <3>2 DEF Script
    <2> QED
      BY <1>3, <1>4, <1>6, <1>7, <2>1
  <1>9. Ended' = {}
    BY <1>4 DEF Ended
  <1>10. Counted(Ended)' = {} /\ IsFiniteSet({}) /\ Cardinality({}) = 0
    BY <1>9, FS_EmptySet DEF Counted
  <1>11. InvTotal'
    BY <1>3, <1>7, <1>9, <1>10 DEF InvTotal
  <1>12. InvAnswer'
    BY <1>3 DEF InvAnswer
  <1> QED
    BY <1>5, <1>6, <1>8, <1>11, <1>12 DEF FireInv

\* All have ended, and the handler answers.
LEMMA AnswerKeeps ==
  ASSUME FireInv, Answer
  PROVE  FireInv'
  <1>1. /\ req.pc = "running" /\ \A s \in 1 .. req.count : session[s].pc = "ended"
        /\ req' = [pc |-> "answered", persona |-> req.persona, count |-> req.count,
                   status |-> IF firstErr THEN 500 ELSE 200,
                   events |-> IF firstErr THEN 0 ELSE total]
        /\ UNCHANGED <<session, accepted, firstErr, total, expired>>
    BY DEF Answer
  <1>2. /\ FireTypeOK' /\ req'.pc = "answered" /\ req'.persona = req.persona
        /\ req'.count = req.count /\ req'.status = (IF firstErr THEN 500 ELSE 200)
        /\ req'.events = IF firstErr THEN 0 ELSE total
    <2>1. /\ req.persona \in Personas \cup {NoPersona} /\ req.count \in Counts \cup {0}
          /\ total \in Nat
      BY DEF FireInv, FireTypeOK
    <2>2. req' \in [pc: {"none", "running", "answered"}, persona: Personas \cup {NoPersona},
                    count: Counts \cup {0}, status: {0, 200, 400, 500}, events: Nat]
      BY <1>1, <2>1
    <2>3. FireTypeOK'
      BY <1>1, <2>2 DEF FireInv, FireTypeOK
    <2> QED
      BY <1>1, <2>3
  <1>3. Valid /\ Valid' /\ InvReq'
    BY <1>1, <1>2 DEF FireInv, InvReq, Valid
  <1>4. \A s : Script(s)' = Script(s)
    BY <1>2 DEF Script
  <1>5. InvSession'
    BY <1>1, <1>2, <1>3, <1>4 DEF FireInv, InvSession
  <1>6. Ended' = Ended /\ Counted(Ended)' = Counted(Ended)
    BY <1>1 DEF Ended, Counted
  <1>7. InvTotal'
    BY <1>1, <1>4, <1>6 DEF FireInv, InvTotal
  <1>8. Ended = 1 .. req.count
    <2>1. \A s \in Sessions : s \in Ended <=> s \in 1 .. req.count
      BY <1>1, <1>3 DEF FireInv, InvSession, Ended, InvReq, Sessions
    <2>2. 1 .. req.count \subseteq Sessions
      BY <1>3 DEF FireInv, InvReq, Sessions
    <2> QED
      BY <2>1, <2>2 DEF Ended
  <1>9. InvAnswer'
    BY <1>1, <1>2, <1>6, <1>8 DEF InvAnswer
  <1> QED
    BY <1>2, <1>3, <1>5, <1>7, <1>9 DEF FireInv

\* Every step of the request, and every step of the rest, preserves the
\* invariant.
LEMMA NextFire ==
  ASSUME FireInv, [FireNext]_fireVars
  PROVE  FireInv'
  <1>1. CASE UNCHANGED <<req, session, accepted, firstErr, total>> /\ expired' \in BOOLEAN
    <2>1. /\ FireTypeOK' /\ InvReq' /\ InvSession' /\ InvAnswer'
          /\ Ended' = Ended /\ Counted(Ended)' = Counted(Ended)
      BY <1>1 DEF FireInv, FireTypeOK, InvReq, InvSession, InvAnswer, Valid, Ended, Counted,
                  Script
    <2>2. InvTotal'
      BY <1>1, <2>1 DEF FireInv, InvTotal, Script
    <2> QED
      BY <2>1, <2>2 DEF FireInv
  <1>2. CASE ContextExpires
    BY <1>1, <1>2 DEF ContextExpires
  <1>3. CASE UNCHANGED fireVars
    BY <1>1, <1>3 DEF fireVars, FireInv, FireTypeOK
  <1> QED
    BY <1>2, <1>3, RefuseKeeps, AcceptKeeps, AnswerKeeps, SessionKeeps DEF FireNext

-----------------------------------------------------------------------------
\* Whatever fails and in whatever order the sessions end, a 200 means that every
\* script is in the topic, whole, and counts their events, and any other answer
\* to a valid request that some session was cut short.
THEOREM ReportedIsSentHolds == FireSpec => []ReportedIsSent
  <1>1. ASSUME FireInv PROVE ReportedIsSent
    <2> SUFFICES ASSUME req.pc = "answered", req.status /= 400
                 PROVE  /\ (req.status = 200) <=>
                             \A s \in 1 .. req.count : session[s].sent = Len(Script(s))
                        /\ req.status = 200 =>
                             /\ \A s \in 1 .. req.count : accepted[s] = Len(Script(s))
                             /\ req.events = Cardinality(InTopic)
      BY DEF ReportedIsSent
    <2>1. /\ Ended = 1 .. req.count
          /\ (req.status = 200) <=> ~firstErr
          /\ req.status = 200 => req.events = total
      BY <1>1 DEF FireInv, InvAnswer, Valid
    <2>2. (req.status = 200) <=> \A s \in 1 .. req.count : session[s].sent = Len(Script(s))
      BY <1>1, <2>1 DEF FireInv, InvTotal
    <2>3. ASSUME req.status = 200
          PROVE  /\ \A s \in 1 .. req.count : accepted[s] = Len(Script(s))
                 /\ req.events = Cardinality(InTopic)
      <3>1. \A s \in 1 .. req.count : /\ accepted[s] = Len(Script(s))
                                      /\ accepted[s] = session[s].sent
        BY <1>1, <2>1, <2>2, <2>3 DEF FireInv, InvSession, Ended
      <3>2. InTopic = Counted(Ended)
        BY <2>1, <3>1 DEF InTopic, Counted
      <3> QED
        BY <1>1, <2>1, <2>3, <3>1, <3>2 DEF FireInv, InvTotal
    <2> QED
      BY <2>2, <2>3
  <1> QED
    BY <1>1, InitFire, NextFire, PTL DEF FireSpec

-----------------------------------------------------------------------------
(***************************************************************************)
(* Deliveries.  Every fire has its own entries of the tables, and its own  *)
(* invariant: what arrived and what is recorded of it at each stage, and   *)
(* which answer the map it refers to holds.                                *)
(***************************************************************************)
Shape ==
  /\ DOMAIN fire = Users /\ DOMAIN arrived = Users /\ DOMAIN unsure = Users
  /\ DOMAIN mail = Users /\ DOMAIN row = Users /\ DOMAIN sse = Users
  /\ DOMAIN heap = Builtins \cup Users
  /\ \A u \in Users : DOMAIN fire[u] = DOMAIN NoFire

Before == {"idle", "profile", "generate", "fill"}
After  == {"record", "publish", "done"}

\* A fire f of which p messages arrived, q of them unsure, with its rows.
Consistent(f, p, q, m, r, e) ==
  /\ p \in 0 .. 3 /\ q \in 0 .. 3 /\ f.attempt \in 0 .. 3
  /\ f.pc \in Before \cup {"slack", "email"} \cup After
  /\ f.pc \notin After =>
       p - q = 0 /\ f.status = "" /\ m = Nil /\ r = Nil /\ e = Nil
  /\ f.pc \in Before => p = 0 /\ f.attempt = 0
  /\ f.pc = "slack" => p < f.attempt
  /\ f.pc = "email" => p = 0 /\ f.attempt = 1
  /\ f.pc \in After =>
       /\ f.status \in {"", "sent", "failed"}
       /\ p - q = IF f.status = "sent" THEN 1 ELSE 0
       /\ r /= Nil => r.status = f.status
       /\ e /= Nil => e.status = f.status

Outcome(u) ==
  Consistent(fire[u], arrived[u], unsure[u], mail[u], row[u], sse[u])

\* What profile a fire has found: none, or its own user's.
Profiles(u) ==
  {Nil, Map(EmptyMap), Map([first_name |-> Say("name"), email |-> Say(EmailOf[u])])}

\* The rendered answer a fire delivers, and where an email with it goes.
Filling(u) == Render(fire[u].raw, RenderContext(u))

Recipient(u) ==
  OrElse(IF "to_email" \in DOMAIN Entries(Filling(u))
         THEN stringOrEmpty(Filling(u), "to_email") ELSE TraitEmail(u), DefaultTo)

ByEmail(u) == fire[u].status = "sent" /\ fire[u].scheme = "email"

Addressed(u) ==
  /\ fire[u].traits \in Profiles(u) /\ fire[u].raw.t \in {"map", "nil"}
  /\ heap[u].t \in {"map", "nil"}
  /\ fire[u].pc = "fill" =>
       fire[u].ref \in Builtins \cup {u} /\ heap[fire[u].ref] = fire[u].raw
  /\ fire[u].pc \in {"slack", "email", "record", "publish"} =>
       fire[u].ref = u /\ heap[u] = InjectRecipient(u, Filling(u))
  /\ fire[u].pc \in {"slack", "email"} => fire[u].scheme = fire[u].pc
  /\ mail[u] /= Nil \/ ByEmail(u) => mail[u].to = Recipient(u)
  /\ sse[u] /= Nil /\ sse[u].email =>
       ByEmail(u) /\ sse[u].to = OrElse(TraitEmail(u), Say("anon@example.com"))

BuiltinsKept == \A b \in Builtins : heap[b] = defaultRegistry[b]

Deliveries == \A u \in Users : Outcome(u) /\ Addressed(u)

DeliveryInv == Shape /\ BuiltinsKept /\ Deliveries

USE DeliveryAssumption

-----------------------------------------------------------------------------
(***************************************************************************)
(* What a step of one fire leaves alone.                                   *)
(***************************************************************************)

\* The entries of the others, and the built-in answers.
OthersKept(u) ==
  /\ \A v \in Users \ {u} :
       /\ fire'[v] = fire[v] /\ heap'[v] = heap[v] /\ arrived'[v] = arrived[v]
       /\ unsure'[v] = unsure[v] /\ mail'[v] = mail[v] /\ row'[v] = row[v]
       /\ sse'[v] = sse[v]
  /\ BuiltinsKept'

LEMMA OutcomeSame ==
  ASSUME NEW v, Outcome(v), fire'[v] = fire[v], arrived'[v] = arrived[v],
         unsure'[v] = unsure[v], mail'[v] = mail[v], row'[v] = row[v],
         sse'[v] = sse[v]
  PROVE  Outcome(v)'
  BY DEF Outcome, Consistent

LEMMA NotYet ==
  ASSUME NEW f, NEW p, NEW q, NEW m, NEW r, NEW e, Consistent(f, p, q, m, r, e),
         f.pc \in {"fill", "slack", "email"}
  PROVE  /\ p \in 0 .. 3 /\ q \in 0 .. 3 /\ f.attempt \in 0 .. 3 /\ q = p
         /\ f.pc = "fill" => p = 0 /\ f.attempt = 0
         /\ f.pc /= "fill" => p < f.attempt
  <1>1. p \in 0 .. 3 /\ q \in 0 .. 3 /\ f.attempt \in 0 .. 3
    BY DEF Consistent
  <1>2. p - q = 0
    BY DEF Consistent, After
  <1>3. q = p
    BY <1>1, <1>2
  <1>5. f.pc = "fill" => p = 0 /\ f.attempt = 0
    BY DEF Consistent, Before
  <1>6. f.pc = "slack" => p < f.attempt
    BY DEF Consistent
  <1>7. f.pc = "email" => p < f.attempt
    <2>1. f.pc = "email" => p = 0 /\ f.attempt = 1
      BY DEF Consistent
    <2> QED
      BY <2>1
  <1>8. f.pc /= "fill" => p < f.attempt
    BY <1>6, <1>7
  <1> QED
    BY <1>1, <1>3, <1>5, <1>8

LEMMA Untold ==
  ASSUME NEW u, Outcome(u), fire[u].pc \notin After
  PROVE  fire[u].status = "" /\ mail[u] = Nil /\ row[u] = Nil /\ sse[u] = Nil
  BY DEF Outcome, Consistent

\* What is to be shown of a fire that has delivered or given up.
LEMMA Finished ==
  ASSUME NEW g, g.pc = "record", g.attempt = 0, NEW p \in 0 .. 3, NEW q \in 0 .. 3,
         NEW m, NEW r, NEW e, r = Nil, e = Nil,
         \/ g.status = "sent" /\ p - q = 1
         \/ g.status = "failed" /\ p - q = 0
  PROVE  Consistent(g, p, q, m, r, e)
  <1>1. p \in 0 .. 3 /\ q \in 0 .. 3 /\ g.attempt \in 0 .. 3
    OBVIOUS
  <1>2. p - q = IF g.status = "sent" THEN 1 ELSE 0
    OBVIOUS
  <1>3. g.pc \in After /\ g.pc \notin Before /\ g.pc \notin {"slack", "email"}
    BY DEF After, Before
  <1> QED
    BY <1>1, <1>2, <1>3 DEF Consistent

LEMMA Small ==
  0 \in 0 .. 3 /\ 1 \in 0 .. 3 /\ 0 - 0 = 0 /\ 0 < 1
  OBVIOUS

\* A fire whose answer has been rendered goes to its back end, if it has one.
LEMMA Leaves ==
  ASSUME NEW f, NEW g, NEW p, NEW q, NEW m, NEW r, NEW e,
         Consistent(f, p, q, m, r, e), f.pc = "fill",
         \/ g.pc \in {"slack", "email"} /\ g.status = "" /\ g.attempt = 1
         \/ g.pc = "record" /\ g.status = "failed" /\ g.attempt = 0
  PROVE  Consistent(g, p, q, m, r, e)
  <1>1. m = Nil /\ r = Nil /\ e = Nil
    BY DEF Consistent, After
  <1>2. p = 0 /\ q = 0
    <2>1. p \in 0 .. 3 /\ q \in 0 .. 3 /\ q = p /\ p = 0
      BY NotYet
    <2> QED
      BY <2>1
  <1>4. CASE g.pc \in {"slack", "email"} /\ g.status = "" /\ g.attempt = 1
    <2>1. Consistent(g, 0, 0, Nil, Nil, Nil)
      BY <1>4, Small DEF Consistent, Before, After
    <2> QED
      BY <1>1, <1>2, <2>1
  <1>5. CASE g.pc = "record" /\ g.status = "failed" /\ g.attempt = 0
    <2>1. Consistent(g, 0, 0, Nil, Nil, Nil)
      BY <1>5, Small DEF Consistent, Before, After
    <2> QED
      BY <1>1, <1>2, <2>1
  <1> QED
    BY <1>4, <1>5

\* An attempt delivers the message, gives up, or is made again; a message of
\* which the answer was lost is one more that is unsure.
LEMMA Sends ==
  ASSUME NEW f, NEW g, NEW p, NEW q, NEW m, NEW r, NEW e, NEW n,
         Consistent(f, p, q, m, r, e), f.pc \in {"slack", "email"},
         g.pc = "record", g.status = "sent", g.attempt = 0
  PROVE  Consistent(g, p + 1, q, n, r, e)
  <1>1. /\ p \in 0 .. 3 /\ q \in 0 .. 3 /\ f.attempt \in 0 .. 3 /\ q = p
        /\ p < f.attempt
    BY NotYet
  <1>2. r = Nil /\ e = Nil
    BY DEF Consistent, After
  <1>3. p + 1 \in 0 .. 3 /\ q \in 0 .. 3 /\ (p + 1) - q = 1
    BY <1>1
  <1> QED
    BY <1>2, <1>3, Small DEF Consistent, Before, After

LEMMA GivesUp ==
  ASSUME NEW f, NEW g, NEW p, NEW q, NEW m, NEW r, NEW e, NEW n, NEW a \in {0, 1},
         Consistent(f, p, q, m, r, e), f.pc \in {"slack", "email"},
         g.pc = "record", g.status = "failed", g.attempt = 0
  PROVE  Consistent(g, p + a, q + a, n, r, e)
  <1>1. /\ p \in 0 .. 3 /\ q \in 0 .. 3 /\ f.attempt \in 0 .. 3 /\ q = p
        /\ p < f.attempt
    BY NotYet
  <1>2. r = Nil /\ e = Nil
    BY DEF Consistent, After
  <1>3. p + a \in 0 .. 3 /\ q + a \in 0 .. 3 /\ (p + a) - (q + a) = 0
    BY <1>1
  <1> QED
    BY <1>2, <1>3, Finished

LEMMA Again ==
  ASSUME NEW f, NEW g, NEW p, NEW q, NEW m, NEW r, NEW e, NEW a \in {0, 1},
         Consistent(f, p, q, m, r, e), f.pc = "slack", g.pc = "slack",
         g.status = f.status, f.attempt < 3, g.attempt = f.attempt + 1
  PROVE  Consistent(g, p + a, q + a, m, r, e)
  <1>1. /\ p \in 0 .. 3 /\ q \in 0 .. 3 /\ f.attempt \in 0 .. 3 /\ q = p
        /\ p < f.attempt
    BY NotYet
  <1>2. m = Nil /\ r = Nil /\ e = Nil /\ g.status = ""
    BY DEF Consistent, After
  <1>3. /\ p + a \in 0 .. 3 /\ q + a \in 0 .. 3 /\ (p + a) - (q + a) = 0
        /\ f.attempt + 1 \in 0 .. 3 /\ p + a < f.attempt + 1
    BY <1>1
  <1>4. g.attempt \in 0 .. 3 /\ p + a < g.attempt
    BY <1>3
  <1>5. Consistent(g, p + a, q + a, Nil, Nil, Nil)
    BY <1>2, <1>3, <1>4 DEF Consistent, Before, After
  <1> QED
    BY <1>2, <1>5

\* What is rendered depends on these locals of fireMatch only.
LEMMA SameFilling ==
  ASSUME NEW v, fire'[v].raw = fire[v].raw, fire'[v].snap = fire[v].snap,
         fire'[v].traits = fire[v].traits, fire'[v].template = fire[v].template
  PROVE  /\ Filling(v)' = Filling(v) /\ TraitEmail(v)' = TraitEmail(v)
         /\ Recipient(v)' = Recipient(v) /\ RenderContext(v)' = RenderContext(v)
         /\ InjectRecipient(v, Filling(v))' = InjectRecipient(v, Filling(v))
  <1>1. RenderContext(v)' = RenderContext(v)
    BY DEF RenderContext
  <1>2. Filling(v)' = Filling(v)
    BY <1>1 DEF Filling
  <1>3. TraitEmail(v)' = TraitEmail(v)
    BY DEF TraitEmail
  <1>4. Recipient(v)' = Recipient(v)
    BY <1>2, <1>3 DEF Recipient
  <1>5. InjectRecipient(v, Filling(v))' = InjectRecipient(v, Filling(v))
    BY <1>2, <1>3 DEF InjectRecipient
  <1> QED
    BY <1>1, <1>2, <1>3, <1>4, <1>5

LEMMA AddressedSame ==
  ASSUME BuiltinsKept, BuiltinsKept', NEW v \in Users, Addressed(v),
         fire'[v] = fire[v], heap'[v] = heap[v], mail'[v] = mail[v],
         sse'[v] = sse[v]
  PROVE  Addressed(v)'
  <1>1. /\ Filling(v)' = Filling(v) /\ TraitEmail(v)' = TraitEmail(v)
        /\ Recipient(v)' = Recipient(v)
        /\ InjectRecipient(v, Filling(v))' = InjectRecipient(v, Filling(v))
    BY SameFilling
  <1>2. fire[v].ref \in Builtins \cup {v} => heap'[fire[v].ref] = heap[fire[v].ref]
    BY DEF BuiltinsKept
  <1>3. ByEmail(v)' = ByEmail(v)
    BY DEF ByEmail
  <1> QED
    BY <1>1, <1>2, <1>3 DEF Addressed, Profiles

LEMMA DeliveryStepKeeps ==
  ASSUME DeliveryInv, NEW u \in Users, OthersKept(u), Shape',
         Outcome(u)', Addressed(u)'
  PROVE  DeliveryInv'
  <1>1. ASSUME NEW v \in Users, v /= u PROVE Outcome(v)' /\ Addressed(v)'
    <2>1. Outcome(v) /\ Addressed(v) /\ BuiltinsKept /\ BuiltinsKept'
      BY DEF DeliveryInv, Deliveries, OthersKept
    <2>2. /\ fire'[v] = fire[v] /\ heap'[v] = heap[v] /\ arrived'[v] = arrived[v]
          /\ unsure'[v] = unsure[v] /\ mail'[v] = mail[v] /\ row'[v] = row[v]
          /\ sse'[v] = sse[v]
      BY <1>1 DEF OthersKept
    <2>3. Outcome(v)'
      BY <2>1, <2>2, OutcomeSame
    <2>4. Addressed(v)'
      BY <2>1, <2>2, AddressedSame
    <2> QED
      BY <2>3, <2>4
  <1>2. \A v \in Users : Outcome(v)' /\ Addressed(v)'
    BY <1>1
  <1> QED
    BY <1>2 DEF DeliveryInv, Deliveries, OthersKept

\* A step that changes the fire alone.
LEMMA FireAlone ==
  ASSUME DeliveryInv, NEW u \in Users, NEW f, DOMAIN f = DOMAIN NoFire,
         fire' = [fire EXCEPT ![u] = f],
         UNCHANGED <<heap, arrived, unsure, mail, row, sse>>
  PROVE  OthersKept(u) /\ Shape' /\ fire'[u] = f
  BY DEF DeliveryInv, Shape, OthersKept, BuiltinsKept

\* Before the dispatch no message has gone anywhere.
LEMMA Early ==
  ASSUME NEW u \in Users, Outcome(u), fire[u].pc \in Before,
         UNCHANGED <<mail, sse>>, fire'[u].status \in {"", fire[u].status},
         fire'[u].traits \in Profiles(u), fire'[u].raw.t \in {"map", "nil"},
         heap'[u].t \in {"map", "nil"},
         fire'[u].pc \in {"profile", "generate", "fill", "done"},
         fire'[u].pc = "fill" =>
           fire'[u].ref \in Builtins \cup {u} /\ heap'[fire'[u].ref] = fire'[u].raw
  PROVE  Addressed(u)'
  <1>1. fire[u].pc \notin After
    BY DEF Before, After
  <1>2. fire'[u].status = "" /\ mail'[u] = Nil /\ sse'[u] = Nil
    BY <1>1, Untold
  <1>3. ~ByEmail(u)'
    BY <1>2 DEF ByEmail
  <1> QED
    BY <1>2, <1>3 DEF Addressed, Profiles

-----------------------------------------------------------------------------
(***************************************************************************)
(* The steps of fireMatch, in order.                                       *)
(***************************************************************************)
LEMMA StartKeeps ==
  ASSUME DeliveryInv, NEW u \in Users, NEW persona, NEW template, NEW scheme,
         NEW snap, Start(u, persona, template, scheme, snap)
  PROVE  DeliveryInv'
  <1> DEFINE f == [NoFire EXCEPT !.pc = "profile", !.persona = persona,
                                 !.template = template, !.scheme = scheme,
                                 !.snap = snap]
             g == [fire[u] EXCEPT !.pc = "done"]
  <1>1. /\ fire[u].pc = "idle" /\ DOMAIN fire[u] = DOMAIN NoFire
        /\ Outcome(u) /\ Addressed(u)
    BY DEF Start, At, DeliveryInv, Shape, Deliveries
  <1>2. /\ fire' = [fire EXCEPT ![u] = f] \/ fire' = [fire EXCEPT ![u] = g]
        /\ UNCHANGED <<heap, arrived, unsure, mail, row, sse>>
    BY DEF Start
  <1>3. /\ DOMAIN f = DOMAIN NoFire /\ f.pc = "profile" /\ f.traits = Nil
        /\ f.raw = Nil /\ f.attempt = 0 /\ f.status = ""
    BY DEF NoFire
  <1>4. /\ DOMAIN g = DOMAIN NoFire /\ g.pc = "done" /\ g.traits = fire[u].traits
        /\ g.raw = fire[u].raw /\ g.attempt = fire[u].attempt
        /\ g.status = fire[u].status /\ g.scheme = fire[u].scheme
    BY <1>1 DEF NoFire
  <1> HIDE DEF f, g
  <1>5. OthersKept(u) /\ Shape' /\ (fire'[u] = f \/ fire'[u] = g)
    BY <1>2, <1>3, <1>4, FireAlone
  <1>6. Nil.t = "nil"
    BY DEF Nil
  <1>7. Outcome(u)'
    BY <1>1, <1>2, <1>3, <1>4, <1>5 DEF Outcome, Consistent, Before, After
  <1>8. Addressed(u)'
    <2>1. fire[u].pc \in Before
      BY <1>1 DEF Before
    <2>2. /\ fire'[u].status \in {"", fire[u].status}
          /\ fire'[u].pc \in {"profile", "done"}
          /\ fire'[u].raw \in {Nil, fire[u].raw} /\ fire'[u].traits \in {Nil, fire[u].traits}
      BY <1>3, <1>4, <1>5
    <2>3. /\ fire[u].raw.t \in {"map", "nil"} /\ fire[u].traits \in Profiles(u)
          /\ heap[u].t \in {"map", "nil"} /\ Nil \in Profiles(u)
      BY <1>1 DEF Addressed, Profiles
    <2>4. /\ fire'[u].raw.t \in {"map", "nil"} /\ fire'[u].traits \in Profiles(u)
          /\ heap'[u].t \in {"map", "nil"}
      BY <1>2, <1>6, <2>2, <2>3
    <2> QED
      BY <1>1, <1>2, <2>1, <2>2, <2>4, Early
  <1> QED
    BY <1>5, <1>7, <1>8, DeliveryStepKeeps

LEMMA GetProfileKeeps ==
  ASSUME DeliveryInv, NEW u \in Users, GetProfile(u)
  PROVE  DeliveryInv'
  <1>1. PICK first \in ProfileRows(u), second \in ProfileRows(u) :
          LET r == IF fire[u].persona = "rs-self" /\ first = NoRow
                   THEN second ELSE first
          IN  fire' = [fire EXCEPT ![u].pc = "generate", ![u].traits = TraitsIn(r)]
    BY DEF GetProfile
  <1>2. PICK r \in ProfileRows(u) :
          fire' = [fire EXCEPT ![u].pc = "generate", ![u].traits = TraitsIn(r)]
    BY <1>1
  <1> DEFINE f == [fire[u] EXCEPT !.pc = "generate", !.traits = TraitsIn(r)]
  <1>3. /\ fire[u].pc = "profile" /\ DOMAIN fire[u] = DOMAIN NoFire
        /\ Outcome(u) /\ Addressed(u)
        /\ UNCHANGED <<heap, arrived, unsure, mail, row, sse>>
    BY DEF GetProfile, At, DeliveryInv, Shape, Deliveries
  <1>4. /\ DOMAIN f = DOMAIN NoFire /\ f.pc = "generate" /\ f.traits = TraitsIn(r)
        /\ f.raw = fire[u].raw /\ f.attempt = fire[u].attempt
        /\ f.status = fire[u].status /\ f.scheme = fire[u].scheme
    BY <1>3 DEF NoFire
  <1>5. fire' = [fire EXCEPT ![u] = f]
    BY <1>2 DEF DeliveryInv, Shape
  <1>6. TraitsIn(r) \in Profiles(u)
    BY DEF TraitsIn, ProfileRows, Profiles, NoRow, FailedRow, Nil, Map
  <1> HIDE DEF f
  <1>7. OthersKept(u) /\ Shape' /\ fire'[u] = f
    BY <1>3, <1>4, <1>5, FireAlone
  <1>8. Outcome(u)'
    BY <1>3, <1>4, <1>7 DEF Outcome, Consistent, Before, After
  <1>9. Addressed(u)'
    <2>1. fire[u].pc \in Before
      BY <1>3 DEF Before
    <2>2. fire[u].raw.t \in {"map", "nil"} /\ heap[u].t \in {"map", "nil"}
      BY <1>3 DEF Addressed
    <2> QED
      BY <1>3, <1>4, <1>6, <1>7, <2>1, <2>2, Early
  <1> QED
    BY <1>7, <1>8, <1>9, DeliveryStepKeeps

LEMMA GenerateFailsKeeps ==
  ASSUME DeliveryInv, NEW u \in Users, GenerateFails(u)
  PROVE  DeliveryInv'
  <1> DEFINE f == [fire[u] EXCEPT !.pc = "done"]
  <1>1. /\ fire[u].pc = "generate" /\ DOMAIN fire[u] = DOMAIN NoFire
        /\ Outcome(u) /\ Addressed(u) /\ fire' = [fire EXCEPT ![u] = f]
        /\ UNCHANGED <<heap, arrived, unsure, mail, row, sse>>
    BY DEF GenerateFails, At, DeliveryInv, Shape, Deliveries
  <1>2. /\ DOMAIN f = DOMAIN NoFire /\ f.pc = "done" /\ f.traits = fire[u].traits
        /\ f.raw = fire[u].raw /\ f.attempt = fire[u].attempt
        /\ f.status = fire[u].status /\ f.scheme = fire[u].scheme
    BY <1>1 DEF NoFire
  <1> HIDE DEF f
  <1>3. OthersKept(u) /\ Shape' /\ fire'[u] = f
    BY <1>1, <1>2, FireAlone
  <1>4. Outcome(u)'
    BY <1>1, <1>2, <1>3 DEF Outcome, Consistent, Before, After
  <1>5. Addressed(u)'
    <2>1. fire[u].pc \in Before
      BY <1>1 DEF Before
    <2>2. /\ fire[u].raw.t \in {"map", "nil"} /\ fire[u].traits \in Profiles(u)
          /\ heap[u].t \in {"map", "nil"}
      BY <1>1 DEF Addressed
    <2> QED
      BY <1>1, <1>2, <1>3, <2>1, <2>2, Early
  <1> QED
    BY <1>3, <1>4, <1>5, DeliveryStepKeeps

\* An answer of the fire's own, from wherever it came.
LEMMA AnsweredKeeps ==
  ASSUME DeliveryInv, NEW u \in Users, fire[u].pc = "generate",
         NEW a, a.t \in {"map", "nil"}, Answered(u, a, a)
  PROVE  DeliveryInv'
  <1> DEFINE f == [fire[u] EXCEPT !.pc = "fill", !.ref = u, !.raw = a]
  <1>1. /\ DOMAIN fire[u] = DOMAIN NoFire /\ Outcome(u) /\ Addressed(u)
        /\ fire' = [fire EXCEPT ![u] = f] /\ heap' = [heap EXCEPT ![u] = a]
        /\ UNCHANGED <<arrived, unsure, mail, row, sse>>
    BY DEF Answered, DeliveryInv, Shape, Deliveries
  <1>2. /\ DOMAIN f = DOMAIN NoFire /\ f.pc = "fill" /\ f.traits = fire[u].traits
        /\ f.raw = a /\ f.ref = u /\ f.attempt = fire[u].attempt
        /\ f.status = fire[u].status /\ f.scheme = fire[u].scheme
    BY <1>1 DEF NoFire
  <1> HIDE DEF f
  <1>3. OthersKept(u) /\ Shape' /\ fire'[u] = f /\ heap'[u] = a
    BY <1>1, <1>2 DEF DeliveryInv, Shape, OthersKept, BuiltinsKept
  <1>4. Outcome(u)'
    BY <1>1, <1>2, <1>3 DEF Outcome, Consistent, Before, After
  <1>5. Addressed(u)'
    <2>1. fire[u].pc \in Before
      BY DEF Before
    <2>2. fire[u].traits \in Profiles(u)
      BY <1>1 DEF Addressed
    <2> QED
      BY <1>1, <1>2, <1>3, <2>1, <2>2, Early
  <1> QED
    BY <1>3, <1>4, <1>5, DeliveryStepKeeps

\* The built-in answers are maps.
LEMMA BuiltinsAreMaps ==
  /\ \A t \in Builtins : defaultRegistry[t].t = "map"
  /\ GenericDefault.t = "map"
  <1>1. \A h, k : PitchDefault(h, k).t = "map"
    BY DEF PitchDefault, Map
  <1>2. \A x : MailDefault(x).t = "map"
    BY DEF MailDefault, Map
  <1> QED
    BY <1>1, <1>2 DEF Builtins, defaultRegistry, GenericDefault, Map

LEMMA CannedKeeps ==
  ASSUME DeliveryInv, NEW u \in Users, GenerateCanned(u)
  PROVE  DeliveryInv'
  <1>0. fire[u].pc = "generate"
    BY DEF GenerateCanned, At
  <1>1. CASE hardcodedDefault(u) /\ fire[u].template \in Builtins
    <2> DEFINE t == fire[u].template
               f == [fire[u] EXCEPT !.pc = "fill", !.ref = t, !.raw = heap[t]]
    <2>1. /\ DOMAIN fire[u] = DOMAIN NoFire /\ Outcome(u) /\ Addressed(u)
          /\ fire' = [fire EXCEPT ![u] = f]
          /\ UNCHANGED <<heap, arrived, unsure, mail, row, sse>>
      BY <1>1 DEF hardcodedDefault, DeliveryInv, Shape, Deliveries
    <2>2. /\ DOMAIN f = DOMAIN NoFire /\ f.pc = "fill" /\ f.traits = fire[u].traits
          /\ f.raw = heap[t] /\ f.ref = t /\ f.attempt = fire[u].attempt
          /\ f.status = fire[u].status /\ f.scheme = fire[u].scheme
      BY <2>1 DEF NoFire
    <2>3. heap[t].t = "map"
      BY <1>1, BuiltinsAreMaps DEF DeliveryInv, BuiltinsKept
    <2> HIDE DEF f
    <2>4. OthersKept(u) /\ Shape' /\ fire'[u] = f
      BY <2>1, <2>2, FireAlone
    <2>5. Outcome(u)'
      BY <1>0, <2>1, <2>2, <2>4 DEF Outcome, Consistent, Before, After
    <2>6. Addressed(u)'
      <3>1. fire[u].pc \in Before
        BY <1>0 DEF Before
      <3>2. fire[u].traits \in Profiles(u) /\ heap[u].t \in {"map", "nil"}
        BY <1>0, <2>1 DEF Addressed
      <3> QED
        BY <1>0, <1>1, <2>1, <2>2, <2>3, <2>4, <3>1, <3>2, Early
    <2> QED
      BY <2>4, <2>5, <2>6, DeliveryStepKeeps
  <1>2. CASE hardcodedDefault(u) /\ fire[u].template \notin Builtins
    <2>1. Answered(u, GenericDefault, GenericDefault)
      BY <1>2 DEF hardcodedDefault
    <2> QED
      BY <1>0, <2>1, BuiltinsAreMaps, AnsweredKeeps
  <1>3. ASSUME fire[u].template \in DOMAIN CannedOf,
               NEW a \in CannedOf[fire[u].template], Answered(u, a, a)
        PROVE  DeliveryInv'
    <2>1. a.t \in {"map", "nil"}
      BY <1>3 DEF DeliveryAssumption
    <2> QED
      BY <1>0, <1>3, <2>1, AnsweredKeeps
  <1> QED
    BY <1>1, <1>2, <1>3 DEF GenerateCanned

LEMMA LiveKeeps ==
  ASSUME DeliveryInv, NEW u \in Users, GenerateLive(u)
  PROVE  DeliveryInv'
  <1>1. PICK a \in LiveAnswers : Answered(u, a, a)
    BY DEF GenerateLive
  <1>2. a.t \in {"map", "nil"}
    <2>1. \A m : Map(m).t = "map"
      BY DEF Map
    <2>2. Nil.t = "nil"
      BY DEF Nil
    <2> QED
      BY <2>1, <2>2 DEF LiveAnswers
  <1>3. fire[u].pc = "generate"
    BY DEF GenerateLive, At
  <1> QED
    BY <1>1, <1>2, <1>3, AnsweredKeeps

\* Rendering makes a map of its own, and the recipient goes into that.
LEMMA DispatchKeeps ==
  ASSUME DeliveryInv, NEW u \in Users, Dispatch(u)
  PROVE  DeliveryInv'
  <1> DEFINE known == fire[u].scheme \in Registered
             f == [fire[u] EXCEPT !.ref = u,
                                  !.pc = IF known THEN fire[u].scheme ELSE "record",
                                  !.status = IF known THEN "" ELSE "failed",
                                  !.attempt = IF known THEN 1 ELSE 0]
             h == InjectRecipient(u, Filling(u))
  <1>1. /\ fire[u].pc = "fill" /\ DOMAIN fire[u] = DOMAIN NoFire
        /\ Outcome(u) /\ Addressed(u) /\ heap[fire[u].ref] = fire[u].raw
        /\ UNCHANGED <<arrived, unsure, mail, row, sse>>
    BY DEF Dispatch, At, DeliveryInv, Shape, Deliveries, Addressed
  <1>2. fire' = [fire EXCEPT ![u] = f]
    BY DEF Dispatch, RenderedInto, DeliveryInv, Shape
  <1>3. heap' = [heap EXCEPT ![u] = h]
    <2>1. Fill(u)
      BY DEF Dispatch
    <2> QED
      BY <1>1, <2>1 DEF Fill, RenderedInto, Filling
  <1>4. /\ DOMAIN f = DOMAIN NoFire /\ f.ref = u
        /\ f.pc = (IF known THEN fire[u].scheme ELSE "record")
        /\ f.status = (IF known THEN "" ELSE "failed")
        /\ f.attempt = (IF known THEN 1 ELSE 0) /\ f.traits = fire[u].traits
        /\ f.raw = fire[u].raw /\ f.snap = fire[u].snap
        /\ f.template = fire[u].template /\ f.scheme = fire[u].scheme
    BY <1>1 DEF NoFire
  <1>5. known => fire[u].scheme \in {"slack", "email"}
    BY DEF Registered
  <1>6. h.t \in {"map", "nil"}
    <2>1. Filling(u).t \in {"map", "nil"}
      BY DEF Filling, Render, Map, Nil
    <2>2. \A m : Map(m).t = "map"
      BY DEF Map
    <2> QED
      BY <2>1, <2>2 DEF InjectRecipient
  <1> HIDE DEF f, h, known
  <1>7. OthersKept(u) /\ Shape' /\ fire'[u] = f /\ heap'[u] = h
    BY <1>1, <1>2, <1>3, <1>4 DEF DeliveryInv, Shape, OthersKept, BuiltinsKept
  <1>8. Outcome(u)'
    <2>1. \/ /\ fire'[u].pc \in {"slack", "email"} /\ fire'[u].status = ""
             /\ fire'[u].attempt = 1
          \/ /\ fire'[u].pc = "record" /\ fire'[u].status = "failed"
             /\ fire'[u].attempt = 0
      BY <1>4, <1>5, <1>7
    <2> QED
      BY <1>1, <2>1, Leaves DEF Outcome
  <1>9. /\ InjectRecipient(u, Filling(u))' = InjectRecipient(u, Filling(u))
        /\ Recipient(u)' = Recipient(u)
    BY <1>4, <1>7, SameFilling
  <1>10. mail[u] = Nil /\ sse[u] = Nil /\ fire[u].status = ""
    BY <1>1 DEF Outcome, Consistent, Before, After
  <1>11. /\ fire'[u].traits \in Profiles(u) /\ fire'[u].raw.t \in {"map", "nil"}
         /\ heap'[u].t \in {"map", "nil"} /\ fire'[u].pc /= "fill"
         /\ fire'[u].pc \in {"slack", "email"} => fire'[u].scheme = fire'[u].pc
         /\ ~ByEmail(u)'
    <2>1. /\ fire'[u].traits = fire[u].traits /\ fire'[u].raw = fire[u].raw
          /\ fire'[u].scheme = fire[u].scheme /\ heap'[u] = h
      BY <1>4, <1>7
    <2>2. fire[u].traits \in Profiles(u) /\ fire[u].raw.t \in {"map", "nil"}
      BY <1>1 DEF Addressed
    <2>3. /\ fire'[u].pc \in {"slack", "email", "record"}
          /\ fire'[u].pc \in {"slack", "email"} => fire'[u].scheme = fire'[u].pc
          /\ fire'[u].status /= "sent"
      BY <1>4, <1>5, <1>7
    <2> QED
      BY <1>6, <2>1, <2>2, <2>3 DEF ByEmail
  <1>12. fire'[u].ref = u /\ heap'[u] = InjectRecipient(u, Filling(u))'
    BY <1>4, <1>7, <1>9 DEF h
  <1>13. Addressed(u)'
    BY <1>1, <1>10, <1>11, <1>12 DEF Addressed, Profiles
  <1> QED
    BY <1>7, <1>8, <1>13, DeliveryStepKeeps

-----------------------------------------------------------------------------
(***************************************************************************)
(* Recipients.                                                             *)
(***************************************************************************)

\* The profile of a fire is that of its user, if it has one.
LEMMA ProfileEmail ==
  ASSUME NEW u \in Users, fire[u].traits \in Profiles(u)
  PROVE  TraitEmail(u) \in {Empty, Say(EmailOf[u])}
  <1>1. CASE fire[u].traits \in {Nil, Map(EmptyMap)}
    BY <1>1 DEF TraitEmail, stringOrEmpty, Entries, Nil, Map, EmptyMap
  <1>2. CASE fire[u].traits =
               Map([first_name |-> Say("name"), email |-> Say(EmailOf[u])])
    <2>1. Entries(fire[u].traits) =
            [first_name |-> Say("name"), email |-> Say(EmailOf[u])]
      BY <1>2 DEF Entries, Map
    <2>2. Say(EmailOf[u]).t = "text"
      BY DEF Say, Text
    <2> QED
      BY <2>1, <2>2 DEF TraitEmail, stringOrEmpty
  <1> QED
    BY <1>1, <1>2 DEF Profiles

\* An email goes to the recipient the rendered answer or the profile gives.
LEMMA MailGoesTo ==
  ASSUME NEW u \in Users, NEW raw
  PROVE  MailRow(InjectRecipient(u, Filling(u)), raw).to = Recipient(u)
  <1> DEFINE p == InjectRecipient(u, Filling(u))
             e == TraitEmail(u)
             names == "to_email" \in DOMAIN Entries(Filling(u))
  <1>1. MailRow(p, raw).to = OrElse(stringOrEmpty(p, "to_email"), DefaultTo)
    BY DEF MailRow
  <1>2. Recipient(u) = OrElse(IF names THEN stringOrEmpty(Filling(u), "to_email")
                              ELSE e, DefaultTo)
    BY DEF Recipient
  <1>3. e.t = "text"
    <2>1. Empty.t = "text"
      BY DEF Empty, Text
    <2> QED
      BY <2>1 DEF TraitEmail, stringOrEmpty
  <1>4. CASE names
    BY <1>1, <1>2, <1>4 DEF InjectRecipient
  <1>5. CASE ~names /\ e = Empty
    <2>1. p = Filling(u)
      BY <1>5 DEF InjectRecipient
    <2>2. stringOrEmpty(Filling(u), "to_email") = Empty
      BY <1>5 DEF stringOrEmpty
    <2> QED
      BY <1>1, <1>2, <1>5, <2>1, <2>2
  <1>6. CASE ~names /\ e /= Empty
    <2> DEFINE m == Put(Entries(Filling(u)), "to_email", e)
    <2>1. p = Map(m)
      BY <1>6 DEF InjectRecipient
    <2>2. "to_email" \in DOMAIN m /\ m["to_email"] = e
      BY DEF Put, Over
    <2>3. Entries(p) = m
      BY <2>1 DEF Entries, Map
    <2>4. stringOrEmpty(p, "to_email") = e
      <3> HIDE DEF m, e, p, names
      <3> QED
        BY <1>3, <2>2, <2>3 DEF stringOrEmpty
    <2>5. Recipient(u) = OrElse(e, DefaultTo)
      BY <1>2, <1>6
    <2> QED
      BY <1>1, <2>4, <2>5
  <1> QED
    BY <1>4, <1>5, <1>6

-----------------------------------------------------------------------------
(***************************************************************************)
(* Attempts to deliver.                                                    *)
(***************************************************************************)

\* The fire's record changes, and not the locals its message was made from.
Went(u) ==
  /\ DOMAIN fire' = Users /\ DOMAIN fire'[u] = DOMAIN NoFire
  /\ \A v \in Users \ {u} : fire'[v] = fire[v]
  /\ fire'[u].raw = fire[u].raw /\ fire'[u].snap = fire[u].snap
  /\ fire'[u].traits = fire[u].traits /\ fire'[u].template = fire[u].template
  /\ fire'[u].ref = fire[u].ref /\ fire'[u].scheme = fire[u].scheme

\* The ways a fire goes on from an attempt.
Ends(u, status) ==
  fire'[u].pc = "record" /\ fire'[u].status = status /\ fire'[u].attempt = 0

TriesAgain(u) ==
  /\ fire'[u].pc = fire[u].pc /\ fire'[u].status = fire[u].status
  /\ fire'[u].attempt = fire[u].attempt + 1
  /\ fire[u].attempt < slackMaxAttempts

\* Of its messages, a more have arrived, x more are unsure.
Messages(u, a, x) ==
  /\ DOMAIN arrived' = Users /\ DOMAIN unsure' = Users /\ DOMAIN mail' = Users
  /\ \A v \in Users \ {u} : /\ arrived'[v] = arrived[v] /\ unsure'[v] = unsure[v]
                             /\ mail'[v] = mail[v]
  /\ arrived'[u] = arrived[u] + a /\ unsure'[u] = unsure[u] + x

LEMMA DispatchedFields ==
  ASSUME DeliveryInv, NEW u \in Users, NEW status, Dispatched(u, status)
  PROVE  Ends(u, status) /\ Went(u)
  <1> DEFINE f == [fire[u] EXCEPT !.pc = "record", !.status = status, !.attempt = 0]
  <1>1. fire' = [fire EXCEPT ![u] = f] /\ DOMAIN fire = Users
        /\ DOMAIN fire[u] = DOMAIN NoFire
    BY DEF Dispatched, DeliveryInv, Shape
  <1>2. /\ DOMAIN f = DOMAIN NoFire /\ f.pc = "record" /\ f.status = status
        /\ f.attempt = 0 /\ f.raw = fire[u].raw /\ f.snap = fire[u].snap
        /\ f.traits = fire[u].traits /\ f.template = fire[u].template
        /\ f.ref = fire[u].ref /\ f.scheme = fire[u].scheme
    BY <1>1 DEF NoFire
  <1> HIDE DEF f
  <1> QED
    BY <1>1, <1>2 DEF Ends, Went

LEMMA RetryFields ==
  ASSUME DeliveryInv, NEW u \in Users, Retry(u), fire[u].pc = "slack"
  PROVE  (Ends(u, "failed") \/ TriesAgain(u)) /\ Went(u)
  <1>1. CASE fire[u].attempt = slackMaxAttempts
    BY <1>1, DispatchedFields DEF Retry
  <1>2. CASE fire[u].attempt /= slackMaxAttempts
    <2> DEFINE f == [fire[u] EXCEPT !.attempt = @ + 1]
    <2>1. fire' = [fire EXCEPT ![u] = f] /\ DOMAIN fire = Users
          /\ DOMAIN fire[u] = DOMAIN NoFire
      BY <1>2 DEF Retry, DeliveryInv, Shape
    <2>2. /\ DOMAIN f = DOMAIN NoFire /\ f.pc = fire[u].pc /\ f.status = fire[u].status
          /\ f.attempt = fire[u].attempt + 1 /\ f.raw = fire[u].raw
          /\ f.snap = fire[u].snap /\ f.traits = fire[u].traits
          /\ f.template = fire[u].template
          /\ f.ref = fire[u].ref /\ f.scheme = fire[u].scheme
      BY <2>1 DEF NoFire
    <2>3. fire[u].attempt < slackMaxAttempts
      <3>1. Outcome(u)
        BY DEF DeliveryInv, Deliveries
      <3>2. fire[u].attempt \in 0 .. 3
        BY <3>1, NotYet DEF Outcome
      <3> QED
        BY <1>2, <3>2 DEF slackMaxAttempts
    <2> HIDE DEF f
    <2> QED
      BY <2>1, <2>2, <2>3 DEF TriesAgain, Went
  <1> QED
    BY <1>1, <1>2

LEMMA NothingArrives ==
  ASSUME DeliveryInv, NEW u \in Users, fire[u].pc \in {"slack", "email"}, Nothing(u)
  PROVE  Messages(u, 0, 0) /\ mail'[u] = mail[u]
  <1>1. Outcome(u) /\ Shape
    BY DEF DeliveryInv, Deliveries
  <1>2. arrived[u] \in 0 .. 3 /\ unsure[u] \in 0 .. 3
    BY <1>1, NotYet DEF Outcome
  <1>3. arrived[u] + 0 = arrived[u] /\ unsure[u] + 0 = unsure[u]
    BY <1>2
  <1> QED
    BY <1>1, <1>3 DEF Nothing, Messages, Shape

\* A message arrives, and its answer is lost or is not.
LEMMA OneArrives ==
  ASSUME DeliveryInv, NEW u \in Users, fire[u].pc \in {"slack", "email"},
         Arrives(u)
  PROVE  /\ UNCHANGED unsure => Messages(u, 1, 0)
         /\ LostAnswer(u) => Messages(u, 1, 1)
         /\ IF fire[u].pc = "slack" THEN mail'[u] = mail[u]
            ELSE mail'[u] = MailRow(heap[u], fire[u].raw)
  <1>1. Outcome(u) /\ Addressed(u) /\ Shape
    BY DEF DeliveryInv, Deliveries
  <1>2. arrived[u] \in 0 .. 3 /\ unsure[u] \in 0 .. 3
    BY <1>1, NotYet DEF Outcome
  <1>3. unsure[u] + 0 = unsure[u]
    BY <1>2
  <1>4. Payload(u) = heap[u]
    BY <1>1 DEF Addressed, Payload
  <1>5. /\ UNCHANGED unsure \/ LostAnswer(u) =>
             DOMAIN unsure' = Users /\ \A v \in Users \ {u} : unsure'[v] = unsure[v]
        /\ UNCHANGED unsure => unsure'[u] = unsure[u] + 0
        /\ LostAnswer(u) => unsure'[u] = unsure[u] + 1
    BY <1>1, <1>3 DEF LostAnswer, Shape
  <1>6. /\ DOMAIN arrived' = Users /\ arrived'[u] = arrived[u] + 1
        /\ \A v \in Users \ {u} : arrived'[v] = arrived[v]
    BY <1>1 DEF Arrives, Shape
  <1>7. /\ DOMAIN mail' = Users /\ \A v \in Users \ {u} : mail'[v] = mail[v]
        /\ IF fire[u].pc = "slack" THEN mail'[u] = mail[u]
           ELSE mail'[u] = MailRow(heap[u], fire[u].raw)
    BY <1>1, <1>4 DEF Arrives, At, Shape
  <1> QED
    BY <1>5, <1>6, <1>7 DEF Messages

\* An attempt has one of five outcomes: sent; refused, for good or to be tried
\* again; lost on the way back, for good or to be tried again.
LEMMA AttemptKeeps ==
  ASSUME DeliveryInv, NEW u \in Users, fire[u].pc \in {"slack", "email"},
         UNCHANGED <<heap, row, sse>>, Went(u),
         NEW a \in {0, 1}, NEW x \in {0, 1}, Messages(u, a, x),
         \/ Ends(u, "sent") /\ a = 1 /\ x = 0
         \/ Ends(u, "failed") /\ a = x
         \/ TriesAgain(u) /\ a = x /\ fire[u].pc = "slack",
         \/ mail'[u] = mail[u] /\ (a = 1 => fire[u].pc = "slack")
         \/ a = 1 /\ fire[u].pc = "email"
            /\ mail'[u] = MailRow(heap[u], fire[u].raw)
  PROVE  DeliveryInv'
  <1>0. OthersKept(u) /\ Shape'
    BY DEF DeliveryInv, Shape, OthersKept, BuiltinsKept, Went, Messages
  <1>1. Outcome(u) /\ Addressed(u)
    BY DEF DeliveryInv, Deliveries
  <1>2. arrived'[u] = arrived[u] + a /\ unsure'[u] = unsure[u] + x
    BY DEF Messages
  <1>3. fire[u].status = "" /\ mail[u] = Nil /\ row[u] = Nil /\ sse[u] = Nil
    <2>1. fire[u].pc \notin After
      BY DEF After
    <2> QED
      BY <1>1, <2>1, Untold
  <1>4. row'[u] = row[u] /\ sse'[u] = sse[u]
    OBVIOUS
  <1>5. unsure[u] + 0 = unsure[u]
    BY <1>1, NotYet DEF Outcome
  <1>6. Outcome(u)'
    <2>1. CASE Ends(u, "sent") /\ a = 1 /\ x = 0
      <3>1. Consistent(fire'[u], arrived[u] + 1, unsure[u], mail'[u], row[u], sse[u])
        BY <1>1, <2>1, Sends DEF Outcome, Ends
      <3> QED
        BY <1>2, <1>4, <1>5, <2>1, <3>1 DEF Outcome
    <2>2. CASE Ends(u, "failed") /\ a = x
      <3>1. Consistent(fire'[u], arrived[u] + a, unsure[u] + a, mail'[u], row[u], sse[u])
        BY <1>1, <2>2, GivesUp DEF Outcome, Ends
      <3> QED
        BY <1>2, <1>4, <2>2, <3>1 DEF Outcome
    <2>3. CASE TriesAgain(u) /\ a = x /\ fire[u].pc = "slack"
      <3>1. Consistent(fire'[u], arrived[u] + a, unsure[u] + a, mail[u], row[u], sse[u])
        BY <1>1, <2>3, Again DEF Outcome, TriesAgain, slackMaxAttempts
      <3>2. mail'[u] = mail[u]
        BY <2>3
      <3> QED
        BY <1>2, <1>4, <2>3, <3>1, <3>2 DEF Outcome
    <2> QED
      BY <2>1, <2>2, <2>3
  <1>7. /\ InjectRecipient(u, Filling(u))' = InjectRecipient(u, Filling(u))
        /\ Recipient(u)' = Recipient(u)
    BY SameFilling DEF Went
  <1>8. fire[u].ref = u /\ heap[u] = InjectRecipient(u, Filling(u))
        /\ fire[u].scheme = fire[u].pc
    BY <1>1 DEF Addressed
  <1>9. mail'[u] /= Nil \/ ByEmail(u)' => mail'[u].to = Recipient(u)
    <2>1. CASE a = 1 /\ fire[u].pc = "email"
               /\ mail'[u] = MailRow(heap[u], fire[u].raw)
      BY <1>8, <2>1, MailGoesTo
    <2>2. CASE mail'[u] = mail[u] /\ (a = 1 => fire[u].pc = "slack")
      <3>1. ~ByEmail(u)'
        <4>1. fire'[u].scheme = fire[u].pc
          BY <1>8 DEF Went
        <4>2. fire'[u].status = "sent" => a = 1
          BY <1>3 DEF Ends, TriesAgain
        <4> QED
          BY <2>2, <4>1, <4>2 DEF ByEmail
      <3> QED
        BY <1>3, <2>2, <3>1
    <2> QED
      BY <2>1, <2>2
  <1>10. Addressed(u)'
    <2>1. fire'[u].pc \in {"record", "slack"} /\ fire'[u].pc \in {"record", fire[u].pc}
      BY DEF Ends, TriesAgain
    <2> QED
      BY <1>1, <1>3, <1>4, <1>7, <1>8, <1>9, <2>1 DEF Went, Addressed, Profiles
  <1> QED
    BY <1>0, <1>6, <1>10, DeliveryStepKeeps

LEMMA SlackKeeps ==
  ASSUME DeliveryInv, NEW u \in Users, SlackAttempt(u)
  PROVE  DeliveryInv'
  <1>1. fire[u].pc = "slack" /\ UNCHANGED <<heap, row, sse>>
    BY DEF SlackAttempt, At
  <1>2. CASE Dispatched(u, "failed") /\ Nothing(u)
    <2>1. Ends(u, "failed") /\ Went(u)
      BY <1>2, DispatchedFields
    <2>2. Messages(u, 0, 0) /\ mail'[u] = mail[u]
      BY <1>1, <1>2, NothingArrives
    <2> QED
      BY <1>1, <2>1, <2>2, AttemptKeeps
  <1>3. CASE Dispatched(u, "sent") /\ Arrives(u) /\ UNCHANGED unsure
    <2>1. Ends(u, "sent") /\ Went(u)
      BY <1>3, DispatchedFields
    <2>2. Messages(u, 1, 0) /\ mail'[u] = mail[u]
      BY <1>1, <1>3, OneArrives
    <2> QED
      BY <1>1, <2>1, <2>2, AttemptKeeps
  <1>4. CASE SlackRefused(u)
    <2>1. Retry(u) /\ Nothing(u)
      BY <1>4 DEF SlackRefused
    <2>2. (Ends(u, "failed") \/ TriesAgain(u)) /\ Went(u)
      BY <1>1, <2>1, RetryFields
    <2>3. Messages(u, 0, 0) /\ mail'[u] = mail[u]
      BY <1>1, <2>1, NothingArrives
    <2> QED
      BY <1>1, <2>2, <2>3, AttemptKeeps
  <1>5. CASE Retry(u) /\ Arrives(u) /\ LostAnswer(u)
    <2>1. (Ends(u, "failed") \/ TriesAgain(u)) /\ Went(u)
      BY <1>1, <1>5, RetryFields
    <2>2. Messages(u, 1, 1) /\ mail'[u] = mail[u]
      BY <1>1, <1>5, OneArrives
    <2> QED
      BY <1>1, <2>1, <2>2, AttemptKeeps
  <1> QED
    BY <1>2, <1>3, <1>4, <1>5 DEF SlackAttempt

LEMMA EmailKeeps ==
  ASSUME DeliveryInv, NEW u \in Users, EmailInsert(u)
  PROVE  DeliveryInv'
  <1>1. fire[u].pc = "email" /\ UNCHANGED <<heap, row, sse>>
    BY DEF EmailInsert, At
  <1>2. CASE Dispatched(u, "failed") /\ Nothing(u)
    <2>1. Ends(u, "failed") /\ Went(u)
      BY <1>2, DispatchedFields
    <2>2. Messages(u, 0, 0) /\ mail'[u] = mail[u]
      BY <1>1, <1>2, NothingArrives
    <2> QED
      BY <1>1, <2>1, <2>2, AttemptKeeps
  <1>3. CASE Dispatched(u, "sent") /\ Arrives(u) /\ UNCHANGED unsure
    <2>1. Ends(u, "sent") /\ Went(u)
      BY <1>3, DispatchedFields
    <2>2. Messages(u, 1, 0) /\ mail'[u] = MailRow(heap[u], fire[u].raw)
      BY <1>1, <1>3, OneArrives
    <2> QED
      BY <1>1, <2>1, <2>2, AttemptKeeps
  <1>4. CASE Dispatched(u, "failed") /\ Arrives(u) /\ LostAnswer(u)
    <2>1. Ends(u, "failed") /\ Went(u)
      BY <1>4, DispatchedFields
    <2>2. Messages(u, 1, 1) /\ mail'[u] = MailRow(heap[u], fire[u].raw)
      BY <1>1, <1>4, OneArrives
    <2> QED
      BY <1>1, <2>1, <2>2, AttemptKeeps
  <1> QED
    BY <1>2, <1>3, <1>4 DEF EmailInsert

-----------------------------------------------------------------------------
(***************************************************************************)
(* The row, the messages, and the end of the context.                      *)
(***************************************************************************)

\* A fire that is over records and publishes its own status.
LEMMA Records ==
  ASSUME NEW f, NEW g, NEW p, NEW q, NEW m, NEW r, NEW e, NEW r2, NEW e2,
         Consistent(f, p, q, m, r, e), f.pc \in After, g.pc \in After,
         g.status = f.status, g.attempt = f.attempt,
         r2 = r \/ r2.status = f.status, e2 = e \/ e2.status = f.status
  PROVE  Consistent(g, p, q, m, r2, e2)
  <1>1. /\ p \in 0 .. 3 /\ q \in 0 .. 3 /\ g.attempt \in 0 .. 3
        /\ p - q = IF g.status = "sent" THEN 1 ELSE 0
    BY DEF Consistent
  <1>2. /\ g.status \in {"", "sent", "failed"}
        /\ r2 /= Nil => r2.status = g.status
        /\ e2 /= Nil => e2.status = g.status
    BY DEF Consistent
  <1>3. g.pc \notin Before /\ g.pc \notin {"slack", "email"}
    BY DEF Before, After
  <1> QED
    BY <1>1, <1>2, <1>3 DEF Consistent

LEMMA RecordKeeps ==
  ASSUME DeliveryInv, NEW u \in Users, Record(u)
  PROVE  DeliveryInv'
  <1>0. PICK stored \in BOOLEAN : Recorded(u, stored)
    BY DEF Record
  <1> DEFINE f == [fire[u] EXCEPT !.pc = "publish", !.expired = FALSE,
                                  !.stored = stored]
  <1>1. /\ fire[u].pc = "record" /\ DOMAIN fire[u] = DOMAIN NoFire
        /\ Outcome(u) /\ Addressed(u) /\ Shape
        /\ fire' = [fire EXCEPT ![u] = f]
        /\ UNCHANGED <<heap, arrived, unsure, mail, sse>>
    <2>1. fire' = [fire EXCEPT ![u] = f]
      BY <1>0 DEF Recorded
    <2> QED
      BY <2>1 DEF Record, At, DeliveryInv, Shape, Deliveries
  <1>2. /\ DOMAIN f = DOMAIN NoFire /\ f.pc = "publish" /\ f.traits = fire[u].traits
        /\ f.raw = fire[u].raw /\ f.ref = fire[u].ref /\ f.snap = fire[u].snap
        /\ f.template = fire[u].template /\ f.attempt = fire[u].attempt
        /\ f.status = fire[u].status /\ f.scheme = fire[u].scheme
    BY <1>1 DEF NoFire
  <1> HIDE DEF f
  <1>3. /\ DOMAIN row' = Users /\ \A v \in Users \ {u} : row'[v] = row[v]
        /\ row'[u] = row[u] \/ row'[u].status = fire[u].status
    <2>1. row' = row \/ RowWritten(u)
      BY DEF Record
    <2> QED
      BY <1>1, <2>1 DEF RowWritten, Shape
  <1>4. OthersKept(u) /\ Shape' /\ fire'[u] = f
    BY <1>1, <1>2, <1>3 DEF DeliveryInv, Shape, OthersKept, BuiltinsKept
  <1>5. Outcome(u)'
    <2>1. fire[u].pc \in After /\ f.pc \in After
      BY <1>1, <1>2 DEF After
    <2>2. Consistent(f, arrived[u], unsure[u], mail[u], row'[u], sse[u])
      BY <1>1, <1>2, <1>3, <2>1, Records DEF Outcome
    <2> QED
      BY <1>1, <1>4, <2>2 DEF Outcome
  <1>6. /\ TraitEmail(u)' = TraitEmail(u) /\ Recipient(u)' = Recipient(u)
        /\ InjectRecipient(u, Filling(u))' = InjectRecipient(u, Filling(u))
    BY <1>2, <1>4, SameFilling
  <1>7. ByEmail(u)' = ByEmail(u)
    BY <1>2, <1>4 DEF ByEmail
  <1>8. Addressed(u)'
    BY <1>1, <1>2, <1>4, <1>6, <1>7 DEF Addressed, Profiles
  <1> QED
    BY <1>4, <1>5, <1>8, DeliveryStepKeeps

LEMMA PublishKeeps ==
  ASSUME DeliveryInv, NEW u \in Users, Publish(u)
  PROVE  DeliveryInv'
  <1> DEFINE f == [fire[u] EXCEPT !.pc = "done"]
  <1>1. /\ fire[u].pc = "publish" /\ DOMAIN fire[u] = DOMAIN NoFire
        /\ Outcome(u) /\ Addressed(u) /\ Shape
        /\ fire' = [fire EXCEPT ![u] = f]
        /\ UNCHANGED <<heap, arrived, unsure, mail, row>>
    BY DEF Publish, At, DeliveryInv, Shape, Deliveries
  <1>2. /\ DOMAIN f = DOMAIN NoFire /\ f.pc = "done" /\ f.traits = fire[u].traits
        /\ f.raw = fire[u].raw /\ f.ref = fire[u].ref /\ f.snap = fire[u].snap
        /\ f.template = fire[u].template /\ f.attempt = fire[u].attempt
        /\ f.status = fire[u].status /\ f.scheme = fire[u].scheme
    BY <1>1 DEF NoFire
  <1> HIDE DEF f
  <1>3. /\ DOMAIN sse' = Users /\ \A v \in Users \ {u} : sse'[v] = sse[v]
        /\ sse'[u].status = fire[u].status /\ sse'[u].email = ByEmail(u)
        /\ ByEmail(u) => sse'[u].to = OrElse(TraitEmail(u), Say("anon@example.com"))
    BY <1>1 DEF Publish, Shape, ByEmail
  <1>4. OthersKept(u) /\ Shape' /\ fire'[u] = f
    BY <1>1, <1>2, <1>3 DEF DeliveryInv, Shape, OthersKept, BuiltinsKept
  <1>5. Outcome(u)'
    <2>1. fire[u].pc \in After /\ f.pc \in After
      BY <1>1, <1>2 DEF After
    <2>2. Consistent(f, arrived[u], unsure[u], mail[u], row[u], sse'[u])
      BY <1>1, <1>2, <1>3, <2>1, Records DEF Outcome
    <2> QED
      BY <1>1, <1>4, <2>2 DEF Outcome
  <1>6. /\ TraitEmail(u)' = TraitEmail(u) /\ Recipient(u)' = Recipient(u)
        /\ InjectRecipient(u, Filling(u))' = InjectRecipient(u, Filling(u))
    BY <1>2, <1>4, SameFilling
  <1>7. ByEmail(u)' = ByEmail(u)
    BY <1>2, <1>4 DEF ByEmail
  <1>8. Addressed(u)'
    BY <1>1, <1>2, <1>3, <1>4, <1>6, <1>7 DEF Addressed, Profiles
  <1> QED
    BY <1>4, <1>5, <1>8, DeliveryStepKeeps

LEMMA ContextKeeps ==
  ASSUME DeliveryInv, NEW u \in Users, ContextEnds(u)
  PROVE  DeliveryInv'
  <1> DEFINE f == [fire[u] EXCEPT !.expired = TRUE]
  <1>1. /\ DOMAIN fire[u] = DOMAIN NoFire
        /\ Outcome(u) /\ Addressed(u) /\ Shape
        /\ fire' = [fire EXCEPT ![u] = f]
        /\ UNCHANGED <<heap, arrived, unsure, mail, row, sse>>
    BY DEF ContextEnds, DeliveryInv, Shape, Deliveries
  <1>2. /\ DOMAIN f = DOMAIN NoFire /\ f.pc = fire[u].pc /\ f.traits = fire[u].traits
        /\ f.raw = fire[u].raw /\ f.ref = fire[u].ref /\ f.snap = fire[u].snap
        /\ f.template = fire[u].template /\ f.attempt = fire[u].attempt
        /\ f.status = fire[u].status /\ f.scheme = fire[u].scheme
    BY <1>1 DEF NoFire
  <1> HIDE DEF f
  <1>3. OthersKept(u) /\ Shape' /\ fire'[u] = f
    BY <1>1, <1>2, FireAlone
  <1>4. Outcome(u)'
    BY <1>1, <1>2, <1>3 DEF Outcome, Consistent
  <1>5. /\ TraitEmail(u)' = TraitEmail(u) /\ Recipient(u)' = Recipient(u)
        /\ InjectRecipient(u, Filling(u))' = InjectRecipient(u, Filling(u))
    BY <1>2, <1>3, SameFilling
  <1>6. ByEmail(u)' = ByEmail(u)
    BY <1>2, <1>3 DEF ByEmail
  <1>7. Addressed(u)'
    BY <1>1, <1>2, <1>3, <1>5, <1>6 DEF Addressed, Profiles, BuiltinsKept
  <1> QED
    BY <1>3, <1>4, <1>7, DeliveryStepKeeps

-----------------------------------------------------------------------------
(***************************************************************************)
(* The whole run.                                                          *)
(***************************************************************************)
LEMMA InitDelivery ==
  ASSUME DeliveryInit
  PROVE  DeliveryInv
  <1>1. Shape
    BY DEF DeliveryInit, Shape
  <1>2. BuiltinsKept
    BY DEF DeliveryInit, BuiltinsKept
  <1>3. ASSUME NEW u \in Users PROVE Outcome(u) /\ Addressed(u)
    <2>1. /\ fire[u] = NoFire /\ heap[u] = Nil /\ arrived[u] = 0 /\ unsure[u] = 0
          /\ mail[u] = Nil /\ row[u] = Nil /\ sse[u] = Nil
      BY <1>3 DEF DeliveryInit
    <2>2. /\ NoFire.pc = "idle" /\ NoFire.status = "" /\ NoFire.attempt = 0
          /\ NoFire.traits = Nil /\ NoFire.raw = Nil /\ Nil.t = "nil"
      BY DEF NoFire, Nil
    <2>3. Consistent(NoFire, 0, 0, Nil, Nil, Nil)
      BY <2>2, Small DEF Consistent, Before, After
    <2>4. Outcome(u)
      BY <2>1, <2>3 DEF Outcome
    <2>5. Addressed(u)
      BY <2>1, <2>2 DEF Addressed, Profiles, ByEmail
    <2> QED
      BY <2>4, <2>5
  <1> QED
    BY <1>1, <1>2, <1>3 DEF DeliveryInv, Deliveries

LEMMA NextDelivery ==
  ASSUME DeliveryInv, [Next]_vars
  PROVE  DeliveryInv'
  <1>1. CASE UNCHANGED deliveryVars
    <2>1. Shape' /\ BuiltinsKept' /\ BuiltinsKept
      BY <1>1 DEF DeliveryInv, Shape, BuiltinsKept, deliveryVars
    <2>2. ASSUME NEW u \in Users PROVE Outcome(u)' /\ Addressed(u)'
      <3>1. Outcome(u) /\ Addressed(u)
        BY <2>2 DEF DeliveryInv, Deliveries
      <3>2. /\ fire'[u] = fire[u] /\ heap'[u] = heap[u] /\ arrived'[u] = arrived[u]
            /\ unsure'[u] = unsure[u] /\ mail'[u] = mail[u] /\ row'[u] = row[u]
            /\ sse'[u] = sse[u]
        BY <1>1 DEF deliveryVars
      <3> QED
        BY <2>1, <3>1, <3>2, OutcomeSame, AddressedSame
    <2> QED
      BY <2>1, <2>2 DEF DeliveryInv, Deliveries
  <1>2. ASSUME NEW s \in Sessions, Fires(s) PROVE DeliveryInv'
    <2>1. UserOf[s] \in Users
      BY DemoAssumption
    <2> QED
      BY <1>2, <2>1, StartKeeps DEF Fires
  <1>3. ASSUME NEW u \in Users, DeliveryStep(u) \/ ContextEnds(u) PROVE DeliveryInv'
    BY <1>3, GetProfileKeeps, GenerateFailsKeeps, CannedKeeps, LiveKeeps, DispatchKeeps,
       SlackKeeps, EmailKeeps, RecordKeeps, PublishKeeps, ContextKeeps DEF DeliveryStep
  <1> QED
    BY <1>1, <1>2, <1>3 DEF Next, vars

\* The request sees none of the deliveries.
LEMMA NextIsFire ==
  ASSUME [Next]_vars
  PROVE  [FireNext]_fireVars
  BY DEF Next, vars, Fires

Budget == faults \in 0 .. MaxFaults

\* Every step uses up at most one fault.
LEMMA NextFaults ==
  ASSUME Budget, [Next]_vars
  PROVE  Budget'
  <1>1. ASSUME Fault \/ NoFault PROVE Budget'
    BY <1>1, DemoAssumption DEF Budget, Fault, NoFault
  <1>2. CASE FireNext
    <2>1. ASSUME NEW s \in Sessions, SessionStep(s) PROVE Fault \/ NoFault
      BY <2>1 DEF SessionStep, Stagger, Connect, Cancelled, Send, SendFails, Finish
    <2>2. Fault \/ NoFault
      BY <1>2, <2>1 DEF FireNext, Refuse, Accept, Answer, ContextExpires
    <2> QED
      BY <1>1, <2>2
  <1>3. ASSUME NEW s \in Sessions, Fires(s) PROVE Fault \/ NoFault
    BY <1>3 DEF Fires, Start
  <1>4. ASSUME NEW u \in Users, DeliveryStep(u) \/ ContextEnds(u)
        PROVE  Fault \/ NoFault
    <2>1. GetProfile(u) => Fault \/ NoFault
      BY DEF GetProfile
    <2>2. GenerateFails(u) \/ GenerateCanned(u) \/ GenerateLive(u) => Fault \/ NoFault
      BY DEF GenerateFails, GenerateCanned, GenerateLive, hardcodedDefault, Answered
    <2>3. Dispatch(u) \/ Publish(u) \/ ContextEnds(u) => Fault \/ NoFault
      BY DEF Dispatch, Publish, ContextEnds
    <2>4. SlackAttempt(u) \/ EmailInsert(u) \/ Record(u) => Fault \/ NoFault
      BY DEF SlackAttempt, EmailInsert, Record
    <2> QED
      BY <1>4, <2>1, <2>2, <2>3, <2>4 DEF DeliveryStep
  <1>5. CASE UNCHANGED vars
    BY <1>5 DEF vars, Budget
  <1> QED
    BY <1>1, <1>2, <1>3, <1>4, <1>5 DEF Next

RunInv == FireInv /\ DeliveryInv /\ Budget

LEMMA RunInvHolds == Spec => []RunInv
  <1>1. Init => RunInv
    BY InitFire, InitDelivery, DemoAssumption DEF Init, RunInv, Budget
  <1>2. RunInv /\ [Next]_vars => RunInv'
    BY NextIsFire, NextFire, NextDelivery, NextFaults DEF RunInv
  <1> QED
    BY <1>1, <1>2, PTL DEF Spec

\* Every variable has its type, in every state of a run.
THEOREM TypeCorrect == Spec => []TypeOK
  <1>1. ASSUME RunInv PROVE TypeOK
    <2>1. FireTypeOK /\ faults \in 0 .. MaxFaults
      BY <1>1 DEF RunInv, FireInv, Budget
    <2>2. Shape /\ BuiltinsKept /\ Deliveries
      BY <1>1 DEF RunInv, DeliveryInv
    <2>3. ASSUME NEW r \in DOMAIN heap PROVE heap[r].t \in {"map", "nil"}
      <3>1. CASE r \in Builtins
        BY <2>2, <3>1, BuiltinsAreMaps DEF BuiltinsKept
      <3>2. CASE r \in Users
        BY <2>2, <3>2 DEF Deliveries, Addressed
      <3> QED
        BY <2>2, <2>3, <3>1, <3>2 DEF Shape
    <2>4. ASSUME NEW u \in Users
          PROVE  /\ fire[u].pc \in Stages /\ fire[u].status \in {"", "sent", "failed"}
                 /\ fire[u].attempt \in 0 .. slackMaxAttempts
                 /\ arrived[u] \in 0 .. slackMaxAttempts
                 /\ unsure[u] \in 0 .. slackMaxAttempts
      <3>1. Consistent(fire[u], arrived[u], unsure[u], mail[u], row[u], sse[u])
        BY <2>2, <2>4 DEF Deliveries, Outcome
      <3>2. fire[u].pc \in Stages
        BY <3>1 DEF Consistent, Before, After, Stages
      <3>3. fire[u].status \in {"", "sent", "failed"}
        BY <3>1 DEF Consistent
      <3>4. arrived[u] \in 0 .. 3 /\ unsure[u] \in 0 .. 3 /\ fire[u].attempt \in 0 .. 3
        BY <3>1 DEF Consistent
      <3> QED
        BY <3>2, <3>3, <3>4 DEF slackMaxAttempts
    <2>5. DOMAIN heap = Builtins \cup Users
      BY <2>2 DEF Shape
    <2> QED
      BY <2>1, <2>3, <2>4, <2>5 DEF TypeOK, DeliveryTypeOK
  <1> QED
    BY <1>1, RunInvHolds, PTL

\* The status of a trigger, in its row and in what is published, is what reached
\* the destination: whatever is refused, lost or cut short on the way, and with
\* any number of fires at once.
THEOREM StatusCorrect == Spec => []StatusIsTrue
  <1>1. ASSUME RunInv PROVE StatusIsTrue
    <2> SUFFICES ASSUME NEW u \in Users
                 PROVE  LET known == arrived[u] - unsure[u] IN
                        /\ sse[u] /= Nil => known = IF sse[u].status = "sent" THEN 1 ELSE 0
                        /\ row[u] /= Nil => known = IF row[u].status = "sent" THEN 1 ELSE 0
      BY DEF StatusIsTrue
    <2>1. Consistent(fire[u], arrived[u], unsure[u], mail[u], row[u], sse[u])
      BY <1>1 DEF RunInv, DeliveryInv, Deliveries, Outcome
    <2>2. sse[u] /= Nil \/ row[u] /= Nil => fire[u].pc \in After
      BY <2>1 DEF Consistent
    <2>3. fire[u].pc \in After =>
            /\ arrived[u] - unsure[u] = IF fire[u].status = "sent" THEN 1 ELSE 0
            /\ row[u] /= Nil => row[u].status = fire[u].status
            /\ sse[u] /= Nil => sse[u].status = fire[u].status
      BY <2>1 DEF Consistent
    <2> QED
      BY <2>2, <2>3
  <1> QED
    BY <1>1, RunInvHolds, PTL

\* Texts that say different things differ.
LEMMA SayApart ==
  ASSUME NEW x, NEW y, x /= y
  PROVE  Say(x) /= Say(y)
  <1>1. Say(x).parts[1].x = x /\ Say(y).parts[1].x = y
    BY DEF Say, Text, Lit
  <1> QED
    BY <1>1

\* An email whose rendered answer names a recipient goes there. Without one it
\* never goes to another fire's user: it goes to the fire's own user, or to the
\* default if that user's email is unknown or the recipient is there but blank.
\* The dashboard shows a known email, hence the email's recipient unless the
\* answer's recipient is named or blank.
THEOREM RecipientCorrect == Spec => []RecipientIsOwn
  <1>1. ASSUME RunInv PROVE RecipientIsOwn
    <2> SUFFICES ASSUME NEW u \in Users, mail[u] /= Nil
        PROVE  LET named  == stringOrEmpty(Filling(u), "to_email")
                   absent == "to_email" \notin DOMAIN Entries(Filling(u))
                   own    == TraitEmail(u)
                   shown  == sse[u] /= Nil /\ sse[u].email /\ own /= Empty
               IN  /\ named /= Empty => mail[u].to = named
                   /\ named = Empty =>
                        \A v \in Users \ {u} : mail[u].to /= Say(EmailOf[v])
                   /\ absent => /\ mail[u].to = OrElse(own, DefaultTo)
                                /\ shown => sse[u].to = mail[u].to
                   /\ named = Empty /\ ~absent => /\ mail[u].to = DefaultTo
                                                  /\ shown => sse[u].to = own
      BY DEF RecipientIsOwn, Filling
    <2> DEFINE there == "to_email" \in DOMAIN Entries(Filling(u))
               named == stringOrEmpty(Filling(u), "to_email")
    <2>1. Addressed(u)
      BY <1>1 DEF RunInv, DeliveryInv, Deliveries
    <2>2. mail[u].to = OrElse(IF there THEN named ELSE TraitEmail(u), DefaultTo)
      BY <2>1 DEF Addressed, Recipient
    <2>3. TraitEmail(u) \in {Empty, Say(EmailOf[u])}
      BY <2>1, ProfileEmail DEF Addressed
    <2>4. ~there => named = Empty
      BY DEF stringOrEmpty
    <2>5. named /= Empty => mail[u].to = named
      BY <2>2, <2>4 DEF OrElse
    <2>6. ASSUME ~there PROVE mail[u].to = OrElse(TraitEmail(u), DefaultTo)
      BY <2>2, <2>6
    <2>7. ASSUME named = Empty, there PROVE mail[u].to = DefaultTo
      BY <2>2, <2>7 DEF OrElse
    <2>8. ASSUME named = Empty, NEW v \in Users \ {u}
          PROVE  mail[u].to /= Say(EmailOf[v])
      <3>1. mail[u].to \in {DefaultTo, Say(EmailOf[u])}
        BY <2>3, <2>6, <2>7, <2>8 DEF OrElse
      <3>2. Say(EmailOf[v]) /= DefaultTo /\ EmailOf[u] /= EmailOf[v]
        BY <2>8, EmailsAssumption
      <3> QED
        BY <3>1, <3>2, SayApart
    <2>9. ASSUME sse[u] /= Nil, sse[u].email, TraitEmail(u) /= Empty
          PROVE  sse[u].to = TraitEmail(u)
      <3>1. sse[u].to = OrElse(TraitEmail(u), Say("anon@example.com"))
        BY <2>1, <2>9 DEF Addressed
      <3> QED
        BY <2>9, <3>1 DEF OrElse
    <2>10. ASSUME ~there, TraitEmail(u) /= Empty PROVE mail[u].to = TraitEmail(u)
      BY <2>6, <2>10 DEF OrElse
    <2> QED
      BY <2>5, <2>6, <2>7, <2>8, <2>9, <2>10
  <1> QED
    BY <1>1, RunInvHolds, PTL

\* Composed with the fires a run causes, the answer to its request still says
\* what is in the topic.
THEOREM ReportedInRun == Spec => []ReportedIsSent
  <1>1. Init /\ [][Next]_vars => FireInit /\ [][FireNext]_fireVars
    BY NextIsFire, PTL DEF Init
  <1> QED
    BY <1>1, ReportedIsSentHolds, PTL DEF Spec, FireSpec
=============================================================================
