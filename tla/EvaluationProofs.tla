-------------------------- MODULE EvaluationProofs --------------------------
(***************************************************************************)
(* What windows hold, for any events in any order: types, the dominant     *)
(* suburb, traits and redaction; and that the idle ticker misses no match. *)
(***************************************************************************)
EXTENDS Evaluation, FiniteSetTheorems, TLAPS

-----------------------------------------------------------------------------
(***************************************************************************)
(* Types.                                                                  *)
(***************************************************************************)
LEMMA InitTypeOK == Init => TypeOK
  <1> SUFFICES ASSUME Init PROVE TypeOK
    OBVIOUS
  <1>1. hist = <<>> /\ windows = <<>>
    BY DEF Init, EmptyMap
  <1>2. hist \in Seq(Entry) /\ Len(hist) = 0 /\ DOMAIN hist = {} /\ DOMAIN windows = {}
    BY <1>1
  <1>3. rule \in Rules /\ matched = {} /\ now = 1 /\ ticked = FALSE
    BY DEF Init
  <1>4. {hist[i].id : i \in DOMAIN hist} = {}
    BY <1>2
  <1>5. 0 <= MaxEvents /\ 1 \in 1..MaxTime
    BY EvaluationAssumption DEF EvaluationAssumption
  <1> QED
    BY <1>2, <1>3, <1>4, <1>5 DEF TypeOK

\* The position the next event takes, and the id of an event once filtered.
N == Len(hist) + 1

Id(e) == EffectiveAnonymousID(Process(e))

\* What an update does to each variable.
LEMMA UpdateParts ==
  ASSUME NEW e, NEW r, Update(e, r)
  PROVE  /\ Len(hist) < MaxEvents /\ Id(e) /= ""
         /\ windows' = Put(windows, Id(e), apply(Window(Id(e)), Process(e), r))
         /\ hist' = Append(hist, [id |-> Id(e), e |-> Process(e), at |-> r])
         /\ ticked' = FALSE /\ rule' = rule /\ now' = now
         /\ \/ matched' = matched \cup {Id(e)}
            \/ matched' = matched \ {Id(e)}
  BY Zenon DEF Update, Id, Evaluated

\* One more event, at the end.
Grown(id, p, r) ==
  /\ N \in Nat \ {0} /\ DOMAIN hist = 1..(N - 1)
  /\ N \notin DOMAIN hist /\ DOMAIN hist' = DOMAIN hist \cup {N}
  /\ \A i \in DOMAIN hist : i \in Nat /\ i < N /\ hist'[i] = hist[i]
  /\ hist'[N] = [id |-> id, e |-> p, at |-> r]
  /\ id \in Ids /\ hist' \in Seq(Entry) /\ Len(hist') = N
  /\ N <= MaxEvents

LEMMA UpdateHist ==
  ASSUME TypeOK, NEW e \in Events, NEW r \in 1..now, Update(e, r)
  PROVE  Grown(Id(e), Process(e), r)
  <1>1. hist \in Seq(Entry)
    BY DEF TypeOK
  <1>2. hist' = Append(hist, [id |-> Id(e), e |-> Process(e), at |-> r])
    BY UpdateParts
  <1>3. [id |-> Id(e), e |-> Process(e), at |-> r] \in Entry /\ Id(e) \in Ids
    <2>1. Id(e) \in Ids /\ Process(e) \in {Process(x) : x \in Events}
      BY UpdateParts DEF Id, Ids
    <2>2. r \in 1..MaxTime
      BY EvaluationAssumption DEF TypeOK, EvaluationAssumption
    <2> QED
      BY <2>1, <2>2 DEF Entry
  <1>4. /\ hist' \in Seq(Entry) /\ Len(hist') = N /\ N \in Nat \ {0}
        /\ DOMAIN hist = 1..(N - 1) /\ DOMAIN hist' = 1..N
        /\ hist'[N] = [id |-> Id(e), e |-> Process(e), at |-> r]
        /\ \A i \in 1..(N - 1) : hist'[i] = hist[i]
    <2> DEFINE h == [id |-> Id(e), e |-> Process(e), at |-> r]
    <2>1. h \in Entry /\ hist' = Append(hist, h)
      BY <1>2, <1>3
    <2> HIDE DEF h
    <2>2. /\ hist' \in Seq(Entry) /\ Len(hist') = N /\ N \in Nat \ {0}
          /\ DOMAIN hist = 1..(N - 1) /\ DOMAIN hist' = 1..N /\ hist'[N] = h
          /\ \A i \in 1..(N - 1) : hist'[i] = hist[i]
      BY <1>1, <2>1 DEF N
    <2> QED
      BY <2>2 DEF h
  <1>5. N <= MaxEvents
    <2>1. Len(hist) < MaxEvents
      BY UpdateParts
    <2>2. MaxEvents \in Nat /\ Len(hist) \in Nat
      BY <1>1, EvaluationAssumption DEF EvaluationAssumption
    <2> QED
      BY <2>1, <2>2 DEF N
  <1> QED
    BY <1>3, <1>4, <1>5 DEF Grown

\* The event counts for its id alone.
LEMMA UpdateEvents ==
  ASSUME TypeOK, NEW e \in Events, NEW r \in 1..now, Update(e, r)
  PROVE  /\ EventsOf(Id(e))' = EventsOf(Id(e)) \cup {N}
         /\ \A o : o /= Id(e) => EventsOf(o)' = EventsOf(o)
         /\ \A o : EventsOf(o) \subseteq DOMAIN hist
  <1>1. /\ DOMAIN hist' = DOMAIN hist \cup {N} /\ N \notin DOMAIN hist
        /\ \A i \in DOMAIN hist : hist'[i] = hist[i]
        /\ hist'[N].id = Id(e)
    <2>1. Grown(Id(e), Process(e), r)
      BY UpdateHist
    <2> QED
      BY <2>1 DEF Grown
  <1>2. EventsOf(Id(e))' = EventsOf(Id(e)) \cup {N}
    BY <1>1 DEF EventsOf
  <1>3. ASSUME NEW o, o /= Id(e) PROVE EventsOf(o)' = EventsOf(o)
    BY <1>1, <1>3 DEF EventsOf
  <1> QED
    BY <1>2, <1>3 DEF EventsOf

\* So does its window.
LEMMA UpdateWindow ==
  ASSUME TypeOK, NEW e \in Events, NEW r \in 1..now, Update(e, r)
  PROVE  /\ Window(Id(e))' = apply(Window(Id(e)), Process(e), r)
         /\ \A o : o /= Id(e) => Window(o)' = Window(o)
         /\ DOMAIN windows' = DOMAIN windows \cup {Id(e)}
  <1> DEFINE w == apply(Window(Id(e)), Process(e), r)
  <1>1. windows' = Put(windows, Id(e), w)
    BY UpdateParts
  <1> HIDE DEF w
  <1>2. /\ DOMAIN windows' = DOMAIN windows \cup {Id(e)} /\ windows'[Id(e)] = w
        /\ \A o \in DOMAIN windows : o /= Id(e) => windows'[o] = windows[o]
    BY <1>1 DEF Put, Over
  <1>3. Window(Id(e))' = w /\ \A o : o /= Id(e) => Window(o)' = Window(o)
    BY <1>2 DEF Window
  <1> QED
    BY <1>2, <1>3 DEF w

\* The steps that leave an id's events and window alone.
LEMMA OthersKeep ==
  ASSUME TypeOK, NEW o,
         \/ UNCHANGED <<hist, windows>>
         \/ \E e \in Events, r \in 1..now : Update(e, r) /\ o /= Id(e)
  PROVE  /\ EventsOf(o)' = EventsOf(o) /\ Window(o)' = Window(o)
         /\ \A i \in EventsOf(o) : hist'[i] = hist[i]
  <1>1. CASE UNCHANGED <<hist, windows>>
    BY <1>1 DEF EventsOf, Window
  <1>2. ASSUME NEW e \in Events, NEW r \in 1..now, Update(e, r), o /= Id(e)
        PROVE  /\ EventsOf(o)' = EventsOf(o) /\ Window(o)' = Window(o)
               /\ \A i \in EventsOf(o) : hist'[i] = hist[i]
    <2>1. Grown(Id(e), Process(e), r)
      BY <1>2, UpdateHist
    <2>2. \A i \in EventsOf(o) : hist'[i] = hist[i]
      BY <2>1 DEF Grown, EventsOf
    <2> QED
      BY <1>2, <2>2, UpdateEvents, UpdateWindow
  <1> QED
    BY <1>1, <1>2

LEMMA NextTypeOK ==
  ASSUME TypeOK, [Next]_vars
  PROVE  TypeOK'
  <1>1. ASSUME NEW e \in Events, NEW r \in 1..now, Update(e, r)
        PROVE  TypeOK'
    <2>0. Grown(Id(e), Process(e), r)
      BY <1>1, UpdateHist
    <2>1. hist' \in Seq(Entry) /\ Len(hist') <= MaxEvents
      BY <2>0 DEF Grown
    <2>2. DOMAIN windows' = {hist'[i].id : i \in DOMAIN hist'}
      <3>1. /\ DOMAIN hist' = DOMAIN hist \cup {N} /\ N \notin DOMAIN hist
            /\ \A i \in DOMAIN hist : hist'[i] = hist[i]
            /\ hist'[N].id = Id(e)
        BY <2>0 DEF Grown
      <3>2. /\ DOMAIN windows' = DOMAIN windows \cup {Id(e)}
            /\ DOMAIN windows = {hist[i].id : i \in DOMAIN hist}
        BY <1>1, UpdateWindow DEF TypeOK
      <3> QED
        BY <3>1, <3>2
    <2>3. matched' \subseteq DOMAIN windows'
      BY <1>1, UpdateWindow, UpdateParts DEF TypeOK
    <2> QED
      BY <1>1, <2>1, <2>2, <2>3, UpdateParts DEF TypeOK
  <1>2. CASE EvaluateOnTick
    BY <1>2 DEF EvaluateOnTick, TypeOK, Idle
  <1>3. CASE Pass
    <2>1. now' \in 1..MaxTime
      BY <1>3, EvaluationAssumption DEF Pass, TypeOK, EvaluationAssumption
    <2> QED
      BY <1>3, <2>1 DEF Pass, TypeOK
  <1>4. CASE UNCHANGED vars
    BY <1>4 DEF vars, TypeOK
  <1> QED
    BY <1>1, <1>2, <1>3, <1>4 DEF Next

LEMMA WindowIds ==
  ASSUME TypeOK, NEW o \in DOMAIN windows
  PROVE  o \in Ids
  <1>1. PICK i \in DOMAIN hist : o = hist[i].id
    BY DEF TypeOK
  <1>2. hist[i] \in Entry
    BY DEF TypeOK
  <1> QED
    BY <1>1, <1>2 DEF Entry

\* Variables keep their types; there is a window for exactly the ids that have
\* sent an event, and matches are of resident windows.
THEOREM TypeCorrect == Spec => []TypeOK
  BY InitTypeOK, NextTypeOK, PTL DEF Spec

-----------------------------------------------------------------------------
(***************************************************************************)
(* First and last of sets of positions.                                    *)
(***************************************************************************)
LEMMA EarliestOf ==
  ASSUME NEW S, NEW x \in S, \A j \in S : x <= j
  PROVE  Earliest(S) \in S /\ \A j \in S : Earliest(S) <= j
  BY Zenon DEF Earliest

LEMMA LatestOf ==
  ASSUME NEW S, NEW x \in S, \A j \in S : j <= x
  PROVE  Latest(S) \in S /\ \A j \in S : j <= Latest(S)
  BY Zenon DEF Latest

LEMMA LatestIs ==
  ASSUME NEW S \in SUBSET Nat, NEW x \in S, \A j \in S : j <= x
  PROVE  Latest(S) = x
  <1>1. Latest(S) \in S /\ \A j \in S : j <= Latest(S)
    BY LatestOf
  <1>2. Latest(S) \in Nat /\ x \in Nat /\ Latest(S) <= x /\ x <= Latest(S)
    BY <1>1
  <1> QED
    BY <1>2

LEMMA EarliestIs ==
  ASSUME NEW S \in SUBSET Nat, NEW x \in S, \A j \in S : x <= j
  PROVE  Earliest(S) = x
  <1>1. Earliest(S) \in S /\ \A j \in S : Earliest(S) <= j
    BY EarliestOf
  <1>2. Earliest(S) \in Nat /\ x \in Nat /\ Earliest(S) <= x /\ x <= Earliest(S)
    BY <1>1
  <1> QED
    BY <1>2

-----------------------------------------------------------------------------
(***************************************************************************)
(* The dominant suburb.  The invariant names the event that decided it: of *)
(* those in a most frequent suburb, the last.                              *)
(***************************************************************************)
DominantAt(id, i) ==
  /\ i \in EventsOf(id)
  /\ SuburbOf(hist[i].e) = Window(id).DominantSuburb
  /\ SuburbOf(hist[i].e) \in TopSuburbs(id)
  /\ \A j \in EventsOf(id) : SuburbOf(hist[j].e) \in TopSuburbs(id) => j <= i

SuburbsOf(id) ==
  /\ DOMAIN Window(id).suburbCounts = Suburbs(id)
  /\ \A x \in Suburbs(id) :
       Window(id).suburbCounts[x] = Cardinality(InSuburb(id, x))
  /\ Suburbs(id) = {} => Window(id).DominantSuburb = ""
  /\ Suburbs(id) /= {} => \E i \in EventsOf(id) : DominantAt(id, i)

SuburbInv == \A id \in Ids : SuburbsOf(id)

\* What one more event does to the positions and the suburbs of its id.
LEMMA SuburbsGrow ==
  ASSUME TypeOK, NEW e \in Events, NEW r \in 1..now, Update(e, r), NEW x,
         x = SuburbOf(Process(e))
  PROVE  LET id == Id(e) IN
         /\ N \notin EventsOf(id) /\ EventsOf(id)' = EventsOf(id) \cup {N}
         /\ \A i \in EventsOf(id) : i < N /\ hist'[i] = hist[i]
         /\ N \in Nat /\ SuburbOf(hist'[N].e) = x
         /\ Suburbs(id)' = (Suburbs(id) \cup {x}) \ {""}
         /\ \A y : y /= x => InSuburb(id, y)' = InSuburb(id, y)
         /\ Cardinality(InSuburb(id, x)') = Cardinality(InSuburb(id, x)) + 1
         /\ \A y : Cardinality(InSuburb(id, y)) \in Nat
  <1> DEFINE id == Id(e)
  <1>0. Grown(id, Process(e), r)
    BY UpdateHist
  <1>1. /\ N \in Nat \ {0} /\ DOMAIN hist = 1..(N - 1)
        /\ N \notin DOMAIN hist /\ DOMAIN hist' = DOMAIN hist \cup {N}
        /\ \A i \in DOMAIN hist : i < N /\ hist'[i] = hist[i]
        /\ hist'[N].id = id /\ hist'[N].e = Process(e)
    BY <1>0 DEF Grown
  <1> HIDE DEF id
  <1>2. /\ N \notin EventsOf(id) /\ EventsOf(id)' = EventsOf(id) \cup {N}
        /\ \A i \in EventsOf(id) : i < N /\ hist'[i] = hist[i]
        /\ EventsOf(id) \subseteq 1..(N - 1)
    BY <1>1 DEF EventsOf
  <1>3. SuburbOf(hist'[N].e) = x
    BY <1>1
  <1>6. \A i \in EventsOf(id) : SuburbOf(hist'[i].e) = SuburbOf(hist[i].e)
    BY <1>2
  <1>7. Suburbs(id)' = (Suburbs(id) \cup {x}) \ {""}
    BY <1>2, <1>3, <1>6 DEF Suburbs
  <1>8. \A y : y /= x => InSuburb(id, y)' = InSuburb(id, y)
    BY <1>2, <1>3, <1>6 DEF InSuburb
  <1>9. InSuburb(id, x)' = InSuburb(id, x) \cup {N} /\ N \notin InSuburb(id, x)
    BY <1>2, <1>3, <1>6 DEF InSuburb
  <1>10. \A y : IsFiniteSet(InSuburb(id, y))
    <2>1. IsFiniteSet(1..(N - 1))
      <3>1. 1 \in Int /\ N - 1 \in Int
        BY <1>1
      <3> QED
        BY <3>1, FS_Interval
    <2>2. \A y : InSuburb(id, y) \subseteq 1..(N - 1)
      BY <1>2 DEF InSuburb
    <2> QED
      BY <2>1, <2>2, FS_Subset
  <1>11. Cardinality(InSuburb(id, x)') = Cardinality(InSuburb(id, x)) + 1
    BY <1>9, <1>10, FS_AddElement
  <1>12. \A y : Cardinality(InSuburb(id, y)) \in Nat
    BY <1>10, FS_CardinalityType
  <1> QED
    BY <1>1, <1>2, <1>3, <1>7, <1>8, <1>11, <1>12 DEF id

\* The suburbs and counts of the others stay.
LEMMA SuburbsKeep ==
  ASSUME TypeOK, NEW o,
         \/ UNCHANGED <<hist, windows>>
         \/ \E e \in Events, r \in 1..now : Update(e, r) /\ o /= Id(e),
         SuburbsOf(o)
  PROVE  SuburbsOf(o)'
  <1>1. /\ EventsOf(o)' = EventsOf(o) /\ Window(o)' = Window(o)
        /\ \A i \in EventsOf(o) : hist'[i] = hist[i]
    BY OthersKeep
  <1>2. \A i \in EventsOf(o) : SuburbOf(hist'[i].e) = SuburbOf(hist[i].e)
    BY <1>1
  <1>5. Suburbs(o)' = Suburbs(o) /\ \A y : InSuburb(o, y)' = InSuburb(o, y)
    BY <1>1, <1>2 DEF Suburbs, InSuburb
  <1>6. TopSuburbs(o)' = TopSuburbs(o)
    BY <1>5 DEF TopSuburbs
  <1>7. \A i \in EventsOf(o) : DominantAt(o, i)' <=> DominantAt(o, i)
    BY <1>1, <1>2, <1>6 DEF DominantAt
  <1> QED
    BY <1>1, <1>5, <1>7 DEF SuburbsOf

\* The counters after an event.
CountsGrown(v, w, x) ==
  /\ DOMAIN v.suburbCounts = (DOMAIN w.suburbCounts \cup {x})
                               \ ({""} \ DOMAIN w.suburbCounts)
  /\ \A y \in DOMAIN w.suburbCounts :
       y /= x => v.suburbCounts[y] = w.suburbCounts[y]
  /\ x /= "" => v.suburbCounts[x] = Count(w.suburbCounts, x) + 1
  /\ x = "" => v.suburbCounts = w.suburbCounts
  /\ x = "" => v.DominantSuburb = w.DominantSuburb
  /\ x /= "" => v.DominantSuburb =
       IF Count(w.suburbCounts, x) + 1 >=
            (IF w.DominantSuburb = x THEN Count(w.suburbCounts, x) + 1
             ELSE Count(w.suburbCounts, w.DominantSuburb))
       THEN x ELSE w.DominantSuburb

LEMMA CountsGrow ==
  ASSUME NEW w, NEW p, NEW r
  PROVE  CountsGrown(apply(w, p, r), w, SuburbOf(p))
  <1> DEFINE v == apply(w, p, r)
             x == SuburbOf(p)
             b == Bump(w.suburbCounts, x)
  <1>1. /\ v.suburbCounts = IF x = "" THEN w.suburbCounts ELSE b
        /\ v.DominantSuburb = Dominant(w, p)
    BY DEF apply
  <1>2. /\ DOMAIN b = DOMAIN w.suburbCounts \cup {x}
        /\ b[x] = Count(w.suburbCounts, x) + 1
        /\ \A y \in DOMAIN w.suburbCounts : y /= x => b[y] = w.suburbCounts[y]
    BY DEF Bump, Put, Over
  <1>3. Dominant(w, p) = IF x /= "" /\ b[x] >= Count(b, w.DominantSuburb)
                         THEN x ELSE w.DominantSuburb
    BY Zenon DEF Dominant
  <1> HIDE DEF v, b, x
  <1>4. Count(b, w.DominantSuburb) =
          IF w.DominantSuburb = x THEN b[x]
          ELSE Count(w.suburbCounts, w.DominantSuburb)
    BY <1>2 DEF Count
  <1>5. CountsGrown(v, w, x)
    <2>1. CASE x = ""
      BY <1>1, <1>3, <2>1 DEF CountsGrown
    <2>2. CASE x /= ""
      <3>1. v.suburbCounts = b /\ v.DominantSuburb = Dominant(w, p)
        BY <1>1, <2>2
      <3>2. v.DominantSuburb =
              IF Count(w.suburbCounts, x) + 1 >=
                   (IF w.DominantSuburb = x THEN Count(w.suburbCounts, x) + 1
                    ELSE Count(w.suburbCounts, w.DominantSuburb))
              THEN x ELSE w.DominantSuburb
        BY <1>2, <1>3, <1>4, <2>2, <3>1
      <3> QED
        BY <1>2, <2>2, <3>1, <3>2 DEF CountsGrown
    <2> QED
      BY <2>1, <2>2
  <1> QED
    BY <1>5 DEF v, x

\* An event keeps what its own id's window says of suburbs.
LEMMA SuburbsUpdated ==
  ASSUME TypeOK, NEW e \in Events, NEW r \in 1..now, Update(e, r),
         SuburbsOf(Id(e))
  PROVE  SuburbsOf(Id(e))'
  <1> DEFINE id == Id(e)
             x == SuburbOf(Process(e))
             w == Window(id)
             v == apply(w, Process(e), r)
             C(y) == Cardinality(InSuburb(id, y))
             d == w.DominantSuburb
  <1>1. /\ N \notin EventsOf(id) /\ EventsOf(id)' = EventsOf(id) \cup {N}
        /\ \A i \in EventsOf(id) : i < N /\ hist'[i] = hist[i]
        /\ N \in Nat /\ SuburbOf(hist'[N].e) = x
        /\ Suburbs(id)' = (Suburbs(id) \cup {x}) \ {""}
        /\ \A y : y /= x => InSuburb(id, y)' = InSuburb(id, y)
        /\ Cardinality(InSuburb(id, x)') = C(x) + 1
        /\ \A y : C(y) \in Nat
    BY SuburbsGrow
  <1>2. Window(id)' = v
    BY UpdateWindow
  <1>3. /\ DOMAIN v.suburbCounts = (DOMAIN w.suburbCounts \cup {x})
                                     \ ({""} \ DOMAIN w.suburbCounts)
        /\ \A y \in DOMAIN w.suburbCounts :
             y /= x => v.suburbCounts[y] = w.suburbCounts[y]
        /\ x /= "" => v.suburbCounts[x] = Count(w.suburbCounts, x) + 1
        /\ x = "" => v.suburbCounts = w.suburbCounts
        /\ x = "" => v.DominantSuburb = d
        /\ x /= "" => v.DominantSuburb =
             IF Count(w.suburbCounts, x) + 1 >=
                  (IF d = x THEN Count(w.suburbCounts, x) + 1
                   ELSE Count(w.suburbCounts, d))
             THEN x ELSE d
    <2>1. CountsGrown(v, w, x)
      BY CountsGrow
    <2> QED
      BY <2>1 DEF CountsGrown
  <1>4. /\ DOMAIN w.suburbCounts = Suburbs(id)
        /\ \A y \in Suburbs(id) : w.suburbCounts[y] = C(y)
        /\ Suburbs(id) = {} => d = ""
        /\ Suburbs(id) /= {} => \E i \in EventsOf(id) : DominantAt(id, i)
    BY DEF SuburbsOf
  <1>5. "" \notin Suburbs(id)
    BY DEF Suburbs
  <1>6. \A y : y \notin Suburbs(id) /\ y /= "" => C(y) = 0
    <2>1. ASSUME NEW y, y \notin Suburbs(id), y /= "" PROVE InSuburb(id, y) = {}
      BY <2>1 DEF InSuburb, Suburbs
    <2> QED
      BY <2>1, FS_EmptySet
  <1> HIDE DEF id, x, w, v, C, d
  <1>7. \A y : y /= "" => Count(w.suburbCounts, y) = C(y)
    BY <1>4, <1>6 DEF Count
  <1>8. Count(w.suburbCounts, "") = 0
    BY <1>4, <1>5 DEF Count
  <1> DEFINE D(y) == Cardinality(InSuburb(id, y)')
  <1>9. /\ \A y : y /= x => D(y) = C(y)
        /\ D(x) = C(x) + 1
    BY <1>1 DEF C
  <1>10. TopSuburbs(id) = {y \in Suburbs(id) : \A z \in Suburbs(id) : C(y) >= C(z)}
    BY DEF TopSuburbs, C
  <1>11. TopSuburbs(id)' =
           {y \in Suburbs(id)' : \A z \in Suburbs(id)' : D(y) >= D(z)}
    BY DEF TopSuburbs, id
  <1> HIDE DEF D
  <1>12. \A i \in EventsOf(id) : SuburbOf(hist'[i].e) = SuburbOf(hist[i].e)
    BY <1>1
  <1>13. DOMAIN v.suburbCounts = Suburbs(id)'
    BY <1>1, <1>3, <1>4, <1>5
  <1>14. \A y \in Suburbs(id)' : v.suburbCounts[y] = D(y)
    BY <1>1, <1>3, <1>4, <1>5, <1>7, <1>9
  <1>15. Suburbs(id)' = {} => v.DominantSuburb = ""
    <2>1. Suburbs(id)' = (Suburbs(id) \cup {x}) \ {""}
      BY <1>1
    <2>2. CASE x = ""
      <3>1. v.DominantSuburb = d
        BY <1>3, <2>2
      <3>2. Suburbs(id)' = Suburbs(id)
        BY <1>5, <2>1, <2>2
      <3> QED
        BY <1>4, <3>1, <3>2
    <2>3. CASE x /= ""
      BY <2>1, <2>3
    <2> QED
      BY <2>2, <2>3
  \* What it is for the event at i to have decided the new dominant suburb.
  <1> DEFINE At(i) ==
        /\ i \in EventsOf(id) \cup {N}
        /\ SuburbOf(hist'[i].e) = v.DominantSuburb
        /\ SuburbOf(hist'[i].e) \in TopSuburbs(id)'
        /\ \A j \in EventsOf(id) \cup {N} :
             SuburbOf(hist'[j].e) \in TopSuburbs(id)' => j <= i
  <1>16. \A i : DominantAt(id, i)' <=> At(i)
    BY <1>1, <1>2 DEF DominantAt, id
  <1>17. ASSUME NEW i \in EventsOf(id), DominantAt(id, i), v.DominantSuburb = d,
                TopSuburbs(id)' = TopSuburbs(id), x \notin TopSuburbs(id)
         PROVE  At(i)
    BY <1>1, <1>12, <1>17 DEF DominantAt, w, d
  <1>18. ASSUME v.DominantSuburb = x, x \in TopSuburbs(id)' PROVE At(N)
    <2>1. \A j \in EventsOf(id) \cup {N} : j <= N
      <3>1. \A j \in EventsOf(id) : j \in Nat
        BY DEF EventsOf, TypeOK
      <3>2. ASSUME NEW j \in EventsOf(id) PROVE j <= N
        <4>1. j \in Nat /\ N \in Nat /\ j < N
          BY <1>1, <3>1
        <4> QED
          BY <4>1
      <3>3. N <= N
        <4>1. N \in Nat
          BY <1>1
        <4> QED
          BY <4>1
      <3> QED
        BY <3>2, <3>3
    <2> QED
      BY <1>1, <1>18, <2>1
  <1> HIDE DEF At
  <1>19. ASSUME NEW i \in EventsOf(id), DominantAt(id, i)
         PROVE  d \in TopSuburbs(id)
    BY <1>19 DEF DominantAt, w, d
  <1>20. Suburbs(id)' /= {} => \E i \in EventsOf(id) \cup {N} : At(i)
    <2>1. CASE x = "" /\ Suburbs(id) /= {}
      <3>1. Suburbs(id)' = Suburbs(id) /\ \A y \in Suburbs(id) : D(y) = C(y)
        BY <1>1, <1>5, <1>9, <2>1
      <3>2. TopSuburbs(id)' = TopSuburbs(id) /\ x \notin TopSuburbs(id)
        <4>1. ASSUME NEW y PROVE y \in TopSuburbs(id)' <=> y \in TopSuburbs(id)
          BY <1>10, <1>11, <3>1
        <4> QED
          BY <1>5, <1>10, <2>1, <4>1
      <3> QED
        BY <1>3, <1>4, <1>17, <2>1, <3>2
    <2>2. CASE x /= "" /\ Suburbs(id) = {}
      <3>1. v.DominantSuburb = x
        <4>1. /\ d = "" /\ Count(w.suburbCounts, d) = 0
              /\ Count(w.suburbCounts, x) = 0
          <5>1. d = "" /\ x \notin Suburbs(id)
            BY <1>4, <2>2
          <5>2. C(x) = 0
            BY <1>6, <2>2, <5>1
          <5> QED
            BY <1>7, <1>8, <2>2, <5>1, <5>2
        <4>2. v.DominantSuburb =
                IF Count(w.suburbCounts, x) + 1 >=
                     (IF d = x THEN Count(w.suburbCounts, x) + 1
                      ELSE Count(w.suburbCounts, d))
                THEN x ELSE d
          BY <1>3, <2>2
        <4>3. d /= x
          BY <2>2, <4>1
        <4>4. Count(w.suburbCounts, x) + 1 >= Count(w.suburbCounts, d)
          <5>1. 0 + 1 >= 0
            OBVIOUS
          <5> QED
            BY <4>1, <5>1, Zenon
        <4> QED
          BY <4>2, <4>3, <4>4, Zenon
      <3>2. x \in TopSuburbs(id)'
        <4>1. Suburbs(id)' = {x} /\ C(x) \in Nat
          BY <1>1, <2>2
        <4>2. D(x) >= D(x)
          BY <1>9, <4>1
        <4> QED
          BY <1>11, <4>1, <4>2
      <3> QED
        BY <1>18, <3>1, <3>2
    <2>3. CASE x /= "" /\ Suburbs(id) /= {}
      <3>1. PICK i \in EventsOf(id) : DominantAt(id, i)
        BY <1>4, <2>3
      <3>2. d \in Suburbs(id) /\ \A z \in Suburbs(id) : C(d) >= C(z)
        BY <1>10, <1>19, <3>1
      <3>3. v.DominantSuburb = IF D(x) >= D(d) THEN x ELSE d
        BY <1>3, <1>5, <1>7, <1>9, <2>3, <3>2
      <3>4. Suburbs(id)' = Suburbs(id) \cup {x} /\ \A y : C(y) \in Nat
        BY <1>1, <1>5, <2>3
      <3>5. \A y : D(y) \in Nat
        BY <1>9, <3>4
      <3>6. CASE D(x) >= D(d)
        <4>1. \A z \in Suburbs(id) \cup {x} : D(x) >= D(z)
          BY <1>9, <3>2, <3>4, <3>5, <3>6
        <4>2. x \in TopSuburbs(id)'
          BY <1>11, <3>4, <4>1
        <4> QED
          BY <1>18, <3>3, <3>6, <4>2
      <3>7. CASE ~(D(x) >= D(d))
        <4>1. d /= x /\ D(d) = C(d) /\ C(x) < C(d) /\ D(x) < C(d)
          BY <1>9, <3>4, <3>5, <3>7
        <4>2. x \notin TopSuburbs(id)
          BY <1>10, <3>2, <3>4, <4>1
        <4>3. ASSUME NEW y PROVE y \in TopSuburbs(id)' <=> y \in TopSuburbs(id)
          <5>1. CASE y = x
            <6>1. ~(D(x) >= D(d)) /\ d \in Suburbs(id)'
              BY <3>2, <3>4, <3>7
            <6> QED
              BY <1>11, <4>2, <5>1, <6>1
          <5>2. CASE y /= x
            <6>1. D(y) = C(y)
              BY <1>9, <5>2
            <6>2. ASSUME y \in TopSuburbs(id)' PROVE y \in TopSuburbs(id)
              <7>1. y \in Suburbs(id) /\ C(y) >= C(d)
                BY <1>11, <3>2, <3>4, <4>1, <5>2, <6>1, <6>2
              <7>2. \A z \in Suburbs(id) : C(y) >= C(z)
                BY <3>2, <3>4, <7>1
              <7> QED
                BY <1>10, <7>1, <7>2
            <6>3. ASSUME y \in TopSuburbs(id) PROVE y \in TopSuburbs(id)'
              <7>1. y \in Suburbs(id) /\ \A z \in Suburbs(id) : C(y) >= C(z)
                BY <1>10, <6>3
              <7>2. ASSUME NEW z \in Suburbs(id)' PROVE D(y) >= D(z)
                <8>1. CASE z = x
                  BY <3>2, <3>4, <3>5, <4>1, <6>1, <7>1, <8>1
                <8>2. CASE z /= x
                  BY <1>9, <3>4, <6>1, <7>1, <7>2, <8>2
                <8> QED
                  BY <8>1, <8>2
              <7> QED
                BY <1>11, <3>4, <7>1, <7>2
            <6> QED
              BY <6>2, <6>3
          <5> QED
            BY <5>1, <5>2
        <4>4. TopSuburbs(id)' = TopSuburbs(id)
          BY <4>3
        <4> QED
          BY <1>17, <3>1, <3>3, <3>7, <4>2, <4>4
      <3> QED
        BY <3>6, <3>7
    <2>4. CASE x = "" /\ Suburbs(id) = {}
      BY <1>1, <2>4
    <2> QED
      BY <2>1, <2>2, <2>3, <2>4
  <1>21. SuburbsOf(id)' <=>
           /\ DOMAIN v.suburbCounts = Suburbs(id)'
           /\ \A y \in Suburbs(id)' : v.suburbCounts[y] = D(y)
           /\ Suburbs(id)' = {} => v.DominantSuburb = ""
           /\ Suburbs(id)' /= {} => \E i \in EventsOf(id)' : DominantAt(id, i)'
    BY <1>2 DEF SuburbsOf, D, id
  <1>22. SuburbsOf(id)'
    BY <1>1, <1>13, <1>14, <1>15, <1>16, <1>20, <1>21
  <1> QED
    BY <1>22 DEF id

LEMMA SuburbStep ==
  ASSUME TypeOK, SuburbInv, [Next]_vars
  PROVE  SuburbInv'
  <1> SUFFICES ASSUME NEW o \in Ids PROVE SuburbsOf(o)'
    BY DEF SuburbInv
  <1>1. SuburbsOf(o)
    BY DEF SuburbInv
  <1>2. ASSUME NEW e \in Events, NEW r \in 1..now, Update(e, r)
        PROVE  SuburbsOf(o)'
    <2>1. CASE o = Id(e)
      BY <1>1, <1>2, <2>1, SuburbsUpdated
    <2>2. CASE o /= Id(e)
      BY <1>1, <1>2, <2>2, SuburbsKeep
    <2> QED
      BY <2>1, <2>2
  <1>3. CASE UNCHANGED <<hist, windows>>
    BY <1>1, <1>3, SuburbsKeep
  <1> QED
    BY <1>2, <1>3 DEF Next, vars, EvaluateOnTick, Pass

LEMMA InitSuburbs == Init => SuburbInv
  <1> SUFFICES ASSUME Init, NEW o \in Ids PROVE SuburbsOf(o)
    BY DEF SuburbInv
  <1>1. EventsOf(o) = {} /\ Window(o) = newUserWindow
    BY DEF Init, EventsOf, Window, EmptyMap
  <1>2. Suburbs(o) = {}
    BY <1>1 DEF Suburbs
  <1>3. DOMAIN newUserWindow.suburbCounts = {} /\ newUserWindow.DominantSuburb = ""
    BY DEF newUserWindow, EmptyMap
  <1> QED
    BY <1>1, <1>2, <1>3 DEF SuburbsOf

LEMMA SuburbInvMode ==
  ASSUME TypeOK, SuburbInv
  PROVE  DominantSuburbIsMode
  <1> SUFFICES ASSUME NEW o \in DOMAIN windows
               PROVE  windows[o].DominantSuburb = ModeSuburb(o)
    BY DEF DominantSuburbIsMode
  <1>1. o \in Ids
    BY WindowIds
  <1>2. SuburbsOf(o) /\ Window(o) = windows[o]
    BY <1>1 DEF SuburbInv, Window
  <1>3. CASE Suburbs(o) = {}
    BY <1>2, <1>3 DEF SuburbsOf, ModeSuburb
  <1>4. CASE Suburbs(o) /= {}
    <2> DEFINE S == {i \in EventsOf(o) : SuburbOf(hist[i].e) \in TopSuburbs(o)}
    <2>1. PICK i \in EventsOf(o) : DominantAt(o, i)
      BY <1>2, <1>4 DEF SuburbsOf
    <2>2. i \in S /\ \A j \in S : j <= i
      BY <2>1 DEF DominantAt
    <2>3. S \in SUBSET Nat
      BY DEF EventsOf, TypeOK
    <2> HIDE DEF S
    <2>4. Latest(S) = i
      BY <2>2, <2>3, LatestIs
    <2> QED
      BY <1>2, <1>4, <2>1, <2>4 DEF ModeSuburb, DominantAt, S
  <1> QED
    BY <1>3, <1>4

\* Kept event by event, the dominant suburb of a window is the most frequent
\* suburb of all the visitor's events, the last seen of equally frequent ones.
THEOREM DominantSuburbCorrect == Spec => []DominantSuburbIsMode
  <1>1. TypeOK /\ SuburbInv /\ [Next]_vars => TypeOK' /\ SuburbInv'
    BY NextTypeOK, SuburbStep
  <1> QED
    BY <1>1, InitTypeOK, InitSuburbs, SuburbInvMode, PTL DEF Spec

-----------------------------------------------------------------------------
(***************************************************************************)
(* Traits.  The invariant names the event each one is from.                *)
(***************************************************************************)
TraitFrom(id, k, i) ==
  \/ /\ i \in Identified(id, k) /\ \A j \in Identified(id, k) : j <= i
     /\ Window(id).Traits[k] = hist[i].e.traits[k]
  \/ /\ Identified(id, k) = {}
     /\ i \in InContext(id, k) /\ \A j \in InContext(id, k) : i <= j
     /\ Window(id).Traits[k] = hist[i].e.ctx[k]

TraitsOf(id) ==
  /\ DOMAIN Window(id).Traits = TraitKeys(id)
  /\ \A k \in TraitKeys(id) : \E i \in EventsOf(id) : TraitFrom(id, k, i)

TraitInv == \A id \in Ids : TraitsOf(id)

\* An event keeps what its own id's window says of traits.
LEMMA TraitsUpdated ==
  ASSUME TypeOK, NEW e \in Events, NEW r \in 1..now, Update(e, r),
         TraitsOf(Id(e))
  PROVE  TraitsOf(Id(e))'
  <1> DEFINE id == Id(e)
             p == Process(e)
             w == Window(id)
  <1>1. Grown(id, p, r)
    BY UpdateHist
  <1>2. /\ N \in Nat /\ N \notin EventsOf(id) /\ EventsOf(id)' = EventsOf(id) \cup {N}
        /\ \A i \in EventsOf(id) : i \in Nat /\ i < N /\ hist'[i] = hist[i]
        /\ hist'[N].e = p
    BY <1>1 DEF Grown, EventsOf
  <1>3. Window(id)'.Traits = Over(Identifying(p), Over(w.Traits, p.ctx))
    <2>1. Window(id)' = apply(w, p, r)
      BY UpdateWindow
    <2> HIDE DEF id, p, w
    <2>2. apply(w, p, r).Traits = Traits(w, p)
      BY DEF apply
    <2>3. Traits(w, p) = Over(Identifying(p), Over(w.Traits, p.ctx))
      BY DEF Traits
    <2> QED
      BY <2>1, <2>2, <2>3
  <1>4. /\ DOMAIN w.Traits = TraitKeys(id)
        /\ \A k \in TraitKeys(id) : \E i \in EventsOf(id) : TraitFrom(id, k, i)
    BY DEF TraitsOf
  <1> HIDE DEF id, p, w
  <1>5. TraitKeys(id)' = TraitKeys(id) \cup DOMAIN Identifying(p) \cup DOMAIN p.ctx
    BY <1>2 DEF TraitKeys, id
  <1>6. \A k : Identified(id, k)' =
                 IF k \in DOMAIN Identifying(p) THEN Identified(id, k) \cup {N}
                 ELSE Identified(id, k)
    BY <1>2 DEF Identified, id
  <1>7. \A k : InContext(id, k)' =
                 IF k \in DOMAIN p.ctx THEN InContext(id, k) \cup {N}
                 ELSE InContext(id, k)
    BY <1>2 DEF InContext, id
  <1>8. \A k : /\ Identified(id, k) \subseteq EventsOf(id)
               /\ InContext(id, k) \subseteq EventsOf(id)
    BY DEF Identified, InContext
  <1>9. \A k \in DOMAIN Identifying(p) : Identifying(p)[k] = p.traits[k]
    BY DEF Identifying, EmptyMap
  <1>10. N <= N /\ \A i \in EventsOf(id) : i <= N
    <2>1. N \in Nat
      BY <1>2
    <2>2. \A i \in EventsOf(id) : i \in Nat /\ i < N
      BY <1>2
    <2> QED
      BY <2>1, <2>2
  <1> DEFINE t == Over(Identifying(p), Over(w.Traits, p.ctx))
  <1>11. /\ DOMAIN t = TraitKeys(id)'
         /\ \A k \in DOMAIN Identifying(p) : t[k] = p.traits[k]
         /\ \A k \in TraitKeys(id) :
              k \notin DOMAIN Identifying(p) => t[k] = w.Traits[k]
         /\ \A k \in DOMAIN p.ctx :
              k \notin DOMAIN Identifying(p) \cup TraitKeys(id) => t[k] = p.ctx[k]
    BY <1>4, <1>5, <1>9 DEF Over
  <1> HIDE DEF t
  \* What it is for the event at i to be the one a trait is from.
  <1> DEFINE From(k, i) ==
        \/ /\ i \in Identified(id, k)' /\ \A j \in Identified(id, k)' : j <= i
           /\ t[k] = hist'[i].e.traits[k]
        \/ /\ Identified(id, k)' = {}
           /\ i \in InContext(id, k)' /\ \A j \in InContext(id, k)' : i <= j
           /\ t[k] = hist'[i].e.ctx[k]
  <1>12. \A k, i : TraitFrom(id, k, i)' <=> From(k, i)
    BY <1>3 DEF TraitFrom, id, t
  <1>13. ASSUME NEW k \in TraitKeys(id)'
         PROVE  \E i \in EventsOf(id) \cup {N} : From(k, i)
    <2>1. CASE k \in DOMAIN Identifying(p)
      <3>1. N \in Identified(id, k)' /\ \A j \in Identified(id, k)' : j <= N
        BY <1>6, <1>8, <1>10, <2>1
      <3>2. t[k] = hist'[N].e.traits[k]
        BY <1>2, <1>11, <2>1
      <3> QED
        BY <3>1, <3>2
    <2>2. CASE k \notin DOMAIN Identifying(p) /\ k \in TraitKeys(id)
      <3>1. PICK i \in EventsOf(id) : TraitFrom(id, k, i)
        BY <1>4, <2>2
      <3>2. /\ Identified(id, k)' = Identified(id, k) /\ t[k] = w.Traits[k]
            /\ hist'[i] = hist[i] /\ i <= N
        BY <1>2, <1>6, <1>10, <1>11, <2>2
      <3>3. InContext(id, k)' \subseteq InContext(id, k) \cup {N}
        BY <1>7
      <3>4. InContext(id, k) \subseteq InContext(id, k)'
        BY <1>7
      <3>5. From(k, i)
        BY <3>1, <3>2, <3>3, <3>4 DEF TraitFrom, w
      <3> QED
        BY <3>5
    <2>3. CASE k \notin DOMAIN Identifying(p) /\ k \notin TraitKeys(id)
      <3>1. k \in DOMAIN p.ctx
        BY <1>5, <2>3
      <3>2. Identified(id, k) = {} /\ InContext(id, k) = {}
        BY <2>3 DEF TraitKeys, Identified, InContext
      <3>3. Identified(id, k)' = {} /\ InContext(id, k)' = {N}
        BY <1>6, <1>7, <2>3, <3>1, <3>2
      <3>4. t[k] = hist'[N].e.ctx[k]
        BY <1>2, <1>11, <2>3, <3>1
      <3> QED
        BY <1>10, <3>3, <3>4
    <2> QED
      BY <2>1, <2>2, <2>3
  <1> HIDE DEF From
  <1>14. TraitsOf(id)' <=>
           /\ DOMAIN t = TraitKeys(id)'
           /\ \A k \in TraitKeys(id)' : \E i \in EventsOf(id)' : TraitFrom(id, k, i)'
    BY <1>3 DEF TraitsOf, id, t
  <1>15. TraitsOf(id)'
    BY <1>2, <1>11, <1>12, <1>13, <1>14
  <1> QED
    BY <1>15 DEF id

LEMMA TraitsKeep ==
  ASSUME TypeOK, NEW o,
         \/ UNCHANGED <<hist, windows>>
         \/ \E e \in Events, r \in 1..now : Update(e, r) /\ o /= Id(e),
         TraitsOf(o)
  PROVE  TraitsOf(o)'
  <1>1. /\ EventsOf(o)' = EventsOf(o) /\ Window(o)' = Window(o)
        /\ \A i \in EventsOf(o) : hist'[i] = hist[i]
    BY OthersKeep
  <1>2. TraitKeys(o)' = TraitKeys(o)
    BY <1>1 DEF TraitKeys
  <1>3. \A k : /\ Identified(o, k)' = Identified(o, k)
               /\ InContext(o, k)' = InContext(o, k)
    BY <1>1 DEF Identified, InContext
  <1>4. \A k : \A i \in EventsOf(o) : TraitFrom(o, k, i)' <=> TraitFrom(o, k, i)
    BY <1>1, <1>3 DEF TraitFrom
  <1> QED
    BY <1>1, <1>2, <1>4 DEF TraitsOf

LEMMA TraitStep ==
  ASSUME TypeOK, TraitInv, [Next]_vars
  PROVE  TraitInv'
  <1> SUFFICES ASSUME NEW o \in Ids PROVE TraitsOf(o)'
    BY DEF TraitInv
  <1>1. TraitsOf(o)
    BY DEF TraitInv
  <1>2. ASSUME NEW e \in Events, NEW r \in 1..now, Update(e, r)
        PROVE  TraitsOf(o)'
    <2>1. CASE o = Id(e)
      BY <1>1, <1>2, <2>1, TraitsUpdated
    <2>2. CASE o /= Id(e)
      BY <1>1, <1>2, <2>2, TraitsKeep
    <2> QED
      BY <2>1, <2>2
  <1>3. CASE UNCHANGED <<hist, windows>>
    BY <1>1, <1>3, TraitsKeep
  <1> QED
    BY <1>2, <1>3 DEF Next, vars, EvaluateOnTick, Pass

LEMMA InitTraits == Init => TraitInv
  <1> SUFFICES ASSUME Init, NEW o \in Ids PROVE TraitsOf(o)
    BY DEF TraitInv
  <1>1. EventsOf(o) = {} /\ Window(o) = newUserWindow
    BY DEF Init, EventsOf, Window, EmptyMap
  <1>2. TraitKeys(o) = {}
    BY <1>1 DEF TraitKeys
  <1>3. DOMAIN newUserWindow.Traits = {}
    BY DEF newUserWindow, EmptyMap
  <1> QED
    BY <1>1, <1>2, <1>3 DEF TraitsOf

LEMMA TraitInvPrefers ==
  ASSUME TypeOK, TraitInv
  PROVE  TraitsPreferIdentify
  <1> SUFFICES ASSUME NEW o \in DOMAIN windows
               PROVE  /\ DOMAIN windows[o].Traits = TraitKeys(o)
                      /\ \A k \in TraitKeys(o) : windows[o].Traits[k] = TraitOf(o, k)
    BY DEF TraitsPreferIdentify
  <1>1. o \in Ids
    BY WindowIds
  <1>2. TraitsOf(o) /\ Window(o) = windows[o]
    BY <1>1 DEF TraitInv, Window
  <1>3. ASSUME NEW k \in TraitKeys(o)
        PROVE  windows[o].Traits[k] = TraitOf(o, k)
    <2>1. PICK i \in EventsOf(o) : TraitFrom(o, k, i)
      BY <1>2 DEF TraitsOf
    <2>2. /\ Identified(o, k) \in SUBSET Nat /\ InContext(o, k) \in SUBSET Nat
      BY DEF Identified, InContext, EventsOf, TypeOK
    <2>3. CASE i \in Identified(o, k)
      <3>1. \A j \in Identified(o, k) : j <= i
        BY <2>1, <2>3 DEF TraitFrom
      <3>2. Latest(Identified(o, k)) = i
        BY <2>2, <2>3, <3>1, LatestIs
      <3> QED
        BY <1>2, <2>1, <2>3, <3>2 DEF TraitOf, TraitFrom
    <2>4. CASE i \notin Identified(o, k)
      <3>1. /\ Identified(o, k) = {} /\ i \in InContext(o, k)
            /\ \A j \in InContext(o, k) : i <= j
            /\ Window(o).Traits[k] = hist[i].e.ctx[k]
        BY <2>1, <2>4 DEF TraitFrom
      <3>2. Earliest(InContext(o, k)) = i
        BY <2>2, <3>1, EarliestIs
      <3> QED
        BY <1>2, <3>1, <3>2 DEF TraitOf
    <2> QED
      BY <2>3, <2>4
  <1> QED
    BY <1>2, <1>3 DEF TraitsOf

\* A trait of a window is the one its visitor last identified with, and only
\* failing that the first one a context carried.
THEOREM TraitsCorrect == Spec => []TraitsPreferIdentify
  <1>1. TypeOK /\ TraitInv /\ [Next]_vars => TypeOK' /\ TraitInv'
    BY NextTypeOK, TraitStep
  <1> QED
    BY <1>1, InitTypeOK, InitTraits, TraitInvPrefers, PTL DEF Spec

-----------------------------------------------------------------------------
(***************************************************************************)
(* Redaction.                                                              *)
(***************************************************************************)
Masked(m) == \A k \in DOMAIN m \cap {"email", "phone"} : m[k] = Redacted

MaskedWindow(w) ==
  /\ Masked(w.Traits) /\ Masked(w.PropertyLast) /\ Masked(w.LastListingProps)
  /\ Masked(w.LastFilterProps) /\ Masked(w.LastErrorEvent.props)

RedactInv == \A id \in Ids : MaskedWindow(Window(id))

LEMMA MaskedOver ==
  ASSUME NEW f, NEW g, Masked(f), Masked(g)
  PROVE  Masked(Over(f, g))
  BY DEF Masked, Over

LEMMA MaskedOnly ==
  ASSUME NEW m, NEW keys, Masked(m)
  PROVE  Masked(Only(m, keys))
  BY DEF Masked, Only

LEMMA MaskedEmpty == Masked(EmptyMap)
  BY DEF Masked, EmptyMap

\* The three containers of an event that passed the filter.
LEMMA MaskedProcess ==
  ASSUME NEW e \in Events
  PROVE  /\ Masked(Process(e).props) /\ Masked(Process(e).traits)
         /\ Masked(Process(e).ctx)
  <1>1. ASSUME NEW c \in {"props", "traits", "ctx"}
        PROVE  {"email", "phone"} \subseteq Fields(c)
    <2>1. <<c, "email">> \in RedactPaths /\ <<c, "phone">> \in RedactPaths
      BY DEF RedactPaths
    <2> QED
      BY <2>1 DEF Fields
  <1>2. ASSUME NEW m, NEW c \in {"props", "traits", "ctx"}
        PROVE  Masked(Redact(m, c))
    BY <1>1 DEF Masked, Redact
  <1>3. {"props", "traits", "ctx"} \subseteq DOMAIN e
    BY EventsAssumption DEF EventsAssumption
  <1>4. /\ Process(e).props = Redact(e.props, "props")
        /\ Process(e).traits = Redact(e.traits, "traits")
        /\ Process(e).ctx = Redact(e.ctx, "ctx")
    BY <1>3 DEF Process, redactEvent
  <1> QED
    BY <1>2, <1>4

LEMMA MaskedApply ==
  ASSUME NEW w, NEW p, NEW r, MaskedWindow(w),
         Masked(p.props), Masked(p.traits), Masked(p.ctx)
  PROVE  MaskedWindow(apply(w, p, r))
  <1> DEFINE v == apply(w, p, r)
  <1>1. /\ v.Traits = Traits(w, p)
        /\ v.PropertyLast = Over(Only(p.props, propertyTrackKeys), w.PropertyLast)
        /\ v.LastListingProps = p.props \/ v.LastListingProps = w.LastListingProps
        /\ v.LastFilterProps = p.props \/ v.LastFilterProps = w.LastFilterProps
        /\ \/ v.LastErrorEvent = NewEventRef(p, errorPropertyKeys)
           \/ v.LastErrorEvent = w.LastErrorEvent
    BY DEF apply
  <1> HIDE DEF v
  <1>2. Masked(v.Traits)
    <2>1. Masked(Identifying(p))
      BY MaskedEmpty DEF Identifying
    <2>2. Masked(Over(w.Traits, p.ctx))
      BY MaskedOver DEF MaskedWindow
    <2>3. Masked(Over(Identifying(p), Over(w.Traits, p.ctx)))
      BY <2>1, <2>2, MaskedOver
    <2> QED
      BY <1>1, <2>3 DEF Traits
  <1>3. Masked(v.PropertyLast)
    <2>1. Masked(Only(p.props, propertyTrackKeys))
      BY MaskedOnly
    <2>2. Masked(Over(Only(p.props, propertyTrackKeys), w.PropertyLast))
      BY <2>1, MaskedOver DEF MaskedWindow
    <2> QED
      BY <1>1, <2>2
  <1>4. Masked(v.LastListingProps) /\ Masked(v.LastFilterProps)
    BY <1>1 DEF MaskedWindow
  <1>5. Masked(v.LastErrorEvent.props)
    <2>1. NewEventRef(p, errorPropertyKeys).props = Only(p.props, errorPropertyKeys)
      BY DEF NewEventRef
    <2>2. Masked(NewEventRef(p, errorPropertyKeys).props)
      BY <2>1, MaskedOnly
    <2> QED
      BY <1>1, <2>2 DEF MaskedWindow
  <1> QED
    BY <1>2, <1>3, <1>4, <1>5 DEF MaskedWindow, v

LEMMA RedactStep ==
  ASSUME TypeOK, RedactInv, [Next]_vars
  PROVE  RedactInv'
  <1> SUFFICES ASSUME NEW o \in Ids PROVE MaskedWindow(Window(o)')
    BY DEF RedactInv, MaskedWindow, Masked
  <1>1. MaskedWindow(Window(o))
    BY DEF RedactInv
  <1>2. ASSUME NEW e \in Events, NEW r \in 1..now, Update(e, r)
        PROVE  MaskedWindow(Window(o)')
    <2>1. CASE o = Id(e)
      <3>1. Window(o)' = apply(Window(o), Process(e), r)
        BY <1>2, <2>1, UpdateWindow
      <3>2. MaskedWindow(apply(Window(o), Process(e), r))
        BY <1>1, MaskedProcess, MaskedApply
      <3> QED
        BY <3>1, <3>2
    <2>2. CASE o /= Id(e)
      BY <1>1, <1>2, <2>2, UpdateWindow
    <2> QED
      BY <2>1, <2>2
  <1>3. CASE UNCHANGED <<hist, windows>>
    BY <1>1, <1>3 DEF Window
  <1> QED
    BY <1>2, <1>3 DEF Next, vars, EvaluateOnTick, Pass

LEMMA InitRedact == Init => RedactInv
  <1> SUFFICES ASSUME Init, NEW o \in Ids PROVE MaskedWindow(Window(o))
    BY DEF RedactInv
  <1>1. Window(o) = newUserWindow
    BY DEF Init, Window, EmptyMap
  <1>2. /\ newUserWindow.Traits = EmptyMap /\ newUserWindow.PropertyLast = EmptyMap
        /\ newUserWindow.LastListingProps = EmptyMap
        /\ newUserWindow.LastFilterProps = EmptyMap
        /\ newUserWindow.LastErrorEvent.props = EmptyMap
    BY DEF newUserWindow, NoError
  <1> QED
    BY <1>1, <1>2, MaskedEmpty DEF MaskedWindow

LEMMA RedactInvRedacts ==
  ASSUME TypeOK, RedactInv
  PROVE  PersonalDataRedacted
  <1>1. ASSUME NEW o \in DOMAIN windows PROVE MaskedWindow(windows[o])
    BY WindowIds DEF RedactInv, Window
  <1> QED
    BY <1>1 DEF PersonalDataRedacted, MaskedWindow, Masked

\* Whatever events arrive, no window holds an unredacted e-mail address or
\* telephone number in any of its five maps.
THEOREM PersonalDataCorrect == Spec => []PersonalDataRedacted
  <1>1. TypeOK /\ RedactInv /\ [Next]_vars => TypeOK' /\ RedactInv'
    BY NextTypeOK, RedactStep
  <1> QED
    BY <1>1, InitTypeOK, InitRedact, RedactInvRedacts, PTL DEF Spec

-----------------------------------------------------------------------------
(***************************************************************************)
(* The idle ticker.  A rule independent of time that holds on a window has *)
(* been matched when the window's last event arrived.                      *)
(***************************************************************************)
HoldsOn(id) == Holds(rule, windows[id], now)

TimelessMatched ==
  ~DependsOnTime(rule) =>
    \A id \in DOMAIN windows : HoldsOn(id) => id \in matched

LEMMA TickStep ==
  ASSUME TypeOK, TimelessIsTimeless, TimelessMatched, TickMissesNoMatch, [Next]_vars
  PROVE  TimelessMatched' /\ TickMissesNoMatch'
  <1>1. TickMissesNoMatch <=> (ticked => \A id \in Idle : HoldsOn(id) => id \in matched)
    BY Zenon DEF TickMissesNoMatch, HoldsOn
  <1>2. TickMissesNoMatch' <=>
          (ticked' => \A id \in Idle' : HoldsOn(id)' => id \in matched')
    BY Zenon DEF TickMissesNoMatch, HoldsOn
  <1>3. ASSUME NEW e \in Events, NEW r \in 1..now, Update(e, r)
        PROVE  TimelessMatched' /\ TickMissesNoMatch'
    <2> DEFINE w == apply(Window(Id(e)), Process(e), r)
    <2>1. /\ windows' = Put(windows, Id(e), w)
          /\ ticked' = FALSE /\ rule' = rule /\ now' = now
      BY <1>3, UpdateParts
    <2>2. matched' = IF Holds(rule, w, now) THEN matched \cup {Id(e)}
                     ELSE matched \ {Id(e)}
      BY <1>3, Zenon DEF Update, Id, Evaluated
    <2>3. /\ DOMAIN windows' = DOMAIN windows \cup {Id(e)} /\ windows'[Id(e)] = w
          /\ \A o \in DOMAIN windows : o /= Id(e) => windows'[o] = windows[o]
      <3> HIDE DEF w
      <3> QED
        BY <2>1 DEF Put, Over
    <2> HIDE DEF w
    <2>4. HoldsOn(Id(e))' <=> Holds(rule, w, now)
      BY <2>1, <2>3, Zenon DEF HoldsOn
    <2>5. \A o \in DOMAIN windows : o /= Id(e) => (HoldsOn(o)' <=> HoldsOn(o))
      BY <2>1, <2>3, Zenon DEF HoldsOn
    <2>6. HoldsOn(Id(e))' => Id(e) \in matched'
      BY <2>2, <2>4, Zenon
    <2>7. \A o : o \in matched /\ o /= Id(e) => o \in matched'
      BY <1>3, UpdateParts
    <2>8. TimelessMatched'
      BY <2>1, <2>3, <2>5, <2>6, <2>7 DEF TimelessMatched
    <2> QED
      BY <1>2, <2>1, <2>8
  <1>4. CASE EvaluateOnTick
    <2>1. /\ UNCHANGED <<rule, windows, now>> /\ ticked' = TRUE
          /\ matched' = matched \cup {id \in Idle : DependsOnTime(rule) /\ HoldsOn(id)}
      BY <1>4, Zenon DEF EvaluateOnTick, HoldsOn
    <2>2. Idle' = Idle /\ Idle \subseteq DOMAIN windows
      BY <2>1 DEF Idle
    <2>3. \A id : HoldsOn(id)' <=> HoldsOn(id)
      BY <2>1, Zenon DEF HoldsOn
    <2> HIDE DEF HoldsOn
    <2>4. TimelessMatched'
      BY <2>1, <2>3 DEF TimelessMatched
    <2>5. ASSUME NEW id \in Idle, HoldsOn(id) PROVE id \in matched'
      <3>1. CASE DependsOnTime(rule)
        BY <2>1, <2>5, <3>1
      <3>2. CASE ~DependsOnTime(rule)
        BY <2>1, <2>2, <2>5, <3>2 DEF TimelessMatched
      <3> QED
        BY <3>1, <3>2
    <2> QED
      BY <1>2, <2>2, <2>3, <2>4, <2>5
  <1>5. CASE Pass
    <2>1. UNCHANGED <<rule, windows, matched>> /\ now' = now + 1 /\ ticked' = FALSE
      BY <1>5 DEF Pass
    <2>2. now' \in 1..MaxTime
      BY <1>5, NextTypeOK DEF Next, TypeOK
    <2>3. ASSUME ~DependsOnTime(rule), NEW id \in DOMAIN windows, HoldsOn(id)'
          PROVE  HoldsOn(id)
      <3>1. Holds(rule, windows[id], now') = Holds(rule, windows[id], now)
        BY <2>2, <2>3, Zenon DEF TimelessIsTimeless
      <3>2. Holds(rule, windows[id], now')
        BY <2>1, <2>3, Zenon DEF HoldsOn
      <3> QED
        BY <3>1, <3>2, Zenon DEF HoldsOn
    <2>4. TimelessMatched'
      BY <2>1, <2>3 DEF TimelessMatched
    <2> QED
      BY <1>2, <2>1, <2>4
  <1>6. CASE UNCHANGED vars
    BY <1>6, <1>1, <1>2, Zenon DEF vars, TimelessMatched, HoldsOn, Idle
  <1> QED
    BY <1>3, <1>4, <1>5, <1>6 DEF Next

LEMMA InitTick == Init => TimelessMatched /\ TickMissesNoMatch
  BY DEF Init, EmptyMap, TimelessMatched, TickMissesNoMatch

\* As long as the rule's answer on resident windows really does not change
\* with time when DependsOnTime says so, the idle ticker may skip it: after
\* every scan, the silent windows on which the rule holds have been matched.
THEOREM TickMissesNone == Spec /\ []TimelessIsTimeless => []TickMissesNoMatch
  <1>1. /\ TypeOK /\ TimelessIsTimeless /\ TimelessMatched /\ TickMissesNoMatch
        /\ [Next]_vars
        => TypeOK' /\ TimelessMatched' /\ TickMissesNoMatch'
    BY NextTypeOK, TickStep
  <1> QED
    BY <1>1, InitTypeOK, InitTick, PTL DEF Spec
=============================================================================
