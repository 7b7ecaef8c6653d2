----------------------------- MODULE UserWindow -----------------------------
(***************************************************************************)
(* The aggregations kept for one anonymous id (internal/window/window.go): *)
(* how apply folds an event into a window, and what a snapshot of it       *)
(* answers.                                                                *)
(*                                                                         *)
(* An event is a record with its type and name, the user id, the session,  *)
(* the page path, and its property, trait and context-trait maps; "" and 0 *)
(* stand for absent fields.  Property and trait values are JSON values, a  *)
(* record of a type tag and the value.                                     *)
(***************************************************************************)
EXTENDS Integers, Sequences, FiniteSets, Maps

Num(n) == [t |-> "num", n |-> n]
Str(s) == [t |-> "str", s |-> s]

\* m[k]++ of a Go map of counters, whose absent entries read as 0.
Count(m, k) == IF k \in DOMAIN m THEN m[k] ELSE 0
Bump(m, k)  == Put(m, k, Count(m, k) + 1)

\* The property keys windows follow, and the ones kept of an error event;
\* the ones the model's events carry.
propertyTrackKeys == {"price", "bedrooms", "elapsed_seconds_in_step"}
errorPropertyKeys == {"error_code", "step", "elapsed_seconds_in_step"}

ErrorNames == {"Source Setup Error", "Destination Setup Error",
               "Webhook Send Error"}

\* The name's suffix is "Error".
HasErrorEventName(e) == e.name \in ErrorNames

\* The anonymous id, or the user id when there is none.
EffectiveAnonymousID(e) == IF e.anon /= "" THEN e.anon ELSE e.userId

NewEventRef(e, keys) == [name |-> e.name, type |-> e.type,
                         props |-> Only(e.props, keys)]

NoError == [name |-> "", type |-> "", props |-> EmptyMap]

newUserWindow ==
  [UserID |-> "", EventCount |-> 0, EventTypeCount |-> EmptyMap,
   EventNameCount |-> EmptyMap, DistinctPaths |-> EmptyMap, PathLatest |-> "",
   PropertyMaxNum |-> EmptyMap, PropertyLast |-> EmptyMap,
   HasErrorEvent |-> FALSE, LastErrorEvent |-> NoError,
   FirstSeen |-> 0, LastSeen |-> 0, Traits |-> EmptyMap, SessionID |-> 0,
   LastListingProps |-> EmptyMap, LastFilterProps |-> EmptyMap,
   DominantSuburb |-> "", suburbCounts |-> EmptyMap]

-----------------------------------------------------------------------------
(***************************************************************************)
(* apply, one operator per group of fields.                                *)
(***************************************************************************)

\* Only numbers move the maximum; a string is not parsed.
numericValue(x) == x.t = "num"

PropertyMax(w, e) ==
  LET up == {k \in DOMAIN e.props \cap propertyTrackKeys :
               /\ numericValue(e.props[k])
               /\ k \in DOMAIN w.PropertyMaxNum =>
                    e.props[k].n > w.PropertyMaxNum[k]}
  IN  Over([k \in up |-> e.props[k].n], w.PropertyMaxNum)

\* properties.suburb, when it is a non-empty string.
SuburbOf(e) ==
  IF "suburb" \in DOMAIN e.props /\ e.props["suburb"].t = "str"
  THEN e.props["suburb"].s ELSE ""

\* The suburb just counted becomes the dominant one when no other has more.
DominantStrict(w, e) ==
  LET s == SuburbOf(e) IN
  IF s /= "" /\ Count(w.suburbCounts, s) + 1 > Count(w.suburbCounts, w.DominantSuburb)
  THEN s ELSE w.DominantSuburb

Dominant(w, e) ==
  LET s == SuburbOf(e)
      counts == Bump(w.suburbCounts, s)
  IN  IF s /= "" /\ counts[s] >= Count(counts, w.DominantSuburb)
      THEN s ELSE w.DominantSuburb

\* Traits of an identify event replace, context traits only fill in.
Identifying(e) == IF e.type = "identify" THEN e.traits ELSE EmptyMap

TraitsClobbered(w, e) == Over(e.ctx, Over(Identifying(e), w.Traits))

Traits(w, e) == Over(Identifying(e), Over(w.Traits, e.ctx))

\* The event is folded in with the time the service received it.
apply(w, e, receivedAt) ==
  [UserID           |-> IF w.UserID = "" THEN e.userId ELSE w.UserID,
   EventCount       |-> w.EventCount + 1,
   EventTypeCount   |-> IF e.type = "" THEN w.EventTypeCount
                        ELSE Bump(w.EventTypeCount, e.type),
   EventNameCount   |-> IF e.name = "" THEN w.EventNameCount
                        ELSE Bump(w.EventNameCount, e.name),
   DistinctPaths    |-> IF e.path = "" THEN w.DistinctPaths
                        ELSE Bump(w.DistinctPaths, e.path),
   PathLatest       |-> IF e.path = "" THEN w.PathLatest ELSE e.path,
   PropertyMaxNum   |-> PropertyMax(w, e),
   PropertyLast     |-> Over(Only(e.props, propertyTrackKeys), w.PropertyLast),
   HasErrorEvent    |-> w.HasErrorEvent \/ HasErrorEventName(e),
   LastErrorEvent   |-> IF HasErrorEventName(e)
                        THEN NewEventRef(e, errorPropertyKeys) ELSE w.LastErrorEvent,
   FirstSeen        |-> IF w.FirstSeen = 0 \/ receivedAt < w.FirstSeen
                        THEN receivedAt ELSE w.FirstSeen,
   LastSeen         |-> IF receivedAt > w.LastSeen THEN receivedAt ELSE w.LastSeen,
   Traits           |-> Traits(w, e),
   SessionID        |-> IF e.session /= 0 THEN e.session ELSE w.SessionID,
   LastListingProps |-> IF e.name = "Listing Viewed" /\ DOMAIN e.props /= {}
                        THEN e.props ELSE w.LastListingProps,
   LastFilterProps  |-> IF e.name = "Filter Applied" /\ DOMAIN e.props /= {}
                        THEN e.props ELSE w.LastFilterProps,
   DominantSuburb   |-> Dominant(w, e),
   suburbCounts     |-> IF SuburbOf(e) = "" THEN w.suburbCounts
                        ELSE Bump(w.suburbCounts, SuburbOf(e))]

\* How long a snapshot has been idle; a clock behind LastSeen counts as 0.
IdleFor(w, now) ==
  IF w.LastSeen = 0 \/ now < w.LastSeen THEN 0 ELSE now - w.LastSeen

=============================================================================
