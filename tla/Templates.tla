----------------------------- MODULE Templates ------------------------------
(***************************************************************************)
(* Filling an answer's placeholders and laying it out for a destination:   *)
(* internal/dispatch/template.go, render_context.go, the message builders  *)
(* of slack.go and email.go, and the built-in answers of llm/defaults.go.  *)
(*                                                                         *)
(* A decoded JSON value is Text (a Go string: a sequence of literal parts  *)
(* and {{section.path:hint}} placeholders), Num, Map (map[string]any),     *)
(* List ([]any), Native (a []string or []map[string]string, which only the *)
(* built-in answers hold) or Nil.  Wording is left out: a literal part is  *)
(* a name for what it says.                                                *)
(***************************************************************************)
EXTENDS Integers, Sequences, FiniteSets, Maps

\* renderValue of template.go, the recursion over nested values; Rendering has
\* the service's.
CONSTANT renderValue(_, _)

Nil       == [t |-> "nil"]
Num(n)    == [t |-> "num", n |-> n]
Text(p)   == [t |-> "text", parts |-> p]
Map(m)    == [t |-> "map", m |-> m]
List(l)   == [t |-> "list", l |-> l]
Native(l) == [t |-> "native", l |-> l]

Lit(x)         == [p |-> "lit", x |-> x]
Ph(path, hint) == [p |-> "ph", path |-> path, hint |-> hint]
Filled(as, v)  == [p |-> "filled", as |-> as, v |-> v]   \* a printed value

Empty   == Text(<<>>)
Say(x)  == Text(<<Lit(x)>>)

\* The entries of a map[string]any, none when it is nil.
Entries(v) == IF v.t = "map" THEN v.m ELSE EmptyMap

-----------------------------------------------------------------------------
(***************************************************************************)
(* template.go                                                             *)
(***************************************************************************)

\* Strings, and values that are not numbers, count as 0.
toFloat64(v) == IF v.t = "num" THEN v.n ELSE 0

\* How a value is printed: percentages and money go through toFloat64.
formatValue(v, hint) ==
  IF hint \in {"pct", "money"} THEN Filled(hint, Num(toFloat64(v)))
                               ELSE Filled("plain", v)

\* From a value along the segments; Nil where one is missing.
Walk(v, segments) ==
  LET at[i \in 0 .. Len(segments)] ==
        IF i = 0 THEN v
        ELSE IF segments[i] \in DOMAIN Entries(at[i - 1])
             THEN Entries(at[i - 1])[segments[i]] ELSE Nil
  IN  at[Len(segments)]

Sections == {"trait", "window", "realtor", "outcome"}

\* The value at a path, Nil when it is missing, null or only a section name.
resolvePath(path, ctx) ==
  IF Len(path) < 2 \/ Head(path) \notin Sections THEN Nil
  ELSE Walk(Map(ctx[Head(path)]), Tail(path))

\* One pass over the parts: what a placeholder is filled with is not
\* looked at again.
renderString(parts, ctx) ==
  [i \in DOMAIN parts |->
     IF parts[i].p /= "ph" THEN parts[i]
     ELSE LET v == resolvePath(parts[i].path, ctx) IN
          IF v = Nil THEN Lit("n/a")
          ELSE formatValue(v, parts[i].hint)]

\* renderMap: a nil map renders to a nil map.
Render(parsed, ctx) ==
  IF parsed.t = "map"
  THEN Map([k \in DOMAIN parsed.m |-> renderValue(parsed.m[k], ctx)]) ELSE Nil

-----------------------------------------------------------------------------
(***************************************************************************)
(* render_context.go, for the keys the answers use.  The properties of the *)
(* last listing and of the last error are maps, empty when there is none.  *)
(***************************************************************************)
BuildWindowMap(snap) ==
  Over(IF snap.LastErrorProps = EmptyMap THEN EmptyMap
       ELSE [last_error |-> Map(snap.LastErrorProps)],
       [dominant_suburb |-> Say(snap.DominantSuburb),
        last_listing    |-> Map(snap.LastListingProps),
        last_listing_id |-> IF "listing_id" \in DOMAIN snap.LastListingProps
                            THEN snap.LastListingProps["listing_id"] ELSE Empty])

\* The first realtor of the suburb, or else the first one; Nil without any.
SelectRealtor(realtors, suburb) ==
  LET fits == {i \in DOMAIN realtors : suburb \in realtors[i].suburbs} IN
  IF realtors = <<>> THEN Nil
  ELSE IF fits = {} THEN realtors[1]
  ELSE realtors[CHOOSE i \in fits : \A j \in fits : i <= j]

RealtorToMap(r) == IF r = Nil THEN EmptyMap ELSE [name |-> Say(r.name)]

BuildOutcomeMap(template, windowMap) ==
  CASE template = "realestate_realtor_pitch" ->
         [estimated_deal_value |->
            LET price == resolvePath(<<"window", "last_listing", "price">>,
                                     [window |-> windowMap]) IN
            Text(<<formatValue(price, "money")>>),
          urgency_minutes |-> Say("30")]
    [] template = "realestate_realtor_anonymous" ->
         [recommended_action |-> Say("banner"), urgency_minutes |-> Say("60")]
    [] template \in {"rs_destination_error", "rs_onboarding_stuck"} ->
         [fix_eta_minutes |-> Say("5")]
    [] OTHER -> EmptyMap

-----------------------------------------------------------------------------
(***************************************************************************)
(* llm/defaults.go: the answers compiled into the program, one value per   *)
(* template that all fires share, and the envelope for other templates.    *)
(***************************************************************************)
PitchDefault(headline, realtorKey) ==
  Map(Put([headline       |-> Say(headline),
           talking_points |-> Native(<<Say("browsed")>>),
           best_cta       |-> Say("cta"),
           urgency        |-> Say("urgency")],
          realtorKey, Say("on-call realtor")))

MailDefault(subject) ==
  Map([subject       |-> Say(subject),
       body_markdown |-> Say("steps"),
       doc_links     |-> Native(<<Map([title |-> Say("docs")])>>)])

defaultRegistry ==
  [realestate_realtor_pitch     |-> PitchDefault("known", "assigned_realtor"),
   realestate_realtor_anonymous |-> PitchDefault("anonymous",
                                                 "assigned_realtor_on_standby"),
   rs_onboarding_stuck          |-> MailDefault("stuck"),
   rs_destination_error         |-> MailDefault("error")]

GenericDefault == Map([headline |-> Say("no template was wired")])

-----------------------------------------------------------------------------
(***************************************************************************)
(* slack.go and email.go: the message made of a rendered answer.           *)
(***************************************************************************)
stringOrEmpty(p, key) ==
  IF key \in DOMAIN Entries(p) /\ Entries(p)[key].t = "text"
  THEN Entries(p)[key] ELSE Empty

OrElse(text, default) == IF text = Empty THEN default ELSE text

\* Only the strings of a list.
stringSliceFromAny(v) ==
  IF v.t \in {"list", "native"}
  THEN SelectSeq(v.l, LAMBDA x : x.t = "text") ELSE <<>>

buildRealestateBlocks(p) ==
  [header   |-> OrElse(stringOrEmpty(p, "headline"), Say("Trigger fired")),
   points   |-> IF "talking_points" \in DOMAIN Entries(p)
                THEN SelectSeq(stringSliceFromAny(Entries(p)["talking_points"]),
                               LAMBDA x : x /= Empty)
                ELSE <<>>,
   best_cta |-> stringOrEmpty(p, "best_cta"),
   realtor  |-> stringOrEmpty(p, "assigned_realtor"),
   urgency  |-> stringOrEmpty(p, "urgency")]

buildGenericBlocks(template, p) ==
  [header   |-> OrElse(stringOrEmpty(p, "subject"),
                       OrElse(stringOrEmpty(p, "headline"), Say(template))),
   points   |-> <<>>, best_cta |-> Empty, realtor |-> Empty, urgency |-> Empty]

buildBlockKit(persona, template, p) ==
  IF template = "realestate_realtor_pitch" \/ persona = "realestate"
  THEN buildRealestateBlocks(p) ELSE buildGenericBlocks(template, p)

DefaultTo == Say("demo@rudderstack.com")

\* The row of mock_emails.  Without a body the raw answer, as it was before
\* rendering, is quoted.
MailRow(p, raw) ==
  [to      |-> OrElse(stringOrEmpty(p, "to_email"), DefaultTo),
   subject |-> OrElse(stringOrEmpty(p, "subject"),
                      OrElse(stringOrEmpty(p, "headline"), Say("notification"))),
   body    |-> OrElse(stringOrEmpty(p, "body_markdown"), raw),
   quoted  |-> stringOrEmpty(p, "body_markdown") = Empty,
   links   |-> IF "doc_links" \in DOMAIN Entries(p)
               THEN Entries(p)["doc_links"] ELSE Nil]
=============================================================================
