------------------------------- MODULE MCDemo -------------------------------
(***************************************************************************)
(* Values of Demo's constants for TLC: three sessions, the third of the    *)
(* real-estate site's anonymous visitor; the answers of                    *)
(* seed/canned-responses-hand.yaml cut down to one string of each kind,    *)
(* and a row holding null and one without a body whose recipient is empty. *)
(* Two fires share what fires can share, so of the second and the third    *)
(* session one fires.                                                      *)
(***************************************************************************)
EXTENDS Rendering

MCConfigurations == {[llm |-> "canned", slack |-> TRUE],
                     [llm |-> "live", slack |-> FALSE]}

MCUserOf  == <<"u1", "u2", "u2">>
MCEmailOf == [u1 |-> "alex@acme.io", u2 |-> "jamie@beacon.dev"]

Pitch ==
  Map([headline       |-> Text(<<Ph(<<"trait", "first_name">>, ""), Lit("browsing"),
                                 Ph(<<"window", "dominant_suburb">>, "")>>),
       talking_points |-> List(<<Text(<<Ph(<<"window", "last_listing", "price">>,
                                           "money")>>),
                                 Text(<<Ph(<<"trait", "total_sessions">>, "")>>)>>),
       best_cta       |-> Text(<<Ph(<<"outcome", "urgency_minutes">>, "")>>),
       assigned_realtor |-> Map([name |-> Text(<<Ph(<<"realtor", "name">>, "")>>)])])

Standby ==
  Map([headline |-> Text(<<Lit("anonymous"),
                           Ph(<<"window", "dominant_suburb">>, "")>>),
       best_cta |-> Text(<<Ph(<<"outcome", "recommended_action">>, ""),
                           Ph(<<"realtor", "name">>, "")>>)])

FixError ==
  Map([subject       |-> Text(<<Ph(<<"window", "last_error", "error_code">>, "")>>),
       body_markdown |-> Text(<<Lit("Hi"), Ph(<<"trait", "first_name">>, "")>>),
       doc_links     |-> List(<<Map([title |-> Say("docs")])>>)])

NoBody == Map([subject  |-> Text(<<Ph(<<"trait", "first_name">>, "")>>),
               to_email |-> Empty])

MCCannedOf ==
  [realestate_realtor_pitch     |-> {Pitch, Nil},
   realestate_realtor_anonymous |-> {Standby},
   rs_destination_error         |-> {FixError, NoBody}]

MCCustomRules ==
  {[persona |-> "rs-self", template |-> "custom", scheme |-> "slack",
    needs |-> {"page"}, atLeast |-> 5, email |-> BOOLEAN]}
=============================================================================
