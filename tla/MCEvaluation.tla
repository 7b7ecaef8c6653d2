---------------------------- MODULE MCEvaluation ----------------------------
(***************************************************************************)
(* Seven events of two visitors, and rules built from every predicate.     *)
(***************************************************************************)
EXTENDS RuleProperties

None == EmptyMap
Ev(anon, user, type, name, path, props, traits, ctx) ==
  [anon |-> anon, userId |-> user, type |-> type, name |-> name, path |-> path,
   session |-> 0, props |-> props, traits |-> traits, ctx |-> ctx,
   writeKey |-> "wk", denied |-> {}]

MCEvents ==
  {Ev("a1", "", "page", "", "/listings/1", None, None,
      ("email" :> Str("a@x")) @@ ("plan" :> Str("trial"))),
   Ev("a1", "", "track", "Listing Viewed", "",
      ("suburb" :> Str("suburb-1")) @@ ("price" :> Num(7)) @@ ("phone" :> Str("1")),
      None, None),
   Ev("a1", "", "track", "Listing Viewed", "/",
      ("suburb" :> Str("suburb-2")) @@ ("price" :> Str("on request")), None, None),
   Ev("a1", "u1", "identify", "", "", None,
      ("email" :> Str("a@x")) @@ ("plan" :> Str("free")), "phone" :> Str("1")),
   Ev("a1", "", "track", "Source Setup Error", "",
      ("error_code" :> Str("E1")) @@ ("email" :> Str("a@x")), None, None),
   Ev("", "u2", "track", "Source Created", "", "suburb" :> Str("suburb-1"),
      None, "plan" :> Str("pro")),
   [Ev("a1", "", "track", "Filter Applied", "", None, None, None)
      EXCEPT !.writeKey = "other"]}

MCRegexMatches == {<<"^/listings(/|$).*", "/listings/1">>, <<"^/$", "/">>,
                   <<"^free$", "free">>}
MCBadPatterns == {"(("}

Cmp(op, x) == Map(op :> x)
Two(k1, x1, k2, x2) == Map((k1 :> x1) @@ (k2 :> x2))

Leaves ==
  {Leaf("window.event_count", Cmp(">", Num(1))),
   Leaf("window.session_event_count", Cmp("<=", Num(1))),
   Leaf("window.event_count_of_type", Two("type", Str("track"), "eq", Num(1))),
   Leaf("window.event_count_of_name",
        Two("name", Str("Listing Viewed"), "!=", Num(0))),
   Leaf("window.idle_seconds", Cmp(">=", Num(1))),
   Leaf("window.idle_seconds", Two("op", Str("<"), "value", Num(2))),
   Leaf("window.idle_seconds", Null),
   Leaf("window.has_event_type", Str("identify")),
   Leaf("window.has_event_name", Num(3)),
   Leaf("window.event_path_matches", Str("^/$")),
   Leaf("window.event_path_matches", Str("((")),
   Leaf("window.has_property", Two("path", Str("price"), "value", Num(0))),
   Leaf("window.property_value", Two("path", Str("price"), ">=", Num(7))),
   Leaf("window.distinct_paths_at_least", Num(2)),
   Leaf("window.has_error_event", Null),
   Leaf("traits.known", Str("plan")),
   Leaf("traits.value", Two("path", Str("plan"), "matches", Str("^free$"))),
   Leaf("traits.value", Two("path", Str("plan"), "in", List(<<Str("trial"), Num(1)>>))),
   Leaf("window.unknown", Str("x"))}

\* Trees whose truth changes with time under each connective.
IdleTrees ==
  LET idle == Leaf("window.idle_seconds", Cmp(">=", Num(1)))
      young == Leaf("window.idle_seconds", Cmp("lt", Num(2)))
      page == Leaf("window.has_event_type", Str("page"))
      few  == Leaf("window.event_count", Cmp("lt", Num(3)))
  IN  {Node("all", <<page, idle>>), Node("any", <<page, idle>>),
       Node("all", <<few, Leaf("not", young)>>),
       "not" :> Map(Node("any", <<page, young>>)),
       Node("all", <<>>), Node("any", <<>>), EmptyMap,
       idle.m @@ few.m, idle.m @@ Node("all", <<page>>),
       Node("all", <<Str("page")>>), "all" :> Str("page")}

Specs == {x.m : x \in Leaves} \cup IdleTrees
           \cup {RealestateSeed.rules[i].when : i \in 1..2}

MCNames == {<<"Source Setup Error">>,
            <<"Webhook Send Error", "Source Created">>}

MCRules == {e \in {buildExpr(spec) : spec \in Specs} : ~Failed(e)}

=============================================================================
