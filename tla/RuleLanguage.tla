---------------------------- MODULE RuleLanguage ----------------------------
(***************************************************************************)
(* The rule language (internal/rules/loader.go, predicates.go, expr.go):   *)
(* how a parsed when-spec is compiled into an expression tree, and how the *)
(* tree is evaluated on a window at a time.                                *)
(*                                                                         *)
(* A spec is a map from keys to JSON values: Num and Str of UserWindow,    *)
(* Map(function), List(sequence of values) and Null.  An expression is     *)
(* all/any with children, not with one child, or a predicate with its      *)
(* normalised arguments; Err stands for a compilation error.               *)
(***************************************************************************)
EXTENDS UserWindow, TLC

CONSTANTS
  RegexMatches,   \* the pairs <<pattern, string>> that match
  BadPatterns     \* the patterns regexp.Compile refuses

Map(m)  == [t |-> "map", m |-> m]
List(l) == [t |-> "list", l |-> l]
Null    == [t |-> "null"]

Err == [k |-> "err"]
AllOf(kids)     == [k |-> "all", kids |-> kids]
AnyOf(kids)     == [k |-> "any", kids |-> kids]
Not(kid)        == [k |-> "not", kid |-> kid]
Pred(name, args) == [k |-> "pred", name |-> name, args |-> args]

Failed(e) == e.k = "err"

-----------------------------------------------------------------------------
(***************************************************************************)
(* Operators of comparisons.                                               *)
(***************************************************************************)

\* Values of different types are compared by how they print, and no number
\* prints like one of the strings used here.
equalAny(a, b) == a = b

numerics(a, b) == a.t = "num" /\ b.t = "num"

\* Incompatible operands make every operator false except !=.
applyOp(op, lhs, rhs) ==
  CASE op \in {"==", "eq"}  -> equalAny(lhs, rhs)
    [] op \in {"!=", "ne"}  -> ~equalAny(lhs, rhs)
    [] op \in {">", "gt"}   -> numerics(lhs, rhs) /\ lhs.n > rhs.n
    [] op \in {">=", "gte"} -> numerics(lhs, rhs) /\ lhs.n >= rhs.n
    [] op \in {"<", "lt"}   -> numerics(lhs, rhs) /\ lhs.n < rhs.n
    [] op \in {"<=", "lte"} -> numerics(lhs, rhs) /\ lhs.n <= rhs.n
    [] op = "in"      -> /\ rhs.t = "list"
                         /\ \E i \in DOMAIN rhs.l : equalAny(lhs, rhs.l[i])
    [] op = "matches" -> /\ lhs.t = "str" /\ rhs.t = "str"
                         /\ <<rhs.s, lhs.s>> \in RegexMatches
    [] OTHER -> FALSE

\* An explicit op wins; otherwise the first operator key in this order.
InlineOps == <<"==", "!=", ">", ">=", "<", "<=", "in", "matches",
               "eq", "ne", "gt", "gte", "lt", "lte">>

HasExplicitOp(args) == "op" \in DOMAIN args /\ args["op"].t = "str"

OpGiven(args) ==
  HasExplicitOp(args) \/ \E i \in DOMAIN InlineOps : InlineOps[i] \in DOMAIN args

extractOpValue(args) ==
  IF HasExplicitOp(args)
  THEN [op |-> args["op"].s,
        value |-> IF "value" \in DOMAIN args THEN args["value"] ELSE Null]
  ELSE LET first == CHOOSE i \in DOMAIN InlineOps :
                      /\ InlineOps[i] \in DOMAIN args
                      /\ \A j \in 1..(i - 1) : InlineOps[j] \notin DOMAIN args
       IN  [op |-> InlineOps[first], value |-> args[InlineOps[first]]]

Compare(lhs, args) ==
  LET c == extractOpValue(args) IN applyOp(c.op, lhs, c.value)

-----------------------------------------------------------------------------
(***************************************************************************)
(* Predicates: what a builder requires of its arguments, and the function  *)
(* it returns.                                                             *)
(***************************************************************************)
requireString(args, key) == key \in DOMAIN args /\ args[key].t = "str"

\* stringFromShorthand: the normaliser puts a bare scalar under "value".
ValueOrPath(args) == requireString(args, "value") \/ requireString(args, "path")
PathOf(args) == IF requireString(args, "value") THEN args["value"].s
                ELSE args["path"].s

registry ==
  {"window.event_count", "window.event_count_of_type",
   "window.event_count_of_name", "window.idle_seconds",
   "window.has_event_type", "window.has_event_name",
   "window.event_path_matches", "window.has_property",
   "window.property_value", "window.distinct_paths_at_least",
   "window.has_error_event", "window.session_event_count",
   "traits.known", "traits.value"}

usesTime == {"window.idle_seconds"}

ArgsOK(name, args) ==
  CASE name \in {"window.event_count", "window.idle_seconds",
                 "window.session_event_count"} -> OpGiven(args)
    [] name = "window.event_count_of_type" ->
         requireString(args, "type") /\ OpGiven(args)
    [] name = "window.event_count_of_name" ->
         requireString(args, "name") /\ OpGiven(args)
    [] name \in {"window.has_event_type", "window.has_event_name"} ->
         requireString(args, "value")
    [] name = "window.event_path_matches" ->
         requireString(args, "value") /\ args["value"].s \notin BadPatterns
    [] name \in {"window.has_property", "traits.known"} -> ValueOrPath(args)
    [] name \in {"window.property_value", "traits.value"} ->
         requireString(args, "path") /\ OpGiven(args)
    [] name = "window.distinct_paths_at_least" ->
         "value" \in DOMAIN args /\ args["value"].t = "num"
    [] name = "window.has_error_event" -> TRUE

predicateFn(name, args, w, now) ==
  CASE name \in {"window.event_count", "window.session_event_count"} ->
         Compare(Num(w.EventCount), args)
    [] name = "window.event_count_of_type" ->
         Compare(Num(Count(w.EventTypeCount, args["type"].s)), args)
    [] name = "window.event_count_of_name" ->
         Compare(Num(Count(w.EventNameCount, args["name"].s)), args)
    [] name = "window.idle_seconds" -> Compare(Num(IdleFor(w, now)), args)
    [] name = "window.has_event_type" ->
         Count(w.EventTypeCount, args["value"].s) > 0
    [] name = "window.has_event_name" ->
         Count(w.EventNameCount, args["value"].s) > 0
    [] name = "window.event_path_matches" ->
         \E p \in DOMAIN w.DistinctPaths : <<args["value"].s, p>> \in RegexMatches
    [] name = "window.has_property" -> PathOf(args) \in DOMAIN w.PropertyLast
    [] name = "window.property_value" ->
         /\ args["path"].s \in DOMAIN w.PropertyLast
         /\ Compare(w.PropertyLast[args["path"].s], args)
    [] name = "window.distinct_paths_at_least" ->
         Cardinality(DOMAIN w.DistinctPaths) >= args["value"].n
    [] name = "window.has_error_event" -> w.HasErrorEvent
    [] name = "traits.known" -> PathOf(args) \in DOMAIN w.Traits
    [] name = "traits.value" -> /\ args["path"].s \in DOMAIN w.Traits
                                /\ Compare(w.Traits[args["path"].s], args)

-----------------------------------------------------------------------------
(***************************************************************************)
(* Compilation.                                                            *)
(***************************************************************************)
normalizeArgs(x) == CASE x.t = "null" -> EmptyMap
                      [] x.t = "map"  -> x.m
                      [] OTHER -> [k \in {"value"} |-> x]

buildPredicate(name, x) ==
  IF name \in registry /\ ArgsOK(name, normalizeArgs(x))
  THEN Pred(name, normalizeArgs(x)) ELSE Err

\* The list under all or any: every item must be a map.
toSpecSlice(x) == x.t = "list" /\ \A i \in DOMAIN x.l : x.l[i].t = "map"

LogicalKeys == {"all", "any", "not"}

FirstError(kids) == \E i \in DOMAIN kids : Failed(kids[i])

\* Some order of a finite set of keys.
RECURSIVE KeyOrder(_)
KeyOrder(ks) == IF ks = {} THEN <<>>
                ELSE LET k == CHOOSE k \in ks : TRUE
                     IN  <<k>> \o KeyOrder(ks \ {k})

RECURSIVE buildExpr(_)
buildExpr(spec) ==
  LET keys == DOMAIN spec
      Kids(x) == [i \in DOMAIN x.l |-> buildExpr(x.l[i].m)]
      Node(key) ==
        CASE key = "all" -> IF toSpecSlice(spec[key]) /\ ~FirstError(Kids(spec[key]))
                            THEN AllOf(Kids(spec[key])) ELSE Err
          [] key = "any" -> IF toSpecSlice(spec[key]) /\ ~FirstError(Kids(spec[key]))
                            THEN AnyOf(Kids(spec[key])) ELSE Err
          [] key = "not" -> IF spec[key].t = "map" /\ ~Failed(buildExpr(spec[key].m))
                            THEN Not(buildExpr(spec[key].m)) ELSE Err
          [] OTHER -> buildPredicate(key, spec[key])
  IN  IF keys = {} THEN AllOf(<<>>)
      ELSE IF Cardinality(keys) = 1 THEN Node(CHOOSE k \in keys : TRUE)
      ELSE IF keys \cap LogicalKeys /= {} THEN Err
      ELSE LET order == KeyOrder(keys)
               kids  == [i \in DOMAIN order |-> Node(order[i])]
           IN  IF FirstError(kids) THEN Err ELSE AllOf(kids)

RECURSIVE MarshalSpecAnyAsAll(_)
MarshalSpecAnyAsAll(e) ==
  LET One(k, x) == [key \in {k} |-> x]
      Kids == List([i \in DOMAIN e.kids |-> Map(MarshalSpecAnyAsAll(e.kids[i]))])
  IN  CASE e.k \in {"all", "any"} -> One("all", Kids)
        [] e.k = "not"  -> One("not", Map(MarshalSpecAnyAsAll(e.kid)))
        [] e.k = "pred" -> One(e.name, Map(e.args))

\* The tree written back as a spec; a predicate keeps its normalised map.
RECURSIVE MarshalSpec(_)
MarshalSpec(e) ==
  LET One(k, x) == [key \in {k} |-> x]
      Kids == List([i \in DOMAIN e.kids |-> Map(MarshalSpec(e.kids[i]))])
  IN  CASE e.k \in {"all", "any"} -> One(e.k, Kids)
        [] e.k = "not"  -> One("not", Map(MarshalSpec(e.kid)))
        [] e.k = "pred" -> One(e.name, Map(e.args))

UnmarshalSpec(spec) == buildExpr(spec)

-----------------------------------------------------------------------------
(***************************************************************************)
(* Evaluation.                                                             *)
(***************************************************************************)
RECURSIVE Eval(_, _, _)
Eval(e, w, now) ==
  CASE e.k = "all"  -> \A i \in DOMAIN e.kids : Eval(e.kids[i], w, now)
    [] e.k = "any"  -> \E i \in DOMAIN e.kids : Eval(e.kids[i], w, now)
    [] e.k = "not"  -> ~Eval(e.kid, w, now)
    [] e.k = "pred" -> predicateFn(e.name, e.args, w, now)

RECURSIVE UsesTimeInEveryChild(_)
UsesTimeInEveryChild(e) ==
  CASE e.k \in {"all", "any"} ->
         \A i \in DOMAIN e.kids : UsesTimeInEveryChild(e.kids[i])
    [] e.k = "not"  -> UsesTimeInEveryChild(e.kid)
    [] e.k = "pred" -> e.name \in usesTime

\* A tree depends on time when one of its leaves does.
RECURSIVE UsesTime(_)
UsesTime(e) ==
  CASE e.k \in {"all", "any"} -> \E i \in DOMAIN e.kids : UsesTime(e.kids[i])
    [] e.k = "not"  -> UsesTime(e.kid)
    [] e.k = "pred" -> e.name \in usesTime

=============================================================================
