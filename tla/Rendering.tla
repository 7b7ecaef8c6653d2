----------------------------- MODULE Rendering ------------------------------
(***************************************************************************)
(* renderValue of internal/dispatch/template.go, which goes into maps and  *)
(* lists however deep they nest, and what it makes of the answers that a   *)
(* demo run delivers.                                                      *)
(***************************************************************************)
EXTENDS Demo

\* Lists are passed through as they are.
RECURSIVE renderValueFlat(_, _)
renderValueFlat(v, ctx) ==
  CASE v.t = "text" -> Text(renderString(v.parts, ctx))
    [] v.t = "map"  -> Map([k \in DOMAIN v.m |-> renderValueFlat(v.m[k], ctx)])
    [] OTHER -> v

RECURSIVE renderNested(_, _)
renderNested(v, ctx) ==
  CASE v.t = "text" -> Text(renderString(v.parts, ctx))
    [] v.t = "map"  -> Map([k \in DOMAIN v.m |-> renderNested(v.m[k], ctx)])
    [] v.t = "list" -> List([i \in DOMAIN v.l |-> renderNested(v.l[i], ctx)])
    [] OTHER -> v

-----------------------------------------------------------------------------
\* Whether any string of a value still holds a placeholder.
RECURSIVE HasPlaceholder(_)
HasPlaceholder(v) ==
  CASE v.t = "text" -> \E i \in DOMAIN v.parts : v.parts[i].p = "ph"
    [] v.t = "map"  -> \E k \in DOMAIN v.m : HasPlaceholder(v.m[k])
    [] v.t \in {"list", "native"} -> \E i \in DOMAIN v.l : HasPlaceholder(v.l[i])
    [] OTHER -> FALSE

\* No placeholder reaches Slack, an email, a trigger row or the dashboard,
\* however deep the answer nests its strings. The one exception is an email
\* without a body, which quotes the raw answer (Render, LLMParsed).
PlaceholderFree ==
  \A u \in Users :
    /\ slackBox[u] /= Nil =>
         ~HasPlaceholder(List(<<slackBox[u].header, slackBox[u].best_cta,
                                slackBox[u].realtor>> \o slackBox[u].points))
    /\ mail[u] /= Nil =>
         /\ ~HasPlaceholder(List(<<mail[u].to, mail[u].subject, mail[u].links>>))
         /\ HasPlaceholder(mail[u].body) => mail[u].quoted
    /\ row[u] /= Nil => ~HasPlaceholder(row[u].parsed)
    /\ sse[u] /= Nil => ~HasPlaceholder(sse[u].parsed)
=============================================================================
