---------------------------- MODULE EventFilter -----------------------------
(***************************************************************************)
(* The filter every event passes before it reaches a window                *)
(* (internal/filter/filter.go, configured in buildRuntime): the write-key  *)
(* allow-list, the consent check, and the redaction of personal fields.    *)
(***************************************************************************)
EXTENDS UserWindow

CONSTANTS
  AllowedWriteKeys,   \* the write keys let through; all of them when empty
  DropOnConsentDeny   \* denied consent ids that drop an event; none is wired

Redacted == Str("[REDACTED]")

\* The paths buildRuntime redacts: container and field.
RedactPaths == {"props", "traits", "ctx"} \X {"email", "phone"}

Fields(c) == {p[2] : p \in {q \in RedactPaths : q[1] = c}}

isConsentDenied(e) == e.denied \cap DropOnConsentDeny /= {}

\* A redacted field that is present keeps its key.
Redact(m, c) == [k \in DOMAIN m |-> IF k \in Fields(c) THEN Redacted ELSE m[k]]

redactEventNoContext(e) == [e EXCEPT !.props = Redact(@, "props"),
                                     !.traits = Redact(@, "traits")]

redactEvent(e) == [e EXCEPT !.props = Redact(@, "props"),
                            !.traits = Redact(@, "traits"),
                            !.ctx = Redact(@, "ctx")]

\* Process: which events are kept, and what is passed on.
Passes(e) == /\ AllowedWriteKeys /= {} => e.writeKey \in AllowedWriteKeys
             /\ ~isConsentDenied(e)

Process(e) == redactEvent(e)

=============================================================================
