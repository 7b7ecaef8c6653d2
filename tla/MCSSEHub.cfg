SPECIFICATION Spec
CONSTANTS
  Subs = {s1}
  Streams = {"triggers"}
  StreamOf <- MCStreamOf
  Publishers = {p1, p2}
  BufCap = 1
  MaxPublishes = 3
  MaxBeats = 2
INVARIANTS
  TypeOK
  PublishAndCloseSafe
  DroppedOnce
PROPERTY RemovedIsReleased
