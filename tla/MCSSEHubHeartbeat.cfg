SPECIFICATION Spec
CONSTANTS
  Subs = {s1}
  Streams = {"triggers"}
  StreamOf <- MCStreamOf
  Publishers = {p1}
  BufCap = 1
  MaxPublishes = 1
  MaxBeats = 1
INVARIANT HeartbeatSafe
