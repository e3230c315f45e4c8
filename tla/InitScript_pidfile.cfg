\* start, stop and status by hand, two daemons at most.
CONSTANTS
  Procs = {p1, p2}
  Versions = {v1}
  Torn = torn
  Nil = nil
SPECIFICATION InitScriptSpec
INVARIANT StopStops
