\* One run of deploy.sh on a speaker that never fails.
CONSTANTS
  Procs = {p1, p2}
  Versions = {v1}
  Torn = torn
  Nil = nil
  MaxFaults = 0
SPECIFICATION DeploySpec
INVARIANT StartsAtBoot
