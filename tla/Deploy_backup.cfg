\* One interrupted run of deploy.sh and the next one.
CONSTANTS
  Procs = {p1, p2}
  Versions = {v1}
  Torn = torn
  Nil = nil
  MaxFaults = 1
SPECIFICATION DeploySpec
PROPERTY StockSurvives
