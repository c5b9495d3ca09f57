SPECIFICATION Spec
CONSTANTS
  web = web
  p1 = p1
  Terminals = {t1, t2, t3}
  Sessions = FALSE
  Unwritable = {t1}
  Codes = {"fail"}
  Services = {web}
  Projects <- OneProject
  ProjectOf <- InProject
  Configs <- OneServiceConfigs
  NoService = NoService
  NoTerminal = NoTerminal
  MAX_RESTART_COUNT = 1
  WaitTimesOut = TRUE
  MaxBare = 1
SYMMETRY Symmetry
PROPERTIES
  StoppedStaysStopped
