SPECIFICATION FairSpec
CONSTANTS
  web = web
  p1 = p1
  Terminals = {t1, t2}
  Sessions = TRUE
  Unwritable = {}
  Codes = {"fail"}
  Services = {web}
  Projects <- OneProject
  ProjectOf <- InProject
  Configs <- OneServiceConfigs
  NoService = NoService
  NoTerminal = NoTerminal
  MAX_RESTART_COUNT = 1
  WaitTimesOut = TRUE
  MaxBare = 1
PROPERTIES
  RestartingEnds
  TakenIsEnded
  ExitIsNoticed
