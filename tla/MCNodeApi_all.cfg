SPECIFICATION FairSpec
CONSTANTS
  Foreign <- MCForeign
  Timed <- MCTimed
  Daemons <- MCDaemons
  Manual <- MCManual
  Exclusive = "exclusive-cores"
  NonIsolcpus = "exclusive-non-isolcpus-cores"
  HasNonIsol = TRUE
  NoTaint = FALSE
  MaxForeign = 1
  MaxChanges = 1
  MaxFaults = 1
INVARIANTS
  TypeOK
  CleanAfterUninstall
PROPERTIES
  ForeignTaintsKept
  ReportCurrent
CHECK_DEADLOCK FALSE
