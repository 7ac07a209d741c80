SPECIFICATION FairSpec
CONSTANTS
  Pods <- MCPods
  Files <- MCFiles
  Names = {"CMK_NUM_CORES", "CMK_PROC_FS", "USER", "(no name)"}
  MaxPods = 2
  MaxEdits = 1
  MaxStops = 1
INVARIANTS
  TypeOK
  EnvsSeparate
PROPERTIES
  Promise
  AnsweredRight
  Serves
CHECK_DEADLOCK FALSE
