SPECIFICATION Spec
CONSTANTS
  NFatEnt = 7
  EPF = 4
  EPS = 4
  SS = 2
  Names <- MCNames
  Base <- MCBase
  Num <- MCNum
  Long <- MCLong
  Tags = {"x"}
  Paths <- MCPaths
  Lengths = {1, 3}
  Volumes <- MCVolumes
  MaxFaults = 1
  MaxCommands = 3
  Commands = {"boot", "touch", "write", "cat", "mkdir", "rm", "cd", "pwd", "ls",
              "truncate", "rename", "stat", "getfree"}
INVARIANTS VolumeSound SpaceAccounted  PathsLead 
PROPERTY IsFileTree
CHECK_DEADLOCK FALSE
