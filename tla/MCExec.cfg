\* Two processes with images of three pages, four directories, two calls.
SPECIFICATION ExecSpec
CONSTANTS
  Tasks = {a, b}
  PageSize = 5
  ImagePages = 3
  Placements <- MCPlacements
  MAX_ARGV = 2
  Directories <- MCDirectories
  Argvs <- MCArgvs
  HeaderSize = 2
  FileAlign = 2
  MaxCalls = 2
CHECK_DEADLOCK FALSE
INVARIANTS
  ImageIsTheFile
  
  
PROPERTIES
  OthersUntouched
