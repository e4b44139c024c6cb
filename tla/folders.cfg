\* Two books, three folders on two volumes, two calls at once, a settings write
SPECIFICATION FairSpec
CONSTANTS
  o1 = o1
  o2 = o2
  r1 = r1
  r2 = r2
  Ops <- Calls2
  Keys <- AllKeys
  None = None
  Books <- TwoBooks
  Folders <- ThreeFolders
  Settings = 0
  Roots = {r1, r2}
  RootOf <- Volumes
  RenameTo <- Renames
  ImportTo <- Imports
  Gone = Gone
  MaxCalls = 3
INVARIANTS
  TypeOK
  RootGate
PROPERTIES
  FilesStay
  LocksExclude
  CallsEnd
CHECK_DEADLOCK FALSE
