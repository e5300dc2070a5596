SPECIFICATION Spec
CONSTANTS
  Objects = {1, 2, 3}
  NameOf <- MCNameOf
  Fields <- MCFields
  Content <- MCContent
  NoContent = "no"
  Unhashed = "unhashed"
  BiggestN = 2
  Root = 0
  None = None
  Collections = {"HashMap"}
  Tables = {"Node[]"}
  App = {"Order"}
  Crowd = "Entry"
  CrowdSize = 2
  Entries = {"HashMap$Node"}
  ManyEntries = 2
  BigWaste = 40
  PileSize = 1
  Picked = 2
  Longest = 3
  Fore = 2
  Rear = 1
  Files <- CutFiles
INVARIANT NeverConfidentlyWrong
CHECK_DEADLOCK FALSE
