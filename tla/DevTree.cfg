\* Directories two deep where one is too deep, and two changes.
CONSTANTS
  Name <- MCName
  Kind <- MCKind
  Own <- MCOwn
  Depth = 2
  MaxChanges = 2
SPECIFICATION Spec
INVARIANTS
  PathFollowsFrames
  Mirrored
  QuietDevIsCopied
CHECK_DEADLOCK FALSE
