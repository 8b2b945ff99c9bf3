\* One client, four events, pages of one and two items.
SPECIFICATION Spec
CONSTANTS
  None = None
  N = 4
  Time <- MCTime
  Group <- MCGroup
  GroupID <- MCGroupID
  Status <- MCStatus
  Where <- MCWhere
  Statuses = {None, "failed"}
  Limits = {1, 2}
INVARIANTS
  TypeOK
  NothingSkipped
PROPERTIES
  InOrder
  CursorAdvances
