CONSTANTS
  Call = {edit, bash, read}
  Serial = {edit, bash}
  Edits = {edit}
  ReadCap = 1
  MaxUnread = 1
  Nobody = nobody
SPECIFICATION Spec
INVARIANTS TypeOK RunsOnce AloneInOrder
PROPERTIES ClosedStaysClosed EndStopsWork
