\* Two connections and a line, one tool at a time, a restart.
CONSTANTS
  HttpRequests = {h1, h2}
  StdioRequests = {s1}
  Limit = 1
  MaxStarts = 2
  None = None
SPECIFICATION Spec
INVARIANTS AnswersOwnRequest PendingAccounted
PROPERTIES KeepsPromise PortStaysAlive StopReturns
CHECK_DEADLOCK FALSE
