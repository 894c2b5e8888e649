CONSTANTS
  c1 = c1
  c2 = c2
  HTTPServer = HTTPServer
  TCPServer = TCPServer
  NULL = NULL
  MaxTasks = 3
  Conns <- OneConn
  Contexts <- MCContexts
  Requests <- AllRequests
  RecvCap = 3
  HeaderMax = 2
  TimeoutMs = 2
  Elapsed = {0, 1}
  Bodies = {1}
  HeadLen = 1
  FormatCap = 2
  Upstream = {"json", "notJSON"}
SYMMETRY Symmetric
SPECIFICATION Safety
INVARIANTS
  ErrorsAreSent
