CONSTANTS
  c1 = c1
  c2 = c2
  HTTPServer = HTTPServer
  TCPServer = TCPServer
  NULL = NULL
  MaxTasks = 4
  Conns <- TwoConns
  Contexts <- MCContexts
  Requests <- OneRequest
  RecvCap = 3
  HeaderMax = 2
  TimeoutMs = 1
  Elapsed = {0, 1}
  Bodies = {0}
  HeadLen = 1
  FormatCap = 2
  Upstream = {"json"}
SPECIFICATION Spec
PROPERTIES
  ImplementsSmw
  ImplementsExchange
  SigintStops
