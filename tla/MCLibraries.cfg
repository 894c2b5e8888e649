\* The list, the hash table and the HTTP client, each on its own.
SPECIFICATION MCSpec
CONSTANTS
  node1 = node1
  node2 = node2
  node3 = node3
  node4 = node4
  one = one
  two = two
  HEAD = HEAD
  NULL = NULL
  Nodes <- MCNodes
  Items <- MCItems
  Keys <- MCKeys
  Values <- MCItems
  INITIAL_HASHTABLE_ORDER = 0
  MaxHash = 3
  HeadInserts = FALSE
  MaxTasks = 2
  Contexts <- MCContexts
  Requests = {2, 5}
  Responses = {4}
  BufferCap = 3
  Descriptors = {3, 4}
SYMMETRY Symmetric
INVARIANTS
  NodesAreLinked
  
PROPERTIES
  ImplementsSequence
  ImplementsMap
  IterationIsComplete
CHECK_DEADLOCK FALSE
