\* Two programs that use the values of jansson.
SPECIFICATION Spec
CONSTANTS
  NULL = NULL
INVARIANTS
  ValuesAreKept
