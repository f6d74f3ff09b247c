SPECIFICATION Spec
CONSTANTS
  Pages = 2
PROPERTIES
  ReadEnds
CHECK_DEADLOCK FALSE
