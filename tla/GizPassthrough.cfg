SPECIFICATION Spec
CONSTANTS
  HeapBlocks = 2
PROPERTY UploadsAsDocumented
CHECK_DEADLOCK FALSE
