CONSTANTS
  Heads <- AnyHead
  TopInterface <- Tops
  Tag <- Tags
SPECIFICATION Spec
CHECK_DEADLOCK FALSE
INVARIANTS Compiles FieldsBuilt
