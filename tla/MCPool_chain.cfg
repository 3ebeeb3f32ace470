CONSTANTS
  PoolSize = 144
  SizeofPool = 80
  SizeofPoolData = 32
  SizeofLarge = 16
  SizeofArray = 40
  CW_ALIGNMENT = 8
  CW_MAX_ALLOC_FROM_POOL = 1023
  SizeMod = 65536
  Sizes = {61, 100}
  Counts = {1, 3}
  ElemSizes = {16}
  Arrays = {}
  MaxHeap = 11
SPECIFICATION Spec
INVARIANTS SearchBounded NoLeak
