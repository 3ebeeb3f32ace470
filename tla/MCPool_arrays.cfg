CONSTANTS
  PoolSize = 144
  SizeofPool = 80
  SizeofPoolData = 32
  SizeofLarge = 16
  SizeofArray = 40
  CW_ALIGNMENT = 8
  CW_MAX_ALLOC_FROM_POOL = 1023
  SizeMod = 65536
  Sizes = {21, 41}
  Counts = {1, 3}
  ElemSizes = {16}
  Arrays = {a1, a2}
  a1 = a1
  a2 = a2
  MaxHeap = 3
SPECIFICATION Spec
SYMMETRY Symmetry
INVARIANTS TypeOK NoOverlap InBounds ArrayFits Aligned IndInv
PROPERTIES Allocates
