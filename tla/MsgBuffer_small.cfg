SPECIFICATION Spec
CONSTANTS
  x = x  y = y
  Byte = {x, y}
  Zero = x
  Offset = 1
  InitLen = 1
  ExtLen = 2
  MaxData = 2
  MaxReadable = 4
INVARIANTS TypeOK Footprint
PROPERTY BytesSpec
