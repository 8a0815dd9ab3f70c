SPECIFICATION Spec
CONSTANTS
  NFILES = 3
  NFDS = 2
  SCAN = 1
  BS = 2
  DISK_BLOCKS = 4
  Names = {f, g}
  NoName = none
  Bytes = {0, 1}
  Zero = 0
  MaxSize = 2
  MaxWrite = 2
  MaxMounts = 2
  MaxChanges = 5
  Struck = 1
INVARIANT DeletesMoveData
CHECK_DEADLOCK FALSE
SYMMETRY NameSymmetry
