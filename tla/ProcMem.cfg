CONSTANTS
  Uint = 128
  PGSIZE = 16
  KSTACKSIZE = 3
  End = 21
  PHYSTOP = 90
  NPROC = 3
  Processes = 2
  Words = {0, 1, 4, 5, 8, 9, 12, 13, 14, 63, 64, 115, 120, 123, 124, 127}

SPECIFICATION Spec
INVARIANTS PagesSound ArgsInside Boots
