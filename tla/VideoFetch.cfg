SPECIFICATION Spec
CONSTANTS
  Block = 4
  Shares = {1, 2, 4}
  Buffer = 4
INVARIANTS TypeOK Deadline CpuServed PicWhole
