CONSTANTS
  HeapStart = 48
  HeapEnd = 76
  WordAlign = 2
  Modulus = 256
  MaxRequest = 40
  HeaderSize = 2
  Images <- MCImages
  Stale <- MCStale
  Marked <- MCMarked
  Sector = 2
  KernelAddr = 4
  JZ_KERNEL_ADDR = 6
  RamdiskAlign = 4
  ParamSize = 3
  FdtSlack = 2
  DescSize = 3
  FbStart = 44
  FbEnd = 46
  Downstream = 78
  LoaderEnd = 104
SPECIFICATION Spec
INVARIANT RamdiskLoaded
CHECK_DEADLOCK FALSE
