CONSTANTS
  Client = {c1, c2}
  TotalPages = 8
  KernelPages = 3
  LowPages = 6
  MaxCount = 3
SPECIFICATION Spec
INVARIANTS TypeOK BitmapExact NoSharedPage LowRunIsLow RefusalMeansNoRun
PROPERTY ImplementsPageAllocator
