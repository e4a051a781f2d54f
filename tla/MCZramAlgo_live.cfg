CONSTANTS
  boot = boot
  user = user
  c1 = c1
  c2 = c2
  zram0 = zram0
  NoProc = NoProc
  Procs <- MCProcs
  Cpus <- OneCpu
  Devs <- MCDevs
  Zram0 <- zram0
  StockSize = 1
  Kernels <- TwoKernels
  DefaultSize = 1
  MaxTries = 2
  Faults <- NoFaults
SPECIFICATION FairSpec
PROPERTIES ScriptsEnd
