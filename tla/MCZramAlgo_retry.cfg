CONSTANTS
  boot = boot
  user = user
  c1 = c1
  c2 = c2
  zram0 = zram0
  NoProc = NoProc
  Procs <- OneProc
  Cpus <- MCCpus
  Devs <- MCDevs
  Zram0 <- zram0
  StockSize = 1
  Kernels <- AnyKernel
  DefaultSize = 2
  MaxTries = 5
  Faults <- LateFaults
SPECIFICATION FairSpec
PROPERTIES ExitZeroHasSwap
