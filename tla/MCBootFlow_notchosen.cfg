CONSTANTS
  postfsSh = postfsSh
  serviceSh = serviceSh
  perfinitD = perfinitD
  c1 = c1
  c2 = c2
  zram0 = zram0
  NoProc = NoProc
  Procs <- MCProcs
  PostFs <- postfsSh
  Service_ <- serviceSh
  Perfinit <- perfinitD
  Cpus <- MCCpus
  Devs <- MCDevs
  Zram0 <- zram0
  StockSize = 1
  DefaultSize = 2
  MaxTries = 5
  Kernels <- AnyKernel
  Faults <- NoFaults
SPECIFICATION BootSpec
PROPERTIES NotChosenLeavesZram0
