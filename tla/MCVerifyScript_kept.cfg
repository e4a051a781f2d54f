CONSTANTS
  shell = shell
  verifier = verifier
  c1 = c1
  zram0 = zram0
  zram1 = zram1
  NoProc = NoProc
  Procs <- MCProcs
  Verifier <- verifier
  Cpus <- MCCpus
  Devs <- MCDevs
  Zram0 <- zram0
  Temp <- zram1
  StockSize = 1
  DefaultSize = 2
  MaxTries = 1
  Kernels <- BothOrNone
  Faults <- NoFaults
SPECIFICATION VerifySpec
PROPERTIES KeptMeansServed
