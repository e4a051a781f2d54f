CONSTANTS
  boot = boot
  user = user
  c1 = c1
  c2 = c2
  zram0 = zram0
  NoProc = NoProc
  Procs <- MCProcs
  Cpus <- MCCpus
  Devs <- MCDevs
  Zram0 <- zram0
  StockSize = 1
  Kernels <- AnyKernel
  DefaultSize = 2
  MaxTries = 2
  Faults <- AllFaults
SPECIFICATION Spec
INVARIANTS TypeOK StreamsPinned SwapSurvives
PROPERTIES ServiceSpec ServedMeansNew SoloApplySucceeds CtlExitHonest
SYMMETRY ShellSymmetry
