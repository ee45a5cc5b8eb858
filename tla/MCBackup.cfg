CONSTANTS
  Threads = {t1}
  NumOps = 1
  Index = {0, 1}
  theta_ = 1
  Values = {1, 2}
  Updates = 1
  LateDelivery = FALSE
  MaxValue = 4
  MaxCrashes = 2
  MaxWindows = 1
SPECIFICATION Spec
INVARIANTS ErrorBound CrashLoss BackupInv
