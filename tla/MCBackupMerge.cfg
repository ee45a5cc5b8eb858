CONSTANTS
  Threads = {t1}
  NumOps = 1
  Index = {0, 1}
  theta_ = 1
  Values = {1, 2}
  Updates = 2
  LateDelivery = FALSE
  MaxValue = 3
  MaxCrashes = 0
  MaxWindows = 0
SPECIFICATION Spec
INVARIANTS ErrorBound
