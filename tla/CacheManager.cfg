SPECIFICATION Spec
CONSTANTS
  None = None
  k1 = k1
  k2 = k2
  k3 = k3
  Keys = {k1, k2, k3}
  SizeOf <- MCSizeOf
  MaxBytes = 3
  Word = 16
  MaxTick = 7
  Threads = {t1, t2}
INVARIANTS TicksUnique BudgetKept
PROPERTIES ImplementsLru
