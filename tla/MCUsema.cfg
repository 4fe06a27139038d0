CONSTANTS
  Waiter = {w1, w2, w3}
  Signaller = {s1, s2}
  Permits = 1
  MaxCount = 2
SPECIFICATION Spec
INVARIANTS OneOwner NwaitCounts NoLostWakeup
PROPERTIES KilledWaitsReturn ImplementsSemaphore
