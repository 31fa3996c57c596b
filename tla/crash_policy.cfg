\* As in the defaults, MaxCrashes - 1 of the longest delays make up the window.
CONSTANTS
  BaseDelay = 1
  MaxDelay = 4
  MaxCrashes = 3
  Window = 8
  MaxTime = 18
  MaxPause = 2
  MaxCount = 5
  MaxManual = 1
SPECIFICATION Spec
INVARIANTS TypeOK QuarantineExact QuarantineOnlyEarly DelayAsDocumented
PROPERTY BackoffKept
