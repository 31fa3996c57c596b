\* A capability for /tmp, a file service that runs in /run.
CONSTANTS
  c1 = c1
  Caps = {c1}
  Revocable = {}
  Paths <- OnePath
  claims <- MCClaims
  DotDotNames = {".."}
  wd <- MCwd
  Calls = {k1}
  MaxKeys = 1
  MaxHandles = 1
SPECIFICATION Spec
INVARIANT OpensUnderPrefix
