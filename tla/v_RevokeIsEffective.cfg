\* The file service may be down or restart.
CONSTANTS
  c1 = c1
  Caps = {c1}
  Revocable = {c1}
  Paths <- OnePath
  claims <- MCClaims
  DotDotNames = {".."}
  wd <- MCwd
  Calls = {k1}
  MaxKeys = 1
  MaxHandles = 1
SPECIFICATION Spec
INVARIANT RevokeIsEffective
